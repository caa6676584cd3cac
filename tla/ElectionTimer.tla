---------------------------- MODULE ElectionTimer ----------------------------
(***************************************************************************)
(* The election timer of a node: src/adaptive_timeout.c, reached through   *)
(* src/raft_core_adaptive.c, with the places of src/raft_core.c that read  *)
(* and reset it.  The clock runs in milliseconds; last_heartbeat is taken  *)
(* with time() and counts seconds.                                         *)
(*                                                                         *)
(* The two moving averages are floating-point numbers of which only the    *)
(* timeout computed from them is used; it is any number of milliseconds.   *)
(* Two mutexes are at work: the timer's own, which every function of       *)
(* adaptive_timeout.c takes, and the node's, which the handlers hold       *)
(* throughout.  What runs without the one it needs is split into steps:    *)
(*   - adaptive_timeout_rpc_end reads the clock before it takes the mutex, *)
(*   - raft_reset_election_timer does not hold the node's,                 *)
(*   - raft_check_heartbeat_status does not either, and                    *)
(*   - raft_check_election_timeout does, but not the timer's, between its  *)
(*     comparison and adaptive_timeout_check_missed_heartbeat.             *)
(*                                                                         *)
(* raft_send_append_entries and raft_send_request_vote measure the time    *)
(* between their first and their last line.  A timer has one last_request, *)
(* whatever the number of calls at work; an RPC is one such call.          *)
(***************************************************************************)
EXTENDS Integers

CONSTANTS
    min_timeout, max_timeout, initial_timeout,  \* AdaptiveTimeoutConfig
    RPC,        \* the calls that are measured, each once
    Computed,   \* values of estimated_rtt + safety_factor * rtt_dev
    Phases,     \* where in a second the node may start
    Ticks,      \* how far the clock may move at once
    MaxTime     \* bound: the clock

ASSUME TimerAssumption ==
    /\ min_timeout \in Nat /\ max_timeout \in Nat /\ initial_timeout \in Nat
    /\ min_timeout <= initial_timeout /\ initial_timeout <= max_timeout
    /\ Computed \subseteq Nat /\ Phases \subseteq 0 .. 999 /\ Ticks \subseteq Nat \ {0} /\ MaxTime \in Nat

VARIABLES
    now,              \* the clock
    role,             \* RAFT_STATE_FOLLOWER and so on
    current_timeout,
    last_request,     \* when the RPC that started last was started
    rpc,              \* of each RPC: how far it is, its start and its end
    last_heartbeat,   \* in seconds
    resetting,        \* is raft_reset_election_timer between its two writes?
    missed            \* the checks that have found a heartbeat missing and are about
                      \* to say so

rpcVars == <<last_request, rpc>>
heartbeatVars == <<last_heartbeat, resetting, missed>>
timerVars == <<now, role, current_timeout, rpcVars, heartbeatVars>>

Second(t) == t \div 1000

TimerInit ==
    /\ now \in Phases
    /\ role = "FOLLOWER"
    /\ current_timeout = initial_timeout
    /\ last_request = now
    /\ rpc = [c \in RPC |-> [pc |-> "new", start |-> 0, end |-> 0]]
    /\ last_heartbeat = Second(now)
    /\ resetting = FALSE /\ missed = {}

Tick(d) ==
    /\ now + d <= MaxTime
    /\ now' = now + d
    /\ UNCHANGED <<role, current_timeout, rpcVars, heartbeatVars>>

Hear == last_heartbeat' = Second(now)

(* raft_check_election_timeout holds node->mutex until it has said what it *)
(* found; the other operations on the node wait for it.                    *)
NodeFree == "timeout" \notin missed

-----------------------------------------------------------------------------
(* Mutant of Clamp: only the lower bound.                                  *)
ClampBelow(t) == IF t < min_timeout THEN min_timeout ELSE t

Clamp(t) ==
    IF t < min_timeout THEN min_timeout
    ELSE IF t > max_timeout THEN max_timeout ELSE t

(* Mutant of RpcStart: an RPC at work keeps last_request to itself.        *)
RpcStartFirst(c) ==
    /\ rpc[c].pc = "new"
    /\ last_request' = IF \E d \in RPC : rpc[d].pc = "started" THEN last_request ELSE now
    /\ rpc' = [rpc EXCEPT ![c] = [pc |-> "started", start |-> now, end |-> 0]]
    /\ UNCHANGED <<now, role, current_timeout, heartbeatVars>>

(* adaptive_timeout_rpc_start.                                             *)
RpcStart(c) ==
    /\ rpc[c].pc = "new"
    /\ last_request' = now
    /\ rpc' = [rpc EXCEPT ![c] = [pc |-> "started", start |-> now, end |-> 0]]
    /\ UNCHANGED <<now, role, current_timeout, heartbeatVars>>

(* adaptive_timeout_rpc_end: the clock is read without the mutex ...       *)
RpcClock(c) ==
    /\ rpc[c].pc = "started"
    /\ rpc' = [rpc EXCEPT ![c] = [pc |-> "ended", start |-> @.start, end |-> now]]
    /\ UNCHANGED <<now, role, current_timeout, last_request, heartbeatVars>>

(* ... and the time since last_request, RoundTrip, enters the averages.    *)
RoundTrip(c) == rpc[c].end - last_request

RpcEnd(c, t) ==
    /\ rpc[c].pc = "ended"
    /\ rpc' = [rpc EXCEPT ![c] = [pc |-> "measured", start |-> @.start, end |-> 0]]
    /\ current_timeout' = Clamp(t)
    /\ UNCHANGED <<now, role, last_request, heartbeatVars>>

(* adaptive_timeout_reset.                                                 *)
Reset ==
    /\ current_timeout' = initial_timeout
    /\ UNCHANGED <<now, role, rpcVars, heartbeatVars>>

(* raft_reset_election_timer: adaptive_timeout_record_heartbeat ...        *)
raft_reset_election_timer ==
    /\ ~resetting
    /\ resetting' = TRUE
    /\ current_timeout' = min_timeout
    /\ UNCHANGED <<now, role, rpcVars, last_heartbeat, missed>>

(* ... and the moment is noted, without node->mutex.                       *)
NoteReset ==
    /\ resetting
    /\ resetting' = FALSE
    /\ Hear
    /\ UNCHANGED <<now, role, current_timeout, rpcVars, missed>>

(* A request: raft_handle_append_entries notes the moment, but leaves the  *)
(* timeout alone; raft_handle_request_vote does the same when it grants    *)
(* its vote.  A newer term makes the node a follower.                      *)
HandleRequest(newer, heeded) ==
    /\ NodeFree
    /\ IF heeded THEN Hear ELSE UNCHANGED last_heartbeat
    /\ role' = IF newer THEN "FOLLOWER" ELSE role
    /\ UNCHANGED <<now, current_timeout, rpcVars, resetting, missed>>

(* raft_become_follower does as raft_reset_election_timer does, but with   *)
(* the mutex.                                                              *)
raft_become_follower ==
    /\ NodeFree
    /\ role' = "FOLLOWER"
    /\ current_timeout' = min_timeout
    /\ Hear
    /\ UNCHANGED <<now, rpcVars, resetting, missed>>

(* raft_start_election only notes the moment ...                           *)
raft_start_election ==
    /\ NodeFree
    /\ role # "LEADER"
    /\ role' = "CANDIDATE"
    /\ Hear
    /\ UNCHANGED <<now, current_timeout, rpcVars, resetting, missed>>

(* ... raft_become_candidate calls adaptive_timeout_record_vote too.       *)
raft_become_candidate ==
    /\ NodeFree
    /\ role # "LEADER"
    /\ role' = "CANDIDATE"
    /\ current_timeout' = min_timeout
    /\ Hear
    /\ UNCHANGED <<now, rpcVars, resetting, missed>>

raft_become_leader ==
    /\ NodeFree
    /\ role = "CANDIDATE"
    /\ role' = "LEADER"
    /\ UNCHANGED <<now, current_timeout, rpcVars, heartbeatVars>>

(* Mutant of TimedOut: strictly longer than the timeout.                   *)
TimedOutLate == Second(now) - last_heartbeat > current_timeout \div 1000

(* What raft_check_election_timeout compares, in whole seconds.            *)
TimedOut == Second(now) - last_heartbeat >= current_timeout \div 1000

(* raft_check_election_timeout finds that the timeout has passed; when it  *)
(* has not, nothing changes.                                               *)
raft_check_election_timeout ==
    /\ NodeFree
    /\ role # "LEADER" /\ TimedOut
    /\ missed' = missed \cup {"timeout"}
    /\ UNCHANGED <<now, role, current_timeout, rpcVars, last_heartbeat, resetting>>

(* raft_check_heartbeat_status finds that a follower has heard nothing for *)
(* half the timeout, and at least a second.                                *)
raft_check_heartbeat_status ==
    /\ "status" \notin missed
    /\ role = "FOLLOWER"
    /\ Second(now) - last_heartbeat > ((current_timeout \div 2) \div 1000) + 1
    /\ missed' = missed \cup {"status"}
    /\ UNCHANGED <<now, role, current_timeout, rpcVars, last_heartbeat, resetting>>

(* Half as much again.                                                     *)
Longer(t) ==
    LET longer == (3 * t) \div 2 IN
    IF longer > max_timeout THEN max_timeout ELSE longer

(* adaptive_timeout_check_missed_heartbeat, called by either check.        *)
CheckMissedHeartbeat(check) ==
    /\ check \in missed
    /\ missed' = missed \ {check}
    /\ current_timeout' = Longer(current_timeout)
    /\ UNCHANGED <<now, role, rpcVars, last_heartbeat, resetting>>

TimerNext ==
    \/ \E d \in Ticks : Tick(d)
    \/ \E c \in RPC : RpcStart(c) \/ RpcClock(c) \/ \E t \in Computed : RpcEnd(c, t)
    \/ Reset \/ raft_reset_election_timer \/ NoteReset
    \/ \E newer, heeded \in BOOLEAN : HandleRequest(newer, heeded)
    \/ raft_become_follower \/ raft_start_election \/ raft_become_candidate \/ raft_become_leader
    \/ raft_check_election_timeout \/ raft_check_heartbeat_status
    \/ \E check \in missed : CheckMissedHeartbeat(check)

TimerSpec == TimerInit /\ [][TimerNext]_timerVars

-----------------------------------------------------------------------------
(* Every variable has its type, and the timeout stays within the bounds of *)
(* its configuration, whatever is measured and however often a heartbeat   *)
(* is missed.                                                              *)
TimerTypeOK ==
    /\ now \in Nat
    /\ last_heartbeat \in 0 .. Second(now)
    /\ role \in {"FOLLOWER", "CANDIDATE", "LEADER"}
    /\ current_timeout \in min_timeout .. max_timeout
    /\ last_request \in 0 .. now
    /\ rpc \in [RPC -> [pc : {"new", "started", "ended", "measured"},
                        start : 0 .. now, end : 0 .. now]]
    /\ resetting \in BOOLEAN
    /\ missed \subseteq {"timeout", "status"}

(* With a timeout of less than a second, raft_check_election_timeout tells *)
(* a node that does not lead, whenever it asks, that its timeout has       *)
(* passed, also in the moment in which it heard from its leader, because   *)
(* the timeout is cut to 0 seconds and no operation ever makes it a        *)
(* second.  tests/test_raft_core.c:36 and 43 assert the contrary of a node *)
(* that was just made, and of a timer that was just reset.  RaftElection   *)
(* takes it for granted: a node there may start an election at any moment. *)
TimesOutAtOnce == role # "LEADER" => TimedOut

(* RPCs that run at once share last_request, and one that starts between   *)
(* the end of another and its measurement makes a round trip negative.     *)
(* Still no round trip is measured longer than it was, and one during      *)
(* which no other RPC started is measured as it was.                       *)
NeverMeasuredLong ==
    \A c \in RPC : rpc[c].pc = "ended" =>
        /\ RoundTrip(c) <= rpc[c].end - rpc[c].start
        /\ (\A d \in RPC : rpc[d].start <= rpc[c].start)
              => RoundTrip(c) = rpc[c].end - rpc[c].start
=============================================================================

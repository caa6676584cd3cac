----------------------------- MODULE Replication -----------------------------
(***************************************************************************)
(* The server process of src/main.c on every node of a cluster: thread_1   *)
(* (client commands), thread_2 (peer messages), thread_3 (replication),    *)
(* thread_4 (GETs), thread_5 (SETs and DELETEs) and thread_7 (heartbeats), *)
(* the queues between them and the sockets between the nodes.  thread_6    *)
(* only sleeps.                                                            *)
(*                                                                         *)
(* A socket is a FIFO channel; a queue is a FIFO whose dequeue blocks.     *)
(* Client writes are numbered in the order the leader receives them; a GET *)
(* is the set of writes the node had acknowledged when it was received.    *)
(* RocksDB carries a write out or refuses it, which thread_5 does not look *)
(* at.  logfile_append_data is one step: a batch is handed to it, and what *)
(* its unlocked writes, which may be short or overlap, leave in the file   *)
(* is the matter of LogFile.                                               *)
(*                                                                         *)
(* raft_state comes from a raft_init that is not in this repository (two   *)
(* arguments, last_applied_term and last_applied_index), and no thread     *)
(* starts an election, so the initial roles and terms are constants, and a *)
(* candidacy (Campaign) and a change of leader (Elect) are external.  No   *)
(* thread writes last_applied_*: LastApplied is a constant too.            *)
(***************************************************************************)
EXTENDS Naturals, FiniteSets, SequencesExt

CONSTANTS
    Node,
    Leader,        \* the node that starts as leader
    InitTerm,      \* [Node -> Nat]: current_term at start-up
    LastApplied,   \* [Node -> [term, idx]]: last_applied_term, last_applied_index
    Reads,         \* what a read() may return besides one message
    MaxWrites,     \* bound: client writes received
    MaxReads,      \* bound: client GETs received
    MaxFailures,   \* bound: operations RocksDB fails to carry out
    MaxEvents      \* bound: heartbeat rounds, candidacies and changes of leader

ASSUME ReplicationAssumption ==
    /\ IsFiniteSet(Node) /\ Leader \in Node
    /\ InitTerm \in [Node -> Nat]
    /\ LastApplied \in [Node -> [term : Nat, idx : Nat]]
    /\ Reads \subseteq {"several", "part"}
    /\ MaxWrites \in Nat /\ MaxFailures \in Nat

VARIABLES
    state, current_term,  \* raft_state
    t1,        \* thread_1: what it does and the buffers it fills
    q13, q23, q26, q34, q35,  \* _1_to_3, _2_to_3, _2_to_6, _3_to_4, _3_to_5
    t2,        \* thread_2: what is left to do with an accepted batch
    t3,        \* thread_3: what is left to do with the batch it sent
    ok,        \* thread_3: num_nodes_ok
    chan,      \* chan[i][j]: messages from i to j
    appended,  \* the batches logfile_append_data was given, in order
    t5,        \* thread_5: the write whose client it has still to answer, or 0
    taken,     \* the writes thread_5 has taken up, in order
    stored,    \* the writes RocksDB has carried out
    acked,     \* acked[i]: writes the clients got a 200 for from node i
    dead,      \* nodes whose process has aborted
    failures, received, reads, events,  \* how far the bounds are used
    accepted,  \* history: accepted[b], the followers that answered OK to batch b
    served     \* history: the GETs answered and what they saw

threads == <<t1, q13, q23, q26, q34, q35, t2, t3, ok>>
store == <<t5, taken, stored, acked, failures>>
history == <<received, reads, events, accepted, served>>
vars == <<state, current_term, threads, chan, appended, store, dead, history>>

Num == Cardinality(Node)
Peers(i) == Node \ {i}
Idle1 == [pc |-> "check"]
Idle == [pc |-> "idle"]

Init ==
    /\ state = [i \in Node |-> IF i = Leader THEN "LEADER" ELSE "FOLLOWER"]
    /\ current_term = InitTerm
    /\ t1 = [i \in Node |-> Idle1]
    /\ q13 = [i \in Node |-> << >>] /\ q23 = [i \in Node |-> << >>]
    /\ q26 = [i \in Node |-> {}]
    /\ q34 = [i \in Node |-> << >>] /\ q35 = [i \in Node |-> << >>]
    /\ t2 = [i \in Node |-> Idle] /\ t3 = [i \in Node |-> Idle]
    /\ ok = [i \in Node |-> 0]
    /\ chan = [i \in Node |-> [j \in Node |-> << >>]]
    /\ appended = [i \in Node |-> << >>]
    /\ t5 = [i \in Node |-> 0] /\ taken = [i \in Node |-> << >>]
    /\ stored = [i \in Node |-> {}] /\ acked = [i \in Node |-> {}]
    /\ dead = {} /\ served = {}
    /\ failures = 0 /\ received = 0 /\ reads = 0 /\ events = 0
    /\ accepted = << >>

-----------------------------------------------------------------------------
(* The process of a node aborts: its buffers, queues and threads are gone, *)
(* and with them what it has not read from its sockets.                    *)
Abort(i) ==
    /\ i \notin dead
    /\ dead' = dead \cup {i}
    /\ t1' = [t1 EXCEPT ![i] = Idle1]
    /\ q13' = [q13 EXCEPT ![i] = << >>] /\ q23' = [q23 EXCEPT ![i] = << >>]
    /\ q26' = [q26 EXCEPT ![i] = {}]
    /\ q34' = [q34 EXCEPT ![i] = << >>] /\ q35' = [q35 EXCEPT ![i] = << >>]
    /\ t2' = [t2 EXCEPT ![i] = Idle] /\ t3' = [t3 EXCEPT ![i] = Idle]
    /\ ok' = [ok EXCEPT ![i] = 0]
    /\ chan' = [j \in Node |-> [chan[j] EXCEPT ![i] = << >>]]
    /\ t5' = [t5 EXCEPT ![i] = 0]
    /\ UNCHANGED <<state, current_term, appended, taken, stored, acked, failures, history>>

(* Bound: thread_1 is not followed when no client has anything left to     *)
(* send; it goes on making empty batches then, and drops them.             *)
ClientsSend == received < MaxWrites \/ reads < MaxReads

(* thread_1 reads the role under the mutex ...                             *)
T1Check(i) ==
    /\ i \notin dead
    /\ ClientsSend
    /\ t1[i].pc = "check" /\ state[i] = "LEADER"
    /\ t1' = [t1 EXCEPT ![i] = [pc |-> "start"]]
    /\ UNCHANGED <<state, current_term, q13, q23, q26, q34, q35, t2, t3, ok, chan,
                   appended, store, dead, history>>

(* ... and takes it again to read the term and the index of the new batch. *)
T1Start(i) ==
    /\ i \notin dead
    /\ t1[i].pc = "start"
    /\ t1' = [t1 EXCEPT ![i] =
                [pc |-> "fill", term |-> current_term[i],
                 idx |-> LastApplied[i].idx + 1, w |-> << >>, r |-> << >>]]
    /\ UNCHANGED <<state, current_term, q13, q23, q26, q34, q35, t2, t3, ok, chan,
                   appended, store, dead, history>>

(* A client command goes into the write or the read buffer.                *)
T1Recv(i) ==
    /\ i \notin dead
    /\ t1[i].pc = "fill" /\ current_term[i] = t1[i].term
    /\ \/ /\ received < MaxWrites
          /\ received' = received + 1
          /\ t1' = [t1 EXCEPT ![i].w = Append(@, received')]
          /\ UNCHANGED reads
       \/ /\ reads < MaxReads
          /\ reads' = reads + 1
          /\ t1' = [t1 EXCEPT ![i].r = Append(@, acked[i])]
          /\ UNCHANGED received
    /\ UNCHANGED <<state, current_term, q13, q23, q26, q34, q35, t2, t3, ok, chan,
                   appended, store, dead, events, accepted, served>>

(* The batch is over: dropped if the term has changed or it is empty,      *)
(* handed to thread_3 otherwise.                                           *)
T1Hand(i) ==
    /\ i \notin dead
    /\ t1[i].pc = "fill"
    /\ t1' = [t1 EXCEPT ![i] = Idle1]
    /\ IF current_term[i] # t1[i].term \/ t1[i].w \o t1[i].r = << >>
       THEN UNCHANGED <<q13, accepted>>
       ELSE /\ accepted' = Append(accepted, {})
            /\ q13' = [q13 EXCEPT ![i] = Append(@,
                 [id |-> Len(accepted'), term |-> t1[i].term, idx |-> t1[i].idx,
                  w |-> t1[i].w, r |-> t1[i].r])]
    /\ UNCHANGED <<state, current_term, q23, q26, q34, q35, t2, t3, ok, chan, appended,
                   store, dead, received, reads, events, served>>

-----------------------------------------------------------------------------
Send(i, msg) ==
    chan' = [chan EXCEPT ![i] = [j \in Node |-> IF j = i THEN @[j] ELSE Append(@[j], msg)]]

(* Mutant of T3Send: the batch in hand is dropped for the next one.        *)
T3SendHurried(i) ==
    /\ i \notin dead
    /\ q13[i] # << >>
    /\ LET b == Head(q13[i]) IN
        /\ Send(i, [type |-> "APPEND_ENTRIES", term |-> b.term,
                    prev |-> LastApplied[i], batch |-> b])
        /\ t3' = [t3 EXCEPT ![i] = [pc |-> "wait", b |-> b]]
    /\ q13' = [q13 EXCEPT ![i] = Tail(@)]
    /\ ok' = [ok EXCEPT ![i] = 1]
    /\ UNCHANGED <<state, current_term, t1, q23, q26, q34, q35, t2, appended, store,
                   dead, history>>

(* thread_3 takes a batch and sends it to every other node.                *)
T3Send(i) ==
    /\ i \notin dead
    /\ t3[i].pc = "idle" /\ q13[i] # << >>
    /\ LET b == Head(q13[i]) IN
        /\ Send(i, [type |-> "APPEND_ENTRIES", term |-> b.term,
                    prev |-> LastApplied[i], batch |-> b])
        /\ t3' = [t3 EXCEPT ![i] = [pc |-> "wait", b |-> b]]
    /\ q13' = [q13 EXCEPT ![i] = Tail(@)]
    /\ ok' = [ok EXCEPT ![i] = 1]
    /\ UNCHANGED <<state, current_term, t1, q23, q26, q34, q35, t2, appended, store,
                   dead, history>>

(* Mutant of AckMatches: the index of the entry before the batch.          *)
AckMatchesPrev(a, b) == a.term = b.term /\ a.idx + 1 = b.idx

(* Does an OK from _2_to_3 count for the batch?                            *)
AckMatches(a, b) == a.term = b.term /\ a.idx = b.idx

Majority(n) == n > Num \div 2

(* Mutant of T3Ack: counting goes on when there is a majority.             *)
T3AckAll(i) ==
    /\ i \notin dead
    /\ t3[i].pc = "wait" /\ q23[i] # << >>
    /\ ok' = [ok EXCEPT ![i] = IF AckMatches(Head(q23[i]), t3[i].b) THEN @ + 1 ELSE @]
    /\ q23' = [q23 EXCEPT ![i] = Tail(@)]
    /\ UNCHANGED <<state, current_term, t1, q13, q26, q34, q35, t2, t3, chan, appended,
                   store, dead, history>>

(* thread_3 takes an OK from _2_to_3 and counts it if it matches; one that *)
(* does not match must not be of a newer term, or the process aborts.      *)
T3Ack(i) ==
    /\ i \notin dead
    /\ t3[i].pc = "wait" /\ ~Majority(ok[i]) /\ q23[i] # << >>
    /\ IF Head(q23[i]).term > t3[i].b.term
       THEN Abort(i)
       ELSE /\ ok' = [ok EXCEPT ![i] = IF AckMatches(Head(q23[i]), t3[i].b)
                                       THEN @ + 1 ELSE @]
            /\ q23' = [q23 EXCEPT ![i] = Tail(@)]
            /\ UNCHANGED <<state, current_term, t1, q13, q26, q34, q35, t2, t3, chan,
                           appended, store, dead, history>>

(* Committed: to the log file, whatever becomes of it there ...            *)
T3Commit(i) ==
    /\ i \notin dead
    /\ t3[i].pc = "wait" /\ Majority(ok[i])
    /\ appended' = [appended EXCEPT ![i] = Append(@, t3[i].b)]
    /\ t3' = [t3 EXCEPT ![i].pc = "pass"]
    /\ UNCHANGED <<state, current_term, t1, q13, q23, q26, q34, q35, t2, ok, chan,
                   store, dead, history>>

(* Mutant of T3Pass: the batch is passed on before it is logged.           *)
T3PassEarly(i) ==
    /\ i \notin dead
    /\ t3[i].pc # "idle" /\ Majority(ok[i])
    /\ q34' = [q34 EXCEPT ![i] = Append(@, t3[i].b.r)]
    /\ q35' = [q35 EXCEPT ![i] = Append(@, t3[i].b.w)]
    /\ t3' = [t3 EXCEPT ![i] = Idle]
    /\ UNCHANGED <<state, current_term, t1, q13, q23, q26, t2, ok, chan, appended,
                   store, dead, history>>

(* ... then the GETs to thread_4 and the writes to thread_5.               *)
T3Pass(i) ==
    /\ i \notin dead
    /\ t3[i].pc = "pass"
    /\ q34' = [q34 EXCEPT ![i] = Append(@, t3[i].b.r)]
    /\ q35' = [q35 EXCEPT ![i] = Append(@, t3[i].b.w)]
    /\ t3' = [t3 EXCEPT ![i] = Idle]
    /\ UNCHANGED <<state, current_term, t1, q13, q23, q26, t2, ok, chan, appended,
                   store, dead, history>>

-----------------------------------------------------------------------------
(* Does thread_2 accept a batch that builds on the entry prev?             *)
Accepts(i, prev) ==
    \/ prev = LastApplied[i]
    \/ LastApplied[i] = [term |-> 0, idx |-> 0]

(* What every message but an old one goes through: thread_2 reads it from  *)
(* the socket, and a newer term makes the node a follower.                 *)
Msg(i, j) == Head(chan[j][i])

T2Take(i, j, type) ==
    /\ i \notin dead /\ t2[i].pc = "idle"
    /\ chan[j][i] # << >> /\ Msg(i, j).type = type
    /\ Msg(i, j).term >= current_term[i]
    /\ current_term' = [current_term EXCEPT ![i] = Msg(i, j).term]
    /\ state' = [state EXCEPT ![i] =
                    IF Msg(i, j).term > current_term[i] THEN "FOLLOWER" ELSE @]

Took(i, j) == [chan EXCEPT ![j][i] = Tail(@)]

(* A message of an older term is dropped.                                  *)
T2Old(i, j) ==
    /\ i \notin dead /\ t2[i].pc = "idle"
    /\ chan[j][i] # << >> /\ Msg(i, j).term < current_term[i]
    /\ Msg(i, j).type # "RESP_REQUEST_VOTE"
    /\ chan' = Took(i, j)
    /\ UNCHANGED <<state, current_term, threads, appended, store, dead, history>>

(* A heartbeat does nothing more.                                          *)
T2Heartbeat(i, j) ==
    /\ T2Take(i, j, "HEARTBEAT")
    /\ chan' = Took(i, j)
    /\ UNCHANGED <<threads, appended, store, dead, history>>

(* AppendEntries: the answer is sent first; its term and index are those   *)
(* of the entry the batch builds on, plus one.                             *)
T2Append(i, j) ==
    /\ T2Take(i, j, "APPEND_ENTRIES")
    /\ LET m   == Msg(i, j)
           yes == Accepts(i, m.prev)
           tai == IF yes THEN [term |-> m.prev.term, idx |-> m.prev.idx + 1]
                         ELSE LastApplied[i]
       IN
       /\ chan' = [Took(i, j) EXCEPT ![i][j] = Append(@,
            [type |-> "RESP_APPEND_ENTRIES", term |-> m.term, success |-> yes,
             tai |-> tai])]
       /\ t2' = IF yes THEN [t2 EXCEPT ![i] = [pc |-> "log", b |-> m.batch]] ELSE t2
       /\ accepted' = IF yes THEN [accepted EXCEPT ![m.batch.id] = @ \cup {i}] ELSE accepted
    /\ UNCHANGED <<t1, q13, q23, q26, q34, q35, t3, ok, appended, store, dead,
                   received, reads, events, served>>

(* ... then the accepted batch is logged ...                               *)
T2Log(i) ==
    /\ i \notin dead
    /\ t2[i].pc = "log"
    /\ appended' = [appended EXCEPT ![i] = Append(@, t2[i].b)]
    /\ t2' = [t2 EXCEPT ![i].pc = "pass"]
    /\ UNCHANGED <<state, current_term, t1, q13, q23, q26, q34, q35, t3, ok, chan,
                   store, dead, history>>

(* Mutant of T2Pass: the batch is passed on before it is logged.           *)
T2PassEarly(i) ==
    /\ i \notin dead
    /\ t2[i].pc # "idle"
    /\ q35' = [q35 EXCEPT ![i] = Append(@, t2[i].b.w)]
    /\ t2' = [t2 EXCEPT ![i] = Idle]
    /\ UNCHANGED <<state, current_term, t1, q13, q23, q26, q34, t3, ok, chan, appended,
                   store, dead, history>>

(* ... and passed on to thread_5.                                          *)
T2Pass(i) ==
    /\ i \notin dead
    /\ t2[i].pc = "pass"
    /\ q35' = [q35 EXCEPT ![i] = Append(@, t2[i].b.w)]
    /\ t2' = [t2 EXCEPT ![i] = Idle]
    /\ UNCHANGED <<state, current_term, t1, q13, q23, q26, q34, t3, ok, chan, appended,
                   store, dead, history>>

(* The answer to AppendEntries: to thread_3, or to thread_6.               *)
T2Response(i, j) ==
    /\ T2Take(i, j, "RESP_APPEND_ENTRIES")
    /\ IF Msg(i, j).success
       THEN /\ q23' = [q23 EXCEPT ![i] = Append(@, Msg(i, j).tai)]
            /\ UNCHANGED q26
       ELSE /\ q26' = [q26 EXCEPT ![i] = @ \cup {j}]
            /\ UNCHANGED q23
    /\ chan' = Took(i, j)
    /\ UNCHANGED <<t1, q13, q34, q35, t2, t3, ok, appended, store, dead, history>>

(* A vote for a candidate whose last entry is not older than the node's    *)
(* own.  Nothing says for whom the node has voted before in this term.     *)
Grants(i, last) ==
    \/ last.term > LastApplied[i].term
    \/ last.term = LastApplied[i].term /\ last.idx >= LastApplied[i].idx

T2VoteRequest(i, j) ==
    /\ T2Take(i, j, "REQUEST_VOTE")
    /\ chan' = [Took(i, j) EXCEPT ![i][j] = Append(@,
            [type |-> "RESP_REQUEST_VOTE", term |-> Msg(i, j).term,
             granted |-> Grants(i, Msg(i, j).last)])]
    /\ UNCHANGED <<threads, appended, store, dead, history>>

(* The answer announces a body of the size of another message and carries  *)
(* one byte of it.  thread_2 waits for the rest before it looks at the     *)
(* message: the next read() fails, or brings the next message and with it  *)
(* the wrong length, and the process aborts.                               *)
T2VoteResponse(i, j) ==
    /\ t2[i].pc = "idle"
    /\ chan[j][i] # << >> /\ Msg(i, j).type = "RESP_REQUEST_VOTE"
    /\ Abort(i)

(* read() returned more than one message: the assertion on the length      *)
(* fails and the process aborts.                                           *)
T2Coalesced(i, j) ==
    /\ "several" \in Reads
    /\ t2[i].pc = "idle" /\ Len(chan[j][i]) > 1
    /\ Abort(i)

(* read() returned the first part of a batch: the socket does not block,   *)
(* so that the next read() fails when the rest is not there yet, and the   *)
(* process aborts.                                                         *)
T2Partial(i, j) ==
    /\ "part" \in Reads
    /\ t2[i].pc = "idle"
    /\ chan[j][i] # << >> /\ Msg(i, j).type = "APPEND_ENTRIES"
    /\ Abort(i)

(* The process of a peer is gone: read() meets the end of the stream, or   *)
(* send() a closed socket, and this process aborts too.                    *)
PeerGone(i) == dead # {} /\ Abort(i)

-----------------------------------------------------------------------------
(* RocksDB fails to carry an operation out.                                *)
StoreFails ==
    /\ failures < MaxFailures
    /\ failures' = failures + 1

(* thread_4 looks a GET up in the key-value store as it is now.  A lookup  *)
(* that fails is answered as if nothing was there; what the client is sent *)
(* through the io_uring is left out.                                       *)
T4(i) ==
    /\ i \notin dead
    /\ q34[i] # << >>
    /\ IF Head(q34[i]) = << >>
       THEN q34' = [q34 EXCEPT ![i] = Tail(@)] /\ UNCHANGED <<served, failures>>
       ELSE /\ q34' = [q34 EXCEPT ![i][1] = Tail(@)]
            /\ \/ /\ served' = served \cup
                       {[need |-> Head(Head(q34[i])), seen |-> stored[i],
                         refused |-> ToSet(taken[i]) \ stored[i]]}
                  /\ UNCHANGED failures
               \/ StoreFails /\ UNCHANGED served
    /\ UNCHANGED <<state, current_term, t1, q13, q23, q26, q35, t2, t3, ok, chan, appended,
                   t5, taken, stored, acked, dead, received, reads, events, accepted>>

(* Mutant of T5: the client is answered before the write is taken up.      *)
T5AckFirst(i) ==
    /\ i \notin dead
    /\ q35[i] # << >>
    /\ LET w == Head(q35[i]) IN
       IF w = << >>
       THEN q35' = [q35 EXCEPT ![i] = Tail(@)] /\ UNCHANGED <<taken, stored, acked>>
       ELSE IF state[i] = "LEADER" /\ Head(w) \notin acked[i]
       THEN acked' = [acked EXCEPT ![i] = @ \cup {Head(w)}] /\ UNCHANGED <<q35, taken, stored>>
       ELSE /\ q35' = [q35 EXCEPT ![i][1] = Tail(@)]
            /\ taken' = [taken EXCEPT ![i] = Append(@, Head(w))]
            /\ stored' = [stored EXCEPT ![i] = @ \cup {Head(w)}]
            /\ UNCHANGED acked
    /\ UNCHANGED <<state, current_term, t1, q13, q23, q26, q34, t2, t3, ok, chan, appended,
                   t5, failures, dead, history>>

(* A queue of batches without the first write of its first batch, and      *)
(* without that batch when this was its last.                              *)
WithoutFirst(q) ==
    IF Len(Head(q)) = 1 THEN Tail(q) ELSE [q EXCEPT ![1] = Tail(@)]

(* thread_5 takes a write up: kv_store_set or kv_store_delete, whose       *)
(* result it ignores ...                                                   *)
T5(i) ==
    /\ i \notin dead
    /\ t5[i] = 0 /\ q35[i] # << >>
    /\ IF Head(q35[i]) = << >>
       THEN q35' = [q35 EXCEPT ![i] = Tail(@)] /\ UNCHANGED store
       ELSE LET w == Head(Head(q35[i])) IN
            /\ q35' = [q35 EXCEPT ![i] = WithoutFirst(@)]
            /\ t5' = [t5 EXCEPT ![i] = w]
            /\ taken' = [taken EXCEPT ![i] = Append(@, w)]
            /\ \/ stored' = [stored EXCEPT ![i] = @ \cup {w}] /\ UNCHANGED failures
               \/ StoreFails /\ UNCHANGED stored
            /\ UNCHANGED acked
    /\ UNCHANGED <<state, current_term, t1, q13, q23, q26, q34, t2, t3, ok, chan, appended,
                   dead, history>>

(* ... then reads the role, and a leader answers the client with a 200,    *)
(* also when the store has refused the write.                              *)
T5Answer(i) ==
    /\ i \notin dead
    /\ t5[i] # 0
    /\ t5' = [t5 EXCEPT ![i] = 0]
    /\ acked' = [acked EXCEPT ![i] = IF state[i] = "LEADER" THEN @ \cup {t5[i]} ELSE @]
    /\ UNCHANGED <<state, current_term, threads, chan, appended, taken, stored, failures,
                   dead, history>>

(* thread_7: a leader's heartbeat to every other node.                     *)
T7(i) ==
    /\ i \notin dead
    /\ state[i] = "LEADER"
    /\ events < MaxEvents
    /\ events' = events + 1
    /\ Send(i, [type |-> "HEARTBEAT", term |-> current_term[i]])
    /\ UNCHANGED <<state, current_term, threads, appended, store, dead, received,
                   reads, accepted, served>>

(* A node is made leader of a term that no node has seen (external) ...    *)
Elect(i) ==
    /\ i \notin dead
    /\ events < MaxEvents
    /\ events' = events + 1
    /\ \E t \in {current_term[j] + 1 : j \in Node} :
        /\ \A j \in Node : current_term[j] < t
        /\ current_term' = [current_term EXCEPT ![i] = t]
    /\ state' = [state EXCEPT ![i] = "LEADER"]
    /\ UNCHANGED <<threads, chan, appended, store, dead, received, reads, accepted,
                   served>>

(* ... or a candidate that asks every other node for its vote (external).  *)
Campaign(i) ==
    /\ i \notin dead /\ state[i] # "LEADER"
    /\ events < MaxEvents
    /\ events' = events + 1
    /\ current_term' = [current_term EXCEPT ![i] = @ + 1]
    /\ state' = [state EXCEPT ![i] = "CANDIDATE"]
    /\ Send(i, [type |-> "REQUEST_VOTE", term |-> current_term[i] + 1,
                last |-> LastApplied[i]])
    /\ UNCHANGED <<threads, appended, store, dead, received, reads, accepted,
                   served>>

Thread2(i) ==
    \/ T2Log(i) \/ T2Pass(i)
    \/ \E j \in Peers(i) : \/ T2Old(i, j) \/ T2Heartbeat(i, j)
                           \/ T2Append(i, j) \/ T2Response(i, j)
                           \/ T2VoteRequest(i, j) \/ T2VoteResponse(i, j)

Next ==
    \E i \in Node :
        \/ T1Check(i) \/ T1Start(i) \/ T1Recv(i) \/ T1Hand(i)
        \/ Thread2(i) \/ PeerGone(i) \/ \E j \in Peers(i) : T2Coalesced(i, j) \/ T2Partial(i, j)
        \/ T3Send(i) \/ T3Ack(i) \/ T3Commit(i) \/ T3Pass(i)
        \/ T4(i) \/ T5(i) \/ T5Answer(i) \/ T7(i) \/ Elect(i) \/ Campaign(i)

(* The threads keep being scheduled; clients, heartbeats and elections     *)
(* need not happen.  thread_1 of the leader goes round for ever, whatever  *)
(* comes; what the others have to do comes to an end, and only they take   *)
(* it from one another, so that it is enough that some thread of some node *)
(* takes a step while any of them can.                                     *)
Fairness ==
    /\ WF_vars(T1Check(Leader) \/ T1Start(Leader) \/ T1Hand(Leader))
    /\ WF_vars(\E i \in Node : \/ Thread2(i)
                               \/ T3Send(i) \/ T3Ack(i) \/ T3Commit(i) \/ T3Pass(i)
                               \/ T4(i) \/ T5(i) \/ T5Answer(i))

Spec == Init /\ [][Next]_vars
FairSpec == Spec /\ Fairness

-----------------------------------------------------------------------------
Write == 1 .. MaxWrites
Entry == [term : Nat, idx : Nat]
Batch == [id : Nat, term : Nat, idx : Nat, w : Seq(Write), r : Seq(SUBSET Write)]
Filling == [pc : {"fill"}, term : Nat, idx : Nat, w : Seq(Write), r : Seq(SUBSET Write)]
Counted == 0 .. Num \div 2 + 1    \* counting ends with a majority
Task(pcs) == {Idle} \cup [pc : pcs, b : Batch]

Message ==
    [type : {"HEARTBEAT"}, term : Nat]
    \cup [type : {"APPEND_ENTRIES"}, term : Nat, prev : Entry, batch : Batch]
    \cup [type : {"RESP_APPEND_ENTRIES"}, term : Nat, success : BOOLEAN, tai : Entry]
    \cup [type : {"REQUEST_VOTE"}, term : Nat, last : Entry]
    \cup [type : {"RESP_REQUEST_VOTE"}, term : Nat, granted : BOOLEAN]

(* Queues, buffers, sockets, logs and stores hold what their               *)
(* consumers expect.                                                       *)
TypeOK ==
    /\ state \in [Node -> {"LEADER", "CANDIDATE", "FOLLOWER"}]
    /\ current_term \in [Node -> Nat]
    /\ t1 \in [Node -> [pc : {"check", "start"}] \cup Filling]
    /\ q13 \in [Node -> Seq(Batch)]
    /\ q23 \in [Node -> Seq(Entry)]
    /\ q26 \in [Node -> SUBSET Node]
    /\ q34 \in [Node -> Seq(Seq(SUBSET Write))]
    /\ q35 \in [Node -> Seq(Seq(Write))]
    /\ t2 \in [Node -> Task({"log", "pass"})]
    /\ t3 \in [Node -> Task({"wait", "pass"})]
    /\ ok \in [Node -> Counted]
    /\ chan \in [Node -> [Node -> Seq(Message)]]
    /\ appended \in [Node -> Seq(Batch)]
    /\ t5 \in [Node -> 0 .. MaxWrites]
    /\ taken \in [Node -> Seq(Write)]
    /\ stored \in [Node -> SUBSET Write]
    /\ acked \in [Node -> SUBSET Write]
    /\ received \in 0 .. MaxWrites
    /\ accepted \in Seq(SUBSET Node)

Writes(l) == FlattenSeq([n \in DOMAIN l |-> l[n].w])

(* While one node leads, no two nodes log differently: what one has logged *)
(* is a prefix of what the other has, because thread_3 sends, and logs,    *)
(* the batches in the order thread_1 made them and every follower logs     *)
(* them in the order they come.                                            *)
LogsAgree ==
    \A i, j \in Node : \/ IsPrefix(appended[i], appended[j])
                       \/ IsPrefix(appended[j], appended[i])

(* What the nodes show of their writes: what they have logged.             *)
Ledger == INSTANCE Ledger WITH log <- [i \in Node |-> Writes(appended[i])]

(* Every node keeps a ledger: it takes up what it has logged, in the order *)
(* of the log and each write once, never ahead of the log, tries it on the *)
(* store once, and acknowledges it, if at all, after that and before it    *)
(* takes up the next, whether or not the store took it.  thread_2 and      *)
(* thread_3 log a batch before they pass it to thread_5.                   *)
ImplementsLedger == Ledger!Spec

(* Without the order, for a node that logs from two threads because it was *)
(* leader and is no longer, and when processes abort: no write reaches the *)
(* store that was not given to the log first.                              *)
AppliedIsLogged ==
    \A i \in Node : \A w \in ToSet(taken[i]) :
        \E n \in DOMAIN appended[i] : w \in ToSet(appended[i][n].w)

(* A GET misses, of the writes that this node had acknowledged before it   *)
(* received the GET, only those that its store has refused: thread_5       *)
(* answers a client only after it has tried the write on the store that    *)
(* thread_4 reads.  Of what another node, an earlier leader, acknowledged  *)
(* nothing is said.                                                        *)
ReadsSeeAcked ==
    \A g \in served : g.need \subseteq g.seen \cup g.refused

(* Whenever writes that the leader received are not answered yet, there    *)
(* comes a moment when all are, whether or not the store took them, unless *)
(* a process ends: with every thread running, no thread waits for ever on  *)
(* another.  A follower that is sent two batches before it reads one ends  *)
(* all the processes (T2Coalesced), and that excuses the writes: it does   *)
(* not say that a write is safe once it was received.  And the leader must *)
(* stay in the term of its last entry: the OKs carry that term, in another *)
(* one none of them matches the batch, and thread_3 waits for ever.        *)
TermOfLastEntry == current_term[Leader] = LastApplied[Leader].term

EveryWriteAnswered ==
    ~(1 .. received \subseteq acked[Leader])
        ~> \/ 1 .. received \subseteq acked[Leader]
           \/ dead # {}
           \/ ~TermOfLastEntry

(* A batch is committed when a majority, the leader included, has accepted *)
(* it.                                                                     *)
CommitHasMajority ==
    \A n \in 1 .. Len(appended[Leader]) :
        Majority(1 + Cardinality(accepted[appended[Leader][n].id]))
=============================================================================

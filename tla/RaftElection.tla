---------------------------- MODULE RaftElection ----------------------------
(***************************************************************************)
(* Terms, votes and step-downs of src/raft_core.c on a cluster of nodes.   *)
(*                                                                         *)
(* raft_core.c is a library: its handlers take a request and fill in a     *)
(* response, and "actual network send would happen" elsewhere.  The caller *)
(* that moves the messages is external; it is modelled as one event loop   *)
(* per node (the shape of thread_2 in main.c) that                         *)
(*   - starts an election when raft_check_election_timeout says so and     *)
(*     sends the RequestVote of raft_core.c:514-521 to every other node,   *)
(*   - answers requests with the response the handler filled in,           *)
(*   - counts a granted vote with raft_record_vote while the election the  *)
(*     vote was asked for is still the current one, and calls              *)
(*     raft_become_leader when that returns true,                          *)
(*   - calls raft_become_follower on a response with a higher term.        *)
(* Messages in flight are sets: they may be delayed for ever or reordered. *)
(*                                                                         *)
(* The batch thread of command_batcher.c, and a client thread that calls   *)
(* raft_handle_client_command, are actors of their own here since they     *)
(* append to the log that the vote check reads.  Both read current_term    *)
(* without the mutex and append the entry later, under it.  Log entries    *)
(* are their terms.                                                        *)
(*                                                                         *)
(* leader_id and match_index are written and never read, and next_index,   *)
(* commit_index and last_applied play no part in an election: all five are *)
(* left out here.                                                          *)
(***************************************************************************)
EXTENDS Naturals, Sequences, FiniteSets

CONSTANTS
    Node,       \* the node ids of the cluster file
    NoVote,     \* the value 0 of voted_for: a node id too, if a node has id 0
    MAX_NODES,  \* raft_core.h: the size the majority is taken of
    MaxTerm,    \* bound: elections are started below this term
    MaxElections, \* bound: elections started
    MaxLog,     \* bound: a node takes commands while its log and what is under
                \* way on all nodes are fewer than this
    MaxInFlight \* bound: AppendEntries are sent while fewer messages are in flight

ASSUME NodeAssumption ==
    /\ IsFiniteSet(Node)
    /\ MAX_NODES \in Nat
    /\ Cardinality(Node) <= MAX_NODES

ASSUME BoundAssumption ==
    /\ MaxTerm \in Nat /\ MaxElections \in Nat
    /\ MaxLog \in Nat /\ MaxInFlight \in Nat

VARIABLES
    state, current_term, voted_for, votes_received, \* raft_node_t
    log,            \* log->entries[..].term
    asked,          \* nodes whose client thread has passed the test for the leader
    batched,        \* nodes with command_batcher.current_batch.num_commands > 0
    made,           \* entries that are made and not yet appended
    batcher_active, \* nodes with command_batcher.active
    hung,           \* nodes whose event loop waits for ever on its own mutex
    votereq, voteresp, aereq, aeresp,   \* messages in flight
    granted,        \* history: every vote given, with the voter's last entry
    counted         \* history: whose votes the current election has counted

nodeVars    == <<state, current_term, voted_for, votes_received>>
clientVars  == <<asked, batched, made>>
batcherVars == <<log, clientVars, batcher_active>>
voteVars    == <<granted, counted>>
vars == <<nodeVars, batcherVars, hung, votereq, voteresp, aereq, aeresp, voteVars>>

State == {"FOLLOWER", "CANDIDATE", "LEADER"}

Thread == {"batcher", "client"}

-----------------------------------------------------------------------------
(* The term of the entry at index k, where 0 is before the first entry.    *)
TermAt(l, k) == IF k > 0 THEN l[k] ELSE 0

LastTerm(l) == TermAt(l, Len(l))

(* Is a log that ends in (term, idx) at least as up to date as one that    *)
(* ends in (term2, idx2)?                                                  *)
UpToDate(term, idx, term2, idx2) ==
    \/ term > term2
    \/ term = term2 /\ idx >= idx2

Vote(voter, cand, term) ==
    [voter |-> voter, cand |-> cand, term |-> term,
     last_term |-> LastTerm(log[voter]), last_idx |-> Len(log[voter])]

(* The RequestVote messages of a candidate (external: raft_start_election  *)
(* only says that they would be sent).                                     *)
RequestVotes(i, term) ==
    {[from |-> i, to |-> j, term |-> term,
      last_log_index |-> Len(log[i]), last_log_term |-> LastTerm(log[i])] :
        j \in Node \ {i}}

Init ==
    /\ state = [i \in Node |-> "FOLLOWER"]
    /\ current_term = [i \in Node |-> 0]
    /\ voted_for = [i \in Node |-> NoVote]
    /\ votes_received = [i \in Node |-> 0]
    /\ log = [i \in Node |-> << >>]
    /\ asked = {} /\ batched = {} /\ made = {}
    /\ batcher_active = {} /\ hung = {}
    /\ votereq = {} /\ voteresp = {} /\ aereq = {} /\ aeresp = {}
    /\ granted = {}
    /\ counted = [i \in Node |-> {}]

-----------------------------------------------------------------------------
(* raft_check_election_timeout: the age of last_heartbeat in whole seconds *)
(* is compared with a timeout of at most 300 ms divided by 1000, which is  *)
(* 0, so the comparison is true whenever it is made.                       *)
CheckElectionTimeout(i) == state[i] # "LEADER"

(* raft_start_election, and raft_become_candidate, which differs only in   *)
(* clearing leader_id; then the caller sends the requests.                 *)
StartElection(i) ==
    /\ i \notin hung
    /\ CheckElectionTimeout(i)
    /\ current_term[i] < MaxTerm
    /\ Cardinality({g \in granted : g.voter = g.cand}) < MaxElections
    /\ state' = [state EXCEPT ![i] = "CANDIDATE"]
    /\ current_term' = [current_term EXCEPT ![i] = @ + 1]
    /\ voted_for' = [voted_for EXCEPT ![i] = i]
    /\ votes_received' = [votes_received EXCEPT ![i] = 1]
    /\ granted' = granted \cup {Vote(i, i, current_term[i] + 1)}
    /\ counted' = [counted EXCEPT ![i] = {i}]
    /\ votereq' = votereq \cup RequestVotes(i, current_term[i] + 1)
    /\ UNCHANGED <<batcherVars, hung, voteresp, aereq, aeresp>>

-----------------------------------------------------------------------------
(* Mutants of VotedFor: a vote forgotten within its term, and the wrong    *)
(* field stored.                                                           *)
VotedForForgetful(i, term) == IF term >= current_term[i] THEN NoVote ELSE voted_for[i]
VotedForMixedUp(i, term) == IF term > current_term[i] THEN term ELSE voted_for[i]

(* voted_for after a request of this term was seen, before it is answered. *)
VotedFor(i, term) == IF term > current_term[i] THEN NoVote ELSE voted_for[i]

(* Mutants of VoteGranted: without the term test, without the log test.    *)
VoteGrantedAnyTerm(i, m) ==
    /\ VotedFor(i, m.term) \in {NoVote, m.from}
    /\ UpToDate(m.last_log_term, m.last_log_index, LastTerm(log[i]), Len(log[i]))
VoteGrantedAnyLog(i, m) ==
    /\ m.term >= current_term[i]
    /\ VotedFor(i, m.term) \in {NoVote, m.from}

(* The vote test of raft_handle_request_vote.                              *)
VoteGranted(i, m) ==
    /\ m.term >= current_term[i]
    /\ VotedFor(i, m.term) \in {NoVote, m.from}
    /\ UpToDate(m.last_log_term, m.last_log_index, LastTerm(log[i]), Len(log[i]))

SeeTerm(i, term) ==
    /\ current_term' = [current_term EXCEPT ![i] = IF term > @ THEN term ELSE @]
    /\ state' = [state EXCEPT ![i] = IF term > current_term[i] THEN "FOLLOWER" ELSE @]

(* raft_handle_request_vote.  The response carries the term the node had   *)
(* before the request; rterm is the caller's own note of what it answers.  *)
HandleRequestVote(i, m) ==
    /\ i \notin hung
    /\ SeeTerm(i, m.term)
    /\ voted_for' = [voted_for EXCEPT ![i] =
                        IF VoteGranted(i, m) THEN m.from ELSE VotedFor(i, m.term)]
    /\ granted' = IF VoteGranted(i, m)
                  THEN granted \cup {Vote(i, m.from, m.term)} ELSE granted
    /\ votereq' = votereq \ {m}
    /\ voteresp' = voteresp \cup
         {[from |-> i, to |-> m.from, term |-> current_term[i], rterm |-> m.term,
           vote_granted |-> VoteGranted(i, m)]}
    /\ UNCHANGED <<votes_received, batcherVars, hung, aereq, aeresp, counted>>

(* raft_record_vote returns true when the counted votes are a majority.    *)
HasMajority(votes) == votes > MAX_NODES \div 2

(* A granted vote of the running election: raft_record_vote, and           *)
(* raft_become_leader when it returned true.                               *)
RecordVote(i, m) ==
    /\ i \notin hung
    /\ m.vote_granted /\ m.rterm = current_term[i] /\ m.term <= current_term[i]
    /\ state[i] = "CANDIDATE"
    /\ votes_received' = [votes_received EXCEPT ![i] = @ + 1]
    /\ counted' = [counted EXCEPT ![i] = @ \cup {m.from}]
    /\ IF HasMajority(votes_received[i] + 1)
       THEN /\ state' = [state EXCEPT ![i] = "LEADER"]
            /\ batcher_active' = batcher_active \cup {i}
       ELSE UNCHANGED <<state, batcher_active>>
    /\ voteresp' = voteresp \ {m}
    /\ UNCHANGED <<current_term, voted_for, log, clientVars, hung, votereq, aereq,
                   aeresp, granted>>

(* A response that changes nothing: refused, of an older election, or a    *)
(* vote that raft_record_vote drops because the node is no candidate.      *)
IgnoreVoteResponse(i, m) ==
    /\ i \notin hung
    /\ m.term <= current_term[i]
    /\ ~(m.vote_granted /\ m.rterm = current_term[i] /\ state[i] = "CANDIDATE")
    /\ voteresp' = voteresp \ {m}
    /\ UNCHANGED <<nodeVars, batcherVars, hung, votereq, aereq, aeresp, voteVars>>

-----------------------------------------------------------------------------
(* Has this thread made an entry that it has still to append?              *)
Holds(i, by) == \E e \in made : e.node = i /\ e.by = by

(* Has the batcher commands that are not yet in the log?                   *)
BatcherBusy(i) == i \in batched \/ Holds(i, "batcher")

(* raft_become_follower.  A leader stops its batcher first, still holding  *)
(* node->mutex; with commands in the batch, or in the hands of the batch   *)
(* thread, the batcher's callback needs that same mutex in                 *)
(* raft_append_entry and the node never returns.                           *)
BecomeFollower(i, term) ==
    IF state[i] = "LEADER" /\ BatcherBusy(i)
    THEN /\ hung' = hung \cup {i}
         /\ batcher_active' = batcher_active \ {i}
         /\ UNCHANGED nodeVars
    ELSE /\ state' = [state EXCEPT ![i] = "FOLLOWER"]
         /\ current_term' = [current_term EXCEPT ![i] = term]
         /\ voted_for' = [voted_for EXCEPT ![i] = NoVote]
         /\ votes_received' = [votes_received EXCEPT ![i] = 0]
         /\ batcher_active' = IF state[i] = "LEADER"
                               THEN batcher_active \ {i} ELSE batcher_active
         /\ UNCHANGED hung

(* The caller's test before it steps down (external).                      *)
HigherTerm(i, m) == m.term > current_term[i]

StepDownOnVoteResponse(i, m) ==
    /\ i \notin hung
    /\ HigherTerm(i, m)
    /\ BecomeFollower(i, m.term)
    /\ voteresp' = voteresp \ {m}
    /\ UNCHANGED <<log, clientVars, votereq, aereq, aeresp, voteVars>>

StepDownOnAppendResponse(i, m) ==
    /\ i \notin hung
    /\ HigherTerm(i, m)
    /\ BecomeFollower(i, m.term)
    /\ aeresp' = aeresp \ {m}
    /\ UNCHANGED <<log, clientVars, votereq, voteresp, aereq, voteVars>>

-----------------------------------------------------------------------------
(* The AppendEntries a leader's caller sends as a heartbeat (external).    *)
SendAppendEntries(i, j) ==
    /\ i \notin hung
    /\ state[i] = "LEADER"
    /\ Cardinality(votereq) + Cardinality(voteresp) + Cardinality(aereq)
         + Cardinality(aeresp) < MaxInFlight
    /\ aereq' = aereq \cup
         {[from |-> i, to |-> j, term |-> current_term[i],
           prev_log_index |-> Len(log[i]), prev_log_term |-> LastTerm(log[i])]}
    /\ UNCHANGED <<nodeVars, batcherVars, hung, votereq, voteresp, aeresp, voteVars>>

(* What raft_handle_append_entries answers: the request is not of an older *)
(* term and the log has the entry it builds on.                            *)
AppendAccepted(i, m) ==
    /\ m.term >= current_term[i]
    /\ \/ m.prev_log_index = 0
       \/ /\ m.prev_log_index <= Len(log[i])
          /\ log[i][m.prev_log_index] = m.prev_log_term

(* raft_handle_append_entries: no entry is stored, and a candidate of the  *)
(* same term stays a candidate.                                            *)
HandleAppendEntries(i, m) ==
    /\ i \notin hung
    /\ SeeTerm(i, m.term)
    /\ voted_for' = [voted_for EXCEPT ![i] = VotedFor(i, m.term)]
    /\ aereq' = aereq \ {m}
    /\ aeresp' = aeresp \cup
         {[from |-> i, to |-> m.from, term |-> current_term[i],
           success |-> AppendAccepted(i, m)]}
    /\ UNCHANGED <<votes_received, batcherVars, hung, votereq, voteresp, voteVars>>

IgnoreAppendResponse(i, m) ==
    /\ i \notin hung
    /\ ~HigherTerm(i, m)
    /\ aeresp' = aeresp \ {m}
    /\ UNCHANGED <<nodeVars, batcherVars, hung, votereq, voteresp, aereq, voteVars>>

-----------------------------------------------------------------------------
(* raft_handle_client_command tests the role without the mutex ...         *)
HandleClientCommand(i) ==
    /\ state[i] = "LEADER" /\ i \notin asked /\ ~Holds(i, "client")
    /\ Len(log[i]) + Cardinality(asked) + Cardinality(batched) + Cardinality(made) < MaxLog
    /\ asked' = asked \cup {i}
    /\ UNCHANGED <<nodeVars, log, batched, made, batcher_active, hung, votereq, voteresp,
                   aereq, aeresp, voteVars>>

(* ... and adds the command to the batch ...                               *)
AddCommand(i) ==
    /\ i \in asked
    /\ asked' = asked \ {i}
    /\ batched' = batched \cup {i}
    /\ UNCHANGED <<nodeVars, log, made, batcher_active, hung, votereq, voteresp, aereq,
                   aeresp, voteVars>>

(* raft_create_entry with what current_term is now: no mutex is held.      *)
CreateEntry(i, by) ==
    /\ ~Holds(i, by)
    /\ made' = made \cup {[node |-> i, by |-> by, term |-> current_term[i]]}

(* ... or makes an entry of it when the batch has no room.                 *)
CreateClientEntry(i) ==
    /\ i \in asked
    /\ asked' = asked \ {i}
    /\ CreateEntry(i, "client")
    /\ UNCHANGED <<nodeVars, log, batched, batcher_active, hung, votereq, voteresp, aereq,
                   aeresp, voteVars>>

(* The batch thread takes the batch and calls process_raft_batch, whatever *)
(* the node is by now, which makes an entry of it.                         *)
ProcessRaftBatch(i) ==
    /\ i \in batcher_active \cap batched
    /\ CreateEntry(i, "batcher")
    /\ batched' = batched \ {i}
    /\ UNCHANGED <<nodeVars, log, asked, batcher_active, hung, votereq, voteresp, aereq,
                   aeresp, voteVars>>

(* raft_append_entry, under the mutex: the entry has the term it was made  *)
(* with, also when the node, and its log, are in a later one by now.       *)
AppendEntry(e) ==
    /\ e.node \notin hung
    /\ log' = [log EXCEPT ![e.node] = Append(@, e.term)]
    /\ made' = made \ {e}
    /\ UNCHANGED <<nodeVars, asked, batched, batcher_active, hung, votereq, voteresp,
                   aereq, aeresp, voteVars>>

Next ==
    \/ \E i \in Node : \/ StartElection(i)
                       \/ HandleClientCommand(i)
                       \/ AddCommand(i)
                       \/ CreateClientEntry(i)
                       \/ ProcessRaftBatch(i)
                       \/ \E j \in Node \ {i} : SendAppendEntries(i, j)
    \/ \E e \in made : AppendEntry(e)
    \/ \E m \in votereq : HandleRequestVote(m.to, m)
    \/ \E m \in voteresp : \/ RecordVote(m.to, m)
                           \/ IgnoreVoteResponse(m.to, m)
                           \/ StepDownOnVoteResponse(m.to, m)
    \/ \E m \in aereq : HandleAppendEntries(m.to, m)
    \/ \E m \in aeresp : \/ IgnoreAppendResponse(m.to, m)
                         \/ StepDownOnAppendResponse(m.to, m)

Spec == Init /\ [][Next]_vars

-----------------------------------------------------------------------------
VoteReqMsg ==
    [from : Node, to : Node, term : Nat, last_log_index : Nat, last_log_term : Nat]
VoteRespMsg ==
    [from : Node, to : Node, term : Nat, rterm : Nat, vote_granted : BOOLEAN]
AppendReqMsg ==
    [from : Node, to : Node, term : Nat, prev_log_index : Nat, prev_log_term : Nat]
AppendRespMsg == [from : Node, to : Node, term : Nat, success : BOOLEAN]
EntryRec == [node : Node, by : Thread, term : Nat]
VoteRec ==
    [voter : Node, cand : Node, term : Nat, last_term : Nat, last_idx : Nat]

(* Every field of a node, every message and every recorded vote has its    *)
(* type: no handler ever stores an id that is not a node's.                *)
TypeOK ==
    /\ state \in [Node -> State]
    /\ current_term \in [Node -> Nat]
    /\ voted_for \in [Node -> Node \cup {NoVote}]
    /\ votes_received \in [Node -> Nat]
    /\ log \in [Node -> Seq(Nat)]
    /\ asked \subseteq Node
    /\ batched \subseteq Node
    /\ made \subseteq EntryRec
    /\ batcher_active \subseteq Node
    /\ hung \subseteq Node
    /\ votereq \subseteq VoteReqMsg
    /\ voteresp \subseteq VoteRespMsg
    /\ aereq \subseteq AppendReqMsg
    /\ aeresp \subseteq AppendRespMsg
    /\ granted \subseteq VoteRec
    /\ counted \in [Node -> SUBSET Node]

(* At most one leader per term: the vote counting of raft_record_vote and  *)
(* the voting of raft_handle_request_vote never elect two nodes in one     *)
(* term, whatever the order the requests and the answers are handled in.   *)
ElectionSafety ==
    \A i, j \in Node :
        /\ state[i] = "LEADER" /\ state[j] = "LEADER"
        /\ current_term[i] = current_term[j]
        => i = j

(* raft_handle_request_vote never gives the votes of one term to two       *)
(* candidates.                                                             *)
OneVotePerTerm ==
    \A g, h \in granted :
        g.voter = h.voter /\ g.term = h.term => g.cand = h.cand

(* Is l, or was it when it was shorter, at least as up to date as a log    *)
(* that ends in (term, idx)?                                               *)
WasUpToDate(l, term, idx) ==
    \E k \in 0 .. Len(l) : UpToDate(TermAt(l, k), k, term, idx)

(* Whoever got a vote has, or has had, a log at least as up to date as the *)
(* voter's was when it voted: raft_handle_request_vote compares with what  *)
(* the request says, and the candidate did have that log, although entries *)
(* were appended to it since.  More does not hold: an entry made before    *)
(* the term changed may follow one of the new term, and the candidate's    *)
(* last term is then older again than the one it asked with.               *)
VoterNotAhead ==
    \A g \in granted : WasUpToDate(log[g.cand], g.last_term, g.last_idx)

(* No handler moves a node back to an earlier term, and within a term a    *)
(* vote once given is never taken back or moved to another candidate.      *)
VoteStable ==
    [][\A i \in Node :
          /\ current_term'[i] >= current_term[i]
          /\ current_term'[i] = current_term[i] /\ voted_for[i] # NoVote
             => voted_for'[i] = voted_for[i]]_vars

-----------------------------------------------------------------------------
(* The strengthening of ElectionSafety that the handlers preserve, proved  *)
(* in RaftElectionProofs.                                                  *)

(* A vote is never of a later term than its voter's, and the vote of the   *)
(* voter's own term is the one voted_for remembers.                        *)
VotesRemembered ==
    \A g \in granted :
        /\ g.term <= current_term[g.voter]
        /\ g.term = current_term[g.voter] => voted_for[g.voter] = g.cand

(* A vote is asked for once per term and voter, and answered once, so that *)
(* votes_received counts voters and not messages.                          *)
AskedOnce ==
    /\ \A m \in votereq : m.term <= current_term[m.from]
    /\ \A m \in voteresp : m.rterm <= current_term[m.to]
    /\ \A m, n \in voteresp :
          m.from = n.from /\ m.to = n.to /\ m.rterm = n.rterm => m = n
    /\ \A m, n \in votereq :
          m.from = n.from /\ m.to = n.to /\ m.term = n.term => m = n
    /\ \A m \in votereq, n \in voteresp :
          ~(m.from = n.to /\ m.to = n.from /\ m.term = n.rterm)

(* A vote that is still to be asked for or on its way has not been counted. *)
NotYetCounted ==
    /\ \A m \in votereq :
          m.term = current_term[m.from] => m.to \notin counted[m.from]
    /\ \A m \in voteresp :
          m.rterm = current_term[m.to] => m.from \notin counted[m.to]

(* Whoever is counted, or about to be, did vote for the node in that term. *)
HasVote(voter, cand, term) ==
    \E g \in granted : g.voter = voter /\ g.cand = cand /\ g.term = term

CountedVoted ==
    /\ \A m \in voteresp : m.vote_granted => HasVote(m.from, m.to, m.rterm)
    /\ \A i \in Node : state[i] # "FOLLOWER" =>
          \A v \in counted[i] : HasVote(v, i, current_term[i])

(* votes_received is the number of voters counted, and a leader's voters   *)
(* are more than half of MAX_NODES.                                        *)
CountRight ==
    \A i \in Node :
        /\ state[i] = "CANDIDATE" => votes_received[i] = Cardinality(counted[i])
        /\ state[i] = "LEADER" => 2 * Cardinality(counted[i]) > MAX_NODES

IInv == TypeOK /\ OneVotePerTerm /\ VotesRemembered /\ AskedOnce
        /\ NotYetCounted /\ CountedVoted /\ CountRight
=============================================================================

------------------------- MODULE RaftElectionProofs -------------------------
(***************************************************************************)
(* TLAPS proofs about the two models of src/raft_core.c.                   *)
(*                                                                         *)
(* RaftElection, for every set of nodes, every MAX_NODES not below the     *)
(* number of nodes and every bound: the type invariant, one vote per term  *)
(* and election safety, given that no node has the id that stands for "no  *)
(* vote"; and, of the log test of a vote, that the candidate has had the   *)
(* log its request described.                                              *)
(*                                                                         *)
(* ElectionTimer, for every configuration and every clock: the timeout     *)
(* stays within its configured bounds, and below a second every check      *)
(* reports a timeout.  However many RPCs are measured at once, none is     *)
(* measured longer than it was.                                            *)
(***************************************************************************)
EXTENDS RaftElection, ElectionTimer, FiniteSetTheorems, TLAPS

(* The terms of a log of naturals are naturals.                            *)
LEMMA TermAtType ==
  ASSUME NEW l \in Seq(Nat), NEW k \in 0 .. Len(l)
  PROVE  TermAt(l, k) \in Nat /\ k \in Nat
BY DEF TermAt

LEMMA LastTermType ==
  ASSUME NEW l \in Seq(Nat)
  PROVE  LastTerm(l) \in Nat /\ Len(l) \in Nat /\ Len(l) \in 0 .. Len(l)
<1>1. Len(l) \in Nat /\ Len(l) \in 0 .. Len(l)
  OBVIOUS
<1> QED
  BY <1>1, TermAtType DEF LastTerm

(* raft_become_follower keeps the types, whether it returns or hangs.      *)
LEMMA BecomeFollowerType ==
  ASSUME TypeOK, NEW i \in Node, NEW term \in Nat, BecomeFollower(i, term)
  PROVE  /\ state' \in [Node -> State]
         /\ current_term' \in [Node -> Nat]
         /\ voted_for' \in [Node -> Node \cup {NoVote}]
         /\ votes_received' \in [Node -> Nat]
         /\ batcher_active' \subseteq Node
         /\ hung' \subseteq Node
<1>1. CASE state[i] = "LEADER" /\ BatcherBusy(i)
  BY <1>1 DEF BecomeFollower, TypeOK, nodeVars
<1>2. CASE ~(state[i] = "LEADER" /\ BatcherBusy(i))
  <2>1. /\ state' = [state EXCEPT ![i] = "FOLLOWER"]
        /\ current_term' = [current_term EXCEPT ![i] = term]
        /\ voted_for' = [voted_for EXCEPT ![i] = NoVote]
        /\ votes_received' = [votes_received EXCEPT ![i] = 0]
        /\ batcher_active' \subseteq batcher_active
        /\ hung' = hung
    BY <1>2, Zenon DEF BecomeFollower
  <2> QED BY <2>1 DEF TypeOK, State
<1> QED BY <1>1, <1>2

(* The initial state is well typed.                                        *)
LEMMA TypeInit == Init => TypeOK
BY DEF Init, TypeOK, State

(* Every action keeps the types.                                           *)
LEMMA TypeStep ==
  ASSUME TypeOK, [Next]_vars
  PROVE  TypeOK'
<1> USE DEF State, nodeVars, clientVars, batcherVars, voteVars
<1>1. ASSUME NEW i \in Node, StartElection(i) PROVE TypeOK'
  <2>1. LastTerm(log[i]) \in Nat /\ Len(log[i]) \in Nat
    BY LastTermType DEF TypeOK
  <2>2. votereq' \subseteq VoteReqMsg
    BY <1>1, <2>1 DEF StartElection, RequestVotes, TypeOK, VoteReqMsg
  <2>3. granted' \subseteq VoteRec
    BY <1>1, <2>1 DEF StartElection, Vote, TypeOK, VoteRec
  <2> QED BY <1>1, <2>2, <2>3 DEF StartElection, TypeOK
<1>2. ASSUME NEW i \in Node, HandleClientCommand(i) \/ AddCommand(i) PROVE TypeOK'
  BY <1>2 DEF HandleClientCommand, AddCommand, TypeOK
<1>3. ASSUME NEW i \in Node, CreateClientEntry(i) \/ ProcessRaftBatch(i) PROVE TypeOK'
  <2>1. PICK by \in Thread : CreateEntry(i, by)
    BY <1>3, Zenon DEF CreateClientEntry, ProcessRaftBatch, Thread
  <2>2. [node |-> i, by |-> by, term |-> current_term[i]] \in EntryRec
    BY DEF EntryRec, TypeOK
  <2>3. made' \subseteq EntryRec
    BY <2>1, <2>2 DEF CreateEntry, TypeOK
  <2>4. /\ UNCHANGED <<nodeVars, log, batcher_active, hung, votereq, voteresp, aereq,
                       aeresp, voteVars>>
        /\ asked' \subseteq Node /\ batched' \subseteq Node
    BY <1>3 DEF CreateClientEntry, ProcessRaftBatch, TypeOK
  <2> QED BY <2>3, <2>4 DEF TypeOK
<1>13. ASSUME NEW e \in made, AppendEntry(e) PROVE TypeOK'
  <2>1. e.node \in Node /\ e.term \in Nat
    BY DEF EntryRec, TypeOK
  <2>2. log' \in [Node -> Seq(Nat)] /\ made' \subseteq EntryRec
    BY <1>13, <2>1 DEF AppendEntry, TypeOK
  <2> QED BY <1>13, <2>2 DEF AppendEntry, TypeOK
<1>4. ASSUME NEW i \in Node, NEW j \in Node, SendAppendEntries(i, j) PROVE TypeOK'
  <2>1. LastTerm(log[i]) \in Nat /\ Len(log[i]) \in Nat
    BY LastTermType DEF TypeOK
  <2>2. aereq' \subseteq AppendReqMsg
    BY <1>4, <2>1 DEF SendAppendEntries, TypeOK, AppendReqMsg
  <2> QED BY <1>4, <2>2 DEF SendAppendEntries, TypeOK
<1>5. ASSUME NEW m \in votereq, HandleRequestVote(m.to, m) PROVE TypeOK'
  <2> DEFINE i == m.to
  <2>1. m \in VoteReqMsg /\ i \in Node /\ m.from \in Node /\ m.term \in Nat
    BY DEF TypeOK, VoteReqMsg
  <2>2. LastTerm(log[i]) \in Nat /\ Len(log[i]) \in Nat
    BY <2>1, LastTermType DEF TypeOK
  <2>3. granted' \subseteq VoteRec
    BY <1>5, <2>1, <2>2 DEF HandleRequestVote, Vote, TypeOK, VoteRec
  <2>4. VoteGranted(i, m) \in BOOLEAN
    BY DEF VoteGranted
  <2>5. voteresp' \subseteq VoteRespMsg
    BY <1>5, <2>1, <2>4 DEF HandleRequestVote, TypeOK, VoteRespMsg
  <2>6. /\ state' \in [Node -> State] /\ current_term' \in [Node -> Nat]
        /\ voted_for' \in [Node -> Node \cup {NoVote}]
    BY <1>5, <2>1 DEF HandleRequestVote, SeeTerm, VotedFor, TypeOK
  <2> QED BY <1>5, <2>3, <2>5, <2>6 DEF HandleRequestVote, TypeOK
<1>6. ASSUME NEW m \in voteresp, RecordVote(m.to, m) PROVE TypeOK'
  <2>1. m.to \in Node /\ m.from \in Node
    BY DEF TypeOK, VoteRespMsg
  <2>2. state' \in [Node -> State] /\ batcher_active' \subseteq Node
    <3>1. state' \in [Node -> State]
      BY <1>6, <2>1 DEF RecordVote, TypeOK, State
    <3>2. batcher_active' \subseteq Node
      BY <1>6, <2>1 DEF RecordVote, TypeOK
    <3> QED
      BY <3>1, <3>2
  <2>3. counted' \in [Node -> SUBSET Node] /\ votes_received' \in [Node -> Nat]
    BY <1>6, <2>1, SMTT(30) DEF RecordVote, TypeOK
  <2>4. voteresp' \subseteq VoteRespMsg
    BY <1>6 DEF RecordVote, TypeOK
  <2> QED BY <1>6, <2>2, <2>3, <2>4 DEF RecordVote, TypeOK
<1>7. ASSUME NEW m \in voteresp, IgnoreVoteResponse(m.to, m) PROVE TypeOK'
  BY <1>7 DEF IgnoreVoteResponse, TypeOK
<1>8. ASSUME NEW m \in voteresp, StepDownOnVoteResponse(m.to, m) PROVE TypeOK'
  <2>1. m.to \in Node /\ m.term \in Nat
    BY DEF TypeOK, VoteRespMsg
  <2>2. BecomeFollower(m.to, m.term)
    BY <1>8 DEF StepDownOnVoteResponse
  <2> QED BY <1>8, <2>1, <2>2, BecomeFollowerType DEF StepDownOnVoteResponse, TypeOK
<1>9. ASSUME NEW m \in aereq, HandleAppendEntries(m.to, m) PROVE TypeOK'
  <2>1. m.to \in Node /\ m.from \in Node /\ m.term \in Nat
    BY DEF TypeOK, AppendReqMsg
  <2>2. /\ state' \in [Node -> State] /\ current_term' \in [Node -> Nat]
        /\ voted_for' \in [Node -> Node \cup {NoVote}]
    BY <1>9, <2>1 DEF HandleAppendEntries, SeeTerm, VotedFor, TypeOK
  <2>3. AppendAccepted(m.to, m) \in BOOLEAN
    BY DEF AppendAccepted
  <2>4. aeresp' \subseteq AppendRespMsg
    BY <1>9, <2>1, <2>3 DEF HandleAppendEntries, TypeOK, AppendRespMsg
  <2> QED BY <1>9, <2>2, <2>4 DEF HandleAppendEntries, TypeOK
<1>10. ASSUME NEW m \in aeresp, IgnoreAppendResponse(m.to, m) PROVE TypeOK'
  BY <1>10 DEF IgnoreAppendResponse, TypeOK
<1>11. ASSUME NEW m \in aeresp, StepDownOnAppendResponse(m.to, m) PROVE TypeOK'
  <2>1. m.to \in Node /\ m.term \in Nat
    BY DEF TypeOK, AppendRespMsg
  <2>2. BecomeFollower(m.to, m.term)
    BY <1>11 DEF StepDownOnAppendResponse
  <2> QED BY <1>11, <2>1, <2>2, BecomeFollowerType DEF StepDownOnAppendResponse, TypeOK
<1>12. CASE UNCHANGED vars
  BY <1>12 DEF TypeOK, vars
<1> QED BY <1>1, <1>2, <1>3, <1>4, <1>5, <1>6, <1>7, <1>8, <1>9, <1>10, <1>11,
           <1>12, <1>13 DEF Next

(* Type correctness: no handler of raft_core.c, in any interleaving of the *)
(* nodes, leaves the types of its fields.                                  *)
THEOREM TypeCorrect == Spec => []TypeOK
BY TypeInit, TypeStep, PTL DEF Spec

-----------------------------------------------------------------------------
(* The parts of IInv besides the type invariant.                           *)
VInv == OneVotePerTerm /\ VotesRemembered /\ AskedOnce /\ NotYetCounted
        /\ CountedVoted /\ CountRight

(* A step that only loses answers keeps the invariant.                     *)
LEMMA SilentStep ==
  ASSUME TypeOK, VInv,
         UNCHANGED <<state, current_term, voted_for, votes_received, votereq,
                     granted, counted>>,
         voteresp' \subseteq voteresp
  PROVE  VInv'
<1>1. OneVotePerTerm' /\ VotesRemembered'
  BY DEF VInv, OneVotePerTerm, VotesRemembered
<1>2. AskedOnce' /\ NotYetCounted'
  BY DEF VInv, AskedOnce, NotYetCounted
<1>3. CountedVoted' /\ CountRight'
  BY DEF VInv, CountedVoted, CountRight, HasVote
<1> QED BY <1>1, <1>2, <1>3 DEF VInv

(* A step that moves one node to a newer term as a follower, and sends no  *)
(* vote, keeps the invariant: what was asked or counted is of older terms. *)
LEMMA NewerTermStep ==
  ASSUME TypeOK, TypeOK', VInv, NEW i \in Node,
         current_term'[i] > current_term[i], state'[i] = "FOLLOWER",
         \A k \in Node \ {i} : /\ state'[k] = state[k]
                               /\ current_term'[k] = current_term[k]
                               /\ voted_for'[k] = voted_for[k]
                               /\ votes_received'[k] = votes_received[k],
         UNCHANGED <<votereq, granted, counted>>,
         voteresp' \subseteq voteresp
  PROVE  VInv'
<1>1. OneVotePerTerm'
  BY DEF VInv, OneVotePerTerm
<1>2. VotesRemembered'
  <2> SUFFICES ASSUME NEW g \in granted
               PROVE  /\ g.term <= current_term'[g.voter]
                      /\ g.term = current_term'[g.voter] => voted_for'[g.voter] = g.cand
    BY DEF VotesRemembered
  <2>1. g.voter \in Node /\ g.term \in Nat
    BY DEF TypeOK, VoteRec
  <2>2. /\ g.term <= current_term[g.voter]
        /\ g.term = current_term[g.voter] => voted_for[g.voter] = g.cand
    BY DEF VInv, VotesRemembered
  <2>3. current_term \in [Node -> Nat] /\ current_term' \in [Node -> Nat]
    BY DEF TypeOK
  <2> QED BY <2>1, <2>2, <2>3
<1>3. \A k \in Node : current_term[k] \in Nat /\ current_term'[k] \in Nat
                      /\ current_term[k] <= current_term'[k]
  <2>1. current_term \in [Node -> Nat] /\ current_term' \in [Node -> Nat]
    BY DEF TypeOK
  <2> QED BY <2>1
<1>4. \A m \in votereq : m.from \in Node /\ m.to \in Node /\ m.term \in Nat
  BY DEF TypeOK, VoteReqMsg
<1>5. \A m \in voteresp : m.from \in Node /\ m.to \in Node /\ m.rterm \in Nat
  BY DEF TypeOK, VoteRespMsg
<1>6. AskedOnce'
  BY <1>3, <1>4, <1>5 DEF VInv, AskedOnce
<1>7. NotYetCounted'
  <2>1. ASSUME NEW m \in votereq, m.term = current_term'[m.from]
        PROVE  m.to \notin counted[m.from]
    <3>1. m.term <= current_term[m.from]
      BY DEF VInv, AskedOnce
    <3>2. current_term[m.from] = m.term
      BY <1>3, <1>4, <2>1, <3>1
    <3> QED BY <3>2 DEF VInv, NotYetCounted
  <2>2. ASSUME NEW m \in voteresp', m.rterm = current_term'[m.to]
        PROVE  m.from \notin counted[m.to]
    <3>1. m \in voteresp /\ m.rterm <= current_term[m.to]
      BY DEF VInv, AskedOnce
    <3>2. current_term[m.to] = m.rterm
      BY <1>3, <1>5, <2>2, <3>1
    <3> QED BY <3>1, <3>2 DEF VInv, NotYetCounted
  <2> QED BY <2>1, <2>2 DEF NotYetCounted
<1>8. CountedVoted'
  BY DEF VInv, CountedVoted, HasVote
<1>9. CountRight'
  BY DEF VInv, CountRight
<1> QED BY <1>1, <1>2, <1>6, <1>7, <1>8, <1>9 DEF VInv

-----------------------------------------------------------------------------
(* Starting an election: the self vote is the first of a new term, and the *)
(* requests are the first of that term too.                                *)
LEMMA StartElectionStep ==
  ASSUME TypeOK, VInv, NEW i \in Node, StartElection(i)
  PROVE  VInv'
<1> DEFINE t == current_term[i] + 1
<1>1. /\ current_term \in [Node -> Nat] /\ t \in Nat
      /\ state \in [Node -> State] /\ voted_for \in [Node -> Node \cup {NoVote}]
      /\ votes_received \in [Node -> Nat] /\ counted \in [Node -> SUBSET Node]
  BY DEF TypeOK
<1>2. /\ state' = [state EXCEPT ![i] = "CANDIDATE"]
      /\ current_term' = [current_term EXCEPT ![i] = t]
      /\ voted_for' = [voted_for EXCEPT ![i] = i]
      /\ votes_received' = [votes_received EXCEPT ![i] = 1]
      /\ counted' = [counted EXCEPT ![i] = {i}]
      /\ voteresp' = voteresp
  BY DEF StartElection
<1>3. PICK v : v.voter = i /\ v.cand = i /\ v.term = t /\ granted' = granted \cup {v}
  BY DEF StartElection, Vote
<1>4. \A g \in granted : g.voter \in Node /\ g.cand \in Node /\ g.term \in Nat
  BY DEF TypeOK, VoteRec
<1>5. \A m \in votereq : m.from \in Node /\ m.to \in Node /\ m.term \in Nat
  BY DEF TypeOK, VoteReqMsg
<1>6. \A m \in voteresp : m.from \in Node /\ m.to \in Node /\ m.rterm \in Nat
  BY DEF TypeOK, VoteRespMsg
<1>7. \A m \in votereq' : m \in votereq \/ (m.from = i /\ m.to \in Node \ {i} /\ m.term = t)
  BY DEF StartElection, RequestVotes
<1>8. \A m, n \in votereq' : m \notin votereq /\ n \notin votereq /\ m.to = n.to => m = n
  BY DEF StartElection, RequestVotes
<1>9. OneVotePerTerm'
  BY <1>1, <1>3, <1>4 DEF OneVotePerTerm, VInv, VotesRemembered
<1>10. VotesRemembered'
  BY <1>1, <1>2, <1>3, <1>4 DEF VInv, VotesRemembered
<1>11. AskedOnce'
  <2>1. \A m \in votereq' : m.term <= current_term'[m.from]
    BY <1>1, <1>2, <1>5, <1>7 DEF VInv, AskedOnce
  <2>2. \A m \in voteresp' : m.rterm <= current_term'[m.to]
    BY <1>1, <1>2, <1>6 DEF VInv, AskedOnce
  <2>3. \A m, n \in votereq' :
          m.from = n.from /\ m.to = n.to /\ m.term = n.term => m = n
    BY <1>1, <1>5, <1>7, <1>8 DEF VInv, AskedOnce
  <2>4. \A m \in votereq', n \in voteresp' :
          ~(m.from = n.to /\ m.to = n.from /\ m.term = n.rterm)
    BY <1>1, <1>2, <1>6, <1>7 DEF VInv, AskedOnce
  <2> QED BY <1>2, <2>1, <2>2, <2>3, <2>4 DEF VInv, AskedOnce
<1>12. NotYetCounted'
  <2>1. ASSUME NEW m \in votereq', m.term = current_term'[m.from]
        PROVE  m.to \notin counted'[m.from]
    <3>1. CASE m \in votereq
      <4>1. m.term <= current_term[m.from] /\ m.from \in Node
        BY <1>5, <3>1 DEF VInv, AskedOnce
      <4>2. m.from # i
        BY <1>1, <1>2, <1>5, <2>1, <3>1, <4>1
      <4> QED BY <1>1, <1>2, <2>1, <3>1, <4>1, <4>2 DEF VInv, NotYetCounted
    <3>2. CASE m.from = i /\ m.to \in Node \ {i} /\ m.term = t
      BY <1>1, <1>2, <3>2
    <3> QED BY <1>7, <3>1, <3>2
  <2>2. ASSUME NEW m \in voteresp, m.rterm = current_term'[m.to]
        PROVE  m.from \notin counted'[m.to]
    <3>1. m.rterm <= current_term[m.to] /\ m.to \in Node
      BY <1>6 DEF VInv, AskedOnce
    <3>2. m.to # i
      BY <1>1, <1>2, <1>6, <2>2, <3>1
    <3> QED BY <1>1, <1>2, <2>2, <3>1, <3>2 DEF VInv, NotYetCounted
  <2> QED BY <1>2, <2>1, <2>2 DEF NotYetCounted
<1>13. CountedVoted'
  <2>1. \A m \in voteresp' : m.vote_granted => HasVote(m.from, m.to, m.rterm)'
    BY <1>2, <1>3 DEF VInv, CountedVoted, HasVote
  <2>2. ASSUME NEW k \in Node, state'[k] # "FOLLOWER", NEW u \in counted'[k]
        PROVE  HasVote(u, k, current_term[k])'
    <3>1. CASE k = i
      BY <1>1, <1>2, <1>3, <2>2, <3>1 DEF HasVote
    <3>2. CASE k # i
      BY <1>1, <1>2, <1>3, <2>2, <3>2 DEF VInv, CountedVoted, HasVote
    <3> QED BY <3>1, <3>2
  <2> QED BY <2>1, <2>2 DEF CountedVoted
<1>14. CountRight'
  <2>1. Cardinality({i}) = 1
    BY FS_Singleton
  <2> QED BY <1>1, <1>2, <2>1 DEF VInv, CountRight
<1> QED BY <1>9, <1>10, <1>11, <1>12, <1>13, <1>14 DEF VInv

(* Counting a vote: the voter is a new one, so the counter and the set of  *)
(* counted voters grow together.                                           *)
LEMMA RecordVoteStep ==
  ASSUME TypeOK, VInv, NEW m \in voteresp, RecordVote(m.to, m)
  PROVE  VInv'
<1> DEFINE i == m.to
<1>1. /\ i \in Node /\ m.from \in Node
      /\ state \in [Node -> State] /\ votes_received \in [Node -> Nat]
      /\ counted \in [Node -> SUBSET Node]
  BY DEF TypeOK, VoteRespMsg
<1>2. /\ m.vote_granted /\ m.rterm = current_term[i] /\ state[i] = "CANDIDATE"
      /\ votes_received' = [votes_received EXCEPT ![i] = @ + 1]
      /\ counted' = [counted EXCEPT ![i] = @ \cup {m.from}]
      /\ voteresp' = voteresp \ {m}
      /\ UNCHANGED <<current_term, voted_for, votereq, granted>>
  BY DEF RecordVote
<1>3. IF HasMajority(votes_received[i] + 1)
      THEN state' = [state EXCEPT ![i] = "LEADER"] ELSE state' = state
  BY DEF RecordVote
<1>4. OneVotePerTerm' /\ VotesRemembered'
  BY <1>2 DEF VInv, OneVotePerTerm, VotesRemembered
<1>5. AskedOnce'
  BY <1>2 DEF VInv, AskedOnce
<1>6. NotYetCounted'
  <2>1. ASSUME NEW n \in votereq, n.term = current_term[n.from]
        PROVE  n.to \notin counted'[n.from]
    <3>1. n.from \in Node /\ n.to \notin counted[n.from]
      BY <2>1 DEF VInv, NotYetCounted, TypeOK, VoteReqMsg
    <3>2. ~(n.from = i /\ n.to = m.from)
      BY <1>2, <2>1 DEF VInv, AskedOnce
    <3> QED BY <1>1, <1>2, <3>1, <3>2
  <2>2. ASSUME NEW n \in voteresp', n.rterm = current_term[n.to]
        PROVE  n.from \notin counted'[n.to]
    <3>1. n \in voteresp /\ n # m
      BY <1>2
    <3>2. n.to \in Node /\ n.from \notin counted[n.to]
      BY <2>2, <3>1 DEF VInv, NotYetCounted, TypeOK, VoteRespMsg
    <3>3. ~(n.to = i /\ n.from = m.from)
      BY <1>2, <2>2, <3>1 DEF VInv, AskedOnce
    <3> QED BY <1>1, <1>2, <3>2, <3>3
  <2> QED BY <1>2, <2>1, <2>2 DEF NotYetCounted
<1>7. CountedVoted'
  <2>1. \A n \in voteresp' : n.vote_granted => HasVote(n.from, n.to, n.rterm)'
    BY <1>2 DEF VInv, CountedVoted, HasVote
  <2>2. ASSUME NEW k \in Node, state'[k] # "FOLLOWER", NEW u \in counted'[k]
        PROVE  HasVote(u, k, current_term[k])'
    <3>1. CASE u \in counted[k]
      <4>1. state[k] # "FOLLOWER"
        BY <1>1, <1>2, <1>3, <2>2
      <4> QED BY <1>2, <2>2, <3>1, <4>1 DEF VInv, CountedVoted, HasVote
    <3>2. CASE k = i /\ u = m.from
      BY <1>2, <3>2 DEF VInv, CountedVoted, HasVote
    <3> QED BY <1>1, <1>2, <2>2, <3>1, <3>2
  <2> QED BY <2>1, <2>2 DEF CountedVoted
<1>8. CountRight'
  <2>1. counted[i] \subseteq Node /\ IsFiniteSet(counted[i])
    BY <1>1, NodeAssumption, FS_Subset
  <2>2. m.from \notin counted[i]
    BY <1>2 DEF VInv, NotYetCounted
  <2>3. Cardinality(counted[i] \cup {m.from}) = Cardinality(counted[i]) + 1
    BY <2>1, <2>2, FS_AddElement
  <2>4. Cardinality(counted[i]) = votes_received[i] /\ votes_received[i] \in Nat
    BY <1>1, <1>2 DEF VInv, CountRight
  <2>5. HasMajority(votes_received[i] + 1) => 2 * (votes_received[i] + 1) > MAX_NODES
    BY <2>4, NodeAssumption DEF HasMajority
  <2>6. /\ Cardinality(counted'[i]) = votes_received'[i]
        /\ state'[i] = "LEADER" => 2 * Cardinality(counted'[i]) > MAX_NODES
    <3>1. counted'[i] = counted[i] \cup {m.from} /\ votes_received'[i] = votes_received[i] + 1
      BY <1>1, <1>2
    <3>2. state'[i] = "LEADER" => HasMajority(votes_received[i] + 1)
      BY <1>1, <1>2, <1>3
    <3> QED BY <2>3, <2>4, <2>5, <3>1, <3>2
  <2>7. \A k \in Node \ {i} : /\ state'[k] = state[k] /\ counted'[k] = counted[k]
                             /\ votes_received'[k] = votes_received[k]
    BY <1>1, <1>2, <1>3
  <2> QED BY <2>6, <2>7 DEF VInv, CountRight
<1> QED BY <1>4, <1>5, <1>6, <1>7, <1>8 DEF VInv

-----------------------------------------------------------------------------
(* Answering a vote request: a vote is given in a new term, or again to    *)
(* the candidate voted_for names.  Only here it matters that no node has   *)
(* the id that stands for "no vote".                                       *)
LEMMA HandleRequestVoteStep ==
  ASSUME TypeOK, TypeOK', VInv, NoVote \notin Node,
         NEW m \in votereq, HandleRequestVote(m.to, m)
  PROVE  VInv'
<1> DEFINE i == m.to
           grant == VoteGranted(i, m)
<1>1. /\ i \in Node /\ m.from \in Node /\ m.term \in Nat
      /\ current_term \in [Node -> Nat] /\ state \in [Node -> State]
      /\ voted_for \in [Node -> Node \cup {NoVote}]
  BY DEF TypeOK, VoteReqMsg
<1>2. /\ current_term' = [current_term EXCEPT ![i] = IF m.term > @ THEN m.term ELSE @]
      /\ state' = [state EXCEPT ![i] = IF m.term > current_term[i] THEN "FOLLOWER" ELSE @]
      /\ voted_for' = [voted_for EXCEPT ![i] = IF grant THEN m.from ELSE VotedFor(i, m.term)]
      /\ votereq' = votereq \ {m}
      /\ UNCHANGED <<votes_received, counted>>
  BY DEF HandleRequestVote, SeeTerm
<1>3. PICK r : /\ r.from = i /\ r.to = m.from /\ r.rterm = m.term
               /\ r.vote_granted = grant
               /\ voteresp' = voteresp \cup {r}
  BY DEF HandleRequestVote
<1>4. PICK v : /\ v.voter = i /\ v.cand = m.from /\ v.term = m.term
               /\ granted' = IF grant THEN granted \cup {v} ELSE granted
  BY DEF HandleRequestVote, Vote
<1>5. \A k \in Node : /\ current_term[k] \in Nat /\ current_term'[k] \in Nat
                      /\ current_term[k] <= current_term'[k]
                      /\ current_term'[k] # current_term[k] => state'[k] = "FOLLOWER"
                      /\ state'[k] # "FOLLOWER" => state'[k] = state[k]
  BY <1>1, <1>2
<1>6. grant => m.term = current_term'[i]
  BY <1>1, <1>2 DEF VoteGranted
<1>7. ASSUME NEW g \in granted, g.voter = i, g.term = m.term, grant
      PROVE  g.cand = m.from
  <2>1. g.cand \in Node /\ g.term <= current_term[i]
    BY <1>7 DEF VInv, VotesRemembered, TypeOK, VoteRec
  <2>2. m.term = current_term[i]
    BY <1>1, <1>7, <2>1 DEF VoteGranted
  <2>3. voted_for[i] = g.cand
    BY <1>7, <2>2 DEF VInv, VotesRemembered
  <2>4. VotedFor(i, m.term) = voted_for[i]
    BY <1>1, <2>2 DEF VotedFor
  <2> QED BY <1>7, <2>1, <2>3, <2>4 DEF VoteGranted
<1>8. OneVotePerTerm'
  BY <1>4, <1>7 DEF VInv, OneVotePerTerm
<1>9. VotesRemembered'
  <2>1. ASSUME NEW g \in granted
        PROVE  /\ g.term <= current_term'[g.voter]
               /\ g.term = current_term'[g.voter] => voted_for'[g.voter] = g.cand
    <3>1. /\ g.voter \in Node /\ g.term \in Nat /\ g.term <= current_term[g.voter]
          /\ g.term = current_term[g.voter] => voted_for[g.voter] = g.cand
      BY DEF VInv, VotesRemembered, TypeOK, VoteRec
    <3>2. CASE g.voter # i
      BY <1>1, <1>2, <3>1, <3>2
    <3>3. CASE g.voter = i /\ g.term = current_term'[i]
      <4>1. g.term = current_term[i] /\ current_term'[i] = current_term[i]
        BY <1>1, <1>5, <3>1, <3>3
      <4>2. ~(m.term > current_term[i])
        BY <1>1, <1>2, <4>1
      <4>3. CASE grant
        <5>1. m.term = g.term
          BY <1>6, <4>1, <4>3
        <5> QED BY <1>1, <1>2, <1>7, <3>1, <3>3, <4>3, <5>1
      <4>4. CASE ~grant
        BY <1>1, <1>2, <3>1, <3>3, <4>1, <4>2, <4>4 DEF VotedFor
      <4> QED BY <4>3, <4>4
    <3>4. CASE g.voter = i /\ g.term # current_term'[i]
      BY <1>1, <1>5, <3>1, <3>4
    <3> QED BY <3>2, <3>3, <3>4
  <2>2. ASSUME grant
        PROVE  v.term <= current_term'[v.voter] /\ voted_for'[v.voter] = v.cand
    BY <1>1, <1>2, <1>4, <1>5, <1>6, <2>2
  <2> QED BY <1>4, <2>1, <2>2 DEF VotesRemembered
<1>10. \A n \in votereq : n.from \in Node /\ n.term \in Nat
                          /\ n.term <= current_term[n.from]
  BY DEF VInv, AskedOnce, TypeOK, VoteReqMsg
<1>11. \A n \in voteresp : n.to \in Node /\ n.rterm \in Nat
                           /\ n.rterm <= current_term[n.to]
  BY DEF VInv, AskedOnce, TypeOK, VoteRespMsg
<1>12. AskedOnce'
  <2>1. \A n \in votereq' : n.term <= current_term'[n.from]
    BY <1>2, <1>5, <1>10
  <2>2. \A n \in voteresp' : n.rterm <= current_term'[n.to]
    BY <1>3, <1>5, <1>10, <1>11
  <2>3. \A n, o \in voteresp' :
          n.from = o.from /\ n.to = o.to /\ n.rterm = o.rterm => n = o
    BY <1>3 DEF VInv, AskedOnce
  <2>4. \A n, o \in votereq' :
          n.from = o.from /\ n.to = o.to /\ n.term = o.term => n = o
    BY <1>2 DEF VInv, AskedOnce
  <2>5. \A n \in votereq', o \in voteresp' :
          ~(n.from = o.to /\ n.to = o.from /\ n.term = o.rterm)
    BY <1>2, <1>3 DEF VInv, AskedOnce
  <2> QED BY <2>1, <2>2, <2>3, <2>4, <2>5 DEF AskedOnce
<1>13. NotYetCounted'
  <2>1. ASSUME NEW n \in votereq, n.term = current_term'[n.from]
        PROVE  n.to \notin counted'[n.from]
    <3>1. n.term = current_term[n.from]
      BY <1>5, <1>10, <2>1
    <3> QED BY <1>2, <3>1 DEF VInv, NotYetCounted
  <2>2. ASSUME NEW n \in voteresp, n.rterm = current_term'[n.to]
        PROVE  n.from \notin counted'[n.to]
    <3>1. n.rterm = current_term[n.to]
      BY <1>5, <1>11, <2>2
    <3> QED BY <1>2, <3>1 DEF VInv, NotYetCounted
  <2> QED BY <1>2, <1>3, <2>1, <2>2 DEF NotYetCounted
<1>14. CountedVoted'
  <2>1. \A n \in voteresp' : n.vote_granted => HasVote(n.from, n.to, n.rterm)'
    BY <1>3, <1>4 DEF VInv, CountedVoted, HasVote
  <2>2. ASSUME NEW k \in Node, state'[k] # "FOLLOWER", NEW u \in counted'[k]
        PROVE  HasVote(u, k, current_term[k])'
    <3>1. state[k] # "FOLLOWER" /\ current_term'[k] = current_term[k]
      BY <1>5, <2>2
    <3> QED BY <1>2, <1>4, <2>2, <3>1 DEF VInv, CountedVoted, HasVote
  <2> QED BY <2>1, <2>2 DEF CountedVoted
<1>15. CountRight'
  BY <1>2, <1>5 DEF VInv, CountRight
<1> QED BY <1>8, <1>9, <1>12, <1>13, <1>14, <1>15 DEF VInv

(* raft_become_follower for a newer term: the node hangs and nothing else  *)
(* changes, or it is a follower of the newer term.                         *)
LEMMA BecomeFollowerStep ==
  ASSUME TypeOK, TypeOK', VInv, NEW i \in Node, NEW term \in Nat,
         term > current_term[i], BecomeFollower(i, term),
         UNCHANGED <<votereq, granted, counted>>, voteresp' \subseteq voteresp
  PROVE  VInv'
<1>1. CASE UNCHANGED nodeVars
  BY <1>1, SilentStep DEF nodeVars
<1>2. CASE /\ state' = [state EXCEPT ![i] = "FOLLOWER"]
           /\ current_term' = [current_term EXCEPT ![i] = term]
           /\ voted_for' = [voted_for EXCEPT ![i] = NoVote]
           /\ votes_received' = [votes_received EXCEPT ![i] = 0]
  <2>1. /\ current_term'[i] > current_term[i] /\ state'[i] = "FOLLOWER"
        /\ \A k \in Node \ {i} : /\ state'[k] = state[k]
                                /\ current_term'[k] = current_term[k]
                                /\ voted_for'[k] = voted_for[k]
                                /\ votes_received'[k] = votes_received[k]
    BY <1>2 DEF TypeOK
  <2> QED BY <2>1, NewerTermStep
<1> QED BY <1>1, <1>2, Zenon DEF BecomeFollower

(* Every step keeps the invariant.                                         *)
LEMMA VInvStep ==
  ASSUME NoVote \notin Node, TypeOK, VInv, [Next]_vars
  PROVE  VInv'
<1>0. TypeOK'
  BY TypeStep
<1> USE DEF nodeVars, batcherVars, voteVars
<1>1. ASSUME NEW i \in Node, HandleClientCommand(i) \/ AddCommand(i)
                              \/ CreateClientEntry(i) \/ ProcessRaftBatch(i)
      PROVE  VInv'
  BY <1>1, SilentStep
  DEF HandleClientCommand, AddCommand, CreateClientEntry, ProcessRaftBatch
<1>9. ASSUME NEW e \in made, AppendEntry(e) PROVE VInv'
  BY <1>9, SilentStep DEF AppendEntry
<1>2. ASSUME NEW i \in Node, NEW j \in Node, SendAppendEntries(i, j) PROVE VInv'
  BY <1>2, SilentStep DEF SendAppendEntries
<1>3. ASSUME NEW m \in voteresp, IgnoreVoteResponse(m.to, m) PROVE VInv'
  BY <1>3, SilentStep DEF IgnoreVoteResponse
<1>4. ASSUME NEW m \in voteresp, StepDownOnVoteResponse(m.to, m) PROVE VInv'
  <2>1. m.to \in Node /\ m.term \in Nat
    BY DEF TypeOK, VoteRespMsg
  <2> QED BY <1>0, <1>4, <2>1, BecomeFollowerStep DEF StepDownOnVoteResponse, HigherTerm
<1>5. ASSUME NEW m \in aereq, HandleAppendEntries(m.to, m) PROVE VInv'
  <2> DEFINE i == m.to
  <2>1. i \in Node /\ m.term \in Nat
    BY DEF TypeOK, AppendReqMsg
  <2>2. CASE m.term > current_term[i]
    <3>1. /\ current_term'[i] > current_term[i] /\ state'[i] = "FOLLOWER"
          /\ \A k \in Node \ {i} : /\ state'[k] = state[k]
                                  /\ current_term'[k] = current_term[k]
                                  /\ voted_for'[k] = voted_for[k]
                                  /\ votes_received'[k] = votes_received[k]
      BY <1>5, <2>1, <2>2 DEF HandleAppendEntries, SeeTerm, TypeOK
    <3>2. UNCHANGED <<votereq, granted, counted>> /\ voteresp' \subseteq voteresp
      BY <1>5 DEF HandleAppendEntries
    <3> QED BY <1>0, <2>1, <3>1, <3>2, NewerTermStep
  <2>3. CASE ~(m.term > current_term[i])
    <3>1. state' = state /\ current_term' = current_term /\ voted_for' = voted_for
      BY <1>5, <2>1, <2>3 DEF HandleAppendEntries, SeeTerm, VotedFor, TypeOK
    <3> QED BY <1>5, <3>1, SilentStep DEF HandleAppendEntries
  <2> QED BY <2>2, <2>3
<1>6. ASSUME NEW m \in aeresp, IgnoreAppendResponse(m.to, m) PROVE VInv'
  BY <1>6, SilentStep DEF IgnoreAppendResponse
<1>7. ASSUME NEW m \in aeresp, StepDownOnAppendResponse(m.to, m) PROVE VInv'
  <2>1. m.to \in Node /\ m.term \in Nat
    BY DEF TypeOK, AppendRespMsg
  <2> QED BY <1>0, <1>7, <2>1, BecomeFollowerStep DEF StepDownOnAppendResponse, HigherTerm
<1>8. CASE UNCHANGED vars
  BY <1>8, SilentStep DEF vars
<1> QED BY <1>0, <1>1, <1>2, <1>3, <1>4, <1>5, <1>6, <1>7, <1>8, <1>9, StartElectionStep,
           RecordVoteStep, HandleRequestVoteStep DEF Next

(* The initial state satisfies the invariant on votes. *)
LEMMA VInvInit == Init => VInv
<1> SUFFICES ASSUME Init PROVE VInv
  OBVIOUS
<1>1. OneVotePerTerm /\ VotesRemembered /\ AskedOnce
  BY DEF Init, OneVotePerTerm, VotesRemembered, AskedOnce
<1>2. NotYetCounted /\ CountedVoted /\ CountRight
  BY DEF Init, NotYetCounted, CountedVoted, CountRight
<1> QED BY <1>1, <1>2 DEF VInv

(* Two leaders of one term would each have counted the votes of more than  *)
(* half of MAX_NODES, hence one voter twice in that term.                  *)
LEMMA VInvImpliesElectionSafety ==
  ASSUME TypeOK, VInv PROVE ElectionSafety
<1> SUFFICES ASSUME NEW i \in Node, NEW j \in Node,
                    state[i] = "LEADER", state[j] = "LEADER",
                    current_term[i] = current_term[j]
             PROVE  i = j
  BY DEF ElectionSafety
<1>1. counted[i] \subseteq Node /\ counted[j] \subseteq Node
  BY DEF TypeOK
<1>2. /\ Cardinality(counted[i]) \in Nat /\ Cardinality(counted[j]) \in Nat
      /\ Cardinality(Node) \in Nat
  BY <1>1, NodeAssumption, FS_Subset, FS_CardinalityType
<1>3. 2 * Cardinality(counted[i]) > MAX_NODES /\ 2 * Cardinality(counted[j]) > MAX_NODES
  BY DEF VInv, CountRight
<1>4. Cardinality(counted[i]) + Cardinality(counted[j]) > Cardinality(Node)
  BY <1>2, <1>3, NodeAssumption
<1>5. PICK u : u \in counted[i] /\ u \in counted[j]
  BY <1>1, <1>4, NodeAssumption, FS_MajoritiesIntersect
<1>6. HasVote(u, i, current_term[i]) /\ HasVote(u, j, current_term[j])
  BY <1>5 DEF VInv, CountedVoted
<1> QED BY <1>6 DEF VInv, OneVotePerTerm, HasVote

(* At most one leader per term, for every cluster no larger than MAX_NODES *)
(* in which no node has the id 0: raft_handle_request_vote and             *)
(* raft_record_vote are right in every interleaving of the nodes.          *)
THEOREM ElectionSafe ==
  ASSUME NoVote \notin Node
  PROVE  Spec => []ElectionSafety
<1>1. Init => TypeOK /\ VInv
  BY TypeInit, VInvInit
<1>2. TypeOK /\ VInv /\ [Next]_vars => (TypeOK /\ VInv)'
  BY TypeStep, VInvStep
<1>3. TypeOK /\ VInv => ElectionSafety
  BY VInvImpliesElectionSafety
<1> QED BY <1>1, <1>2, <1>3, PTL DEF Spec

(* raft_handle_request_vote never gives the votes of one term to two       *)
(* candidates, for every cluster in which no node has the id 0.            *)
THEOREM VotesOnce ==
  ASSUME NoVote \notin Node
  PROVE  Spec => []OneVotePerTerm
<1>1. Init => TypeOK /\ VInv
  BY TypeInit, VInvInit
<1>2. TypeOK /\ VInv /\ [Next]_vars => (TypeOK /\ VInv)'
  BY TypeStep, VInvStep
<1>3. TypeOK /\ VInv => OneVotePerTerm
  BY DEF VInv
<1> QED BY <1>1, <1>2, <1>3, PTL DEF Spec

-----------------------------------------------------------------------------
(* What VoteStable says of one step.                                       *)
VoteKept ==
    \A i \in Node :
        /\ current_term'[i] >= current_term[i]
        /\ current_term'[i] = current_term[i] /\ voted_for[i] # NoVote
           => voted_for'[i] = voted_for[i]

(* raft_become_follower for a newer term forgets only a vote of an older.  *)
LEMMA BecomeFollowerKept ==
  ASSUME TypeOK, NEW i \in Node, NEW term \in Nat,
         term > current_term[i], BecomeFollower(i, term)
  PROVE  VoteKept
<1>1. CASE UNCHANGED nodeVars
  BY <1>1 DEF nodeVars, VoteKept, TypeOK
<1>2. CASE /\ current_term' = [current_term EXCEPT ![i] = term]
           /\ voted_for' = [voted_for EXCEPT ![i] = NoVote]
  BY <1>2 DEF VoteKept, TypeOK
<1> QED BY <1>1, <1>2, Zenon DEF BecomeFollower

(* Every step keeps the terms and the votes.                               *)
LEMMA VoteKeptStep ==
  ASSUME TypeOK, [Next]_vars
  PROVE  VoteKept
<1> USE DEF nodeVars, voteVars
<1>0. ASSUME UNCHANGED <<current_term, voted_for>> PROVE VoteKept
  BY <1>0 DEF VoteKept, TypeOK
<1>1. ASSUME NEW i \in Node, StartElection(i) PROVE VoteKept
  BY <1>1 DEF StartElection, VoteKept, TypeOK
<1>2. ASSUME NEW i \in Node, HandleClientCommand(i) \/ AddCommand(i)
                              \/ CreateClientEntry(i) \/ ProcessRaftBatch(i)
      PROVE  VoteKept
  BY <1>0, <1>2 DEF HandleClientCommand, AddCommand, CreateClientEntry, ProcessRaftBatch
<1>11. ASSUME NEW e \in made, AppendEntry(e) PROVE VoteKept
  BY <1>0, <1>11 DEF AppendEntry
<1>3. ASSUME NEW i \in Node, NEW j \in Node, SendAppendEntries(i, j) PROVE VoteKept
  BY <1>0, <1>3 DEF SendAppendEntries
<1>4. ASSUME NEW m \in votereq, HandleRequestVote(m.to, m) PROVE VoteKept
  <2>1. m.to \in Node /\ m.term \in Nat
    BY DEF TypeOK, VoteReqMsg
  <2> QED BY <1>4, <2>1 DEF HandleRequestVote, SeeTerm, VoteGranted, VotedFor, VoteKept, TypeOK
<1>5. ASSUME NEW m \in voteresp, RecordVote(m.to, m) \/ IgnoreVoteResponse(m.to, m)
      PROVE  VoteKept
  BY <1>0, <1>5 DEF RecordVote, IgnoreVoteResponse
<1>6. ASSUME NEW m \in voteresp, StepDownOnVoteResponse(m.to, m) PROVE VoteKept
  <2>1. m.to \in Node /\ m.term \in Nat
    BY DEF TypeOK, VoteRespMsg
  <2> QED BY <1>6, <2>1, BecomeFollowerKept DEF StepDownOnVoteResponse, HigherTerm
<1>7. ASSUME NEW m \in aereq, HandleAppendEntries(m.to, m) PROVE VoteKept
  <2>1. m.to \in Node /\ m.term \in Nat
    BY DEF TypeOK, AppendReqMsg
  <2> QED BY <1>7, <2>1 DEF HandleAppendEntries, SeeTerm, VotedFor, VoteKept, TypeOK
<1>8. ASSUME NEW m \in aeresp, IgnoreAppendResponse(m.to, m) PROVE VoteKept
  BY <1>0, <1>8 DEF IgnoreAppendResponse
<1>9. ASSUME NEW m \in aeresp, StepDownOnAppendResponse(m.to, m) PROVE VoteKept
  <2>1. m.to \in Node /\ m.term \in Nat
    BY DEF TypeOK, AppendRespMsg
  <2> QED BY <1>9, <2>1, BecomeFollowerKept DEF StepDownOnAppendResponse, HigherTerm
<1>10. CASE UNCHANGED vars
  BY <1>0, <1>10 DEF vars
<1> QED BY <1>1, <1>2, <1>3, <1>4, <1>5, <1>6, <1>7, <1>8, <1>9, <1>10, <1>11 DEF Next

(* No handler moves a node back in term or takes a vote back within one,   *)
(* for every cluster, also one with a node 0.                              *)
THEOREM VotesStable == Spec => VoteStable
<1>1. TypeOK /\ [Next]_vars => [VoteKept]_vars
  BY VoteKeptStep
<1> QED BY <1>1, TypeCorrect, PTL DEF Spec, VoteStable, VoteKept

-----------------------------------------------------------------------------
(* What the log comparison of the vote rests on: a candidate has the log   *)
(* its request describes, or has added to it.                              *)
Describes(m) ==
    /\ m.last_log_index \in 0 .. Len(log[m.from])
    /\ TermAt(log[m.from], m.last_log_index) = m.last_log_term

LInv == (\A m \in votereq : Describes(m)) /\ VoterNotAhead

(* Appending to a log leaves the terms of its entries alone.               *)
LEMMA AppendKeepsTerms ==
  ASSUME NEW l \in Seq(Nat), NEW t \in Nat, NEW k \in 0 .. Len(l)
  PROVE  k \in 0 .. Len(Append(l, t)) /\ TermAt(Append(l, t), k) = TermAt(l, k)
<1>1. Len(l) \in Nat /\ Len(Append(l, t)) = Len(l) + 1
  OBVIOUS
<1>2. CASE k = 0
  BY <1>1, <1>2 DEF TermAt
<1>3. CASE k > 0
  <2>1. k \in 1 .. Len(l)
    BY <1>1, <1>3
  <2>2. Append(l, t)[k] = l[k]
    BY <2>1
  <2> QED BY <1>1, <1>3, <2>2 DEF TermAt
<1> QED BY <1>1, <1>2, <1>3

(* A step that asks for no vote, gives none and touches no log keeps LInv. *)
LEMMA LogsKept ==
  ASSUME LInv, log' = log, granted' = granted, votereq' \subseteq votereq
  PROVE  LInv'
BY DEF LInv, Describes, VoterNotAhead

(* raft_append_entry adds to a log, whatever the term of the entry.        *)
LEMMA AppendKept ==
  ASSUME TypeOK, LInv, NEW e \in made, AppendEntry(e)
  PROVE  LInv'
<1>1. /\ e.node \in Node /\ e.term \in Nat /\ log \in [Node -> Seq(Nat)]
      /\ \A m \in votereq : m.from \in Node
      /\ \A g \in granted : g.cand \in Node
  BY DEF TypeOK, EntryRec, VoteReqMsg, VoteRec
<1>2. /\ log' = [log EXCEPT ![e.node] = Append(@, e.term)]
      /\ votereq' = votereq /\ granted' = granted
  BY DEF AppendEntry, voteVars
<1>3. ASSUME NEW n \in Node, NEW k \in 0 .. Len(log[n])
      PROVE  k \in 0 .. Len(log'[n]) /\ TermAt(log'[n], k) = TermAt(log[n], k)
  <2>1. log[n] \in Seq(Nat)
    BY <1>1
  <2>2. CASE n = e.node
    <3>1. log'[n] = Append(log[n], e.term)
      BY <1>1, <1>2, <2>2
    <3> QED BY <1>1, <2>1, <3>1, AppendKeepsTerms
  <2>3. CASE n # e.node
    <3>1. log'[n] = log[n]
      BY <1>1, <1>2, <2>3
    <3> QED BY <3>1
  <2> QED BY <2>2, <2>3
<1>4. ASSUME NEW m \in votereq PROVE Describes(m)'
  <2>1. Describes(m)
    BY DEF LInv
  <2> QED BY <1>1, <1>3, <2>1 DEF Describes
<1>5. ASSUME NEW g \in granted
      PROVE  WasUpToDate(log'[g.cand], g.last_term, g.last_idx)
  <2>1. PICK k \in 0 .. Len(log[g.cand]) :
          UpToDate(TermAt(log[g.cand], k), k, g.last_term, g.last_idx)
    BY DEF LInv, VoterNotAhead, WasUpToDate
  <2> QED BY <1>1, <1>3, <2>1 DEF WasUpToDate
<1> QED BY <1>2, <1>4, <1>5 DEF LInv, VoterNotAhead

(* Every step keeps LInv.                                                  *)
LEMMA LInvStep ==
  ASSUME TypeOK, LInv, [Next]_vars
  PROVE  LInv'
<1> USE DEF nodeVars, batcherVars, voteVars
<1>1. /\ log \in [Node -> Seq(Nat)]
      /\ \A k \in Node : /\ LastTerm(log[k]) \in Nat /\ Len(log[k]) \in Nat
                         /\ Len(log[k]) \in 0 .. Len(log[k])
                         /\ TermAt(log[k], Len(log[k])) = LastTerm(log[k])
  BY LastTermType DEF TypeOK, LastTerm
<1>2. ASSUME log' = log, granted' = granted, votereq' \subseteq votereq PROVE LInv'
  BY <1>2, LogsKept
<1>3. ASSUME NEW i \in Node, StartElection(i) PROVE LInv'
  <2>1. log' = log
    BY <1>3 DEF StartElection
  <2>2. ASSUME NEW m \in votereq' PROVE Describes(m)'
    <3>1. \/ m \in votereq
          \/ /\ m.from = i /\ m.last_log_term = LastTerm(log[i])
             /\ m.last_log_index = Len(log[i])
      BY <1>3 DEF StartElection, RequestVotes
    <3> QED BY <1>1, <2>1, <3>1 DEF LInv, Describes
  <2>3. ASSUME NEW g \in granted'
        PROVE  WasUpToDate(log[g.cand], g.last_term, g.last_idx)
    <3>1. CASE g \in granted
      BY <3>1 DEF LInv, VoterNotAhead
    <3>2. CASE g \notin granted
      <4>1. g.cand = i /\ g.last_term = LastTerm(log[i]) /\ g.last_idx = Len(log[i])
        BY <1>3, <3>2 DEF StartElection, Vote
      <4>2. UpToDate(LastTerm(log[i]), Len(log[i]), g.last_term, g.last_idx)
        BY <1>1, <4>1 DEF UpToDate
      <4> QED BY <1>1, <4>1, <4>2 DEF WasUpToDate
    <3> QED BY <3>1, <3>2
  <2> QED BY <2>1, <2>2, <2>3 DEF LInv, VoterNotAhead
<1>4. ASSUME NEW i \in Node, HandleClientCommand(i) \/ AddCommand(i)
                              \/ CreateClientEntry(i) \/ ProcessRaftBatch(i)
      PROVE  LInv'
  BY <1>2, <1>4 DEF HandleClientCommand, AddCommand, CreateClientEntry, ProcessRaftBatch
<1>11. ASSUME NEW e \in made, AppendEntry(e) PROVE LInv'
  BY <1>11, AppendKept
<1>5. ASSUME NEW i \in Node, NEW j \in Node, SendAppendEntries(i, j) PROVE LInv'
  BY <1>2, <1>5 DEF SendAppendEntries
<1>6. ASSUME NEW m \in votereq, HandleRequestVote(m.to, m) PROVE LInv'
  <2> DEFINE i == m.to
  <2>1. log' = log /\ votereq' \subseteq votereq
    BY <1>6 DEF HandleRequestVote
  <2>2. ASSUME NEW n \in votereq' PROVE Describes(n)'
    BY <2>1 DEF LInv, Describes
  <2>3. ASSUME NEW g \in granted', g \notin granted
        PROVE  WasUpToDate(log[g.cand], g.last_term, g.last_idx)
    <3>1. /\ g.cand = m.from /\ g.last_term = LastTerm(log[i]) /\ g.last_idx = Len(log[i])
          /\ VoteGranted(i, m)
      BY <1>6, <2>3 DEF HandleRequestVote, Vote
    <3>2. UpToDate(m.last_log_term, m.last_log_index, g.last_term, g.last_idx)
      BY <3>1 DEF VoteGranted
    <3>3. /\ m.last_log_index \in 0 .. Len(log[m.from])
          /\ TermAt(log[m.from], m.last_log_index) = m.last_log_term
      BY DEF LInv, Describes
    <3> QED BY <3>1, <3>2, <3>3 DEF WasUpToDate
  <2>4. VoterNotAhead'
    BY <2>1, <2>3 DEF LInv, VoterNotAhead
  <2> QED BY <2>2, <2>4 DEF LInv
<1>7. ASSUME NEW m \in voteresp, RecordVote(m.to, m) \/ IgnoreVoteResponse(m.to, m)
                                  \/ StepDownOnVoteResponse(m.to, m)
      PROVE  LInv'
  BY <1>2, <1>7 DEF RecordVote, IgnoreVoteResponse, StepDownOnVoteResponse
<1>8. ASSUME NEW m \in aereq, HandleAppendEntries(m.to, m) PROVE LInv'
  BY <1>2, <1>8 DEF HandleAppendEntries
<1>9. ASSUME NEW m \in aeresp, IgnoreAppendResponse(m.to, m) \/ StepDownOnAppendResponse(m.to, m)
      PROVE  LInv'
  BY <1>2, <1>9 DEF IgnoreAppendResponse, StepDownOnAppendResponse
<1>10. CASE UNCHANGED vars
  BY <1>2, <1>10 DEF vars
<1> QED BY <1>3, <1>4, <1>5, <1>6, <1>7, <1>8, <1>9, <1>10, <1>11 DEF Next

(* Whoever has won a vote has, or has had, a log not behind the voter's,   *)
(* in every cluster: the request describes a log the candidate did have,   *)
(* and entries are only added, with the term they were made with.  So the  *)
(* candidate may well end in an older term than the one it asked with when *)
(* it becomes leader; only its log up to that entry is as it was.          *)
THEOREM VotersNotAhead == Spec => []VoterNotAhead
<1>1. Init => LInv
  BY DEF Init, LInv, VoterNotAhead
<1>2. TypeOK /\ LInv /\ [Next]_vars => LInv'
  BY LInvStep
<1>3. LInv => VoterNotAhead
  BY DEF LInv
<1> QED BY <1>1, <1>2, <1>3, TypeCorrect, PTL DEF Spec

-----------------------------------------------------------------------------
(* The election timer.                                                     *)

(* Whole seconds, as the provers need them.                                *)
LEMMA Seconds ==
    ASSUME NEW t \in Nat
    PROVE  Second(t) \in Nat /\ Second(t) \in 0 .. Second(t)
BY DEF Second

LEMMA LaterSecond ==
    ASSUME NEW t \in Nat, NEW d \in Nat
    PROVE  Second(t) <= Second(t + d)
BY DEF Second

(* A missed heartbeat never takes the timeout out of its bounds.           *)
LEMMA LongerBounds ==
    ASSUME NEW t \in min_timeout .. max_timeout
    PROVE  Longer(t) \in min_timeout .. max_timeout
<1>1. t \in Nat /\ min_timeout \in Nat /\ max_timeout \in Nat
  BY TimerAssumption
<1>2. (3 * t) \div 2 \in Nat /\ (3 * t) \div 2 >= t
  BY <1>1
<1> QED
  BY <1>1, <1>2, TimerAssumption DEF Longer

(* Neither does a measured round trip.                                     *)
LEMMA ClampBounds ==
    ASSUME NEW t \in Nat
    PROVE  Clamp(t) \in min_timeout .. max_timeout
BY TimerAssumption DEF Clamp

RpcType == [pc : {"new", "started", "ended", "measured"}, start : 0 .. now, end : 0 .. now]

(* last_request is the start of the RPC that started last.                 *)
LastStart ==
    /\ \A c \in RPC : rpc[c].start <= last_request
    /\ \A c \in RPC : rpc[c].pc # "new" => \E d \in RPC : rpc[d].start = last_request

TInv == TimerTypeOK /\ LastStart

(* The initial states satisfy the invariant.                               *)
LEMMA TInvInit == TimerInit => TInv
<1> SUFFICES ASSUME TimerInit PROVE TInv
  OBVIOUS
<1>1. now \in Nat
  BY TimerAssumption DEF TimerInit
<1>2. TimerTypeOK
  <2>1. last_heartbeat \in 0 .. Second(now)
    BY <1>1, Seconds DEF TimerInit
  <2>2. /\ role \in {"FOLLOWER", "CANDIDATE", "LEADER"} /\ resetting \in BOOLEAN
        /\ missed \subseteq {"timeout", "status"}
    BY DEF TimerInit
  <2>4. current_timeout \in min_timeout .. max_timeout
    BY TimerAssumption DEF TimerInit
  <2>5. last_request \in 0 .. now
    BY <1>1 DEF TimerInit
  <2>3. rpc \in [RPC -> RpcType]
    BY <1>1 DEF TimerInit, RpcType
  <2> QED
    BY <1>1, <2>1, <2>2, <2>3, <2>4, <2>5 DEF TimerTypeOK, RpcType
<1>4. LastStart
  BY <1>1 DEF TimerInit, LastStart
<1> QED
  BY <1>2, <1>4 DEF TInv

(* An RPC remains one while the clock moves.                               *)
LEMMA TicksKeepType ==
    ASSUME NEW S, NEW T, S \subseteq T
    PROVE  [pc : {"new", "started", "ended", "measured"}, start : S, end : S]
             \subseteq [pc : {"new", "started", "ended", "measured"}, start : T, end : T]
OBVIOUS

(* The steps of an RPC keep last_request the start of the last.            *)
LEMMA RpcKeeps ==
    ASSUME TimerTypeOK, LastStart, NEW c \in RPC,
           RpcStart(c) \/ RpcClock(c) \/ \E t \in Computed : RpcEnd(c, t)
    PROVE  TimerTypeOK' /\ LastStart'
<1> USE TimerAssumption
<1>0. /\ now \in Nat /\ last_request \in 0 .. now /\ rpc \in [RPC -> RpcType]
      /\ \A d \in RPC : rpc[d].start \in 0 .. now /\ rpc[d] \in RpcType
  BY DEF TimerTypeOK, RpcType
<1>1. CASE RpcStart(c)
  <2> DEFINE new == [pc |-> "started", start |-> now, end |-> 0]
  <2>1. last_request' = now /\ rpc' = [rpc EXCEPT ![c] = new]
    BY <1>1 DEF RpcStart
  <2>2. new \in RpcType /\ new.start = now
    BY <1>0 DEF RpcType
  <2> HIDE DEF new
  <2>3. rpc' \in [RPC -> RpcType]
    BY <1>0, <2>1, <2>2
  <2>4. TimerTypeOK'
    BY <1>0, <1>1, <2>1, <2>3 DEF RpcStart, TimerTypeOK, RpcType, heartbeatVars
  <2>5. rpc'[c] = new /\ \A d \in RPC : d # c => rpc'[d] = rpc[d]
    BY <1>0, <2>1
  <2>6. LastStart'
    BY <1>0, <2>1, <2>2, <2>5 DEF LastStart
  <2> QED
    BY <1>1, <2>4, <2>6 DEF RpcStart
<1>2. CASE RpcClock(c) \/ \E t \in Computed : RpcEnd(c, t)
  <2>4. /\ rpc' \in [RPC -> RpcType]
        /\ \A d \in RPC : rpc'[d].start = rpc[d].start
    <3>1. CASE RpcClock(c)
      <4> DEFINE r == [pc |-> "ended", start |-> rpc[c].start, end |-> now]
      <4>1. rpc' = [rpc EXCEPT ![c] = r]
        BY <3>1 DEF RpcClock
      <4>2. r \in RpcType /\ r.start = rpc[c].start
        BY <1>0 DEF RpcType
      <4> HIDE DEF r
      <4>3. rpc'[c] = r /\ \A d \in RPC \ {c} : rpc'[d] = rpc[d]
        BY <1>0, <4>1
      <4> QED
        BY <1>0, <4>1, <4>2, <4>3
    <3>2. CASE \E t \in Computed : RpcEnd(c, t)
      <4> DEFINE r == [pc |-> "measured", start |-> rpc[c].start, end |-> 0]
      <4>1. rpc' = [rpc EXCEPT ![c] = r]
        BY <3>2 DEF RpcEnd
      <4>2. r \in RpcType /\ r.start = rpc[c].start
        BY <1>0 DEF RpcType
      <4> HIDE DEF r
      <4>3. rpc'[c] = r /\ \A d \in RPC \ {c} : rpc'[d] = rpc[d]
        BY <1>0, <4>1
      <4> QED
        BY <1>0, <4>1, <4>2, <4>3
    <3> QED
      BY <1>2, <3>1, <3>2
  <2>5. /\ current_timeout' \in min_timeout .. max_timeout
        /\ UNCHANGED <<now, role, last_request, heartbeatVars>>
    BY <1>2, ClampBounds DEF RpcClock, RpcEnd, TimerTypeOK
  <2>6. TimerTypeOK'
    BY <2>4, <2>5 DEF TimerTypeOK, RpcType, heartbeatVars
  <2>7. rpc[c].pc # "new"
    BY <1>2 DEF RpcClock, RpcEnd
  <2>8. LastStart'
    BY <2>4, <2>5, <2>7 DEF LastStart
  <2> QED
    BY <2>5, <2>6, <2>8
<1> QED
  BY <1>1, <1>2

(* Every step keeps the invariant.                                         *)
LEMMA TInvNext == TInv /\ [TimerNext]_timerVars => TInv'
<1> SUFFICES ASSUME TInv, [TimerNext]_timerVars PROVE TInv'
  OBVIOUS
<1> USE TimerAssumption
<1> USE DEF rpcVars, heartbeatVars
<1>T. TimerTypeOK /\ LastStart /\ Second(now) \in 0 .. Second(now)
  BY Seconds DEF TInv, TimerTypeOK
<1>1. CASE UNCHANGED timerVars
  BY <1>1, <1>T DEF timerVars, TInv, TimerTypeOK, LastStart
<1>2. ASSUME UNCHANGED rpcVars, TimerTypeOK' PROVE TInv'
  BY <1>2, <1>T DEF TInv, LastStart
<1>3. ASSUME NEW d \in Ticks, Tick(d) PROVE TInv'
  <2>0. now \in Nat /\ d \in Nat /\ now' = now + d
    BY <1>3, <1>T DEF Tick, TimerTypeOK
  <2>1. 0 .. now \subseteq 0 .. now' /\ last_request \in 0 .. now'
    BY <2>0, <1>T DEF TimerTypeOK
  <2>2. rpc' \in [RPC -> RpcType']
    BY <1>3, <1>T, <2>1, TicksKeepType DEF Tick, TimerTypeOK, RpcType
  <2>3. last_heartbeat \in 0 .. Second(now')
    <3>1. Second(now) \in Nat /\ Second(now + d) \in Nat
      BY <2>0, Seconds
    <3>3. Second(now) <= Second(now + d) /\ Second(now') = Second(now + d)
      BY <2>0, LaterSecond
    <3>2. last_heartbeat \in 0 .. Second(now)
      BY <1>T DEF TimerTypeOK
    <3> QED
      BY <3>1, <3>2, <3>3
  <2>4. UNCHANGED <<role, current_timeout, last_request, last_heartbeat, resetting, missed>>
    BY <1>3 DEF Tick
  <2>5. TimerTypeOK'
    BY <1>T, <2>0, <2>1, <2>2, <2>3, <2>4 DEF TimerTypeOK, RpcType
  <2> QED
    BY <1>2, <1>3, <2>5 DEF Tick
<1>4. ASSUME NEW c \in RPC, RpcStart(c) \/ RpcClock(c) \/ \E t \in Computed : RpcEnd(c, t)
      PROVE  TInv'
  BY <1>4, <1>T, RpcKeeps DEF TInv
<1>5. CASE Reset \/ raft_reset_election_timer \/ NoteReset
  <2>1. TimerTypeOK'
    <3>1. CASE Reset
      BY <1>T, <3>1, TimerAssumption DEF Reset, TimerTypeOK
    <3>2. CASE raft_reset_election_timer
      BY <1>T, <3>2, TimerAssumption DEF raft_reset_election_timer, TimerTypeOK
    <3>3. CASE NoteReset
      BY <1>T, <3>3 DEF NoteReset, Hear, TimerTypeOK
    <3> QED
      BY <1>5, <3>1, <3>2, <3>3
  <2> QED
    BY <1>2, <1>5, <2>1 DEF Reset, raft_reset_election_timer, NoteReset
<1>7. ASSUME NEW newer \in BOOLEAN, NEW heeded \in BOOLEAN, HandleRequest(newer, heeded)
      PROVE  TInv'
  <2>1. TimerTypeOK'
    BY <1>7, <1>T DEF HandleRequest, Hear, TimerTypeOK
  <2> QED
    BY <1>2, <1>7, <2>1 DEF HandleRequest
<1>8. CASE raft_become_follower \/ raft_start_election \/ raft_become_candidate
  <2>1. TimerTypeOK'
    <3>1. CASE raft_become_follower
      BY <1>T, <3>1, TimerAssumption DEF raft_become_follower, Hear, TimerTypeOK
    <3>2. CASE raft_start_election
      BY <1>T, <3>2 DEF raft_start_election, Hear, TimerTypeOK
    <3>3. CASE raft_become_candidate
      BY <1>T, <3>3, TimerAssumption DEF raft_become_candidate, Hear, TimerTypeOK
    <3> QED
      BY <1>8, <3>1, <3>2, <3>3
  <2> QED
    BY <1>2, <1>8, <2>1 DEF raft_become_follower, raft_start_election, raft_become_candidate
<1>9. CASE raft_become_leader
  <2>1. TimerTypeOK'
    BY <1>9, <1>T DEF raft_become_leader, TimerTypeOK
  <2> QED
    BY <1>2, <1>9, <2>1 DEF raft_become_leader
<1>10. CASE raft_check_election_timeout \/ raft_check_heartbeat_status
  <2>1. TimerTypeOK'
    <3>1. CASE raft_check_election_timeout
      BY <1>T, <3>1 DEF raft_check_election_timeout, TimerTypeOK
    <3>2. CASE raft_check_heartbeat_status
      BY <1>T, <3>2 DEF raft_check_heartbeat_status, TimerTypeOK
    <3> QED
      BY <1>10, <3>1, <3>2
  <2> QED
    BY <1>2, <1>10, <2>1 DEF raft_check_election_timeout, raft_check_heartbeat_status
<1>11. ASSUME NEW check \in missed, CheckMissedHeartbeat(check) PROVE TInv'
  <2>1. current_timeout' \in min_timeout .. max_timeout
    BY <1>11, <1>T, LongerBounds DEF CheckMissedHeartbeat, TimerTypeOK
  <2>2. TimerTypeOK'
    BY <1>11, <1>T, <2>1 DEF CheckMissedHeartbeat, TimerTypeOK
  <2> QED
    BY <1>2, <1>11, <2>2 DEF CheckMissedHeartbeat
<1> QED
  BY <1>1, <1>3, <1>4, <1>5, <1>7, <1>8, <1>9, <1>10, <1>11 DEF TimerNext

(* Whatever is measured, current_timeout stays between min_timeout and     *)
(* max_timeout.                                                            *)
THEOREM Bounded == TimerSpec => []TimerTypeOK
<1>1. TInv => TimerTypeOK
  BY DEF TInv
<1> QED
  BY <1>1, TInvInit, TInvNext, PTL DEF TimerSpec

(* With a timeout of less than a second, as in the only configuration the  *)
(* code has, a node that does not lead is told of a timeout by every call  *)
(* of raft_check_election_timeout, however the timer is reset, clamped,    *)
(* measured or lengthened before: cut to whole seconds the timeout is 0.   *)
THEOREM TimesOut ==
    ASSUME max_timeout < 1000
    PROVE  TimerSpec => []TimesOutAtOnce
<1>1. TInv => TimesOutAtOnce
  <2> SUFFICES ASSUME TimerTypeOK PROVE TimedOut
    BY DEF TInv, TimesOutAtOnce
  <2>1. /\ now \in Nat /\ last_heartbeat \in 0 .. Second(now)
        /\ current_timeout \in min_timeout .. max_timeout
    BY DEF TimerTypeOK
  <2>2. Second(now) \in Nat
    BY <2>1, Seconds
  <2>3. current_timeout \div 1000 = 0
    BY <2>1, TimerAssumption
  <2>4. Second(now) - last_heartbeat >= 0
    BY <2>1, <2>2
  <2> QED
    BY <2>3, <2>4 DEF TimedOut
<1> QED
  BY <1>1, TInvInit, TInvNext, PTL DEF TimerSpec

(* RPCs that share last_request are never measured longer than they were,  *)
(* and one during which no other started is measured as it was.            *)
THEOREM NotLong == TimerSpec => []NeverMeasuredLong
<1>1. TInv => NeverMeasuredLong
  <2> SUFFICES ASSUME TimerTypeOK, LastStart, NEW c \in RPC, rpc[c].pc = "ended"
               PROVE  /\ RoundTrip(c) <= rpc[c].end - rpc[c].start
                      /\ (\A d \in RPC : rpc[d].start <= rpc[c].start)
                            => RoundTrip(c) = rpc[c].end - rpc[c].start
    BY DEF TInv, NeverMeasuredLong
  <2>1. /\ now \in Nat /\ last_request \in 0 .. now /\ rpc[c].end \in 0 .. now
        /\ \A d \in RPC : rpc[d].start \in 0 .. now
    BY DEF TimerTypeOK
  <2>2. rpc[c].start <= last_request
    BY DEF LastStart
  <2>3. PICK d \in RPC : rpc[d].start = last_request
    BY DEF LastStart
  <2>4. (\A x \in RPC : rpc[x].start <= rpc[c].start) => rpc[c].start = last_request
    BY <2>1, <2>2, <2>3
  <2> QED
    BY <2>1, <2>2, <2>4 DEF RoundTrip
<1> QED
  BY <1>1, TInvInit, TInvNext, PTL DEF TimerSpec
=============================================================================

------------------------ MODULE CommandBatcherProofs ------------------------
(***************************************************************************)
(* Of the client path, for any number of clients, any sizes of their       *)
(* commands and any number of terms: a batch fits its buffer, a leader     *)
(* leaves nothing of its log unsent, and the batched commands reach the    *)
(* log in the order in which they were added.                              *)
(***************************************************************************)
EXTENDS CommandBatcher, Flattening, FiniteSetTheorems

(* The threads whose entry is in the log and not yet replicated.           *)
Sending == {t \in Thread : pc[t] \in {"replicate", "advance"}}

(* The invariant: while the event thread steps down, it is the only one    *)
(* that could start another term.                                          *)
BInv ==
    /\ TypeOK /\ NothingUnsent
    /\ pc["event"] # "idle" => current_term < MaxTerm

LEMMA Threads == IsFiniteSet(Thread)
<1>1. IsFiniteSet({"batch", "event"})
  <2>1. IsFiniteSet({"batch"}) /\ IsFiniteSet({"event"})
    BY FS_Singleton
  <2>2. {"batch", "event"} = {"batch"} \cup {"event"}
    OBVIOUS
  <2> QED
    BY <2>1, <2>2, FS_Union
<1> QED
  BY <1>1, BatcherAssumption, FS_Union DEF Thread

(* A set of threads is counted by a natural number, and one that enters or *)
(* leaves it makes a difference of one.                                    *)
LEMMA Counting ==
    ASSUME NEW S \in SUBSET Thread, NEW t \in Thread
    PROVE  /\ Cardinality(S) \in Nat
           /\ t \notin S => Cardinality(S \cup {t}) = Cardinality(S) + 1
           /\ t \in S => Cardinality(S \ {t}) = Cardinality(S) - 1
<1>1. IsFiniteSet(S)
  BY Threads, FS_Subset
<1> QED
  BY <1>1, FS_CardinalityType, FS_AddElement, FS_RemoveElement

(* A step that moves no thread into or out of Sending, and leaves the log  *)
(* its length, leaves nothing unsent.                                      *)
LEMMA SameSending ==
    ASSUME NothingUnsent, UNCHANGED next_index, Len(log') = Len(log), Sending' = Sending,
           state' = "LEADER" => state = "LEADER"
    PROVE  NothingUnsent'
BY DEF NothingUnsent, Sending

(* A thread that moves.                                                    *)
LEMMA Moves ==
    ASSUME TypeOK, NEW t \in Thread, NEW where \in Place, GoTo(t, where)
    PROVE  /\ pc' \in [Thread -> Place]
           /\ pc'[t] = where /\ \A u \in Thread : u # t => pc'[u] = pc[u]
           /\ (where \in {"replicate", "advance"} <=> t \in Sending) => Sending' = Sending
<1>1. /\ pc' \in [Thread -> Place]
      /\ pc'[t] = where /\ \A u \in Thread : u # t => pc'[u] = pc[u]
  BY DEF GoTo, TypeOK
<1> QED
  BY <1>1 DEF Sending

(* Entries that are given commands are entries.                            *)
LEMMA EntryGiven ==
    ASSUME NEW e \in Entry, NEW s \in Seq(Command)
    PROVE  [e EXCEPT !.cmds = s] \in Entry
BY DEF Entry

LEMMA BInvInit == Init => BInv
<1> SUFFICES ASSUME Init PROVE BInv
  OBVIOUS
<1> USE DEF Init
<1>1. \A S : << >> \in Seq(S) /\ Len(<< >>) = 0
  OBVIOUS
<1>2. pc \in [Thread -> Place] /\ pc["event"] = "idle"
  BY DEF Place, Thread
<1>3. entry \in [Thread -> Entry]
  <2>1. NoEntry \in Entry
    BY <1>1, BatcherAssumption DEF NoEntry, Entry
  <2> QED
    BY <2>1
<1>4. total_length \in 0 .. MAX_COMMAND_BUFFER /\ current_term \in 0 .. MaxTerm
  BY BatcherAssumption
<1>5. log \in Seq(LogEntry) /\ batch \in Seq(Command)
  BY <1>1
<1>6. TypeOK
  <2>1. /\ state \in {"FOLLOWER", "CANDIDATE", "LEADER"} /\ next_index \in Nat \ {0}
        /\ mutex \in {Free, "event"}
    OBVIOUS
  <2>2. active \in BOOLEAN
    OBVIOUS
  <2> QED
    BY <1>2, <1>3, <1>4, <1>5, <2>1, <2>2 DEF TypeOK
<1> QED
  BY <1>2, <1>6 DEF BInv, NothingUnsent

-----------------------------------------------------------------------------
(* The client, before its command has an entry of its own.                 *)
LEMMA ClientKeeps ==
    ASSUME BInv, NEW c \in Command, ClientCheck(c) \/ ClientAdd(c)
    PROVE  BInv'
<1>0. TypeOK /\ NothingUnsent /\ c \in Thread /\ c # "event"
  BY BatcherAssumption DEF BInv, Thread
<1>1. CASE ClientCheck(c)
  <2> DEFINE where == IF state = "LEADER" THEN "add" ELSE "refused"
  <2>1. where \in Place /\ where \notin {"replicate", "advance"} /\ GoTo(c, where)
    BY <1>1 DEF ClientCheck, Place
  <2> HIDE DEF where
  <2>2. c \notin Sending
    BY <1>1 DEF ClientCheck, Sending
  <2>3. pc' \in [Thread -> Place] /\ pc'["event"] = pc["event"] /\ Sending' = Sending
    BY <1>0, <2>1, <2>2, Moves DEF Thread
  <2>4. TypeOK'
    BY <1>0, <1>1, <2>3 DEF ClientCheck, TypeOK, node, newBatch
  <2>5. NothingUnsent'
    BY <1>0, <1>1, <2>3, SameSending DEF ClientCheck, node
  <2> QED
    BY <1>1, <2>3, <2>4, <2>5 DEF BInv, ClientCheck, node
<1>2. CASE ClientAdd(c)
  <2>0. c \notin Sending /\ UNCHANGED <<node, active>>
    BY <1>2 DEF ClientAdd, Sending
  <2>1. CASE Overflows(c)
    <3>1. /\ GoTo(c, "create") /\ UNCHANGED <<batch, total_length>>
          /\ entry' = [entry EXCEPT ![c].cmds = <<c>>]
      BY <1>2, <2>1 DEF ClientAdd, newBatch
    <3>2. pc' \in [Thread -> Place] /\ pc'["event"] = pc["event"] /\ Sending' = Sending
      BY <1>0, <2>0, <3>1, Moves DEF Thread, Place
    <3>3. entry' \in [Thread -> Entry]
      <4>1. [entry[c] EXCEPT !.cmds = <<c>>] \in Entry
        <5>1. <<c>> \in Seq(Command) /\ entry[c] \in Entry
          BY <1>0 DEF TypeOK
        <5> QED
          BY <5>1, EntryGiven
      <4>2. entry' = [entry EXCEPT ![c] = [entry[c] EXCEPT !.cmds = <<c>>]]
        BY <3>1
      <4> QED
        BY <1>0, <4>1, <4>2 DEF TypeOK
    <3>4. TypeOK'
      BY <1>0, <2>0, <3>1, <3>2, <3>3 DEF TypeOK, node
    <3>5. NothingUnsent'
      BY <1>0, <2>0, <3>2, SameSending DEF node
    <3> QED
      BY <2>0, <3>2, <3>4, <3>5 DEF BInv, node
  <2>2. CASE ~Overflows(c)
    <3>1. /\ GoTo(c, "done") /\ batch' = Append(batch, c)
          /\ total_length' = total_length + Size[c] /\ UNCHANGED entry
      BY <1>2, <2>2 DEF ClientAdd
    <3>2. pc' \in [Thread -> Place] /\ pc'["event"] = pc["event"] /\ Sending' = Sending
      BY <1>0, <2>0, <3>1, Moves DEF Thread, Place
    <3>3. total_length' \in 0 .. MAX_COMMAND_BUFFER
      BY <1>0, <2>2, <3>1, BatcherAssumption DEF Overflows, TypeOK
    <3>4. batch' \in Seq(Command)
      BY <1>0, <3>1 DEF TypeOK
    <3>5. TypeOK'
      BY <1>0, <2>0, <3>1, <3>2, <3>3, <3>4 DEF TypeOK, node
    <3>6. NothingUnsent'
      BY <1>0, <2>0, <3>2, SameSending DEF node
    <3> QED
      BY <2>0, <3>2, <3>5, <3>6 DEF BInv, node
  <2> QED
    BY <2>1, <2>2
<1> QED
  BY <1>1, <1>2

-----------------------------------------------------------------------------
(* A thread that has no entry in the log yet.                              *)
LEMMA CreateKeeps ==
    ASSUME BInv, NEW t \in Thread, CreateEntry(t)
    PROVE  BInv'
<1>0. TypeOK /\ NothingUnsent
  BY DEF BInv
<1>1. GoTo(t, "append") /\ t \notin Sending /\ UNCHANGED <<node, active, newBatch, added>>
  BY DEF CreateEntry, Sending
<1>2. pc' \in [Thread -> Place] /\ Sending' = Sending
      /\ (pc'["event"] # "idle" => pc["event"] # "idle")
  <2>1. /\ pc' \in [Thread -> Place] /\ Sending' = Sending
        /\ \A u \in Thread : u # t => pc'[u] = pc[u]
    BY <1>0, <1>1, Moves DEF Place
  <2>2. pc[t] # "idle" /\ "event" \in Thread
    BY DEF CreateEntry, Thread
  <2> QED
    BY <2>1, <2>2
<1>3. entry' \in [Thread -> Entry]
  <2>1. [entry[t] EXCEPT !.term = current_term] \in Entry
    BY <1>0 DEF TypeOK, Entry
  <2>2. entry' = [entry EXCEPT ![t] = [entry[t] EXCEPT !.term = current_term]]
    BY DEF CreateEntry
  <2> QED
    BY <1>0, <2>1, <2>2 DEF TypeOK
<1>4. TypeOK'
  BY <1>0, <1>1, <1>2, <1>3 DEF TypeOK, node, newBatch
<1>5. NothingUnsent'
  BY <1>0, <1>1, <1>2, SameSending DEF node
<1> QED
  BY <1>1, <1>2, <1>4, <1>5 DEF BInv, node

(* The append: one more entry, and one more thread that will send one.     *)
LEMMA AppendKeeps ==
    ASSUME BInv, NEW t \in Thread, AppendEntry(t)
    PROVE  BInv'
<1>0. TypeOK /\ NothingUnsent
  BY DEF BInv
<1> DEFINE e == [term |-> entry[t].term, cmds |-> entry[t].cmds, data |-> "live"]
<1>1. /\ pc[t] = "append" /\ GoTo(t, "replicate") /\ log' = Append(log, e)
      /\ UNCHANGED <<state, current_term, next_index, mutex, active, newBatch, added>>
      /\ entry' = [entry EXCEPT ![t].idx = Len(log')]
  BY DEF AppendEntry
<1>2. e \in LogEntry
  BY <1>0 DEF TypeOK, Entry, LogEntry
<1> HIDE DEF e
<1>3. log' \in Seq(LogEntry) /\ Len(log') = Len(log) + 1 /\ Len(log) \in Nat
  BY <1>0, <1>1, <1>2 DEF TypeOK
<1>4. entry' \in [Thread -> Entry]
  <2>1. [entry[t] EXCEPT !.idx = Len(log')] \in Entry
    <3>1. entry[t] \in Entry /\ Len(log') \in Nat
      BY <1>0, <1>3 DEF TypeOK
    <3> QED
      BY <3>1 DEF Entry
  <2>2. entry' = [entry EXCEPT ![t] = [entry[t] EXCEPT !.idx = Len(log')]]
    BY <1>1
  <2> QED
    BY <1>0, <2>1, <2>2 DEF TypeOK
<1>5. /\ pc' \in [Thread -> Place] /\ pc'[t] = "replicate"
      /\ \A u \in Thread : u # t => pc'[u] = pc[u]
  BY <1>0, <1>1, Moves DEF Place
<1>6. Sending' = Sending \cup {t} /\ t \notin Sending /\ Sending \in SUBSET Thread
  BY <1>1, <1>5 DEF Sending
<1>7. /\ Cardinality(Sending) \in Nat
      /\ Cardinality(Sending') = Cardinality(Sending) + 1
  BY <1>6, Counting
<1>8. NothingUnsent'
  <2>1. next_index \in Nat
    BY <1>0 DEF TypeOK
  <2>2. state = "LEADER" => Len(log) + 1 <= next_index + Cardinality(Sending)
    BY <1>0 DEF NothingUnsent, Sending
  <2>3. state' = "LEADER" => Len(log') + 1 <= next_index' + Cardinality(Sending')
    BY <1>1, <1>3, <1>7, <2>1, <2>2
  <2> QED
    BY <2>3 DEF NothingUnsent, Sending
<1>9. TypeOK'
  BY <1>0, <1>1, <1>3, <1>4, <1>5 DEF TypeOK, newBatch
<1>10. pc'["event"] # "idle" => pc["event"] # "idle"
  BY <1>1, <1>5 DEF Thread
<1> QED
  BY <1>1, <1>8, <1>9, <1>10 DEF BInv

(* The look at the role: only a node that leads no longer may leave an     *)
(* entry unsent.                                                           *)
LEMMA CheckKeeps ==
    ASSUME BInv, NEW t \in Thread, ReplicateCheck(t)
    PROVE  BInv'
<1>0. TypeOK /\ NothingUnsent
  BY DEF BInv
<1> DEFINE where == IF state = "LEADER" THEN "advance" ELSE "free"
<1>1. /\ pc[t] = "replicate" /\ GoTo(t, where) /\ where \in Place
      /\ UNCHANGED <<node, active, newBatch, entry, added>>
  BY DEF ReplicateCheck, Place
<1>2. state = "LEADER" => where = "advance"
  OBVIOUS
<1> HIDE DEF where
<1>3. /\ pc' \in [Thread -> Place] /\ pc'[t] = where
      /\ \A u \in Thread : u # t => pc'[u] = pc[u]
  BY <1>0, <1>1, Moves
<1>4. TypeOK'
  BY <1>0, <1>1, <1>3 DEF TypeOK, node, newBatch
<1>5. state = "LEADER" => Sending' = Sending
  BY <1>1, <1>2, <1>3 DEF Sending
<1>6. NothingUnsent'
  BY <1>0, <1>1, <1>5 DEF NothingUnsent, Sending, node
<1>7. pc'["event"] # "idle" => pc["event"] # "idle"
  BY <1>1, <1>3 DEF Thread
<1> QED
  BY <1>1, <1>4, <1>6, <1>7 DEF BInv, node

(* raft_replicate_logs: one thread less, and one entry more that was sent, *)
(* unless all were.                                                        *)
LEMMA ReplicateKeeps ==
    ASSUME BInv, NEW t \in Thread, ReplicateLogs(t)
    PROVE  BInv'
<1>0. TypeOK /\ NothingUnsent
  BY DEF BInv
<1>1. /\ pc[t] = "advance" /\ GoTo(t, "free")
      /\ next_index' = IF next_index <= Len(log) THEN next_index + 1 ELSE next_index
      /\ UNCHANGED <<state, current_term, log, mutex, active, newBatch, entry, added>>
  BY DEF ReplicateLogs
<1>2. /\ pc' \in [Thread -> Place] /\ pc'[t] = "free"
      /\ \A u \in Thread : u # t => pc'[u] = pc[u]
  BY <1>0, <1>1, Moves DEF Place
<1>3. Sending' = Sending \ {t} /\ t \in Sending /\ Sending \in SUBSET Thread
      /\ Sending' \in SUBSET Thread
  BY <1>1, <1>2 DEF Sending
<1>4. /\ Cardinality(Sending) \in Nat /\ Cardinality(Sending') \in Nat
      /\ Cardinality(Sending') = Cardinality(Sending) - 1
  BY <1>3, Counting
<1>5. next_index \in Nat \ {0} /\ Len(log) \in Nat
  BY <1>0 DEF TypeOK
<1>6. NothingUnsent'
  <2>1. state = "LEADER" => Len(log) + 1 <= next_index + Cardinality(Sending)
    BY <1>0 DEF NothingUnsent, Sending
  <2>2. state' = "LEADER" => Len(log') + 1 <= next_index' + Cardinality(Sending')
    BY <1>1, <1>4, <1>5, <2>1
  <2> QED
    BY <2>2 DEF NothingUnsent, Sending
<1>7. next_index' \in Nat \ {0}
  BY <1>1, <1>5
<1>8. TypeOK'
  BY <1>0, <1>1, <1>2, <1>7 DEF TypeOK, newBatch
<1>9. pc'["event"] # "idle" => pc["event"] # "idle"
  BY <1>1, <1>2 DEF Thread
<1> QED
  BY <1>1, <1>6, <1>8, <1>9 DEF BInv

(* The entry is freed.                                                     *)
LEMMA FreeKeeps ==
    ASSUME BInv, NEW t \in Thread, FreeEntry(t)
    PROVE  BInv'
<1>0. TypeOK /\ NothingUnsent
  BY DEF BInv
<1> DEFINE where ==
      CASE t = "batch" -> "loop" [] t = "event" -> "follow" [] OTHER -> "done"
<1>1. /\ pc[t] = "free" /\ GoTo(t, where)
      /\ log' = [log EXCEPT ![entry[t].idx].data = "freed"]
      /\ entry' = [entry EXCEPT ![t] = NoEntry]
      /\ UNCHANGED <<state, current_term, next_index, mutex, active, newBatch, added>>
  BY DEF FreeEntry
<1>2. where \in Place /\ where \notin {"replicate", "advance"}
  BY DEF Place
<1> HIDE DEF where
<1>3. t \notin Sending
  BY <1>1 DEF Sending
<1>4. /\ pc' \in [Thread -> Place] /\ Sending' = Sending
      /\ \A u \in Thread : u # t => pc'[u] = pc[u]
  BY <1>0, <1>1, <1>2, <1>3, Moves
<1>5. log' \in Seq(LogEntry) /\ Len(log') = Len(log)
  <2> DEFINE i == entry[t].idx
  <2>1. log \in Seq(LogEntry) /\ log' = [log EXCEPT ![i] = [log[i] EXCEPT !.data = "freed"]]
    BY <1>0, <1>1 DEF TypeOK
  <2> HIDE DEF i
  <2>2. CASE i \in 1 .. Len(log)
    <3>1. [log[i] EXCEPT !.data = "freed"] \in LogEntry
      <4>1. log[i] \in LogEntry
        BY <2>1, <2>2
      <4> QED
        BY <4>1 DEF LogEntry
    <3> QED
      BY <2>1, <2>2, <3>1
  <2>3. CASE i \notin 1 .. Len(log)
    <3>1. log' = log
      BY <2>1, <2>3
    <3> QED
      BY <2>1, <3>1
  <2> QED
    BY <2>2, <2>3
<1>6. entry' \in [Thread -> Entry]
  <2>1. << >> \in Seq(Command)
    OBVIOUS
  <2>2. NoEntry \in Entry
    BY <2>1, BatcherAssumption DEF NoEntry, Entry
  <2> QED
    BY <1>0, <1>1, <2>2 DEF TypeOK
<1>7. TypeOK'
  BY <1>0, <1>1, <1>4, <1>5, <1>6 DEF TypeOK, newBatch
<1>8. NothingUnsent'
  BY <1>0, <1>1, <1>4, <1>5, SameSending
<1>9. pc'["event"] # "idle" => pc["event"] # "idle"
  BY <1>1, <1>4 DEF Thread
<1> QED
  BY <1>1, <1>7, <1>8, <1>9 DEF BInv

-----------------------------------------------------------------------------
(* The batch thread between two batches.                                   *)
LEMMA BatchKeeps ==
    ASSUME BInv, BatchLoop \/ BatchSleep \/ BatchTake
    PROVE  BInv'
<1>0. TypeOK /\ NothingUnsent /\ "batch" \in Thread /\ "batch" # "event" /\ "event" \in Thread
  BY DEF BInv, Thread
<1>1. PICK where \in Place \ {"replicate", "advance"} : GoTo("batch", where)
  BY DEF BatchLoop, BatchSleep, BatchTake, Place
<1>2. "batch" \notin Sending /\ UNCHANGED node
  BY DEF BatchLoop, BatchSleep, BatchTake, Sending
<1>3. pc' \in [Thread -> Place] /\ Sending' = Sending /\ pc'["event"] = pc["event"]
  BY <1>0, <1>1, <1>2, Moves
<1>4. /\ batch' \in Seq(Command) /\ total_length' \in 0 .. MAX_COMMAND_BUFFER
      /\ active' = active
      /\ entry' \in [Thread -> Entry]
  <2>1. CASE BatchLoop \/ BatchSleep
    BY <1>0, <2>1 DEF BatchLoop, BatchSleep, newBatch, TypeOK
  <2>2. CASE BatchTake
    <3>1. batch' = << >> /\ total_length' = 0 /\ active' = active
      BY <2>2 DEF BatchTake, NewBatch
    <3>2. \A S : << >> \in Seq(S)
      OBVIOUS
    <3>3. 0 \in 0 .. MAX_COMMAND_BUFFER
      BY BatcherAssumption
    <3>4. entry' = [entry EXCEPT !["batch"] = [entry["batch"] EXCEPT !.cmds = batch]]
      BY <2>2 DEF BatchTake
    <3>5. [entry["batch"] EXCEPT !.cmds = batch] \in Entry
      BY <1>0, EntryGiven DEF TypeOK
    <3> QED
      BY <1>0, <3>1, <3>2, <3>3, <3>4, <3>5 DEF TypeOK
  <2> QED
    BY <2>1, <2>2
<1>5. TypeOK'
  BY <1>0, <1>2, <1>3, <1>4 DEF TypeOK, node
<1>6. NothingUnsent'
  BY <1>0, <1>2, <1>3, SameSending DEF node
<1> QED
  BY <1>2, <1>3, <1>5, <1>6 DEF BInv, node

(* The event thread changes the role.                                      *)
LEMMA RoleKeeps ==
    ASSUME BInv, BecomeCandidate \/ BecomeLeader \/ HigherTerm
    PROVE  BInv'
<1>0. TypeOK /\ NothingUnsent /\ "batch" \in Thread /\ "event" \in Thread
  BY DEF BInv, Thread
<1>1. CASE BecomeCandidate \/ HigherTerm
  <2>1. /\ state' \in {"FOLLOWER", "CANDIDATE"} /\ current_term' \in 0 .. MaxTerm
        /\ pc["event"] = "idle"
    BY <1>0, <1>1, BatcherAssumption DEF BecomeCandidate, HigherTerm, TypeOK
  <2>2. UNCHANGED <<log, next_index, mutex, active, newBatch, pc, entry, added>>
    BY <1>1 DEF BecomeCandidate, HigherTerm
  <2>3. TypeOK'
    BY <1>0, <2>1, <2>2 DEF TypeOK, newBatch
  <2> QED
    BY <2>1, <2>2, <2>3 DEF BInv, NothingUnsent
<1>2. CASE BecomeLeader
  <2>1. /\ state' = "LEADER" /\ next_index' = Len(log) + 1 /\ pc["event"] = "idle"
        /\ UNCHANGED <<current_term, log, mutex, newBatch, entry, added>>
    BY <1>2 DEF BecomeLeader
  <2>2. active' \in BOOLEAN
    BY <1>0, <1>2 DEF BecomeLeader, TypeOK
  <2>3. pc' \in [Thread -> Place] /\ pc'["event"] = pc["event"]
    BY <1>0, <1>2 DEF BecomeLeader, TypeOK, Place
  <2>4. Len(log) \in Nat /\ next_index' \in Nat \ {0}
    BY <1>0, <2>1 DEF TypeOK
  <2>5. TypeOK'
    BY <1>0, <2>1, <2>2, <2>3, <2>4 DEF TypeOK, newBatch
  <2>6. Sending' \in SUBSET Thread
    BY DEF Sending
  <2>7. Cardinality(Sending') \in Nat
    BY <1>0, <2>6, Counting
  <2>8. Len(log') + 1 <= next_index' + Cardinality(Sending')
    BY <2>1, <2>4, <2>7
  <2>9. NothingUnsent'
    BY <2>8 DEF NothingUnsent, Sending
  <2> QED
    BY <2>1, <2>3, <2>5, <2>9 DEF BInv
<1> QED
  BY <1>1, <1>2

(* The event thread steps down.                                            *)
LEMMA StepDownKeeps ==
    ASSUME BInv, BecomeFollower \/ StopJoin \/ Follow
    PROVE  BInv'
<1>0. TypeOK /\ NothingUnsent /\ "event" \in Thread
  BY DEF BInv, Thread
<1>1. PICK where \in Place \ {"replicate", "advance"} : GoTo("event", where)
  BY DEF BecomeFollower, StopJoin, Follow, Place
<1>2. "event" \notin Sending
  BY DEF BecomeFollower, StopJoin, Follow, Sending
<1>3. pc' \in [Thread -> Place] /\ Sending' = Sending /\ pc'["event"] = where
  BY <1>0, <1>1, <1>2, Moves
<1>4. CASE BecomeFollower
  <2>1. /\ UNCHANGED <<state, current_term, log, next_index, newBatch, entry, added>>
        /\ mutex' = "event" /\ active' \in BOOLEAN /\ current_term < MaxTerm
    BY <1>0, <1>4 DEF BecomeFollower, TypeOK
  <2>2. TypeOK'
    BY <1>0, <1>3, <2>1 DEF TypeOK, newBatch
  <2>3. NothingUnsent'
    BY <1>0, <1>3, <2>1, SameSending
  <2> QED
    BY <2>1, <2>2, <2>3 DEF BInv
<1>5. CASE StopJoin
  <2>1. /\ batch' = << >> /\ total_length' = 0 /\ UNCHANGED <<node, active, added>>
        /\ entry' = [entry EXCEPT !["event"] = [entry["event"] EXCEPT !.cmds = batch]]
        /\ pc["event"] = "join"
    BY <1>5 DEF StopJoin, NewBatch
  <2>2. \A S : << >> \in Seq(S)
    OBVIOUS
  <2>3. 0 \in 0 .. MAX_COMMAND_BUFFER
    BY BatcherAssumption
  <2>4. [entry["event"] EXCEPT !.cmds = batch] \in Entry
    BY <1>0, EntryGiven DEF TypeOK
  <2>5. entry' \in [Thread -> Entry]
    BY <1>0, <2>1, <2>4 DEF TypeOK
  <2>6. TypeOK'
    BY <1>0, <1>3, <2>1, <2>2, <2>3, <2>5 DEF TypeOK, node
  <2>7. NothingUnsent'
    BY <1>0, <1>3, <2>1, SameSending DEF node
  <2> QED
    BY <2>1, <2>6, <2>7 DEF BInv, node
<1>6. CASE Follow
  <2>1. /\ pc["event"] = "follow" /\ GoTo("event", "idle") /\ state' = "FOLLOWER"
        /\ current_term' = current_term + 1 /\ mutex' = Free
        /\ UNCHANGED <<log, next_index, active, newBatch, entry, added>>
    BY <1>6 DEF Follow
  <2>2. current_term' \in 0 .. MaxTerm
    BY <1>0, <2>1, BatcherAssumption DEF BInv, TypeOK
  <2>3. pc'["event"] = "idle"
    BY <1>0, <2>1, Moves DEF Place
  <2>4. TypeOK'
    BY <1>0, <1>3, <2>1, <2>2 DEF TypeOK, newBatch
  <2> QED
    BY <2>1, <2>3, <2>4 DEF BInv, NothingUnsent
<1> QED
  BY <1>4, <1>5, <1>6

-----------------------------------------------------------------------------
LEMMA BInvNext ==
    ASSUME BInv, [Next]_vars
    PROVE  BInv'
<1>1. CASE \E c \in Command : ClientCheck(c) \/ ClientAdd(c)
  BY <1>1, ClientKeeps
<1>2. CASE \E t \in Thread : Process(t)
  BY <1>2, CreateKeeps, AppendKeeps, CheckKeeps, ReplicateKeeps, FreeKeeps DEF Process
<1>3. CASE UNCHANGED vars
  <2>1. UNCHANGED <<state, current_term, log, next_index, mutex, active, batch, total_length,
                    pc, entry>>
    BY <1>3 DEF vars, newBatch
  <2>2. TypeOK'
    BY <2>1 DEF BInv, TypeOK
  <2> QED
    BY <2>1, <2>2 DEF BInv, NothingUnsent
<1> QED
  BY <1>1, <1>2, <1>3, BatchKeeps, RoleKeeps, StepDownKeeps DEF Next

LEMMA BInvAlways == Spec => []BInv
<1>1. Init => BInv
  BY BInvInit
<1>2. BInv /\ [Next]_vars => BInv'
  BY BInvNext
<1> QED
  BY <1>1, <1>2, PTL DEF Spec

(* Every reachable state is well typed; in particular, the commands that   *)
(* several clients add never run over the end of the batch's buffer.       *)
THEOREM TypeCorrect == Spec => []TypeOK
<1>1. BInv => TypeOK
  BY DEF BInv
<1> QED
  BY <1>1, BInvAlways, PTL

(* Whatever client threads, the batch thread and a thread that changes the *)
(* role do between an append and the raft_replicate_logs that follows it,  *)
(* a leader has sent, or is about to send, all of its log.                 *)
THEOREM AllSent == Spec => []NothingUnsent
<1>1. BInv => NothingUnsent
  BY DEF BInv
<1> QED
  BY <1>1, BInvAlways, PTL

-----------------------------------------------------------------------------
(* The way of the batched commands.  Between the current batch and the log *)
(* they are in the entry of the batch thread, or of the event thread when  *)
(* it has stopped the batcher, and never in both: the event thread waits   *)
(* for the batch thread before it takes the rest, and there is no batch    *)
(* thread until it is done.                                                *)
Processing == {"create", "append", "replicate", "advance", "free"}

Seated(t) ==
    /\ pc[t] \in {"create", "append"} => entry[t].idx = 0
    /\ pc[t] \in {"replicate", "advance", "free"} => entry[t].idx # 0
    /\ pc[t] \notin Processing => entry[t] = NoEntry

Refused(c) ==
    /\ pc[c] \in Processing => entry[c].cmds = <<c>>
    /\ pc[c] \in Processing \cup {"idle", "add"} => c \notin ToSet(added)

InTurn ==
    /\ pc["event"] \in Processing => pc["batch"] = "none"
    /\ ~active => pc["batch"] = "none" \/ pc["event"] = "join"

Seats == (\A t \in Thread : Seated(t)) /\ (\A c \in Command : Refused(c)) /\ InTurn

(* An entry of the log was a batch, or is that of a refused command.       *)
Apart ==
    \A n \in DOMAIN log :
        \/ ToSet(log[n].cmds) \subseteq ToSet(added)
        \/ \E c \in Command : /\ log[n].cmds = <<c>> /\ c \notin ToSet(added)
                              /\ pc[c] \notin {"idle", "add"}

OrderInv == BInv /\ added \in Seq(Command) /\ Seats /\ Apart /\ BatchesInOrder

LEMMA ThreadsApart ==
    /\ "batch" \in Thread /\ "event" \in Thread /\ "batch" # "event"
    /\ \A c \in Command : c \in Thread /\ c # "batch" /\ c # "event"
BY BatcherAssumption DEF Thread

(* Sequences.                                                              *)
LEMMA Appended ==
    ASSUME NEW S, NEW s \in Seq(S), NEW x \in S
    PROVE  Append(s, x) \in Seq(S) /\ Append(s, x) = s \o <<x>>
OBVIOUS

LEMMA Parts ==
    ASSUME NEW S, NEW s, NEW t, s \in Seq(S), t \in Seq(S)
    PROVE  ToSet(s) \subseteq ToSet(s \o t) /\ ToSet(t) \subseteq ToSet(s \o t)
<1> DEFINE l == s \o t
<1>1. /\ Len(s) \in Nat /\ Len(t) \in Nat /\ Len(l) = Len(s) + Len(t)
      /\ DOMAIN s = 1 .. Len(s) /\ DOMAIN t = 1 .. Len(t) /\ DOMAIN l = 1 .. Len(l)
      /\ \A n \in 1 .. Len(s) : l[n] = s[n]
      /\ \A n \in 1 .. Len(t) : l[Len(s) + n] = t[n]
  OBVIOUS
<1> HIDE DEF l
<1>2. \A n \in 1 .. Len(s) : n \in 1 .. Len(l)
  BY <1>1
<1>3. \A n \in 1 .. Len(t) : Len(s) + n \in 1 .. Len(l)
  BY <1>1
<1>4. ToSet(s) \subseteq ToSet(l) /\ ToSet(t) \subseteq ToSet(l)
  BY <1>1, <1>2, <1>3 DEF ToSet
<1> QED
  BY <1>4 DEF l

(* The batched entries of the log.                                         *)
LEMMA BatchedType ==
    ASSUME NEW l \in Seq(LogEntry), NEW cs PROVE Batched(l, cs) \in Seq(Command)
<1> DEFINE f == [n \in DOMAIN l |-> IF ToSet(l[n].cmds) \subseteq cs THEN l[n].cmds ELSE << >>]
<1>1. DOMAIN l = 1 .. Len(l) /\ Len(l) \in Nat /\ \A n \in 1 .. Len(l) : l[n] \in LogEntry
  OBVIOUS
<1>2. \A n \in 1 .. Len(l) : l[n].cmds \in Seq(Command)
  BY <1>1 DEF LogEntry
<1>3. \A n \in 1 .. Len(l) : f[n] \in Seq(Command)
  BY <1>1, <1>2
<1>4. f \in Seq(Seq(Command))
  BY <1>1, <1>3
<1> QED
  BY <1>4, FlattenType DEF Batched

LEMMA BatchedAppend ==
    ASSUME NEW l \in Seq(LogEntry), NEW e \in LogEntry, NEW cs
    PROVE  Batched(Append(l, e), cs) =
             Batched(l, cs) \o (IF ToSet(e.cmds) \subseteq cs THEN e.cmds ELSE << >>)
<1> DEFINE f == [n \in DOMAIN l |-> IF ToSet(l[n].cmds) \subseteq cs THEN l[n].cmds ELSE << >>]
           m == Append(l, e)
           x == IF ToSet(e.cmds) \subseteq cs THEN e.cmds ELSE << >>
<1>1. DOMAIN l = 1 .. Len(l) /\ Len(l) \in Nat /\ \A n \in 1 .. Len(l) : l[n] \in LogEntry
  OBVIOUS
<1>2. \A n \in 1 .. Len(l) : l[n].cmds \in Seq(Command)
  BY <1>1 DEF LogEntry
<1>3. \A n \in 1 .. Len(l) : f[n] \in Seq(Command)
  BY <1>1, <1>2
<1>4. f \in Seq(Seq(Command)) /\ Len(f) = Len(l)
  BY <1>1, <1>3
<1>5. /\ DOMAIN m = 1 .. Len(l) + 1 /\ m[Len(l) + 1] = e
      /\ \A n \in 1 .. Len(l) : m[n] = l[n]
  BY <1>1
<1>6. x \in Seq(Command)
  BY DEF LogEntry
<1>7. \A n \in 1 .. Len(l) : f[n] = IF ToSet(l[n].cmds) \subseteq cs THEN l[n].cmds ELSE << >>
  BY <1>1
<1> HIDE DEF m, f
<1>8. [n \in DOMAIN m |-> IF ToSet(m[n].cmds) \subseteq cs THEN m[n].cmds ELSE << >>]
        = Append(f, x)
  BY <1>1, <1>4, <1>5, <1>7
<1> HIDE DEF x
<1>9. FlattenSeq(Append(f, x)) = FlattenSeq(f) \o x
  BY <1>4, <1>6, FlattenAppend
<1> QED
  BY <1>8, <1>9 DEF Batched, m, f, x

LEMMA BatchedSame ==
    ASSUME NEW l, NEW m, NEW cs, NEW ds, DOMAIN m = DOMAIN l,
           \A n \in DOMAIN l : /\ m[n].cmds = l[n].cmds
                               /\ ToSet(l[n].cmds) \subseteq cs <=> ToSet(l[n].cmds) \subseteq ds
    PROVE  Batched(m, ds) = Batched(l, cs)
<1>1. [n \in DOMAIN m |-> IF ToSet(m[n].cmds) \subseteq ds THEN m[n].cmds ELSE << >>]
        = [n \in DOMAIN l |-> IF ToSet(l[n].cmds) \subseteq cs THEN l[n].cmds ELSE << >>]
  OBVIOUS
<1> QED
  BY <1>1 DEF Batched

LEMMA LineTypes ==
    ASSUME TypeOK, NEW t \in Thread
    PROVE  /\ Batched(log, ToSet(added)) \in Seq(Command)
           /\ InHand(t) \in Seq(Command) /\ batch \in Seq(Command)
           /\ entry[t].cmds \in Seq(Command)
<1>1. entry[t] \in Entry /\ log \in Seq(LogEntry) /\ batch \in Seq(Command)
  BY DEF TypeOK
<1>2. entry[t].cmds \in Seq(Command)
  BY <1>1 DEF Entry
<1>3. InHand(t) \in Seq(Command)
  BY <1>2 DEF InHand
<1> QED
  BY <1>1, <1>2, <1>3, BatchedType

(* A thread moves on, with an entry: what is left to show is about this    *)
(* thread alone.                                                           *)
Moved(t, where, e) ==
    /\ pc' \in [Thread -> Place] /\ pc'[t] = where
    /\ \A u \in Thread : u # t => pc'[u] = pc[u]
    /\ entry'[t] = e /\ \A u \in Thread : u # t => entry'[u] = entry[u]

LEMMA MovedOn ==
    ASSUME TypeOK, NEW t \in Thread, NEW where \in Place, NEW e, GoTo(t, where),
           entry' = [entry EXCEPT ![t] = e]
    PROVE  Moved(t, where, e)
BY DEF Moved, TypeOK, GoTo

LEMMA MovedOnly ==
    ASSUME TypeOK, NEW t \in Thread, NEW where \in Place, GoTo(t, where), UNCHANGED entry
    PROVE  Moved(t, where, entry[t])
BY DEF Moved, TypeOK, GoTo

(* A thread that is processing an entry.                                   *)
LEMMA SeatsKept ==
    ASSUME Seats, NEW t \in Thread, NEW where, NEW e, Moved(t, where, e), pc[t] \in Processing,
           UNCHANGED <<active, added>>, Seated(t)', where \notin {"idle", "add", "none"},
           t = "event" => where # "join",
           where \in Processing => e.cmds = entry[t].cmds
    PROVE  Seats'
<1>1. \A u \in Thread : Seated(u)'
  <2> TAKE u \in Thread
  <2>1. CASE u = t
    BY <2>1
  <2>2. CASE u # t
    BY <2>2 DEF Moved, Seats, Seated
  <2> QED
    BY <2>1, <2>2
<1>2. \A c \in Command : Refused(c)'
  <2> TAKE c \in Command
  <2>0. Refused(c) /\ c \in Thread
    BY ThreadsApart DEF Seats
  <2>1. CASE c = t
    <3>1. entry[c].cmds = <<c>> /\ c \notin ToSet(added)
      BY <2>0, <2>1 DEF Refused
    <3>2. where \in Processing => entry'[c].cmds = <<c>>
      BY <2>1, <3>1 DEF Moved
    <3> QED
      BY <2>1, <3>1, <3>2 DEF Moved, Refused
  <2>2. CASE c # t
    <3>1. pc'[c] = pc[c] /\ entry'[c] = entry[c]
      BY <2>0, <2>2 DEF Moved
    <3> QED
      BY <2>0, <3>1 DEF Refused
  <2> QED
    BY <2>1, <2>2
<1>3. InTurn'
  <2>1. \A u \in {"batch", "event"} : u = t \/ pc'[u] = pc[u]
    BY ThreadsApart DEF Moved
  <2>2. "join" \notin Processing /\ "none" \notin Processing
    BY DEF Processing
  <2>3. CASE t = "event"
    <3>1. pc["batch"] = "none" /\ pc'["batch"] = "none"
      BY <2>1, <2>3, ThreadsApart DEF Seats, InTurn
    <3> QED
      BY <3>1 DEF InTurn
  <2>4. CASE t = "batch"
    <3>1. pc["event"] \notin Processing /\ pc'["event"] = pc["event"]
      BY <2>1, <2>2, <2>4, ThreadsApart DEF Seats, InTurn
    <3>2. ~active => pc["event"] = "join"
      BY <2>2, <2>4 DEF Seats, InTurn
    <3> QED
      BY <3>1, <3>2 DEF InTurn
  <2>5. CASE t # "event" /\ t # "batch"
    BY <2>1, <2>5 DEF Seats, InTurn
  <2> QED
    BY <2>3, <2>4, <2>5
<1> QED
  BY <1>1, <1>2, <1>3 DEF Seats

LEMMA ApartKept ==
    ASSUME Apart, NEW t \in Thread, NEW where, NEW e, Moved(t, where, e),
           t \in Command => pc[t] \in {"idle", "add"} \/ where \notin {"idle", "add"},
           UNCHANGED added, DOMAIN log' = DOMAIN log,
           \A n \in DOMAIN log : log'[n].cmds = log[n].cmds
    PROVE  Apart'
<1>1. \A c \in Command : pc[c] \notin {"idle", "add"} => pc'[c] \notin {"idle", "add"}
  BY ThreadsApart DEF Moved
<1> QED
  BY <1>1 DEF Apart

(* Nothing moves between the log, the hands and the batch.                 *)
LEMMA LineKept ==
    ASSUME BatchesInOrder, UNCHANGED <<batch, added>>, DOMAIN log' = DOMAIN log,
           \A n \in DOMAIN log : log'[n].cmds = log[n].cmds,
           InHand("batch")' = InHand("batch"), InHand("event")' = InHand("event")
    PROVE  BatchesInOrder'
<1>1. Batched(log', ToSet(added)) = Batched(log, ToSet(added))
  BY BatchedSame
<1> QED
  BY <1>1 DEF BatchesInOrder

LEMMA HandKept ==
    ASSUME NEW t \in Thread, NEW where, NEW e, Moved(t, where, e),
           (IF e.idx = 0 THEN e.cmds ELSE << >>) = InHand(t), NEW u \in Thread
    PROVE  InHand(u)' = InHand(u)
<1>1. CASE u = t
  BY <1>1 DEF Moved, InHand
<1>2. CASE u # t
  BY <1>2 DEF Moved, InHand
<1> QED
  BY <1>1, <1>2

(* An entry is created, replicated or freed.                               *)
LEMMA ProcessOrder ==
    ASSUME OrderInv, NEW t \in Thread,
           CreateEntry(t) \/ ReplicateCheck(t) \/ ReplicateLogs(t) \/ FreeEntry(t)
    PROVE  (added \in Seq(Command) /\ Seats /\ Apart /\ BatchesInOrder)'
<1>0. TypeOK /\ Seats /\ Apart /\ BatchesInOrder /\ Seated(t) /\ added \in Seq(Command)
  BY DEF OrderInv, BInv, Seats
<1>a. entry \in [Thread -> Entry]
  BY <1>0 DEF TypeOK
<1>1. PICK where, e :
        /\ Moved(t, where, e) /\ pc[t] \in Processing
        /\ where \notin {"idle", "add", "none"} /\ (t = "event" => where # "join")
        /\ where \in {"create", "append"} => e.idx = 0
        /\ where \in {"replicate", "advance", "free"} => e.idx # 0
        /\ where \notin Processing => e = NoEntry
        /\ where \in Processing => e.cmds = entry[t].cmds
        /\ (IF e.idx = 0 THEN e.cmds ELSE << >>) = InHand(t)
        /\ UNCHANGED <<active, added, batch>>
        /\ DOMAIN log' = DOMAIN log /\ \A n \in DOMAIN log : log'[n].cmds = log[n].cmds
  <2>1. CASE CreateEntry(t)
    <3> DEFINE e == [entry[t] EXCEPT !.term = current_term]
    <3>1. entry[t] \in Entry /\ pc[t] = "create" /\ entry[t].idx = 0
      BY <1>0, <1>a, <2>1 DEF CreateEntry, Seated
    <3>2. e.idx = entry[t].idx /\ e.cmds = entry[t].cmds
      BY <3>1 DEF Entry
    <3>3. entry' = [entry EXCEPT ![t] = e] /\ GoTo(t, "append")
      BY <2>1 DEF CreateEntry
    <3> HIDE DEF e
    <3>4. Moved(t, "append", e)
      BY <1>0, <3>3, MovedOn DEF Place
    <3>5. UNCHANGED <<active, added, batch, log>>
      BY <2>1 DEF CreateEntry, node, newBatch
    <3> QED
      BY <3>1, <3>2, <3>4, <3>5 DEF Processing, InHand
  <2>2. CASE ReplicateCheck(t)
    <3> DEFINE where == IF state = "LEADER" THEN "advance" ELSE "free"
    <3>1. pc[t] = "replicate" /\ GoTo(t, where) /\ where \in {"advance", "free"}
          /\ UNCHANGED <<active, added, batch, log, entry>>
      BY <2>2 DEF ReplicateCheck, node, newBatch
    <3> HIDE DEF where
    <3>2. Moved(t, where, entry[t])
      BY <1>0, <3>1, MovedOnly DEF Place
    <3>3. entry[t].idx # 0
      BY <1>0, <3>1 DEF Seated
    <3> QED
      BY <3>1, <3>2, <3>3 DEF Processing, InHand
  <2>3. CASE ReplicateLogs(t)
    <3>1. pc[t] = "advance" /\ GoTo(t, "free") /\ UNCHANGED <<active, added, batch, log, entry>>
      BY <2>3 DEF ReplicateLogs, newBatch
    <3>2. Moved(t, "free", entry[t])
      BY <1>0, <3>1, MovedOnly DEF Place
    <3>3. entry[t].idx # 0
      BY <1>0, <3>1 DEF Seated
    <3> QED
      BY <3>1, <3>2, <3>3 DEF Processing, InHand
  <2>4. CASE FreeEntry(t)
    <3> DEFINE where == CASE t = "batch" -> "loop" [] t = "event" -> "follow" [] OTHER -> "done"
    <3>1. pc[t] = "free" /\ GoTo(t, where) /\ where \in {"loop", "follow", "done"}
          /\ UNCHANGED <<active, added, batch>> /\ entry' = [entry EXCEPT ![t] = NoEntry]
          /\ log' = [log EXCEPT ![entry[t].idx].data = "freed"]
      BY <2>4 DEF FreeEntry, newBatch
    <3> HIDE DEF where
    <3>2. Moved(t, where, NoEntry)
      BY <1>0, <3>1, MovedOn DEF Place
    <3>3. entry[t].idx # 0
      BY <1>0, <3>1 DEF Seated
    <3>4. DOMAIN log' = DOMAIN log /\ \A n \in DOMAIN log : log'[n].cmds = log[n].cmds
      <4>1. log \in Seq(LogEntry)
        BY <1>0 DEF TypeOK
      <4>2. \A n \in DOMAIN log : log[n] \in LogEntry
        BY <4>1
      <4>3. \A r \in LogEntry : [r EXCEPT !.data = "freed"].cmds = r.cmds
        BY DEF LogEntry
      <4>4. log' = [n \in DOMAIN log |-> IF n = entry[t].idx THEN [log[n] EXCEPT !.data = "freed"]
                                                            ELSE log[n]]
        BY <3>1
      <4> QED
        BY <4>2, <4>3, <4>4
    <3> QED
      BY <3>1, <3>2, <3>3, <3>4 DEF Processing, InHand, NoEntry
  <2> QED
    BY <2>1, <2>2, <2>3, <2>4
<1>2. Seated(t)'
  BY <1>1 DEF Moved, Seated
<1>3. Seats'
  BY <1>0, <1>1, <1>2, SeatsKept
<1>4. Apart'
  BY <1>0, <1>1, ApartKept
<1>5. InHand("batch")' = InHand("batch") /\ InHand("event")' = InHand("event")
  BY <1>1, HandKept, ThreadsApart
<1>6. BatchesInOrder'
  BY <1>0, <1>1, <1>5, LineKept
<1> QED
  BY <1>0, <1>1, <1>3, <1>4, <1>6

(* A command reaches the log: a batched one from the hands of the thread   *)
(* that appends it, the other hand being empty.                            *)
Empty(t) == InHand(t) = << >>

LEMMA Idles ==
    ASSUME Seats, NEW t \in Thread, pc[t] \notin Processing
    PROVE  Empty(t) /\ entry[t] = NoEntry
BY DEF Seats, Seated, Empty, InHand, NoEntry

LEMMA HandIsAdded ==
    ASSUME TypeOK, BatchesInOrder, NEW t \in {"batch", "event"}
    PROVE  ToSet(InHand(t)) \subseteq ToSet(added)
<1> DEFINE f == Batched(log, ToSet(added))
           hb == InHand("batch")
           he == InHand("event")
<1>1. /\ f \in Seq(Command) /\ hb \in Seq(Command) /\ he \in Seq(Command)
      /\ batch \in Seq(Command)
  BY LineTypes, ThreadsApart
<1>2. ((f \o hb) \o he) \o batch = added
  BY DEF BatchesInOrder
<1> HIDE DEF f, hb, he
<1>3. f \o hb \in Seq(Command) /\ (f \o hb) \o he \in Seq(Command)
  BY <1>1, ConcatProperties
<1>4. ToSet(hb) \subseteq ToSet(f \o hb) /\ ToSet(f \o hb) \subseteq ToSet((f \o hb) \o he)
      /\ ToSet(he) \subseteq ToSet((f \o hb) \o he)
  BY <1>1, <1>3, Parts
<1>5. ToSet((f \o hb) \o he) \subseteq ToSet(((f \o hb) \o he) \o batch)
  BY <1>1, <1>3, Parts
<1> QED
  BY <1>2, <1>4, <1>5 DEF hb, he

LEMMA AppendOrder ==
    ASSUME OrderInv, NEW t \in Thread, AppendEntry(t)
    PROVE  (added \in Seq(Command) /\ Seats /\ Apart /\ BatchesInOrder)'
<1>0. TypeOK /\ Seats /\ Apart /\ BatchesInOrder /\ Seated(t) /\ added \in Seq(Command)
  BY DEF OrderInv, BInv, Seats
<1> DEFINE r == [term |-> entry[t].term, cmds |-> entry[t].cmds, data |-> "live"]
           e == [entry[t] EXCEPT !.idx = Len(log')]
           cs == ToSet(added)
<1>1. entry[t] \in Entry /\ pc[t] = "append" /\ entry[t].idx = 0 /\ log \in Seq(LogEntry)
  BY <1>0 DEF AppendEntry, Seated, TypeOK
<1>2. r \in LogEntry /\ r.cmds = entry[t].cmds
  BY <1>1 DEF Entry, LogEntry
<1>3. /\ log' = Append(log, r) /\ entry' = [entry EXCEPT ![t] = e] /\ GoTo(t, "replicate")
      /\ UNCHANGED <<active, added, batch>>
  BY DEF AppendEntry, newBatch
<1> HIDE DEF r
<1>4. Len(log') = Len(log) + 1 /\ Len(log) \in Nat /\ DOMAIN log' = DOMAIN log \cup {Len(log) + 1}
      /\ log'[Len(log) + 1] = r /\ \A n \in DOMAIN log : log'[n] = log[n]
  BY <1>1, <1>2, <1>3
<1>5. e.idx # 0 /\ e.cmds = entry[t].cmds
  BY <1>1, <1>4 DEF Entry
<1> HIDE DEF e
<1>6. Moved(t, "replicate", e)
  BY <1>0, <1>3, MovedOn DEF Place
<1>7. Seated(t)'
  BY <1>5, <1>6 DEF Moved, Seated, Processing
<1>8. Seats'
  <2>1. pc[t] \in Processing /\ "replicate" \notin {"idle", "add", "none"} /\ "replicate" # "join"
    BY <1>1 DEF Processing
  <2> QED
    BY <1>0, <1>3, <1>5, <1>6, <1>7, <2>1, SeatsKept
<1>9. \/ t \in {"batch", "event"} /\ ToSet(r.cmds) \subseteq cs
      \/ t \in Command /\ r.cmds = <<t>> /\ t \notin cs
  <2>1. CASE t \in {"batch", "event"}
    <3>1. InHand(t) = r.cmds
      BY <1>1, <1>2 DEF InHand
    <3> QED
      BY <1>0, <2>1, <3>1, HandIsAdded
  <2>2. CASE t \in Command
    BY <1>0, <1>1, <1>2, <2>2 DEF Seats, Refused, Processing
  <2> QED
    BY <2>1, <2>2 DEF Thread
<1>a. Apart'
  <2>1. \A c \in Command : pc[c] \notin {"idle", "add"} => pc'[c] \notin {"idle", "add"}
    BY <1>6, ThreadsApart DEF Moved
  <2>2. ASSUME NEW n \in DOMAIN log
        PROVE  \/ ToSet(log'[n].cmds) \subseteq ToSet(added')
               \/ \E c \in Command : /\ log'[n].cmds = <<c>> /\ c \notin ToSet(added')
                                     /\ pc'[c] \notin {"idle", "add"}
    BY <1>0, <1>3, <1>4, <2>1 DEF Apart
  <2>3. \/ ToSet(r.cmds) \subseteq ToSet(added')
        \/ \E c \in Command : /\ r.cmds = <<c>> /\ c \notin ToSet(added')
                              /\ pc'[c] \notin {"idle", "add"}
    BY <1>3, <1>6, <1>9 DEF Moved
  <2> QED
    BY <1>4, <2>2, <2>3 DEF Apart
<1>b. Batched(log', ToSet(added')) =
        Batched(log, cs) \o (IF ToSet(r.cmds) \subseteq cs THEN r.cmds ELSE << >>)
  BY <1>1, <1>2, <1>3, BatchedAppend
<1>c. \A u \in Thread : u # t => InHand(u)' = InHand(u)
  BY <1>6 DEF Moved, InHand
<1>d. InHand(t)' = << >> /\ InHand(t) = r.cmds
  BY <1>1, <1>2, <1>5, <1>6 DEF Moved, InHand
<1> DEFINE f == Batched(log, cs)
           hb == InHand("batch")
           he == InHand("event")
           x == r.cmds
<1>e. /\ f \in Seq(Command) /\ hb \in Seq(Command) /\ he \in Seq(Command)
      /\ batch \in Seq(Command) /\ x \in Seq(Command)
  BY <1>0, <1>d, LineTypes, ThreadsApart
<1>f. f \o hb \o he \o batch = added
  BY <1>0 DEF BatchesInOrder
<1> HIDE DEF f, hb, he, x
<1>g. f \o << >> = f /\ f \o hb \in Seq(Command)
  BY <1>e, ConcatEmptySeq, ConcatProperties
<1>h. (f \o hb) \o << >> = f \o hb
  BY <1>g, ConcatEmptySeq
<1>i. ASSUME t \in Command PROVE BatchesInOrder'
  <2>1. t # "batch" /\ t # "event"
    BY <1>i, ThreadsApart
  <2>2. InHand("batch")' = hb /\ InHand("event")' = he
    BY <1>c, <2>1, ThreadsApart DEF hb, he
  <2>3. ~ (ToSet(r.cmds) \subseteq cs)
    <3>1. r.cmds = <<t>> /\ t \notin cs
      BY <1>9, <2>1
    <3>2. t \in ToSet(<<t>>)
      BY DEF ToSet
    <3> QED
      BY <3>1, <3>2
  <2>4. Batched(log', ToSet(added')) = f
    BY <1>b, <1>g, <2>3 DEF f
  <2> QED
    BY <1>3, <1>f, <2>2, <2>4 DEF BatchesInOrder
<1>j. ASSUME t = "batch" PROVE BatchesInOrder'
  <2>1. pc["event"] \notin Processing
    BY <1>0, <1>1, <1>j DEF Seats, InTurn
  <2>2. he = << >> /\ InHand("event")' = << >>
    BY <1>0, <1>c, <1>j, <2>1, Idles, ThreadsApart DEF Empty, he
  <2>3. InHand("batch")' = << >> /\ hb = x
    BY <1>d, <1>j DEF hb, x
  <2>4. Batched(log', ToSet(added')) = f \o hb
    BY <1>9, <1>b, <1>j, <2>3, ThreadsApart DEF f, x
  <2>5. Batched(log', ToSet(added')) \o InHand("batch")' \o InHand("event")' \o batch' = added'
    BY <1>3, <1>f, <1>h, <2>2, <2>3, <2>4
  <2> QED
    BY <2>5 DEF BatchesInOrder
<1>k. ASSUME t = "event" PROVE BatchesInOrder'
  <2>1. pc["batch"] \notin Processing
    BY <1>0, <1>1, <1>k DEF Seats, InTurn, Processing
  <2>2. hb = << >> /\ InHand("batch")' = << >>
    BY <1>0, <1>c, <1>k, <2>1, Idles, ThreadsApart DEF Empty, hb
  <2>3. InHand("event")' = << >> /\ he = x
    BY <1>d, <1>k DEF he, x
  <2>4. Batched(log', ToSet(added')) = f \o he
    BY <1>9, <1>b, <1>k, <2>3, ThreadsApart DEF f, x
  <2>5. f \o he \in Seq(Command)
    BY <1>e, ConcatProperties
  <2>6. (f \o he) \o << >> = f \o he
    BY <2>5, ConcatEmptySeq
  <2>7. Batched(log', ToSet(added')) \o InHand("batch")' \o InHand("event")' \o batch' = added'
    BY <1>3, <1>f, <1>g, <2>2, <2>3, <2>4, <2>6
  <2> QED
    BY <2>7 DEF BatchesInOrder
<1>l. BatchesInOrder'
  BY <1>i, <1>j, <1>k DEF Thread
<1> QED
  BY <1>0, <1>3, <1>8, <1>a, <1>l

(* Any other move of one thread.                                           *)
LEMMA SeatsMoved ==
    ASSUME Seats, NEW t \in Thread, NEW where, NEW e, Moved(t, where, e),
           Seated(t)', t \in Command => Refused(t)',
           \A d \in Command \ {t} : d \in ToSet(added') => d \in ToSet(added), InTurn'
    PROVE  Seats'
<1>1. \A u \in Thread : Seated(u)'
  <2> TAKE u \in Thread
  <2>1. CASE u = t
    BY <2>1
  <2>2. CASE u # t
    BY <2>2 DEF Moved, Seats, Seated
  <2> QED
    BY <2>1, <2>2
<1>2. \A c \in Command : Refused(c)'
  <2> TAKE c \in Command
  <2>1. CASE c = t
    BY <2>1
  <2>2. CASE c # t
    <3>1. pc'[c] = pc[c] /\ entry'[c] = entry[c]
      BY <2>2, ThreadsApart DEF Moved
    <3>2. c \in ToSet(added') => c \in ToSet(added)
      BY <2>2
    <3> QED
      BY <3>1, <3>2 DEF Refused, Seats
  <2> QED
    BY <2>1, <2>2
<1> QED
  BY <1>1, <1>2 DEF Seats

(* A client, which the batch and event threads do not notice.              *)
LEMMA ClientOrder ==
    ASSUME OrderInv, NEW c \in Command, ClientCheck(c) \/ ClientAdd(c)
    PROVE  (added \in Seq(Command) /\ Seats /\ Apart /\ BatchesInOrder)'
<1>0. /\ TypeOK /\ Seats /\ Apart /\ BatchesInOrder /\ added \in Seq(Command)
      /\ c \in Thread /\ c # "batch" /\ c # "event"
  BY ThreadsApart DEF OrderInv, BInv
<1>1. pc[c] \in {"idle", "add"} /\ pc[c] \notin Processing
  BY DEF ClientCheck, ClientAdd, Processing
<1>2. entry[c] = NoEntry /\ c \notin ToSet(added)
  BY <1>0, <1>1 DEF Seats, Seated, Refused
<1>3. UNCHANGED <<active, log>>
  BY DEF ClientCheck, ClientAdd, node
<1>t. ASSUME NEW where, NEW e, Moved(c, where, e) PROVE InTurn'
  BY <1>0, <1>3, <1>t, ThreadsApart DEF Moved, Seats, InTurn
<1>h. ASSUME NEW where, NEW e, Moved(c, where, e)
      PROVE  InHand("batch")' = InHand("batch") /\ InHand("event")' = InHand("event")
  BY <1>0, <1>h, ThreadsApart DEF Moved, InHand
<1>4. CASE ClientCheck(c)
  <2> DEFINE where == IF state = "LEADER" THEN "add" ELSE "refused"
  <2>1. where \in {"add", "refused"} /\ GoTo(c, where) /\ UNCHANGED <<entry, added, batch>>
    BY <1>4 DEF ClientCheck, newBatch
  <2> HIDE DEF where
  <2>2. Moved(c, where, NoEntry)
    BY <1>0, <1>2, <2>1, MovedOnly DEF Place
  <2>3. Seated(c)' /\ Refused(c)'
    BY <1>2, <2>1, <2>2 DEF Moved, Seated, Refused, Processing
  <2>4. Seats'
    BY <1>0, <1>t, <2>1, <2>2, <2>3, SeatsMoved
  <2>5. Apart'
    BY <1>0, <1>1, <1>3, <2>1, <2>2, ApartKept
  <2>6. BatchesInOrder'
    BY <1>0, <1>3, <1>h, <2>1, <2>2, LineKept
  <2> QED
    BY <1>0, <2>1, <2>4, <2>5, <2>6
<1>5. CASE ClientAdd(c) /\ Overflows(c)
  <2> DEFINE e == [entry[c] EXCEPT !.cmds = <<c>>]
  <2>1. /\ GoTo(c, "create") /\ UNCHANGED <<added, batch>>
        /\ entry' = [entry EXCEPT ![c] = e]
    BY <1>5 DEF ClientAdd, newBatch
  <2>2. e.idx = 0 /\ e.cmds = <<c>>
    BY <1>2 DEF NoEntry
  <2> HIDE DEF e
  <2>3. Moved(c, "create", e)
    BY <1>0, <2>1, MovedOn DEF Place
  <2>4. Seated(c)' /\ Refused(c)'
    BY <1>2, <2>1, <2>2, <2>3 DEF Moved, Seated, Refused, Processing
  <2>5. Seats'
    BY <1>0, <1>t, <2>1, <2>3, <2>4, SeatsMoved
  <2>6. Apart'
    BY <1>0, <1>1, <1>3, <2>1, <2>3, ApartKept
  <2>7. BatchesInOrder'
    BY <1>0, <1>3, <1>h, <2>1, <2>3, LineKept
  <2> QED
    BY <1>0, <2>1, <2>5, <2>6, <2>7
<1>6. CASE ClientAdd(c) /\ ~Overflows(c)
  <2>1. /\ GoTo(c, "done") /\ UNCHANGED entry
        /\ batch' = Append(batch, c) /\ added' = Append(added, c)
    BY <1>6 DEF ClientAdd
  <2>2. Moved(c, "done", NoEntry)
    BY <1>0, <1>2, <2>1, MovedOnly DEF Place
  <2>3. added' \in Seq(Command) /\ ToSet(added') = ToSet(added) \cup {c}
    <3>1. /\ Append(added, c) \in Seq(Command)
          /\ ToSet(Append(added, c)) = ToSet(added) \cup {c}
      <4>1. added \in Seq(Command) /\ c \in Command
        BY <1>0
      <4>2. Append(added, c) \in Seq(Command)
        BY <4>1
      <4>3. ToSet(Append(added, c)) = ToSet(added) \cup {c}
        <5>1. /\ Len(added) \in Nat /\ DOMAIN added = 1 .. Len(added)
              /\ DOMAIN Append(added, c) = 1 .. Len(added) + 1
              /\ \A k \in 1 .. Len(added) : Append(added, c)[k] = added[k]
              /\ Append(added, c)[Len(added) + 1] = c
          BY <4>1
        <5>2. 1 .. Len(added) + 1 = (1 .. Len(added)) \cup {Len(added) + 1}
          BY <5>1
        <5> QED
          BY <5>1, <5>2 DEF ToSet
      <4> QED
        BY <4>2, <4>3
    <3>2. added' = Append(added, c)
      BY <2>1
    <3> QED
      BY <3>1, <3>2
  <2>4. Seated(c)' /\ Refused(c)'
    BY <2>2 DEF Moved, Seated, Refused, Processing
  <2>5. Seats'
    BY <1>0, <1>t, <2>2, <2>3, <2>4, SeatsMoved
  <2>6. ASSUME NEW n \in DOMAIN log
        PROVE  /\ \/ ToSet(log[n].cmds) \subseteq ToSet(added')
                  \/ \E d \in Command : /\ log[n].cmds = <<d>> /\ d \notin ToSet(added')
                                        /\ pc'[d] \notin {"idle", "add"}
               /\ ToSet(log[n].cmds) \subseteq ToSet(added)
                    <=> ToSet(log[n].cmds) \subseteq ToSet(added')
    <3>1. CASE ToSet(log[n].cmds) \subseteq ToSet(added)
      BY <2>3, <3>1
    <3>2. ASSUME NEW d \in Command, log[n].cmds = <<d>>, d \notin ToSet(added),
                 pc[d] \notin {"idle", "add"}
          PROVE  /\ d \notin ToSet(added') /\ pc'[d] \notin {"idle", "add"}
                 /\ ~ (ToSet(log[n].cmds) \subseteq ToSet(added'))
                 /\ ~ (ToSet(log[n].cmds) \subseteq ToSet(added))
      <4>1. d # c
        BY <1>1, <3>2
      <4>2. d \in ToSet(<<d>>)
        BY DEF ToSet
      <4>3. d \notin ToSet(added') /\ pc'[d] = pc[d]
        BY <2>2, <2>3, <3>2, <4>1, ThreadsApart DEF Moved
      <4> QED
        BY <3>2, <4>2, <4>3
    <3> QED
      BY <1>0, <3>1, <3>2 DEF Apart
  <2>7. Apart'
    BY <1>3, <2>6 DEF Apart
  <2>8. Batched(log', ToSet(added')) = Batched(log, ToSet(added))
    BY <1>3, <2>6, BatchedSame
  <2> DEFINE l == Batched(log, ToSet(added)) \o InHand("batch") \o InHand("event")
  <2>9. l \in Seq(Command) /\ batch \in Seq(Command) /\ l \o batch = added
    <3>1. /\ Batched(log, ToSet(added)) \in Seq(Command)
          /\ InHand("batch") \in Seq(Command) /\ InHand("event") \in Seq(Command)
          /\ batch \in Seq(Command)
      BY <1>0, LineTypes, ThreadsApart
    <3>2. l \in Seq(Command)
      BY <3>1, ConcatProperties
    <3> QED
      BY <1>0, <3>1, <3>2 DEF BatchesInOrder
  <2>a. Batched(log', ToSet(added')) \o InHand("batch")' \o InHand("event")' = l
    BY <1>h, <2>2, <2>8
  <2> HIDE DEF l
  <2>b. Append(batch, c) = batch \o <<c>> /\ Append(added, c) = added \o <<c>>
    BY <1>0, <2>9, Appended
  <2>c. l \o (batch \o <<c>>) = (l \o batch) \o <<c>>
    <3>1. <<c>> \in Seq(Command)
      OBVIOUS
    <3>2. Joined(l, batch, <<c>>)
      BY <2>9, <3>1, Associative
    <3> QED
      BY <3>2 DEF Joined
  <2>d. BatchesInOrder'
    BY <2>1, <2>9, <2>a, <2>b, <2>c DEF BatchesInOrder
  <2> QED
    BY <2>3, <2>5, <2>7, <2>d
<1> QED
  BY <1>4, <1>5, <1>6

(* The rest of the batch goes into the hands of the batch thread, or of    *)
(* the event thread, when both have empty hands.                           *)
LEMMA HandOver ==
    ASSUME TypeOK, BatchesInOrder, Empty("batch"), Empty("event"),
           NEW t \in {"batch", "event"}, InHand(t)' = batch, batch' = << >>,
           \A u \in {"batch", "event"} : u # t => InHand(u)' = InHand(u),
           UNCHANGED <<log, added>>
    PROVE  BatchesInOrder'
<1> DEFINE f == Batched(log, ToSet(added))
<1>1. f \in Seq(Command) /\ batch \in Seq(Command)
  BY LineTypes, ThreadsApart
<1>2. f \o << >> \o << >> \o batch = added
  BY DEF BatchesInOrder, Empty
<1>3. Batched(log', ToSet(added')) = f
  OBVIOUS
<1>4. \/ InHand("batch")' = batch /\ InHand("event")' = << >>
      \/ InHand("batch")' = << >> /\ InHand("event")' = batch
  BY ThreadsApart DEF Empty
<1> HIDE DEF f
<1>5. f \o << >> = f /\ f \o batch \in Seq(Command)
  BY <1>1, ConcatEmptySeq, ConcatProperties
<1>6. (f \o batch) \o << >> = f \o batch
  BY <1>5, ConcatEmptySeq
<1>7. Batched(log', ToSet(added')) \o InHand("batch")' \o InHand("event")' \o batch' = added'
  BY <1>2, <1>3, <1>4, <1>5, <1>6
<1> QED
  BY <1>7 DEF BatchesInOrder

LEMMA BatchOrder ==
    ASSUME OrderInv, BatchLoop \/ BatchSleep \/ BatchTake
    PROVE  (added \in Seq(Command) /\ Seats /\ Apart /\ BatchesInOrder)'
<1>0. TypeOK /\ Seats /\ Apart /\ BatchesInOrder /\ added \in Seq(Command)
  BY DEF OrderInv, BInv
<1>1. /\ pc["batch"] \in {"loop", "look"} /\ pc["batch"] \notin Processing
      /\ UNCHANGED <<active, log, added>>
  BY DEF BatchLoop, BatchSleep, BatchTake, Processing, node
<1>2. entry["batch"] = NoEntry /\ Empty("batch") /\ pc["event"] \notin Processing
      /\ (~active => pc["event"] = "join")
  BY <1>0, <1>1, Idles, ThreadsApart DEF Seats, InTurn
<1>t. ASSUME NEW where \in {"none", "loop", "look", "create"}, NEW e,
             Moved("batch", where, e), Seated("batch")',
             where = "none" => ~active
      PROVE  Seats'
  <2>1. pc'["event"] = pc["event"]
    BY <1>t, ThreadsApart DEF Moved
  <2>2. InTurn'
    BY <1>1, <1>2, <1>t, <2>1 DEF InTurn
  <2> QED
    BY <1>0, <1>1, <1>t, <2>2, SeatsMoved, ThreadsApart
<1>3. CASE BatchLoop \/ BatchSleep
  <2>1. PICK where \in {"none", "loop", "look"} :
          GoTo("batch", where) /\ (where = "none" => ~active) /\ UNCHANGED <<entry, batch>>
    BY <1>3 DEF BatchLoop, BatchSleep, newBatch
  <2>2. Moved("batch", where, NoEntry)
    BY <1>0, <1>2, <2>1, MovedOnly, ThreadsApart DEF Place
  <2>3. Seated("batch")'
    BY <2>2 DEF Moved, Seated, Processing
  <2>4. Seats'
    BY <1>t, <2>1, <2>2, <2>3
  <2>5. where \notin {"idle", "add"}
    OBVIOUS
  <2>6. Apart'
    BY <1>0, <1>1, <2>2, <2>5, ApartKept, ThreadsApart
  <2>7. InHand("batch")' = InHand("batch") /\ InHand("event")' = InHand("event")
    BY <2>1 DEF InHand
  <2>8. BatchesInOrder'
    BY <1>0, <1>1, <2>1, <2>7, LineKept
  <2> QED
    BY <1>0, <1>1, <2>4, <2>6, <2>8
<1>4. CASE BatchTake
  <2> DEFINE e == [entry["batch"] EXCEPT !.cmds = batch]
  <2>1. GoTo("batch", "create") /\ entry' = [entry EXCEPT !["batch"] = e] /\ batch' = << >>
    BY <1>4 DEF BatchTake, NewBatch
  <2>2. e.idx = 0 /\ e.cmds = batch
    BY <1>2 DEF NoEntry
  <2> HIDE DEF e
  <2>3. Moved("batch", "create", e)
    BY <1>0, <2>1, MovedOn, ThreadsApart DEF Place
  <2>4. Seated("batch")'
    BY <2>2, <2>3 DEF Moved, Seated, Processing
  <2>5. Seats'
    BY <1>t, <2>3, <2>4
  <2>6. Apart'
    BY <1>0, <1>1, <2>3, ApartKept, ThreadsApart
  <2>7. InHand("batch")' = batch /\ InHand("event")' = InHand("event")
    BY <2>2, <2>3, ThreadsApart DEF Moved, InHand
  <2>8. Empty("event")
    BY <1>0, <1>2, Idles, ThreadsApart
  <2>9. BatchesInOrder'
    BY <1>0, <1>1, <1>2, <2>1, <2>7, <2>8, HandOver
  <2> QED
    BY <1>0, <1>1, <2>5, <2>6, <2>9
<1> QED
  BY <1>3, <1>4

(* The event thread.  What changes the role leaves the way of the commands *)
(* alone, except that a new leader may start a batch thread, which it does *)
(* only when there is none.                                                *)
LEMMA RoleOrder ==
    ASSUME OrderInv, BecomeCandidate \/ BecomeLeader \/ HigherTerm
    PROVE  (added \in Seq(Command) /\ Seats /\ Apart /\ BatchesInOrder)'
<1>0. TypeOK /\ Seats /\ Apart /\ BatchesInOrder /\ added \in Seq(Command)
  BY DEF OrderInv, BInv
<1>1. pc["event"] = "idle" /\ UNCHANGED <<log, batch, entry, added>>
  BY DEF BecomeCandidate, BecomeLeader, HigherTerm, newBatch
<1>2. \/ UNCHANGED <<pc, active>>
      \/ UNCHANGED pc /\ active /\ active'
      \/ ~active /\ active' /\ GoTo("batch", "loop")
  BY <1>0 DEF BecomeCandidate, BecomeLeader, HigherTerm, GoTo, TypeOK
<1>3. CASE UNCHANGED pc /\ (UNCHANGED active \/ active')
  <2>1. Seats'
    BY <1>0, <1>1, <1>3 DEF Seats, Seated, Refused, InTurn
  <2>2. Apart'
    BY <1>0, <1>1, <1>3 DEF Apart
  <2>3. BatchesInOrder'
    BY <1>0, <1>1 DEF BatchesInOrder, InHand
  <2> QED
    BY <1>0, <1>1, <2>1, <2>2, <2>3
<1>4. CASE ~active /\ active' /\ GoTo("batch", "loop")
  <2>1. pc["batch"] = "none" /\ pc["batch"] \notin Processing
    BY <1>0, <1>1, <1>4 DEF Seats, InTurn, Processing
  <2>2. entry["batch"] = NoEntry
    BY <1>0, <2>1, Idles, ThreadsApart
  <2>3. Moved("batch", "loop", NoEntry)
    BY <1>0, <1>1, <1>4, <2>2, MovedOnly, ThreadsApart DEF Place
  <2>4. Seated("batch")'
    BY <2>3 DEF Moved, Seated, Processing
  <2>5. InTurn'
    BY <1>1, <1>4, <2>3, ThreadsApart DEF Moved, InTurn, Processing
  <2>6. Seats'
    BY <1>0, <1>1, <2>3, <2>4, <2>5, SeatsMoved, ThreadsApart
  <2>7. Apart'
    BY <1>0, <1>1, <2>3, ApartKept, ThreadsApart
  <2>8. BatchesInOrder'
    BY <1>0, <1>1 DEF BatchesInOrder, InHand
  <2> QED
    BY <1>0, <1>1, <2>6, <2>7, <2>8
<1> QED
  BY <1>2, <1>3, <1>4

(* The event thread steps down: it does not take the rest of the batch     *)
(* before the batch thread has ended, and it starts none until it is done. *)
LEMMA StepDownOrder ==
    ASSUME OrderInv, BecomeFollower \/ StopJoin \/ Follow
    PROVE  (added \in Seq(Command) /\ Seats /\ Apart /\ BatchesInOrder)'
<1>0. TypeOK /\ Seats /\ Apart /\ BatchesInOrder /\ added \in Seq(Command)
  BY DEF OrderInv, BInv
<1>1. pc["event"] \notin Processing /\ UNCHANGED <<log, added>>
  BY DEF BecomeFollower, StopJoin, Follow, Processing, node
<1>2. entry["event"] = NoEntry /\ Empty("event")
  BY <1>0, <1>1, Idles, ThreadsApart
<1>t. ASSUME NEW where \in {"idle", "join", "follow", "create"}, NEW e,
             Moved("event", where, e), Seated("event")',
             where = "create" => pc["batch"] = "none",
             ~active' => pc["batch"] = "none" \/ where = "join"
      PROVE  Seats' /\ (DOMAIN log' = DOMAIN log => Apart')
  <2>1. pc'["batch"] = pc["batch"] /\ pc'["event"] = where
    BY <1>t, ThreadsApart DEF Moved
  <2>2. InTurn'
    BY <1>t, <2>1 DEF InTurn, Processing
  <2>3. Seats'
    BY <1>0, <1>1, <1>t, <2>2, SeatsMoved, ThreadsApart
  <2>4. Apart'
    BY <1>0, <1>1, <1>t, ApartKept, ThreadsApart
  <2> QED
    BY <2>3, <2>4
<1>3. CASE BecomeFollower \/ Follow
  <2>1. PICK where \in {"idle", "join", "follow"} :
          GoTo("event", where) /\ UNCHANGED <<entry, batch>>
          /\ (where = "join" \/ UNCHANGED active)
    BY <1>3 DEF BecomeFollower, Follow, newBatch
  <2>2. Moved("event", where, NoEntry)
    BY <1>0, <1>2, <2>1, MovedOnly, ThreadsApart DEF Place
  <2>3. Seated("event")'
    BY <2>2 DEF Moved, Seated, Processing
  <2>4. pc["event"] # "join"
    BY <1>3 DEF BecomeFollower, Follow
  <2>5. ~active' => pc["batch"] = "none" \/ where = "join"
    BY <1>0, <2>1, <2>4 DEF Seats, InTurn
  <2>6. Seats' /\ Apart'
    BY <1>1, <1>t, <2>1, <2>2, <2>3, <2>5
  <2>7. InHand("batch")' = InHand("batch") /\ InHand("event")' = InHand("event")
    BY <2>1 DEF InHand
  <2>8. BatchesInOrder'
    BY <1>0, <1>1, <2>1, <2>7, LineKept
  <2> QED
    BY <1>0, <1>1, <2>6, <2>8
<1>4. CASE StopJoin
  <2> DEFINE e == [entry["event"] EXCEPT !.cmds = batch]
  <2>1. PICK where \in {"follow", "create"} :
          /\ GoTo("event", where) /\ where = (IF batch = << >> THEN "follow" ELSE "create")
          /\ entry' = [entry EXCEPT !["event"] = e] /\ batch' = << >>
          /\ pc["batch"] = "none" /\ UNCHANGED active
    BY <1>4 DEF StopJoin, NewBatch
  <2>2. e = [cmds |-> batch, term |-> 0, idx |-> 0] /\ e.idx = 0 /\ e.cmds = batch
    BY <1>2 DEF NoEntry
  <2>3. batch = << >> => e = NoEntry
    BY <2>2 DEF NoEntry
  <2> HIDE DEF e
  <2>4. Moved("event", where, e)
    BY <1>0, <2>1, MovedOn, ThreadsApart DEF Place
  <2>5. Seated("event")'
    BY <2>1, <2>2, <2>3, <2>4 DEF Moved, Seated, Processing
  <2>6. Seats' /\ Apart'
    BY <1>1, <1>t, <2>1, <2>4, <2>5
  <2>7. InHand("event")' = batch /\ InHand("batch")' = InHand("batch")
    BY <2>2, <2>4, ThreadsApart DEF Moved, InHand
  <2>8. Empty("batch")
    BY <1>0, <2>1, Idles, ThreadsApart DEF Processing
  <2>9. BatchesInOrder'
    BY <1>0, <1>1, <1>2, <2>1, <2>7, <2>8, HandOver
  <2> QED
    BY <1>0, <1>1, <2>6, <2>9
<1> QED
  BY <1>3, <1>4

LEMMA OrderInit == Init => OrderInv
<1> SUFFICES ASSUME Init PROVE OrderInv
  OBVIOUS
<1>1. BInv
  BY BInvInit
<1>2. added = << >> /\ log = << >> /\ batch = << >> /\ ~active /\ added \in Seq(Command)
  BY DEF Init
<1>3. \A t \in Thread : /\ entry[t] = NoEntry
                        /\ pc[t] = IF t = "batch" THEN "none" ELSE "idle"
  BY DEF Init
<1>4. ToSet(added) = {}
  BY <1>2 DEF ToSet
<1>5. Seats
  BY <1>2, <1>3, <1>4, ThreadsApart DEF Seats, Seated, Refused, InTurn, Processing
<1>6. Apart
  BY <1>2 DEF Apart
<1>7. InHand("batch") = << >> /\ InHand("event") = << >>
  BY <1>3, ThreadsApart DEF InHand, NoEntry
<1>8. Batched(log, ToSet(added)) = << >>
  <2>1. [n \in DOMAIN log |-> IF ToSet(log[n].cmds) \subseteq ToSet(added)
                              THEN log[n].cmds ELSE << >>] = << >>
    BY <1>2
  <2> QED
    BY <2>1, FlattenEmpty DEF Batched
<1>9. BatchesInOrder
  BY <1>2, <1>7, <1>8 DEF BatchesInOrder
<1> QED
  BY <1>1, <1>2, <1>5, <1>6, <1>9 DEF OrderInv

LEMMA OrderNext ==
    ASSUME OrderInv, [Next]_vars
    PROVE  OrderInv'
<1>1. BInv'
  BY BInvNext DEF OrderInv
<1>2. ASSUME UNCHANGED vars
      PROVE  (added \in Seq(Command) /\ Seats /\ Apart /\ BatchesInOrder)'
  <2>1. UNCHANGED <<active, log, batch, entry, added, pc>>
    BY <1>2 DEF vars, newBatch
  <2>2. Seats'
    BY <2>1 DEF OrderInv, Seats, Seated, Refused, InTurn
  <2> QED
    BY <2>1, <2>2 DEF OrderInv, Apart, BatchesInOrder, InHand
<1>3. ASSUME NEW t \in Thread, Process(t)
      PROVE  (added \in Seq(Command) /\ Seats /\ Apart /\ BatchesInOrder)'
  BY <1>3, ProcessOrder, AppendOrder DEF Process
<1>4. (added \in Seq(Command) /\ Seats /\ Apart /\ BatchesInOrder)'
  BY <1>2, <1>3, ClientOrder, BatchOrder, RoleOrder, StepDownOrder DEF Next
<1> QED
  BY <1>1, <1>4 DEF OrderInv

(* However the clients, the batch thread and a thread that stops the       *)
(* batcher take turns, the batched commands are in the log, in the hands   *)
(* of one thread and in the current batch in the order in which they were  *)
(* added, each once, and none shares an entry with a refused one.          *)
THEOREM InOrder == Spec => []BatchesInOrder
<1>1. Init => OrderInv
  BY OrderInit
<1>2. OrderInv /\ [Next]_vars => OrderInv'
  BY OrderNext
<1>3. OrderInv => BatchesInOrder
  BY DEF OrderInv
<1> QED
  BY <1>1, <1>2, <1>3, PTL DEF Spec
=============================================================================

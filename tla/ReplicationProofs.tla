-------------------------- MODULE ReplicationProofs --------------------------
(***************************************************************************)
(* Of the server threads, for any cluster, any initial roles and terms,    *)
(* any number of writes, GETs, failures of the store, candidacies and      *)
(* changes of leader, and with processes that abort: a write that reaches  *)
(* the store of a node was given to its log, and a GET misses, of what the *)
(* node had acknowledged before, only what its store has refused.          *)
(*                                                                         *)
(* As long as no second node is elected, every node keeps its ledger: it   *)
(* logs, then takes up in the order of its log, then acknowledges. As long *)
(* as there is no election at all, what the nodes log are prefixes of one  *)
(* another. Both need the order of the batches through queues and sockets; *)
(* the module states the conditions as OneLeader and NoElection, since     *)
(* other elections do take that order away.                                *)
(***************************************************************************)
EXTENDS Replication, Flattening, FiniteSetTheorems

USE DEF store

-----------------------------------------------------------------------------
(* Sequences.                                                              *)
LEMMA HeadTail ==
    ASSUME NEW S, NEW s \in Seq(S), s # << >>
    PROVE  Head(s) \in S /\ Tail(s) \in Seq(S)
OBVIOUS

LEMMA Appended ==
    ASSUME NEW S, NEW s \in Seq(S), NEW x \in S
    PROVE  /\ Append(s, x) \in Seq(S)
           /\ ToSet(Append(s, x)) = ToSet(s) \cup {x}
<1>1. Append(s, x) \in Seq(S) /\ DOMAIN Append(s, x) = DOMAIN s \cup {Len(s) + 1}
  OBVIOUS
<1>2. /\ \A k \in DOMAIN s : Append(s, x)[k] = s[k]
      /\ Append(s, x)[Len(s) + 1] = x
  OBVIOUS
<1> QED
  BY <1>1, <1>2 DEF ToSet

LEMMA TailSet ==
    ASSUME NEW S, NEW s \in Seq(S), s # << >>
    PROVE  ToSet(s) = {Head(s)} \cup ToSet(Tail(s))
<1>0. DOMAIN s = 1 .. Len(s) /\ DOMAIN Tail(s) = 1 .. Len(s) - 1 /\ Len(s) \in Nat
  OBVIOUS
<1>1. \A k \in 1 .. Len(s) - 1 : Tail(s)[k] = s[k + 1] /\ k + 1 \in 1 .. Len(s)
  BY <1>0
<1>2. \A k \in 1 .. Len(s) :
        k = 1 \/ (k - 1 \in 1 .. Len(s) - 1 /\ s[k] = Tail(s)[k - 1])
  <2> TAKE k \in 1 .. Len(s)
  <2>1. CASE k # 1
    <3>1. k - 1 \in 1 .. Len(s) - 1 /\ (k - 1) + 1 = k
      BY <2>1
    <3> QED
      BY <1>1, <3>1
  <2> QED
    BY <2>1
<1>3. Head(s) = s[1] /\ 1 \in DOMAIN s
  OBVIOUS
<1> DEFINE t == Tail(s)
<1>t. t = Tail(s)
  OBVIOUS
<1> HIDE DEF t
<1>4. \A k \in DOMAIN t : t[k] \in ToSet(s)
  <2> TAKE k \in DOMAIN t
  <2>1. k \in 1 .. Len(s) - 1
    BY <1>0, <1>t
  <2>2. t[k] = s[k + 1] /\ k + 1 \in DOMAIN s
    BY <1>0, <1>1, <1>t, <2>1
  <2> QED
    BY <2>2 DEF ToSet
<1>5. \A k \in DOMAIN s : s[k] = Head(s) \/ s[k] \in ToSet(t)
  <2> TAKE k \in DOMAIN s
  <2>1. CASE k = 1
    BY <1>3, <2>1
  <2>2. CASE k # 1
    <3>1. k - 1 \in 1 .. Len(s) - 1 /\ s[k] = Tail(s)[k - 1]
      BY <1>0, <1>2, <2>2
    <3>2. k - 1 \in DOMAIN t /\ s[k] = t[k - 1]
      BY <1>0, <1>t, <3>1
    <3> QED
      BY <3>2 DEF ToSet
  <2> QED
    BY <2>1, <2>2
<1>6. Head(s) \in ToSet(s)
  BY <1>3 DEF ToSet
<1> QED
  BY <1>4, <1>5, <1>6, <1>t DEF ToSet

(* The first element of a queue is replaced, as by a consumer that has     *)
(* taken one command of a buffer.                                          *)
LEMMA FirstReplaced ==
    ASSUME NEW S, NEW s \in Seq(S), s # << >>, NEW x \in S
    PROVE  /\ [s EXCEPT ![1] = x] \in Seq(S)
           /\ ToSet([s EXCEPT ![1] = x]) \subseteq ToSet(s) \cup {x}
<1>1. /\ [s EXCEPT ![1] = x] \in Seq(S)
      /\ DOMAIN [s EXCEPT ![1] = x] = DOMAIN s
  OBVIOUS
<1>2. \A k \in DOMAIN s : [s EXCEPT ![1] = x][k] \in {s[k], x}
  OBVIOUS
<1> QED
  BY <1>1, <1>2 DEF ToSet

-----------------------------------------------------------------------------
(* The initial state has its type.                                         *)
LEMMA IdleType ==
    /\ Idle1 \in [pc : {"check", "start"}] \cup Filling
    /\ \A pcs : Idle \in Task(pcs)
BY DEF Idle1, Idle, Task

(* thread_3 counts no further than a majority.                             *)
LEMMA Counting ==
    /\ 0 \in Counted /\ 1 \in Counted
    /\ \A n \in Counted : ~Majority(n) => n + 1 \in Counted
<1>1. Num \in Nat
  BY ReplicationAssumption, FS_CardinalityType DEF Num
<1>2. Num \div 2 \in Nat
  BY <1>1
<1> QED
  BY <1>2 DEF Counted, Majority

LEMMA TypeInit == Init => TypeOK
<1> SUFFICES ASSUME Init PROVE TypeOK
  OBVIOUS
<1>1. \A S : << >> \in Seq(S)
  OBVIOUS
<1>2. state \in [Node -> {"LEADER", "CANDIDATE", "FOLLOWER"}] /\ current_term \in [Node -> Nat]
  BY ReplicationAssumption DEF Init
<1>3. t1 \in [Node -> [pc : {"check", "start"}] \cup Filling]
      /\ t2 \in [Node -> Task({"log", "pass"})] /\ t3 \in [Node -> Task({"wait", "pass"})]
  BY IdleType DEF Init
<1>4. chan \in [Node -> [Node -> Seq(Message)]]
  BY <1>1 DEF Init
<1>5. /\ q13 \in [Node -> Seq(Batch)] /\ q23 \in [Node -> Seq(Entry)]
      /\ q34 \in [Node -> Seq(Seq(SUBSET Write))] /\ q35 \in [Node -> Seq(Seq(Write))]
      /\ appended \in [Node -> Seq(Batch)] /\ taken \in [Node -> Seq(Write)]
      /\ stored \in [Node -> SUBSET Write]
      /\ accepted \in Seq(SUBSET Node)
  BY <1>1 DEF Init
<1>6. q26 \in [Node -> SUBSET Node] /\ ok \in [Node -> Counted]
      /\ acked \in [Node -> SUBSET Write] /\ received \in 0 .. MaxWrites
      /\ t5 \in [Node -> 0 .. MaxWrites]
  BY ReplicationAssumption, Counting DEF Init
<1> QED
  BY <1>2, <1>3, <1>4, <1>5, <1>6 DEF TypeOK

(* A process that aborts.                                                  *)
LEMMA AbortType == ASSUME TypeOK, NEW i \in Node, Abort(i) PROVE TypeOK'
<1>1. t1' \in [Node -> [pc : {"check", "start"}] \cup Filling]
      /\ t2' \in [Node -> Task({"log", "pass"})] /\ t3' \in [Node -> Task({"wait", "pass"})]
  BY IdleType DEF TypeOK, Abort
<1>2. /\ q13' \in [Node -> Seq(Batch)] /\ q23' \in [Node -> Seq(Entry)]
      /\ q26' \in [Node -> SUBSET Node] /\ ok' \in [Node -> Counted]
      /\ q34' \in [Node -> Seq(Seq(SUBSET Write))] /\ q35' \in [Node -> Seq(Seq(Write))]
  <2>1. \A S : << >> \in Seq(S)
    OBVIOUS
  <2>2. q13' \in [Node -> Seq(Batch)] /\ q23' \in [Node -> Seq(Entry)]
    BY <2>1 DEF TypeOK, Abort
  <2>3. q34' \in [Node -> Seq(Seq(SUBSET Write))] /\ q35' \in [Node -> Seq(Seq(Write))]
    BY <2>1 DEF TypeOK, Abort
  <2>4. q26' \in [Node -> SUBSET Node] /\ ok' \in [Node -> Counted]
    BY Counting DEF TypeOK, Abort
  <2> QED
    BY <2>2, <2>3, <2>4
<1>3. chan' \in [Node -> [Node -> Seq(Message)]]
  <2>1. \A j \in Node : [chan[j] EXCEPT ![i] = << >>] \in [Node -> Seq(Message)]
    <3>1. << >> \in Seq(Message) /\ \A j \in Node : chan[j] \in [Node -> Seq(Message)]
      BY DEF TypeOK
    <3> QED
      BY <3>1
  <2> QED
    BY <2>1 DEF Abort
<1>4. t5' \in [Node -> 0 .. MaxWrites]
  BY ReplicationAssumption DEF TypeOK, Abort
<1> QED
  BY <1>1, <1>2, <1>3, <1>4 DEF TypeOK, Abort, history

(* thread_1.                                                               *)
LEMMA T1Type ==
    ASSUME TypeOK, NEW i \in Node, T1Check(i) \/ T1Start(i) \/ T1Recv(i) \/ T1Hand(i)
    PROVE  TypeOK'
<1>0. MaxWrites \in Nat /\ LastApplied[i] \in [term : Nat, idx : Nat]
  BY ReplicationAssumption
<1>1. CASE T1Check(i)
  BY <1>1 DEF TypeOK, T1Check, history
<1>2. CASE T1Start(i)
  <2>1. [pc |-> "fill", term |-> current_term[i], idx |-> LastApplied[i].idx + 1,
         w |-> << >>, r |-> << >>] \in Filling
    <3>1. current_term[i] \in Nat /\ LastApplied[i].idx + 1 \in Nat
      BY <1>0 DEF TypeOK
    <3>2. << >> \in Seq(Write) /\ << >> \in Seq(SUBSET Write)
      OBVIOUS
    <3> QED
      BY <3>1, <3>2 DEF Filling
  <2>2. t1' \in [Node -> [pc : {"check", "start"}] \cup Filling]
    BY <1>2, <2>1 DEF TypeOK, T1Start
  <2> QED
    BY <1>2, <2>2 DEF TypeOK, T1Start, history
<1>3. CASE T1Recv(i)
  <2>1. t1[i] \in Filling
    BY <1>3 DEF TypeOK, T1Recv
  <2>2. CASE received < MaxWrites /\ received' = received + 1
             /\ t1' = [t1 EXCEPT ![i].w = Append(@, received')]
    <3>1. received' \in Write /\ received' \in 0 .. MaxWrites
      <4>1. received \in 0 .. MaxWrites
        BY DEF TypeOK
      <4> QED
        BY <1>0, <2>2, <4>1 DEF Write
    <3>2. [t1[i] EXCEPT !.w = Append(@, received')] \in Filling
      <4>1. t1[i].w \in Seq(Write)
        BY <2>1 DEF Filling
      <4>2. Append(t1[i].w, received') \in Seq(Write)
        BY <3>1, <4>1
      <4> QED
        BY <2>1, <4>2 DEF Filling
    <3>3. t1' \in [Node -> [pc : {"check", "start"}] \cup Filling]
      BY <2>2, <3>2 DEF TypeOK
    <3> QED
      BY <1>3, <3>1, <3>3 DEF TypeOK, T1Recv
  <2>3. CASE t1' = [t1 EXCEPT ![i].r = Append(@, acked[i])] /\ received' = received
    <3>1. [t1[i] EXCEPT !.r = Append(@, acked[i])] \in Filling
      <4>1. acked[i] \in SUBSET Write /\ t1[i].r \in Seq(SUBSET Write)
        BY <2>1 DEF TypeOK, Filling
      <4>2. Append(t1[i].r, acked[i]) \in Seq(SUBSET Write)
        BY <4>1
      <4> QED
        BY <2>1, <4>2 DEF Filling
    <3>2. t1' \in [Node -> [pc : {"check", "start"}] \cup Filling]
      BY <2>3, <3>1 DEF TypeOK
    <3> QED
      BY <1>3, <2>3, <3>2 DEF TypeOK, T1Recv
  <2> QED
    BY <1>3, <2>2, <2>3 DEF T1Recv
<1>4. CASE T1Hand(i)
  <2>1. t1[i] \in Filling
    BY <1>4 DEF TypeOK, T1Hand
  <2>2. t1' = [t1 EXCEPT ![i] = Idle1]
        /\ UNCHANGED <<state, current_term, q23, q26, q34, q35, t2, t3, ok, chan,
                       appended, store, received>>
    BY <1>4 DEF T1Hand
  <2>3. t1' \in [Node -> [pc : {"check", "start"}] \cup Filling]
    BY <2>2, IdleType DEF TypeOK
  <2>4. q13' \in [Node -> Seq(Batch)] /\ accepted' \in Seq(SUBSET Node)
    <3>1. CASE UNCHANGED <<q13, accepted>>
      BY <3>1 DEF TypeOK
    <3>2. CASE /\ accepted' = Append(accepted, {})
               /\ q13' = [q13 EXCEPT ![i] = Append(@,
                    [id |-> Len(accepted'), term |-> t1[i].term, idx |-> t1[i].idx,
                     w |-> t1[i].w, r |-> t1[i].r])]
      <4>1. accepted' \in Seq(SUBSET Node)
        BY <3>2 DEF TypeOK
      <4>2. [id |-> Len(accepted'), term |-> t1[i].term, idx |-> t1[i].idx,
             w |-> t1[i].w, r |-> t1[i].r] \in Batch
        BY <2>1, <4>1 DEF Filling, Batch
      <4> QED
        BY <3>2, <4>1, <4>2 DEF TypeOK
    <3> QED
      BY <1>4, <3>1, <3>2 DEF T1Hand
  <2> QED
    BY <2>2, <2>3, <2>4 DEF TypeOK
<1> QED
  BY <1>1, <1>2, <1>3, <1>4

(* A message goes to every other node, or an answer to one of them.        *)
LEMMA SendType ==
    ASSUME TypeOK, NEW i \in Node, NEW msg \in Message, Send(i, msg)
    PROVE  chan' \in [Node -> [Node -> Seq(Message)]]
<1>1. chan \in [Node -> [Node -> Seq(Message)]]
  BY DEF TypeOK
<1>2. \A j \in Node : Append(chan[i][j], msg) \in Seq(Message)
  <2> TAKE j \in Node
  <2>1. chan[i][j] \in Seq(Message)
    BY <1>1
  <2> QED
    BY <2>1
<1>3. [j \in Node |-> IF j = i THEN chan[i][j] ELSE Append(chan[i][j], msg)]
        \in [Node -> Seq(Message)]
  BY <1>1, <1>2
<1> QED
  BY <1>1, <1>3 DEF Send

LEMMA TookType ==
    ASSUME TypeOK, NEW i \in Node, NEW j \in Node, chan[j][i] # << >>
    PROVE  /\ Took(i, j) \in [Node -> [Node -> Seq(Message)]]
           /\ Msg(i, j) \in Message
<1>1. chan \in [Node -> [Node -> Seq(Message)]]
  BY DEF TypeOK
<1>2. chan[j][i] \in Seq(Message)
  BY <1>1
<1>3. Tail(chan[j][i]) \in Seq(Message) /\ Head(chan[j][i]) \in Message
  BY <1>2, HeadTail
<1> QED
  BY <1>1, <1>3 DEF Took, Msg

LEMMA AnswerType ==
    ASSUME NEW i \in Node, NEW j \in Node, NEW c \in [Node -> [Node -> Seq(Message)]],
           NEW msg \in Message
    PROVE  [c EXCEPT ![i][j] = Append(@, msg)] \in [Node -> [Node -> Seq(Message)]]
<1>1. Append(c[i][j], msg) \in Seq(Message)
  <2>1. c[i][j] \in Seq(Message)
    OBVIOUS
  <2> QED
    BY <2>1
<1> QED
  BY <1>1

(* thread_3.                                                               *)
LEMMA T3Type ==
    ASSUME TypeOK, NEW i \in Node, T3Send(i) \/ T3Ack(i) \/ T3Commit(i) \/ T3Pass(i)
    PROVE  TypeOK'
<1>1. CASE T3Send(i)
  <2>1. q13[i] \in Seq(Batch) /\ q13[i] # << >>
    BY <1>1 DEF TypeOK, T3Send
  <2>2. Head(q13[i]) \in Batch /\ Tail(q13[i]) \in Seq(Batch)
    BY <2>1, HeadTail
  <2>3. [type |-> "APPEND_ENTRIES", term |-> Head(q13[i]).term,
         prev |-> LastApplied[i], batch |-> Head(q13[i])] \in Message
    <3>1. LastApplied[i] \in Entry /\ Head(q13[i]).term \in Nat
      BY <2>2, ReplicationAssumption DEF Entry, Batch
    <3> QED
      BY <2>2, <3>1 DEF Message
  <2>4. chan' \in [Node -> [Node -> Seq(Message)]]
    BY <1>1, <2>3, SendType DEF T3Send
  <2>5. t3' \in [Node -> Task({"wait", "pass"})]
    <3>1. [pc |-> "wait", b |-> Head(q13[i])] \in Task({"wait", "pass"})
      BY <2>2 DEF Task
    <3>2. t3' = [t3 EXCEPT ![i] = [pc |-> "wait", b |-> Head(q13[i])]]
      BY <1>1 DEF T3Send
    <3> QED
      BY <3>1, <3>2 DEF TypeOK
  <2>6. q13' \in [Node -> Seq(Batch)] /\ ok' \in [Node -> Counted]
    BY <1>1, <2>2, Counting DEF TypeOK, T3Send
  <2> QED
    BY <1>1, <2>4, <2>5, <2>6 DEF TypeOK, T3Send, history
<1>2. CASE T3Ack(i)
  <2>1. CASE Abort(i)
    BY <2>1, AbortType
  <2>2. CASE /\ ok' = [ok EXCEPT ![i] = IF AckMatches(Head(q23[i]), t3[i].b)
                                       THEN @ + 1 ELSE @]
             /\ q23' = [q23 EXCEPT ![i] = Tail(@)]
             /\ UNCHANGED <<state, current_term, t1, q13, q26, q34, q35, t2, t3, chan,
                            appended, store, dead, history>>
    <3>1. q23[i] \in Seq(Entry) /\ q23[i] # << >>
      BY <1>2 DEF TypeOK, T3Ack
    <3>2. q23' \in [Node -> Seq(Entry)]
      BY <2>2, <3>1, HeadTail DEF TypeOK
    <3>3. ok' \in [Node -> Counted]
      <4>1. ok[i] \in Counted /\ ok[i] + 1 \in Counted
        BY <1>2, Counting DEF TypeOK, T3Ack
      <4> QED
        BY <2>2, <4>1 DEF TypeOK
    <3> QED
      BY <2>2, <3>2, <3>3 DEF TypeOK, history
  <2> QED
    BY <1>2, <2>1, <2>2 DEF T3Ack
<1>3. CASE T3Commit(i)
  <2>1. t3[i] \in [pc : {"wait", "pass"}, b : Batch]
    BY <1>3 DEF TypeOK, T3Commit, Task, Idle
  <2>2. [t3[i] EXCEPT !.pc = "pass"] \in Task({"wait", "pass"})
    BY <2>1 DEF Task
  <2>3. t3' \in [Node -> Task({"wait", "pass"})]
    BY <1>3, <2>2 DEF TypeOK, T3Commit
  <2>4. appended' \in [Node -> Seq(Batch)]
    <3>1. t3[i].b \in Batch /\ appended \in [Node -> Seq(Batch)]
      BY <2>1 DEF TypeOK
    <3>2. Append(appended[i], t3[i].b) \in Seq(Batch)
      BY <3>1
    <3> QED
      BY <1>3, <3>1, <3>2 DEF T3Commit
  <2> QED
    BY <1>3, <2>3, <2>4 DEF TypeOK, T3Commit, history
<1>4. CASE T3Pass(i)
  <2>1. t3[i] \in [pc : {"wait", "pass"}, b : Batch]
    BY <1>4 DEF TypeOK, T3Pass, Task, Idle
  <2>2. t3[i].b.r \in Seq(SUBSET Write) /\ t3[i].b.w \in Seq(Write)
    BY <2>1 DEF Batch
  <2>3. q34' \in [Node -> Seq(Seq(SUBSET Write))]
    <3>1. q34 \in [Node -> Seq(Seq(SUBSET Write))]
      BY DEF TypeOK
    <3>2. Append(q34[i], t3[i].b.r) \in Seq(Seq(SUBSET Write))
      BY <2>2, <3>1
    <3> QED
      BY <1>4, <3>1, <3>2 DEF T3Pass
  <2>4. q35' \in [Node -> Seq(Seq(Write))]
    <3>1. q35 \in [Node -> Seq(Seq(Write))]
      BY DEF TypeOK
    <3>2. Append(q35[i], t3[i].b.w) \in Seq(Seq(Write))
      BY <2>2, <3>1
    <3> QED
      BY <1>4, <3>1, <3>2 DEF T3Pass
  <2>5. t3' \in [Node -> Task({"wait", "pass"})]
    BY <1>4, IdleType DEF TypeOK, T3Pass
  <2> QED
    BY <1>4, <2>3, <2>4, <2>5 DEF TypeOK, T3Pass, history
<1> QED
  BY <1>1, <1>2, <1>3, <1>4

(* thread_4 and thread_5.                                                  *)
LEMMA T4Type == ASSUME TypeOK, NEW i \in Node, T4(i) PROVE TypeOK'
<1>1. q34[i] \in Seq(Seq(SUBSET Write)) /\ q34[i] # << >>
  BY DEF TypeOK, T4
<1>2. Head(q34[i]) \in Seq(SUBSET Write) /\ Tail(q34[i]) \in Seq(Seq(SUBSET Write))
  BY <1>1, HeadTail
<1>3. q34' \in [Node -> Seq(Seq(SUBSET Write))]
  <2>1. CASE Head(q34[i]) = << >> /\ q34' = [q34 EXCEPT ![i] = Tail(@)]
    BY <1>2, <2>1 DEF TypeOK
  <2>2. CASE Head(q34[i]) # << >> /\ q34' = [q34 EXCEPT ![i][1] = Tail(@)]
    <3>1. Head(q34[i]) = q34[i][1]
      BY <1>1
    <3>2. Tail(q34[i][1]) \in Seq(SUBSET Write)
      BY <1>2, <2>2, <3>1, HeadTail
    <3>3. [q34[i] EXCEPT ![1] = Tail(q34[i][1])] \in Seq(Seq(SUBSET Write))
      BY <1>1, <3>2, FirstReplaced
    <3>4. q34' = [q34 EXCEPT ![i] = [q34[i] EXCEPT ![1] = Tail(q34[i][1])]]
      BY <2>2
    <3> QED
      BY <3>3, <3>4 DEF TypeOK
  <2> QED
    BY <2>1, <2>2 DEF T4
<1> QED
  BY <1>3 DEF TypeOK, T4

(* A queue of batches loses its first write.                               *)
LEMMA FirstGone ==
    ASSUME NEW S, NEW q \in Seq(Seq(S)), q # << >>, q[1] # << >>
    PROVE  /\ WithoutFirst(q) \in Seq(Seq(S))
           /\ ToSet(WithoutFirst(q)) \subseteq ToSet(q) \cup {Tail(q[1])}
           /\ FlattenSeq(WithoutFirst(q)) = Tail(q[1]) \o FlattenSeq(Tail(q))
<1>1. Head(q) = q[1] /\ q[1] \in Seq(S) /\ Tail(q) \in Seq(Seq(S))
  OBVIOUS
<1>2. Tail(q[1]) \in Seq(S) /\ FlattenSeq(Tail(q)) \in Seq(S)
  BY <1>1, HeadTail, FlattenType
<1>3. CASE Len(q[1]) = 1
  <2>1. WithoutFirst(q) = Tail(q)
    BY <1>1, <1>3 DEF WithoutFirst
  <2>2. Tail(q[1]) = << >>
    <3>1. Tail(q[1]) \in Seq(S) /\ Len(Tail(q[1])) = 0
      BY <1>1, <1>3
    <3> QED
      BY <3>1, EmptySeq
  <2>3. Tail(q[1]) \o FlattenSeq(Tail(q)) = FlattenSeq(Tail(q))
    BY <1>2, <2>2, ConcatEmptySeq
  <2>4. ToSet(Tail(q)) \subseteq ToSet(q)
    BY TailSet
  <2> QED
    BY <1>1, <2>1, <2>3, <2>4
<1>4. CASE Len(q[1]) # 1
  <2> DEFINE t == Tail(q[1])
             p == [q EXCEPT ![1] = t]
  <2>1. WithoutFirst(q) = p
    BY <1>1, <1>4 DEF WithoutFirst
  <2>2. p \in Seq(Seq(S)) /\ p # << >> /\ Head(p) = t /\ Tail(p) = Tail(q)
    BY <1>1, <1>2
  <2>3. ToSet(p) \subseteq ToSet(q) \cup {t}
    <3>1. t \in Seq(S)
      BY <1>2
    <3> HIDE DEF t
    <3> QED
      BY <3>1, FirstReplaced, ZenonT(30)
  <2> HIDE DEF p
  <2>4. FlattenSeq(p) = t \o FlattenSeq(Tail(q))
    BY <2>2, FlattenTail
  <2> QED
    BY <2>1, <2>2, <2>3, <2>4
<1> QED
  BY <1>3, <1>4

(* What thread_5 does: it drops an empty buffer, or takes up the first     *)
(* write of its queue.                                                     *)
NextWrite(i) == Head(q35[i][1])

TakesUp(i) ==
    /\ q35[i][1] \in Seq(Write) /\ q35[i][1] # << >>
    /\ NextWrite(i) \in Write
    /\ q35' = [q35 EXCEPT ![i] = WithoutFirst(q35[i])]
    /\ t5' = [t5 EXCEPT ![i] = NextWrite(i)]
    /\ taken' = [taken EXCEPT ![i] = Append(taken[i], NextWrite(i))]
    /\ stored' \in {stored, [stored EXCEPT ![i] = stored[i] \cup {NextWrite(i)}]}
    /\ acked' = acked

LEMMA T5Cases ==
    ASSUME TypeOK, NEW i \in Node, T5(i)
    PROVE  /\ q35[i] \in Seq(Seq(Write)) /\ q35[i] # << >>
           /\ \/ /\ q35[i][1] = << >>
                 /\ q35' = [q35 EXCEPT ![i] = Tail(q35[i])]
                 /\ UNCHANGED <<t5, taken, stored, acked>>
              \/ TakesUp(i)
<1>1. q35[i] \in Seq(Seq(Write)) /\ q35[i] # << >>
  BY DEF TypeOK, T5
<1>2. Head(q35[i]) = q35[i][1] /\ q35[i][1] \in Seq(Write)
  BY <1>1
<1>3. CASE q35[i][1] = << >>
  BY <1>1, <1>2, <1>3 DEF T5
<1>4. CASE q35[i][1] # << >>
  <2>1. NextWrite(i) \in Write
    BY <1>2, <1>4, HeadTail DEF NextWrite
  <2>2. /\ q35' = [q35 EXCEPT ![i] = WithoutFirst(q35[i])]
        /\ t5' = [t5 EXCEPT ![i] = NextWrite(i)]
        /\ taken' = [taken EXCEPT ![i] = Append(taken[i], NextWrite(i))]
        /\ stored' \in {stored, [stored EXCEPT ![i] = stored[i] \cup {NextWrite(i)}]}
        /\ acked' = acked
    BY <1>2, <1>4 DEF T5, NextWrite
  <2> QED
    BY <1>1, <1>2, <1>4, <2>1, <2>2 DEF TakesUp
<1> QED
  BY <1>3, <1>4

LEMMA T5Type ==
    ASSUME TypeOK, NEW i \in Node, T5(i) \/ T5Answer(i)
    PROVE  TypeOK'
<1>1. CASE T5(i)
  <2>0. q35[i] \in Seq(Seq(Write)) /\ q35[i] # << >>
    BY <1>1, T5Cases
  <2>1. CASE q35' = [q35 EXCEPT ![i] = Tail(q35[i])] /\ UNCHANGED <<t5, taken, stored, acked>>
    <3>1. Tail(q35[i]) \in Seq(Seq(Write))
      BY <2>0, HeadTail
    <3> QED
      BY <1>1, <2>1, <3>1 DEF TypeOK, T5, history
  <2>2. CASE TakesUp(i)
    <3>1. q35' \in [Node -> Seq(Seq(Write))]
      <4>1. WithoutFirst(q35[i]) \in Seq(Seq(Write))
        BY <2>0, <2>2, FirstGone DEF TakesUp
      <4> QED
        BY <2>2, <4>1 DEF TypeOK, TakesUp
    <3>2. taken' \in [Node -> Seq(Write)]
      <4>1. taken \in [Node -> Seq(Write)]
        BY DEF TypeOK
      <4>2. Append(taken[i], NextWrite(i)) \in Seq(Write)
        BY <2>2, <4>1 DEF TakesUp
      <4> QED
        BY <2>2, <4>1, <4>2 DEF TakesUp
    <3>3. t5' \in [Node -> 0 .. MaxWrites]
      <4>1. NextWrite(i) \in 0 .. MaxWrites
        BY <2>2, ReplicationAssumption DEF TakesUp, Write
      <4> QED
        BY <2>2, <4>1 DEF TakesUp, TypeOK
    <3>4. stored' \in [Node -> SUBSET Write] /\ acked' \in [Node -> SUBSET Write]
      <4>1. /\ stored \in [Node -> SUBSET Write] /\ acked \in [Node -> SUBSET Write]
            /\ stored[i] \cup {NextWrite(i)} \in SUBSET Write
        BY <2>2 DEF TypeOK, TakesUp
      <4> QED
        BY <2>2, <4>1 DEF TakesUp
    <3> QED
      BY <1>1, <3>1, <3>2, <3>3, <3>4 DEF TypeOK, T5, history
  <2> QED
    BY <1>1, <2>1, <2>2, T5Cases
<1>2. CASE T5Answer(i)
  <2>1. t5' \in [Node -> 0 .. MaxWrites]
    BY <1>2, ReplicationAssumption DEF TypeOK, T5Answer
  <2>2. acked' \in [Node -> SUBSET Write]
    <3>1. t5[i] \in Write
      <4>1. t5[i] \in 0 .. MaxWrites /\ t5[i] # 0 /\ MaxWrites \in Nat
        BY <1>2, ReplicationAssumption DEF TypeOK, T5Answer
      <4> QED
        BY <4>1 DEF Write
    <3>2. acked[i] \in SUBSET Write
      BY DEF TypeOK
    <3>3. acked[i] \cup {t5[i]} \in SUBSET Write
      BY <3>1, <3>2
    <3>4. acked' = [acked EXCEPT ![i] = IF state[i] = "LEADER" THEN acked[i] \cup {t5[i]}
                                                               ELSE acked[i]]
      BY <1>2 DEF T5Answer
    <3> QED
      BY <3>2, <3>3, <3>4 DEF TypeOK
  <2> QED
    BY <1>2, <2>1, <2>2 DEF TypeOK, T5Answer, threads, history
<1> QED
  BY <1>1, <1>2

(* Heartbeats, candidacies and changes of leader.                          *)
LEMMA EventType ==
    ASSUME TypeOK, NEW i \in Node, T7(i) \/ Elect(i) \/ Campaign(i)
    PROVE  TypeOK'
<1>0. current_term \in [Node -> Nat]
      /\ state \in [Node -> {"LEADER", "CANDIDATE", "FOLLOWER"}]
  BY DEF TypeOK
<1>1. CASE T7(i)
  <2>1. [type |-> "HEARTBEAT", term |-> current_term[i]] \in Message
    BY <1>0 DEF Message
  <2>2. chan' \in [Node -> [Node -> Seq(Message)]]
    BY <1>1, <2>1, SendType DEF T7
  <2> QED
    BY <1>1, <2>2 DEF TypeOK, T7, threads
<1>2. CASE Elect(i)
  <2>1. current_term' \in [Node -> Nat]
    BY <1>0, <1>2 DEF Elect
  <2> QED
    BY <1>0, <1>2, <2>1 DEF TypeOK, Elect, threads
<1>3. CASE Campaign(i)
  <2>1. [type |-> "REQUEST_VOTE", term |-> current_term[i] + 1,
         last |-> LastApplied[i]] \in Message
    <3>1. LastApplied[i] \in Entry /\ current_term[i] + 1 \in Nat
      BY <1>0, ReplicationAssumption DEF Entry
    <3> QED
      BY <3>1 DEF Message
  <2>2. chan' \in [Node -> [Node -> Seq(Message)]]
    BY <1>3, <2>1, SendType DEF Campaign
  <2>3. current_term' \in [Node -> Nat]
    BY <1>0, <1>3 DEF Campaign
  <2> QED
    BY <1>0, <1>3, <2>2, <2>3 DEF TypeOK, Campaign, threads
<1> QED
  BY <1>1, <1>2, <1>3

(* thread_2: what it takes from a socket ...                               *)
LEMMA TakeType ==
    ASSUME TypeOK, NEW i \in Node, NEW j \in Node, NEW type, T2Take(i, j, type)
    PROVE  /\ state' \in [Node -> {"LEADER", "CANDIDATE", "FOLLOWER"}]
           /\ current_term' \in [Node -> Nat]
           /\ Msg(i, j) \in Message /\ Msg(i, j).type = type /\ Msg(i, j).term \in Nat
           /\ Took(i, j) \in [Node -> [Node -> Seq(Message)]]
<1>1. Msg(i, j) \in Message /\ Took(i, j) \in [Node -> [Node -> Seq(Message)]]
  BY TookType DEF T2Take
<1>2. Msg(i, j).term \in Nat
  BY <1>1 DEF Message
<1>3. Msg(i, j).type = type
  BY DEF T2Take
<1>4. /\ current_term' = [current_term EXCEPT ![i] = Msg(i, j).term]
      /\ state' = [state EXCEPT ![i] =
                      IF Msg(i, j).term > current_term[i] THEN "FOLLOWER" ELSE @]
  BY DEF T2Take
<1> DEFINE m == Msg(i, j)
<1> HIDE DEF m
<1>5. current_term' \in [Node -> Nat]
  BY <1>2, <1>4 DEF TypeOK
<1>6. state' \in [Node -> {"LEADER", "CANDIDATE", "FOLLOWER"}]
  BY <1>4 DEF TypeOK
<1> QED
  BY <1>1, <1>2, <1>3, <1>5, <1>6

(* ... and what it does with it.                                           *)
LEMMA T2AppendType ==
    ASSUME TypeOK, NEW i \in Node, NEW j \in Node, T2Append(i, j)
    PROVE  TypeOK'
<1> DEFINE m   == Msg(i, j)
           yes == Accepts(i, m.prev)
           tai == IF yes THEN [term |-> m.prev.term, idx |-> m.prev.idx + 1]
                         ELSE LastApplied[i]
<1>1. /\ state' \in [Node -> {"LEADER", "CANDIDATE", "FOLLOWER"}]
      /\ current_term' \in [Node -> Nat]
      /\ m \in Message /\ m.type = "APPEND_ENTRIES" /\ m.term \in Nat
      /\ Took(i, j) \in [Node -> [Node -> Seq(Message)]]
  BY TakeType DEF T2Append
<1>2. m.prev \in Entry /\ m.batch \in Batch
  <2> HIDE DEF m
  <2> QED
    BY <1>1 DEF Message
<1>3. /\ chan' = [Took(i, j) EXCEPT ![i][j] = Append(@,
            [type |-> "RESP_APPEND_ENTRIES", term |-> m.term, success |-> yes,
             tai |-> tai])]
      /\ t2' = IF yes THEN [t2 EXCEPT ![i] = [pc |-> "log", b |-> m.batch]] ELSE t2
      /\ accepted' = IF yes THEN [accepted EXCEPT ![m.batch.id] = @ \cup {i}] ELSE accepted
      /\ UNCHANGED <<t1, q13, q23, q26, q34, q35, t3, ok, appended, store, received>>
  BY DEF T2Append
<1>4. yes \in BOOLEAN
  BY DEF Accepts
<1>5. tai \in Entry
  <2>1. LastApplied[i] \in Entry
    BY ReplicationAssumption DEF Entry
  <2> HIDE DEF yes, m
  <2> QED
    BY <1>2, <2>1 DEF Entry
<1> HIDE DEF m, yes, tai
<1>6. chan' \in [Node -> [Node -> Seq(Message)]]
  <2>1. [type |-> "RESP_APPEND_ENTRIES", term |-> m.term, success |-> yes,
         tai |-> tai] \in Message
    BY <1>1, <1>4, <1>5 DEF Message
  <2> QED
    BY <1>1, <1>3, <2>1, AnswerType
<1>7. t2' \in [Node -> Task({"log", "pass"})]
  <2>1. [pc |-> "log", b |-> m.batch] \in Task({"log", "pass"})
    BY <1>2 DEF Task
  <2> QED
    BY <1>3, <2>1 DEF TypeOK
<1>8. accepted' \in Seq(SUBSET Node)
  <2>1. accepted \in Seq(SUBSET Node)
    BY DEF TypeOK
  <2>2. CASE m.batch.id \in DOMAIN accepted
    <3>1. accepted[m.batch.id] \cup {i} \in SUBSET Node
      BY <2>1, <2>2
    <3> QED
      BY <1>3, <2>1, <2>2, <3>1
  <2>3. CASE m.batch.id \notin DOMAIN accepted
    <3>1. [accepted EXCEPT ![m.batch.id] = @ \cup {i}] = accepted
      BY <2>1, <2>3
    <3> QED
      BY <1>3, <2>1, <3>1
  <2> QED
    BY <2>2, <2>3
<1> QED
  BY <1>1, <1>3, <1>6, <1>7, <1>8 DEF TypeOK

LEMMA T2ReadType ==
    ASSUME TypeOK, NEW i \in Node, NEW j \in Node,
           \/ T2Old(i, j) \/ T2Heartbeat(i, j) \/ T2Response(i, j)
           \/ T2VoteRequest(i, j) \/ T2VoteResponse(i, j)
           \/ T2Coalesced(i, j) \/ T2Partial(i, j)
    PROVE  TypeOK'
<1>1. CASE T2Old(i, j)
  <2>1. chan' \in [Node -> [Node -> Seq(Message)]]
    BY <1>1, TookType DEF T2Old
  <2> QED
    BY <1>1, <2>1 DEF TypeOK, T2Old, threads, history
<1>2. CASE T2Heartbeat(i, j)
  <2>1. /\ state' \in [Node -> {"LEADER", "CANDIDATE", "FOLLOWER"}]
        /\ current_term' \in [Node -> Nat]
        /\ chan' \in [Node -> [Node -> Seq(Message)]]
    BY <1>2, TakeType DEF T2Heartbeat
  <2> QED
    BY <1>2, <2>1 DEF TypeOK, T2Heartbeat, threads, history
<1>3. CASE T2Response(i, j)
  <2>1. /\ state' \in [Node -> {"LEADER", "CANDIDATE", "FOLLOWER"}]
        /\ current_term' \in [Node -> Nat]
        /\ Msg(i, j) \in Message /\ Msg(i, j).type = "RESP_APPEND_ENTRIES"
        /\ chan' \in [Node -> [Node -> Seq(Message)]]
    BY <1>3, TakeType DEF T2Response
  <2>2. Msg(i, j).tai \in Entry
    BY <2>1 DEF Message
  <2>3. q23' \in [Node -> Seq(Entry)]
    <3>1. q23 \in [Node -> Seq(Entry)]
      BY DEF TypeOK
    <3>2. Append(q23[i], Msg(i, j).tai) \in Seq(Entry)
      BY <2>2, <3>1
    <3> QED
      BY <1>3, <3>1, <3>2 DEF T2Response
  <2>4. q26' \in [Node -> SUBSET Node]
    <3>1. q26 \in [Node -> SUBSET Node] /\ q26[i] \cup {j} \in SUBSET Node
      BY DEF TypeOK
    <3>2. q26' = [q26 EXCEPT ![i] = q26[i] \cup {j}] \/ q26' = q26
      BY <1>3 DEF T2Response
    <3> QED
      BY <3>1, <3>2
  <2> QED
    BY <1>3, <2>1, <2>3, <2>4 DEF TypeOK, T2Response, history
<1>4. CASE T2VoteRequest(i, j)
  <2>1. /\ state' \in [Node -> {"LEADER", "CANDIDATE", "FOLLOWER"}]
        /\ current_term' \in [Node -> Nat]
        /\ Msg(i, j).term \in Nat
        /\ Took(i, j) \in [Node -> [Node -> Seq(Message)]]
    BY <1>4, TakeType DEF T2VoteRequest
  <2>2. [type |-> "RESP_REQUEST_VOTE", term |-> Msg(i, j).term,
         granted |-> Grants(i, Msg(i, j).last)] \in Message
    <3>1. Grants(i, Msg(i, j).last) \in BOOLEAN
      BY DEF Grants
    <3> QED
      BY <2>1, <3>1 DEF Message
  <2>3. chan' \in [Node -> [Node -> Seq(Message)]]
    BY <1>4, <2>1, <2>2, AnswerType DEF T2VoteRequest
  <2> QED
    BY <1>4, <2>1, <2>3 DEF TypeOK, T2VoteRequest, threads, history
<1>5. CASE T2VoteResponse(i, j) \/ T2Coalesced(i, j) \/ T2Partial(i, j)
  BY <1>5, AbortType DEF T2VoteResponse, T2Coalesced, T2Partial
<1> QED
  BY <1>1, <1>2, <1>3, <1>4, <1>5

LEMMA T2WriteType ==
    ASSUME TypeOK, NEW i \in Node, T2Log(i) \/ T2Pass(i)
    PROVE  TypeOK'
<1>1. CASE T2Log(i)
  <2>1. t2[i] \in [pc : {"log", "pass"}, b : Batch]
    BY <1>1 DEF TypeOK, T2Log, Task, Idle
  <2>2. [t2[i] EXCEPT !.pc = "pass"] \in Task({"log", "pass"})
    BY <2>1 DEF Task
  <2>3. t2' \in [Node -> Task({"log", "pass"})]
    BY <1>1, <2>2 DEF TypeOK, T2Log
  <2>4. appended' \in [Node -> Seq(Batch)]
    <3>1. t2[i].b \in Batch /\ appended \in [Node -> Seq(Batch)]
      BY <2>1 DEF TypeOK
    <3>2. Append(appended[i], t2[i].b) \in Seq(Batch)
      BY <3>1
    <3> QED
      BY <1>1, <3>1, <3>2 DEF T2Log
  <2> QED
    BY <1>1, <2>3, <2>4 DEF TypeOK, T2Log, history
<1>2. CASE T2Pass(i)
  <2>1. t2[i] \in [pc : {"log", "pass"}, b : Batch]
    BY <1>2 DEF TypeOK, T2Pass, Task, Idle
  <2>2. t2[i].b.w \in Seq(Write)
    BY <2>1 DEF Batch
  <2>3. q35' \in [Node -> Seq(Seq(Write))]
    <3>1. q35 \in [Node -> Seq(Seq(Write))]
      BY DEF TypeOK
    <3>2. Append(q35[i], t2[i].b.w) \in Seq(Seq(Write))
      BY <2>2, <3>1
    <3> QED
      BY <1>2, <3>1, <3>2 DEF T2Pass
  <2>4. t2' \in [Node -> Task({"log", "pass"})]
    BY <1>2, IdleType DEF TypeOK, T2Pass
  <2> QED
    BY <1>2, <2>3, <2>4 DEF TypeOK, T2Pass, history
<1> QED
  BY <1>1, <1>2

LEMMA TypeNext == ASSUME TypeOK, [Next]_vars PROVE TypeOK'
<1>1. CASE Next
  <2>1. PICK i \in Node :
          \/ T1Check(i) \/ T1Start(i) \/ T1Recv(i) \/ T1Hand(i)
          \/ Thread2(i) \/ PeerGone(i) \/ \E j \in Peers(i) : T2Coalesced(i, j) \/ T2Partial(i, j)
          \/ T3Send(i) \/ T3Ack(i) \/ T3Commit(i) \/ T3Pass(i)
          \/ T4(i) \/ T5(i) \/ T5Answer(i) \/ T7(i) \/ Elect(i) \/ Campaign(i)
    BY <1>1 DEF Next
  <2>2. CASE T1Check(i) \/ T1Start(i) \/ T1Recv(i) \/ T1Hand(i)
    BY <2>2, T1Type
  <2>3. CASE T2Log(i) \/ T2Pass(i)
    BY <2>3, T2WriteType
  <2>4. CASE \E j \in Peers(i) : T2Append(i, j)
    BY <2>4, T2AppendType DEF Peers
  <2>5. CASE \E j \in Peers(i) : \/ T2Old(i, j) \/ T2Heartbeat(i, j) \/ T2Response(i, j)
                                 \/ T2VoteRequest(i, j) \/ T2VoteResponse(i, j)
                                 \/ T2Coalesced(i, j) \/ T2Partial(i, j)
    BY <2>5, T2ReadType DEF Peers
  <2>6. CASE PeerGone(i)
    BY <2>6, AbortType DEF PeerGone
  <2>7. CASE T3Send(i) \/ T3Ack(i) \/ T3Commit(i) \/ T3Pass(i)
    BY <2>7, T3Type
  <2>8. CASE T4(i) \/ T5(i) \/ T5Answer(i)
    BY <2>8, T4Type, T5Type
  <2>9. CASE T7(i) \/ Elect(i) \/ Campaign(i)
    BY <2>9, EventType
  <2> QED
    BY <2>1, <2>2, <2>3, <2>4, <2>5, <2>6, <2>7, <2>8, <2>9 DEF Thread2
<1>2. CASE UNCHANGED vars
  BY <1>2 DEF vars, threads, history, TypeOK
<1> QED
  BY <1>1, <1>2

(* Queues, buffers, sockets, logs and stores hold what their               *)
(* consumers expect.                                                       *)
THEOREM TypeCorrect == Spec => []TypeOK
<1>1. TypeOK /\ [Next]_vars => TypeOK'
  BY TypeNext
<1> QED
  BY TypeInit, <1>1, PTL DEF Spec

-----------------------------------------------------------------------------
(* A node takes up no write it has not logged.  Between the log and the    *)
(* store the writes are in the hands of thread_2 or thread_3 or in the     *)
(* queue of thread_5: there, too, they are logged ones.                    *)
Logged(i) == UNION {ToSet(appended[i][n].w) : n \in DOMAIN appended[i]}

LoggedFirst(i) ==
    /\ t2[i].pc = "pass" => ToSet(t2[i].b.w) \subseteq Logged(i)
    /\ t3[i].pc = "pass" => ToSet(t3[i].b.w) \subseteq Logged(i)
    /\ \A w \in ToSet(q35[i]) : ToSet(w) \subseteq Logged(i)
    /\ ToSet(taken[i]) \subseteq Logged(i)

AppliedInv == TypeOK /\ \A i \in Node : LoggedFirst(i)

(* A step that logs and takes up nothing, and that leaves a thread with a  *)
(* logged batch, and the queue of thread_5, alone or resets them.          *)
Quiet(i) ==
    /\ UNCHANGED appended /\ taken'[i] = taken[i]
    /\ q35'[i] \in {q35[i], << >>}
    /\ t2'[i].pc = "pass" => t2'[i] = t2[i]
    /\ t3'[i].pc = "pass" => t3'[i] = t3[i]

LEMMA QuietKeeps ==
    ASSUME NEW i \in Node, LoggedFirst(i), Quiet(i)
    PROVE  LoggedFirst(i)'
<1>1. Logged(i)' = Logged(i)
  BY DEF Quiet, Logged
<1>2. ToSet(<< >>) = {}
  BY DEF ToSet
<1>3. \A w \in ToSet(q35'[i]) : ToSet(w) \subseteq Logged(i)
  BY <1>2 DEF Quiet, LoggedFirst
<1>4. ToSet(taken'[i]) \subseteq Logged(i)
  BY DEF Quiet, LoggedFirst
<1>5. t2'[i].pc = "pass" => ToSet(t2'[i].b.w) \subseteq Logged(i)
  BY DEF Quiet, LoggedFirst
<1>6. t3'[i].pc = "pass" => ToSet(t3'[i].b.w) \subseteq Logged(i)
  BY DEF Quiet, LoggedFirst
<1> QED
  BY <1>1, <1>3, <1>4, <1>5, <1>6 DEF LoggedFirst

LEMMA AbortQuiet == ASSUME TypeOK, NEW i \in Node, NEW k \in Node, Abort(i) PROVE Quiet(k)
<1>1. t2' = [t2 EXCEPT ![i] = Idle] /\ t3' = [t3 EXCEPT ![i] = Idle]
      /\ q35' = [q35 EXCEPT ![i] = << >>] /\ UNCHANGED <<appended, taken>>
  BY DEF Abort
<1>2. t2'[k] \in {t2[k], Idle} /\ t3'[k] \in {t3[k], Idle} /\ q35'[k] \in {q35[k], << >>}
  BY <1>1 DEF TypeOK
<1> QED
  BY <1>1, <1>2 DEF Quiet, Idle

(* Only thread_2, thread_3 and thread_5 are not quiet, and only where they *)
(* run.                                                                    *)
LEMMA OtherQuiet ==
    ASSUME TypeOK, NEW i \in Node, NEW k \in Node,
           \/ T1Check(i) \/ T1Start(i) \/ T1Recv(i) \/ T1Hand(i)
           \/ PeerGone(i) \/ T3Send(i) \/ T3Ack(i) \/ T4(i) \/ T5Answer(i)
           \/ T7(i) \/ Elect(i) \/ Campaign(i)
           \/ \E j \in Peers(i) :
                \/ T2Coalesced(i, j) \/ T2Partial(i, j)
                \/ T2Old(i, j) \/ T2Heartbeat(i, j) \/ T2Append(i, j)
                \/ T2Response(i, j) \/ T2VoteRequest(i, j) \/ T2VoteResponse(i, j)
    PROVE  Quiet(k)
<1>1. CASE \E j \in Peers(i) : T2Append(i, j)
  <2>1. PICK b : t2' \in {t2, [t2 EXCEPT ![i] = [pc |-> "log", b |-> b]]}
    BY <1>1 DEF T2Append
  <2>2. t2'[k] = t2[k] \/ t2'[k].pc = "log"
    <3>1. [pc |-> "log", b |-> b].pc = "log"
      OBVIOUS
    <3>2. t2'[k] \in {t2[k], [pc |-> "log", b |-> b]}
      BY <2>1 DEF TypeOK
    <3> QED
      BY <3>1, <3>2
  <2>3. UNCHANGED <<appended, taken, q35, t3>>
    BY <1>1 DEF T2Append
  <2> QED
    BY <2>2, <2>3 DEF Quiet
<1>2. CASE T3Send(i)
  <2>1. t3' = [t3 EXCEPT ![i] = [pc |-> "wait", b |-> Head(q13[i])]]
    BY <1>2 DEF T3Send
  <2>2. t3'[k] = t3[k] \/ t3'[k].pc = "wait"
    BY <2>1 DEF TypeOK
  <2>3. UNCHANGED <<appended, taken, q35, t2>>
    BY <1>2 DEF T3Send
  <2> QED
    BY <2>2, <2>3 DEF Quiet
<1>3. CASE Abort(i)
  BY <1>3, AbortQuiet
<1>4. CASE UNCHANGED <<appended, taken, q35, t2, t3>>
  BY <1>4 DEF Quiet
<1>5. Abort(i) \/ UNCHANGED <<appended, taken, q35, t2, t3>>
      \/ T3Send(i) \/ \E j \in Peers(i) : T2Append(i, j)
  BY DEF T1Check, T1Start, T1Recv, T1Hand, PeerGone, T3Ack, T4, T5Answer, T7, Elect,
         Campaign, T2Coalesced, T2Partial, T2Old, T2Heartbeat, T2Response, T2VoteRequest,
         T2VoteResponse, threads
<1> QED
  BY <1>1, <1>2, <1>3, <1>4, <1>5

(* A thread that is not idle has a batch in hand.                          *)
LEMMA InHand ==
    ASSUME TypeOK, NEW i \in Node
    PROVE  /\ t2[i].pc # "idle" => t2[i] \in [pc : {"log", "pass"}, b : Batch]
           /\ t3[i].pc # "idle" => t3[i] \in [pc : {"wait", "pass"}, b : Batch]
<1>1. t2[i] \in Task({"log", "pass"}) /\ t3[i] \in Task({"wait", "pass"})
  BY DEF TypeOK
<1> QED
  BY <1>1 DEF Task, Idle

(* The log of a node grows by a batch.                                     *)
LEMMA LogGrows ==
    ASSUME TypeOK, NEW i \in Node, NEW b \in Batch,
           appended' = [appended EXCEPT ![i] = Append(@, b)]
    PROVE  /\ \A k \in Node : Logged(k) \subseteq Logged(k)'
           /\ ToSet(b.w) \subseteq Logged(i)'
<1>1. appended[i] \in Seq(Batch) /\ appended \in [Node -> Seq(Batch)]
  BY DEF TypeOK
<1>2. appended'[i] = Append(appended[i], b) /\ \A k \in Node : k # i => appended'[k] = appended[k]
  BY <1>1
<1>3. /\ DOMAIN appended[i] \subseteq DOMAIN appended'[i]
      /\ \A n \in DOMAIN appended[i] : appended'[i][n] = appended[i][n]
      /\ Len(appended[i]) + 1 \in DOMAIN appended'[i]
      /\ appended'[i][Len(appended[i]) + 1] = b
  BY <1>1, <1>2
<1> QED
  BY <1>2, <1>3 DEF Logged

LEMMA LogStep ==
    ASSUME AppliedInv, NEW i \in Node, NEW k \in Node, T2Log(i) \/ T3Commit(i)
    PROVE  LoggedFirst(k)'
<1>0. TypeOK /\ LoggedFirst(k)
  BY DEF AppliedInv
<1>1. CASE T2Log(i)
  <2>1. t2[i].b \in Batch
    BY <1>0, <1>1, InHand DEF T2Log
  <2>2. /\ appended' = [appended EXCEPT ![i] = Append(@, t2[i].b)]
        /\ t2' = [t2 EXCEPT ![i].pc = "pass"]
        /\ UNCHANGED <<t3, q35, taken>>
    BY <1>1 DEF T2Log
  <2>3. Logged(k) \subseteq Logged(k)' /\ ToSet(t2[i].b.w) \subseteq Logged(i)'
    BY <1>0, <2>1, <2>2, LogGrows
  <2>4. t2'[k].pc = "pass" => ToSet(t2'[k].b.w) \subseteq Logged(k)'
    <3>1. CASE k = i
      <4>1. t2[i] \in [pc : {"log", "pass"}, b : Batch]
        BY <1>0, <1>1, InHand DEF T2Log
      <4>2. t2'[i].b = t2[i].b
        BY <1>0, <2>2, <4>1 DEF TypeOK
      <4> QED
        BY <2>3, <3>1, <4>2
    <3>2. CASE k # i
      <4>1. t2'[k] = t2[k]
        BY <1>0, <2>2, <3>2 DEF TypeOK
      <4> QED
        BY <1>0, <2>3, <4>1 DEF LoggedFirst
    <3> QED
      BY <3>1, <3>2
  <2> QED
    BY <1>0, <2>2, <2>3, <2>4 DEF LoggedFirst
<1>2. CASE T3Commit(i)
  <2>1. t3[i].b \in Batch
    BY <1>0, <1>2, InHand DEF T3Commit
  <2>2. /\ appended' = [appended EXCEPT ![i] = Append(@, t3[i].b)]
        /\ t3' = [t3 EXCEPT ![i].pc = "pass"]
        /\ UNCHANGED <<t2, q35, taken>>
    BY <1>2 DEF T3Commit
  <2>3. Logged(k) \subseteq Logged(k)' /\ ToSet(t3[i].b.w) \subseteq Logged(i)'
    BY <1>0, <2>1, <2>2, LogGrows
  <2>4. t3'[k].pc = "pass" => ToSet(t3'[k].b.w) \subseteq Logged(k)'
    <3>1. CASE k = i
      <4>1. t3[i] \in [pc : {"wait", "pass"}, b : Batch]
        BY <1>0, <1>2, InHand DEF T3Commit
      <4>2. t3'[i].b = t3[i].b
        BY <1>0, <2>2, <4>1 DEF TypeOK
      <4> QED
        BY <2>3, <3>1, <4>2
    <3>2. CASE k # i
      <4>1. t3'[k] = t3[k]
        BY <1>0, <2>2, <3>2 DEF TypeOK
      <4> QED
        BY <1>0, <2>3, <4>1 DEF LoggedFirst
    <3> QED
      BY <3>1, <3>2
  <2> QED
    BY <1>0, <2>2, <2>3, <2>4 DEF LoggedFirst
<1> QED
  BY <1>1, <1>2

LEMMA PassStep ==
    ASSUME AppliedInv, NEW i \in Node, NEW k \in Node, T2Pass(i) \/ T3Pass(i)
    PROVE  LoggedFirst(k)'
<1>0. TypeOK /\ LoggedFirst(k) /\ LoggedFirst(i)
  BY DEF AppliedInv
<1>1. PICK w : /\ w \in Seq(Write) /\ ToSet(w) \subseteq Logged(i)
               /\ q35' = [q35 EXCEPT ![i] = Append(@, w)]
  <2>1. CASE T2Pass(i)
    <3>1. t2[i].b.w \in Seq(Write)
      <4>1. t2[i] \in [pc : {"log", "pass"}, b : Batch]
        BY <1>0, <2>1, InHand DEF T2Pass
      <4> QED
        BY <4>1 DEF Batch
    <3> QED
      BY <1>0, <2>1, <3>1 DEF T2Pass, LoggedFirst
  <2>2. CASE T3Pass(i)
    <3>1. t3[i].b.w \in Seq(Write)
      <4>1. t3[i] \in [pc : {"wait", "pass"}, b : Batch]
        BY <1>0, <2>2, InHand DEF T3Pass
      <4> QED
        BY <4>1 DEF Batch
    <3> QED
      BY <1>0, <2>2, <3>1 DEF T3Pass, LoggedFirst
  <2> QED
    BY <2>1, <2>2
<1>2. UNCHANGED <<appended, taken>> /\ t2'[k] \in {t2[k], Idle} /\ t3'[k] \in {t3[k], Idle}
  <2>1. UNCHANGED <<appended, taken>> /\ t2' \in {t2, [t2 EXCEPT ![i] = Idle]}
        /\ t3' \in {t3, [t3 EXCEPT ![i] = Idle]}
    BY DEF T2Pass, T3Pass
  <2> QED
    BY <1>0, <2>1 DEF TypeOK
<1>3. Logged(k)' = Logged(k)
  BY <1>2 DEF Logged
<1>4. \A v \in ToSet(q35'[k]) : ToSet(v) \subseteq Logged(k)
  <2>1. q35 \in [Node -> Seq(Seq(Write))]
    BY <1>0 DEF TypeOK
  <2>2. CASE k = i
    <3>1. q35[i] \in Seq(Seq(Write)) /\ q35'[i] = Append(q35[i], w)
      BY <1>1, <2>1
    <3>2. ToSet(q35'[i]) = ToSet(q35[i]) \cup {w}
      BY <1>1, <3>1, Appended
    <3> QED
      BY <1>0, <1>1, <2>2, <3>2 DEF LoggedFirst
  <2>3. CASE k # i
    <3>1. q35'[k] = q35[k]
      BY <1>1, <2>1, <2>3
    <3> QED
      BY <1>0, <3>1 DEF LoggedFirst
  <2> QED
    BY <2>2, <2>3
<1>5. (t2'[k].pc = "pass" => t2'[k] = t2[k]) /\ (t3'[k].pc = "pass" => t3'[k] = t3[k])
  BY <1>2 DEF Idle
<1> QED
  BY <1>0, <1>2, <1>3, <1>4, <1>5 DEF LoggedFirst

LEMMA ApplyStep ==
    ASSUME AppliedInv, NEW i \in Node, NEW k \in Node, T5(i)
    PROVE  LoggedFirst(k)'
<1>0. TypeOK /\ LoggedFirst(k) /\ LoggedFirst(i)
  BY DEF AppliedInv
<1>1. UNCHANGED <<appended, t2, t3>>
  BY DEF T5
<1>2. Logged(k)' = Logged(k)
  BY <1>1 DEF Logged
<1>3. q35 \in [Node -> Seq(Seq(Write))] /\ taken \in [Node -> Seq(Write)]
  BY <1>0 DEF TypeOK
<1>4. /\ \A v \in ToSet(q35'[k]) : ToSet(v) \subseteq Logged(k)
      /\ ToSet(taken'[k]) \subseteq Logged(k)
  <2>1. CASE k # i
    <3>0. /\ \E v : q35' = [q35 EXCEPT ![i] = v]
          /\ taken' = taken \/ \E w : taken' = [taken EXCEPT ![i] = w]
      BY <1>0, T5Cases DEF TakesUp
    <3>1. q35'[k] = q35[k] /\ taken'[k] = taken[k]
      BY <1>3, <2>1, <3>0
    <3> QED
      BY <1>0, <3>1 DEF LoggedFirst
  <2>2. CASE k = i /\ q35' = [q35 EXCEPT ![i] = Tail(q35[i])] /\ UNCHANGED taken
    <3>1. ToSet(q35'[i]) \subseteq ToSet(q35[i])
      <4>1. q35[i] \in Seq(Seq(Write)) /\ q35[i] # << >>
        BY <1>0, T5Cases
      <4>2. q35'[i] = Tail(q35[i])
        BY <1>3, <2>2
      <4> QED
        BY <4>1, <4>2, TailSet
    <3> QED
      BY <1>0, <2>2, <3>1 DEF LoggedFirst
  <2>3. CASE k = i /\ TakesUp(i)
    <3>1. q35[i] \in Seq(Seq(Write)) /\ q35[i] # << >> /\ q35[i][1] # << >>
      BY <1>0, <2>3, T5Cases DEF TakesUp
    <3>2. q35[i][1] \in ToSet(q35[i])
      BY <3>1 DEF ToSet
    <3>3. ToSet(q35[i][1]) \subseteq Logged(i)
      BY <1>0, <3>2 DEF LoggedFirst
    <3>4. ToSet(q35[i][1]) = {NextWrite(i)} \cup ToSet(Tail(q35[i][1]))
      BY <2>3, TailSet DEF TakesUp, NextWrite
    <3>6. ToSet(q35'[i]) \subseteq ToSet(q35[i]) \cup {Tail(q35[i][1])}
      <4>1. q35'[i] = WithoutFirst(q35[i])
        BY <1>3, <2>3 DEF TakesUp
      <4>2. ToSet(WithoutFirst(q35[i])) \subseteq ToSet(q35[i]) \cup {Tail(q35[i][1])}
        BY <3>1, FirstGone
      <4> QED
        BY <4>1, <4>2
    <3>7. ToSet(taken'[i]) = ToSet(taken[i]) \cup {NextWrite(i)}
      BY <1>3, <2>3, Appended DEF TakesUp
    <3> QED
      BY <1>0, <2>3, <3>3, <3>4, <3>6, <3>7 DEF LoggedFirst
  <2> QED
    BY <1>0, <2>1, <2>2, <2>3, T5Cases
<1> QED
  BY <1>0, <1>1, <1>2, <1>4 DEF LoggedFirst

LEMMA AppliedInit == Init => AppliedInv
<1> SUFFICES ASSUME Init, NEW i \in Node PROVE LoggedFirst(i)
  BY TypeInit DEF AppliedInv
<1>1. ToSet(<< >>) = {}
  BY DEF ToSet
<1>2. t2[i].pc = "idle" /\ t3[i].pc = "idle" /\ q35[i] = << >> /\ taken[i] = << >>
  BY DEF Init, Idle
<1> QED
  BY <1>1, <1>2 DEF LoggedFirst

LEMMA AppliedNext == ASSUME AppliedInv, [Next]_vars PROVE AppliedInv'
<1>0. TypeOK /\ \A i \in Node : LoggedFirst(i)
  BY DEF AppliedInv
<1>1. TypeOK'
  BY <1>0, TypeNext
<1>2. ASSUME NEW k \in Node, Next PROVE LoggedFirst(k)'
  <2>1. PICK i \in Node :
          \/ T2Log(i) \/ T3Commit(i) \/ T2Pass(i) \/ T3Pass(i) \/ T5(i)
          \/ T1Check(i) \/ T1Start(i) \/ T1Recv(i) \/ T1Hand(i)
          \/ PeerGone(i) \/ T3Send(i) \/ T3Ack(i) \/ T4(i) \/ T5Answer(i)
          \/ T7(i) \/ Elect(i) \/ Campaign(i)
          \/ \E j \in Peers(i) :
                \/ T2Coalesced(i, j) \/ T2Partial(i, j)
                \/ T2Old(i, j) \/ T2Heartbeat(i, j) \/ T2Append(i, j)
                \/ T2Response(i, j) \/ T2VoteRequest(i, j) \/ T2VoteResponse(i, j)
    BY <1>2 DEF Next, Thread2
  <2>2. CASE T2Log(i) \/ T3Commit(i)
    BY <2>2, LogStep
  <2>3. CASE T2Pass(i) \/ T3Pass(i)
    BY <2>3, PassStep
  <2>4. CASE T5(i)
    BY <2>4, ApplyStep
  <2> QED
    BY <1>0, <2>1, <2>2, <2>3, <2>4, OtherQuiet, QuietKeeps
<1>3. ASSUME NEW k \in Node, UNCHANGED vars PROVE LoggedFirst(k)'
  BY <1>0, <1>3 DEF LoggedFirst, Logged, vars, threads
<1> QED
  BY <1>1, <1>2, <1>3 DEF AppliedInv

(* No write reaches the store that was not given to the log: whatever      *)
(* thread_2 and thread_3 have passed to thread_5 they have logged, in any  *)
(* cluster and however often the leader changes.                           *)
THEOREM AppliedOnlyIfLogged == Spec => []AppliedIsLogged
<1>1. AppliedInv /\ [Next]_vars => AppliedInv'
  BY AppliedNext
<1>2. AppliedInv => AppliedIsLogged
  BY DEF AppliedInv, AppliedIsLogged, LoggedFirst, Logged
<1> QED
  BY AppliedInit, <1>1, <1>2, PTL DEF Spec

-----------------------------------------------------------------------------
(* The write whose client thread_5 has still to answer is the one it has   *)
(* taken up last.                                                          *)
LastTaken(i) == t5[i] # 0 => taken[i] # << >> /\ Last(taken[i]) = t5[i]

TakenInv == TypeOK /\ \A i \in Node : LastTaken(i)

(* Only thread_5 touches the store and answers writes.                     *)
LEMMA OnlyThread5 ==
    ASSUME TypeOK, Next
    PROVE  \/ \E i \in Node : T5(i) \/ T5Answer(i)
           \/ /\ UNCHANGED <<taken, stored, acked>>
              /\ \A k \in Node : t5'[k] \in {t5[k], 0}
<1>1. PICK i \in Node :
        \/ T1Check(i) \/ T1Start(i) \/ T1Recv(i) \/ T1Hand(i)
        \/ Thread2(i) \/ PeerGone(i) \/ \E j \in Peers(i) : T2Coalesced(i, j) \/ T2Partial(i, j)
        \/ T3Send(i) \/ T3Ack(i) \/ T3Commit(i) \/ T3Pass(i)
        \/ T4(i) \/ T5(i) \/ T5Answer(i) \/ T7(i) \/ Elect(i) \/ Campaign(i)
  BY DEF Next
<1>2. CASE Abort(i)
  BY <1>2 DEF Abort, TypeOK
<1>3. CASE UNCHANGED <<t5, taken, stored, acked>>
  BY <1>3
<1>4. Thread2(i) => Abort(i) \/ UNCHANGED <<t5, taken, stored, acked>>
  BY DEF Thread2, T2Log, T2Pass, T2Old, T2Heartbeat, T2Append, T2Response,
         T2VoteRequest, T2VoteResponse
<1>5. (T1Check(i) \/ T1Start(i) \/ T1Recv(i) \/ T1Hand(i) \/ T4(i) \/ T7(i)
       \/ Elect(i) \/ Campaign(i)) => UNCHANGED <<t5, taken, stored, acked>>
  BY DEF T1Check, T1Start, T1Recv, T1Hand, T4, T7, Elect, Campaign
<1>6. (T3Send(i) \/ T3Ack(i) \/ T3Commit(i) \/ T3Pass(i) \/ PeerGone(i)
       \/ \E j \in Peers(i) : T2Coalesced(i, j) \/ T2Partial(i, j))
      => Abort(i) \/ UNCHANGED <<t5, taken, stored, acked>>
  BY DEF T3Send, T3Ack, T3Commit, T3Pass, PeerGone, T2Coalesced, T2Partial
<1> QED
  BY <1>1, <1>2, <1>3, <1>4, <1>5, <1>6

LEMMA LastIs ==
    ASSUME NEW S, NEW s \in Seq(S), NEW x \in S
    PROVE  Append(s, x) # << >> /\ Last(Append(s, x)) = x
BY DEF Last

LEMMA LastIn ==
    ASSUME NEW S, NEW s \in Seq(S), s # << >>
    PROVE  Last(s) \in ToSet(s)
BY DEF Last, ToSet

LEMMA TakenInit == Init => TakenInv
<1> SUFFICES ASSUME Init, NEW i \in Node PROVE LastTaken(i)
  BY TypeInit DEF TakenInv
<1> QED
  BY DEF Init, LastTaken

LEMMA TakenNext == ASSUME TakenInv, [Next]_vars PROVE TakenInv'
<1>0. TypeOK /\ TypeOK' /\ \A k \in Node : LastTaken(k)
  BY TypeNext DEF TakenInv
<1>1. ASSUME NEW i \in Node, NEW k \in Node, T5(i) PROVE LastTaken(k)'
  <2>1. CASE UNCHANGED <<t5, taken>>
    BY <1>0, <2>1 DEF LastTaken
  <2>2. CASE TakesUp(i)
    <3>0. taken \in [Node -> Seq(Write)] /\ t5 \in [Node -> 0 .. MaxWrites]
      BY <1>0 DEF TypeOK
    <3>1. CASE k = i
      <4>1. taken'[k] = Append(taken[k], NextWrite(i)) /\ t5'[k] = NextWrite(i)
        BY <2>2, <3>0, <3>1 DEF TakesUp
      <4>2. taken[k] \in Seq(Write) /\ NextWrite(i) \in Write
        BY <2>2, <3>0 DEF TakesUp
      <4> QED
        BY <4>1, <4>2, LastIs DEF LastTaken
    <3>2. CASE k # i
      <4>1. taken'[k] = taken[k] /\ t5'[k] = t5[k]
        BY <2>2, <3>0, <3>2 DEF TakesUp
      <4> QED
        BY <1>0, <4>1 DEF LastTaken
    <3> QED
      BY <3>1, <3>2
  <2> QED
    BY <1>0, <1>1, <2>1, <2>2, T5Cases
<1>2. ASSUME NEW i \in Node, NEW k \in Node, T5Answer(i) PROVE LastTaken(k)'
  <2>1. taken' = taken /\ t5'[k] \in {t5[k], 0}
    BY <1>0, <1>2 DEF T5Answer, TypeOK
  <2> QED
    BY <1>0, <2>1 DEF LastTaken
<1>3. ASSUME NEW k \in Node, taken' = taken, t5'[k] \in {t5[k], 0} PROVE LastTaken(k)'
  BY <1>0, <1>3 DEF LastTaken
<1>4. CASE UNCHANGED vars
  BY <1>0, <1>3, <1>4 DEF vars, TakenInv
<1>5. CASE Next
  BY <1>0, <1>1, <1>2, <1>3, <1>5, OnlyThread5 DEF TakenInv
<1> QED
  BY <1>4, <1>5

(* A GET sees what the node had acknowledged when the GET was received, or *)
(* what its store has refused of that.  A node acknowledges only what it   *)
(* has tried on its store, and both only grow; a GET stays on the node     *)
(* that received it, from thread_1's buffer to the queue of thread_4.      *)
Known(gets, writes) == \A r \in ToSet(gets) : r \subseteq writes

ReadsKnown(i) ==
    /\ t1[i].pc = "fill" => Known(t1[i].r, acked[i])
    /\ \A b \in ToSet(q13[i]) : Known(b.r, acked[i])
    /\ t3[i].pc # "idle" => Known(t3[i].b.r, acked[i])
    /\ \A gets \in ToSet(q34[i]) : Known(gets, acked[i])

ReadsInv ==
    /\ TakenInv
    /\ \A i \in Node : acked[i] \subseteq ToSet(taken[i]) /\ ReadsKnown(i)
    /\ ReadsSeeAcked

LEMMA ReadsInit == Init => ReadsInv
<1> SUFFICES ASSUME Init PROVE ReadsInv
  OBVIOUS
<1>1. ToSet(<< >>) = {}
  BY DEF ToSet
<1>2. ASSUME NEW i \in Node PROVE acked[i] \subseteq ToSet(taken[i]) /\ ReadsKnown(i)
  <2>1. /\ t1[i].pc = "check" /\ t3[i].pc = "idle" /\ q13[i] = << >> /\ q34[i] = << >>
        /\ acked[i] = {}
    BY DEF Init, Idle, Idle1
  <2> QED
    BY <1>1, <2>1 DEF ReadsKnown
<1> QED
  BY <1>2, TakenInit DEF ReadsInv, ReadsSeeAcked, Init

(* What a node has acknowledged it has taken up.                           *)
LEMMA AckedStep ==
    ASSUME ReadsInv, NEW k \in Node, Next
    PROVE  acked'[k] \subseteq ToSet(taken'[k]) /\ acked[k] \subseteq acked'[k]
<1>0. TypeOK /\ LastTaken(k) /\ acked[k] \subseteq ToSet(taken[k])
      /\ taken \in [Node -> Seq(Write)] /\ acked \in [Node -> SUBSET Write]
  BY DEF ReadsInv, TakenInv, TypeOK
<1>1. CASE UNCHANGED <<taken, acked>>
  BY <1>0, <1>1
<1>2. ASSUME NEW i \in Node, TakesUp(i)
      PROVE  acked'[k] \subseteq ToSet(taken'[k]) /\ acked[k] \subseteq acked'[k]
  <2>1. CASE k = i
    <3>1. ToSet(taken'[i]) = ToSet(taken[i]) \cup {NextWrite(i)}
      BY <1>0, <1>2, Appended DEF TakesUp
    <3> QED
      BY <1>0, <1>2, <2>1, <3>1 DEF TakesUp
  <2>2. CASE k # i
    <3>1. taken'[k] = taken[k] /\ acked' = acked
      BY <1>0, <1>2, <2>2 DEF TakesUp
    <3> QED
      BY <1>0, <3>1
  <2> QED
    BY <2>1, <2>2
<1>3. ASSUME NEW i \in Node, T5Answer(i)
      PROVE  acked'[k] \subseteq ToSet(taken'[k]) /\ acked[k] \subseteq acked'[k]
  <2>1. taken' = taken /\ t5[i] # 0
        /\ acked' = [acked EXCEPT ![i] = IF state[i] = "LEADER" THEN @ \cup {t5[i]} ELSE @]
    BY <1>3 DEF T5Answer
  <2>2. CASE k = i
    <3>1. t5[k] \in ToSet(taken[k])
      <4>1. taken[k] \in Seq(Write) /\ taken[k] # << >> /\ Last(taken[k]) = t5[k]
        BY <1>0, <2>1, <2>2 DEF LastTaken
      <4> QED
        BY <4>1, LastIn
    <3>2. acked'[k] \in {acked[k], acked[k] \cup {t5[k]}}
      BY <1>0, <2>1, <2>2
    <3> QED
      BY <1>0, <2>1, <3>1, <3>2
  <2>3. CASE k # i
    <3>1. acked'[k] = acked[k]
      BY <1>0, <2>1, <2>3
    <3> QED
      BY <1>0, <2>1, <3>1
  <2> QED
    BY <2>2, <2>3
<1>4. ASSUME NEW i \in Node, T5(i)
      PROVE  acked'[k] \subseteq ToSet(taken'[k]) /\ acked[k] \subseteq acked'[k]
  BY <1>0, <1>1, <1>2, <1>4, T5Cases
<1> QED
  BY <1>0, <1>1, <1>3, <1>4, OnlyThread5

(* A step in which no GET goes from one hand to the next.                  *)
Steady(i) ==
    /\ t1'[i].pc = "fill" => t1'[i] = t1[i]
    /\ q13'[i] \in {q13[i], << >>}
    /\ t3'[i].pc # "idle" => t3[i].pc # "idle" /\ t3'[i].b = t3[i].b
    /\ q34'[i] \in {q34[i], << >>}

LEMMA SteadyKeeps ==
    ASSUME NEW i \in Node, ReadsKnown(i), Steady(i), acked[i] \subseteq acked'[i]
    PROVE  ReadsKnown(i)'
<1>1. ToSet(<< >>) = {}
  BY DEF ToSet
<1>2. \A gets : Known(gets, acked[i]) => Known(gets, acked'[i])
  BY DEF Known
<1>3. t1'[i].pc = "fill" => Known(t1'[i].r, acked'[i])
  BY <1>2 DEF Steady, ReadsKnown
<1>4. \A b \in ToSet(q13'[i]) : Known(b.r, acked'[i])
  BY <1>1, <1>2 DEF Steady, ReadsKnown
<1>5. t3'[i].pc # "idle" => Known(t3'[i].b.r, acked'[i])
  BY <1>2 DEF Steady, ReadsKnown
<1>6. \A gets \in ToSet(q34'[i]) : Known(gets, acked'[i])
  BY <1>1, <1>2 DEF Steady, ReadsKnown
<1> QED
  BY <1>3, <1>4, <1>5, <1>6 DEF ReadsKnown

LEMMA SteadySteps ==
    ASSUME TypeOK, NEW i \in Node, NEW k \in Node,
           \/ T1Check(i) \/ PeerGone(i) \/ T3Ack(i) \/ T3Commit(i) \/ T5(i)
           \/ T5Answer(i) \/ T7(i) \/ Elect(i) \/ Campaign(i) \/ Thread2(i)
           \/ /\ k # i
              /\ T1Start(i) \/ T1Recv(i) \/ T1Hand(i) \/ T3Send(i) \/ T3Pass(i) \/ T4(i)
           \/ \E j \in Peers(i) : T2Coalesced(i, j) \/ T2Partial(i, j)
    PROVE  Steady(k)
<1>1. CASE UNCHANGED <<t1, q13, t3, q34>>
  BY <1>1 DEF Steady
<1>2. CASE Abort(i)
  <2>1. /\ t1' = [t1 EXCEPT ![i] = Idle1] /\ q13' = [q13 EXCEPT ![i] = << >>]
        /\ t3' = [t3 EXCEPT ![i] = Idle] /\ q34' = [q34 EXCEPT ![i] = << >>]
    BY <1>2 DEF Abort
  <2>2. /\ t1'[k] \in {t1[k], Idle1} /\ q13'[k] \in {q13[k], << >>}
        /\ t3'[k] \in {t3[k], Idle} /\ q34'[k] \in {q34[k], << >>}
    BY <2>1 DEF TypeOK
  <2> QED
    BY <2>2 DEF Steady, Idle, Idle1
<1>3. CASE T1Check(i)
  <2>1. t1' = [t1 EXCEPT ![i] = [pc |-> "start"]] /\ UNCHANGED <<q13, t3, q34>>
    BY <1>3 DEF T1Check
  <2>2. t1'[k] \in {t1[k], [pc |-> "start"]}
    BY <2>1 DEF TypeOK
  <2>3. [pc |-> "start"].pc # "fill"
    OBVIOUS
  <2> QED
    BY <2>1, <2>2, <2>3 DEF Steady
<1>4. CASE T3Commit(i)
  <2>1. t3' = [t3 EXCEPT ![i].pc = "pass"] /\ UNCHANGED <<t1, q13, q34>>
    BY <1>4 DEF T3Commit
  <2>2. t3[i] \in [pc : {"wait", "pass"}, b : Batch]
    BY <1>4, InHand DEF T3Commit
  <2>3. t3'[k].b = t3[k].b /\ (k = i => t3[k].pc # "idle") /\ (k # i => t3'[k] = t3[k])
    BY <2>1, <2>2 DEF TypeOK
  <2> QED
    BY <2>1, <2>3 DEF Steady
<1>5. CASE k # i /\ (T1Start(i) \/ T1Recv(i) \/ T1Hand(i) \/ T3Send(i) \/ T3Pass(i) \/ T4(i))
  <2>1. t1'[k] = t1[k] /\ q13'[k] = q13[k] /\ t3'[k] = t3[k] /\ q34'[k] = q34[k]
    BY <1>5 DEF TypeOK, T1Start, T1Recv, T1Hand, T3Send, T3Pass, T4
  <2> QED
    BY <2>1 DEF Steady
<1>6. \/ UNCHANGED <<t1, q13, t3, q34>> \/ Abort(i) \/ T1Check(i) \/ T3Commit(i)
      \/ k # i /\ (T1Start(i) \/ T1Recv(i) \/ T1Hand(i) \/ T3Send(i) \/ T3Pass(i) \/ T4(i))
  BY DEF PeerGone, T3Ack, T5, T5Answer, T7, Elect, Campaign, Thread2, T2Coalesced,
         T2Partial, T2Old, T2Heartbeat, T2Append, T2Response, T2VoteRequest, T2VoteResponse, T2Log, T2Pass,
         threads
<1> QED
  BY <1>1, <1>2, <1>3, <1>4, <1>5, <1>6

(* A GET is received: what is acknowledged now it has to see.              *)
LEMMA ReceiveStep ==
    ASSUME TypeOK, NEW i \in Node, ReadsKnown(i), T1Start(i) \/ T1Recv(i)
    PROVE  ReadsKnown(i)'
<1>0. UNCHANGED <<q13, t3, q34, acked>>
  BY DEF T1Start, T1Recv
<1>1. t1'[i].pc = "fill" => Known(t1'[i].r, acked[i])
  <2>1. CASE T1Start(i)
    <3>1. t1'[i].r = << >>
      BY <2>1 DEF TypeOK, T1Start
    <3> QED
      BY <3>1 DEF Known, ToSet
  <2>2. CASE T1Recv(i)
    <3>1. t1[i] \in Filling
      BY <2>2 DEF TypeOK, T1Recv
    <3>2. t1[i].r \in Seq(SUBSET Write) /\ Known(t1[i].r, acked[i])
      BY <3>1 DEF Filling, ReadsKnown
    <3>3. CASE t1' = [t1 EXCEPT ![i].r = Append(@, acked[i])]
      <4>1. t1'[i].r = Append(t1[i].r, acked[i])
        BY <3>1, <3>3 DEF TypeOK, Filling
      <4>2. ToSet(t1'[i].r) = ToSet(t1[i].r) \cup {acked[i]}
        <5>1. acked[i] \in SUBSET Write
          BY DEF TypeOK
        <5> QED
          BY <3>2, <4>1, <5>1, Appended
      <4> QED
        BY <3>2, <4>2 DEF Known
    <3>4. CASE t1' = [t1 EXCEPT ![i].w = Append(@, received')]
      <4>1. t1'[i].r = t1[i].r
        BY <3>1, <3>4 DEF TypeOK, Filling
      <4> QED
        BY <3>2, <4>1
    <3> QED
      BY <2>2, <3>3, <3>4 DEF T1Recv
  <2> QED
    BY <2>1, <2>2
<1> QED
  BY <1>0, <1>1 DEF ReadsKnown

(* The buffer with the GETs goes to thread_3 ...                           *)
LEMMA HandStep ==
    ASSUME TypeOK, NEW i \in Node, ReadsKnown(i), T1Hand(i)
    PROVE  ReadsKnown(i)'
<1>0. UNCHANGED <<t3, q34, acked>> /\ t1' = [t1 EXCEPT ![i] = Idle1]
  BY DEF T1Hand
<1>1. t1'[i].pc # "fill"
  BY <1>0 DEF TypeOK, Idle1
<1>2. t1[i] \in Filling /\ Known(t1[i].r, acked[i])
  BY DEF TypeOK, T1Hand, ReadsKnown
<1>3. \A b \in ToSet(q13'[i]) : Known(b.r, acked[i])
  <2>1. CASE UNCHANGED q13
    BY <2>1 DEF ReadsKnown
  <2>2. CASE /\ accepted' = Append(accepted, {})
             /\ q13' = [q13 EXCEPT ![i] = Append(@,
                  [id |-> Len(accepted'), term |-> t1[i].term, idx |-> t1[i].idx,
                   w |-> t1[i].w, r |-> t1[i].r])]
    <3> DEFINE b == [id |-> Len(accepted'), term |-> t1[i].term, idx |-> t1[i].idx,
                     w |-> t1[i].w, r |-> t1[i].r]
    <3>1. b \in Batch /\ b.r = t1[i].r
      <4>1. accepted' \in Seq(SUBSET Node)
        BY <2>2 DEF TypeOK
      <4> QED
        BY <1>2, <4>1 DEF Filling, Batch
    <3>2. q13[i] \in Seq(Batch) /\ q13'[i] = Append(q13[i], b)
      BY <2>2 DEF TypeOK
    <3> HIDE DEF b
    <3>3. ToSet(q13'[i]) = ToSet(q13[i]) \cup {b}
      BY <3>1, <3>2, Appended
    <3> QED
      BY <1>2, <3>1, <3>3 DEF ReadsKnown
  <2> QED
    BY <2>1, <2>2 DEF T1Hand
<1> QED
  BY <1>0, <1>1, <1>3 DEF ReadsKnown

(* ... that takes it from its queue ...                                    *)
LEMMA SendStep ==
    ASSUME TypeOK, NEW i \in Node, ReadsKnown(i), T3Send(i)
    PROVE  ReadsKnown(i)'
<1>0. UNCHANGED <<t1, q34, acked>> /\ t3' = [t3 EXCEPT ![i] = [pc |-> "wait", b |-> Head(q13[i])]]
      /\ q13' = [q13 EXCEPT ![i] = Tail(@)]
  BY DEF T3Send
<1>1. q13[i] \in Seq(Batch) /\ q13[i] # << >> /\ q13'[i] = Tail(q13[i])
      /\ t3'[i].b = Head(q13[i])
  BY <1>0 DEF TypeOK, T3Send
<1>2. ToSet(q13[i]) = {Head(q13[i])} \cup ToSet(q13'[i])
  BY <1>1, TailSet
<1> QED
  BY <1>0, <1>1, <1>2 DEF ReadsKnown

(* ... and passes them on to thread_4 ...                                  *)
LEMMA PassReadsStep ==
    ASSUME TypeOK, NEW i \in Node, ReadsKnown(i), T3Pass(i)
    PROVE  ReadsKnown(i)'
<1>0. UNCHANGED <<t1, q13, acked>> /\ t3' = [t3 EXCEPT ![i] = Idle]
      /\ q34' = [q34 EXCEPT ![i] = Append(@, t3[i].b.r)]
  BY DEF T3Pass
<1>1. t3[i].pc # "idle" /\ t3[i].b \in Batch
  BY InHand DEF T3Pass
<1>2. Known(t3[i].b.r, acked[i]) /\ t3[i].b.r \in Seq(SUBSET Write)
  BY <1>1 DEF ReadsKnown, Batch
<1>3. q34[i] \in Seq(Seq(SUBSET Write)) /\ q34'[i] = Append(q34[i], t3[i].b.r)
      /\ t3'[i].pc = "idle"
  BY <1>0 DEF TypeOK, Idle
<1>4. ToSet(q34'[i]) = ToSet(q34[i]) \cup {t3[i].b.r}
  BY <1>2, <1>3, Appended
<1> QED
  BY <1>0, <1>2, <1>3, <1>4 DEF ReadsKnown

(* ... that looks them up one after the other.                             *)
LEMMA LookUpStep ==
    ASSUME TypeOK, NEW i \in Node, ReadsKnown(i), acked[i] \subseteq ToSet(taken[i]),
           ReadsSeeAcked, T4(i)
    PROVE  ReadsKnown(i)' /\ ReadsSeeAcked'
<1> DEFINE q == q34[i]
           Seen(r) == [need |-> r, seen |-> stored[i],
                       refused |-> ToSet(taken[i]) \ stored[i]]
<1>0. UNCHANGED <<t1, q13, t3, acked, taken>>
  BY DEF T4
<1>s. acked[i] \subseteq ToSet(taken[i])
  OBVIOUS
<1>1. /\ q \in Seq(Seq(SUBSET Write)) /\ q # << >> /\ Head(q) = q[1]
      /\ q[1] \in Seq(SUBSET Write)
  <2>1. q \in Seq(Seq(SUBSET Write)) /\ q # << >>
    BY DEF TypeOK, T4
  <2> HIDE DEF q
  <2>2. Head(q) = q[1] /\ Head(q) \in Seq(SUBSET Write)
    BY <2>1
  <2> QED
    BY <2>1, <2>2
<1>2. \A gets \in ToSet(q) : Known(gets, acked[i])
  BY DEF ReadsKnown
<1>3. CASE q[1] = << >> /\ q34'[i] = Tail(q) /\ UNCHANGED served
  <2> HIDE DEF q
  <2>1. ToSet(q34'[i]) \subseteq ToSet(q)
    BY <1>1, <1>3, TailSet
  <2>2. \A gets \in ToSet(q34'[i]) : Known(gets, acked[i])
    BY <1>2, <2>1
  <2> QED
    BY <1>0, <1>3, <2>2 DEF ReadsKnown, ReadsSeeAcked
<1>4. CASE /\ q[1] # << >> /\ q34'[i] = [q EXCEPT ![1] = Tail(q[1])]
           /\ \/ served' = served \cup {Seen(Head(q[1]))}
              \/ UNCHANGED served
  <2> HIDE DEF q
  <2>1. Known(q[1], acked[i])
    <3>1. q[1] \in ToSet(q)
      BY <1>1 DEF ToSet
    <3> QED
      BY <1>2, <3>1
  <2>2. ToSet(q[1]) = {Head(q[1])} \cup ToSet(Tail(q[1]))
    BY <1>1, <1>4, TailSet
  <2>3. Head(q[1]) \subseteq acked[i] /\ Known(Tail(q[1]), acked[i])
    BY <2>1, <2>2 DEF Known
  <2>4. \A gets \in ToSet(q34'[i]) : Known(gets, acked[i])
    <3>1. Tail(q[1]) \in Seq(SUBSET Write)
      BY <1>1, <1>4, HeadTail
    <3>2. ToSet([q EXCEPT ![1] = Tail(q[1])]) \subseteq ToSet(q) \cup {Tail(q[1])}
      <4> DEFINE t == Tail(q[1])
      <4>1. t \in Seq(SUBSET Write)
        BY <3>1
      <4> HIDE DEF t
      <4>2. ToSet([q EXCEPT ![1] = t]) \subseteq ToSet(q) \cup {t}
        BY <1>1, <4>1, FirstReplaced, ZenonT(30)
      <4> QED
        BY <4>2 DEF t
    <3> QED
      BY <1>2, <1>4, <2>3, <3>2
  <2>5. ReadsSeeAcked'
    <3>1. Head(q[1]) \subseteq stored[i] \cup (ToSet(taken[i]) \ stored[i])
      BY <1>s, <2>3
    <3>2. Seen(Head(q[1])).need \subseteq Seen(Head(q[1])).seen \cup Seen(Head(q[1])).refused
      BY <3>1
    <3> HIDE DEF Seen
    <3> QED
      BY <1>4, <3>2 DEF ReadsSeeAcked
  <2> QED
    BY <1>0, <2>4, <2>5 DEF ReadsKnown
<1>5. \/ q[1] = << >> /\ q34'[i] = Tail(q) /\ UNCHANGED served
      \/ /\ q[1] # << >> /\ q34'[i] = [q EXCEPT ![1] = Tail(q[1])]
         /\ \/ served' = served \cup {Seen(Head(q[1]))}
            \/ UNCHANGED served
  BY <1>1 DEF T4, TypeOK
<1> QED
  BY <1>3, <1>4, <1>5

LEMMA ReadsNext == ASSUME ReadsInv, [Next]_vars PROVE ReadsInv'
<1>0. /\ TypeOK /\ ReadsSeeAcked
      /\ \A i \in Node : acked[i] \subseteq ToSet(taken[i]) /\ ReadsKnown(i)
  BY DEF ReadsInv, TakenInv
<1>1. TakenInv'
  BY TakenNext DEF ReadsInv
<1>2. ASSUME Next PROVE ReadsInv'
  <2>1. PICK i \in Node :
          \/ T1Check(i) \/ T1Start(i) \/ T1Recv(i) \/ T1Hand(i)
          \/ Thread2(i) \/ PeerGone(i) \/ \E j \in Peers(i) : T2Coalesced(i, j) \/ T2Partial(i, j)
          \/ T3Send(i) \/ T3Ack(i) \/ T3Commit(i) \/ T3Pass(i)
          \/ T4(i) \/ T5(i) \/ T5Answer(i) \/ T7(i) \/ Elect(i) \/ Campaign(i)
    BY <1>2 DEF Next
  <2>2. \A k \in Node : acked'[k] \subseteq ToSet(taken'[k]) /\ acked[k] \subseteq acked'[k]
    BY <1>2, AckedStep
  <2>3. ASSUME NEW k \in Node PROVE ReadsKnown(k)'
    <3>1. CASE Steady(k)
      BY <1>0, <2>2, <3>1, SteadyKeeps
    <3>2. CASE k = i /\ (T1Start(i) \/ T1Recv(i))
      BY <1>0, <3>2, ReceiveStep
    <3>3. CASE k = i /\ T1Hand(i)
      BY <1>0, <3>3, HandStep
    <3>4. CASE k = i /\ T3Send(i)
      BY <1>0, <3>4, SendStep
    <3>5. CASE k = i /\ T3Pass(i)
      BY <1>0, <3>5, PassReadsStep
    <3>6. CASE k = i /\ T4(i)
      BY <1>0, <3>6, LookUpStep
    <3>7. CASE \/ T1Check(i) \/ PeerGone(i) \/ T3Ack(i) \/ T3Commit(i) \/ T5(i)
               \/ T5Answer(i) \/ T7(i) \/ Elect(i) \/ Campaign(i) \/ Thread2(i)
               \/ \E j \in Peers(i) : T2Coalesced(i, j) \/ T2Partial(i, j)
      <4>1. Steady(k)
        BY <1>0, <3>7, SteadySteps
      <4> QED
        BY <3>1, <4>1
    <3>8. k # i => Steady(k)
      BY <1>0, <2>1, SteadySteps
    <3> QED
      BY <2>1, <3>1, <3>2, <3>3, <3>4, <3>5, <3>6, <3>7, <3>8
  <2>4. ReadsSeeAcked'
    <3>1. CASE T4(i)
      BY <1>0, <3>1, LookUpStep
    <3>2. CASE ~T4(i)
      <4>1. (T1Check(i) \/ T1Start(i) \/ T1Recv(i) \/ T1Hand(i) \/ T5(i) \/ T5Answer(i)
             \/ T7(i) \/ Elect(i) \/ Campaign(i)) => UNCHANGED served
        BY DEF T1Check, T1Start, T1Recv, T1Hand, T5, T5Answer, T7, Elect, Campaign, history
      <4>2. (T3Send(i) \/ T3Ack(i) \/ T3Commit(i) \/ T3Pass(i) \/ PeerGone(i)
             \/ \E j \in Peers(i) : T2Coalesced(i, j) \/ T2Partial(i, j)) => UNCHANGED served
        BY DEF T3Send, T3Ack, T3Commit, T3Pass, PeerGone, T2Coalesced, T2Partial, Abort,
               history
      <4>3. Thread2(i) => UNCHANGED served
        BY DEF Thread2, T2Log, T2Pass, T2Old, T2Heartbeat, T2Append, T2Response,
               T2VoteRequest, T2VoteResponse, Abort, history
      <4> QED
        BY <1>0, <2>1, <3>2, <4>1, <4>2, <4>3 DEF ReadsSeeAcked
    <3> QED
      BY <3>1, <3>2
  <2> QED
    BY <1>1, <2>2, <2>3, <2>4 DEF ReadsInv
<1>3. CASE UNCHANGED vars
  <2>1. UNCHANGED <<t1, q13, t3, q34, taken, acked, served>>
    BY <1>3 DEF vars, threads, history
  <2> QED
    BY <1>0, <1>1, <2>1 DEF ReadsInv, ReadsKnown, ReadsSeeAcked
<1> QED
  BY <1>2, <1>3

(* A GET misses, of the writes the node had acknowledged before it         *)
(* received the GET, only those its own store has refused, whatever else   *)
(* happens in the cluster: thread_5 answers a client only after it has     *)
(* tried the write, and nothing leaves the store again.  It says nothing   *)
(* of what another node has acknowledged.                                  *)
THEOREM ReadsSeeAcknowledged == Spec => []ReadsSeeAcked
<1>1. ReadsInv /\ [Next]_vars => ReadsInv'
  BY ReadsNext
<1>2. ReadsInv => ReadsSeeAcked
  BY DEF ReadsInv
<1> QED
  BY ReadsInit, <1>1, <1>2, PTL DEF Spec

-----------------------------------------------------------------------------
(* One node logs in one thread as long as no other node is made leader:    *)
(* only the leader has commands and sends batches, so that thread_3 logs   *)
(* on the leader and thread_2 on every other node.                         *)
NodeStep(i) ==
    \/ T1Check(i) \/ T1Start(i) \/ T1Recv(i) \/ T1Hand(i)
    \/ Thread2(i) \/ PeerGone(i) \/ \E j \in Peers(i) : T2Coalesced(i, j) \/ T2Partial(i, j)
    \/ T3Send(i) \/ T3Ack(i) \/ T3Commit(i) \/ T3Pass(i)
    \/ T4(i) \/ T5(i) \/ T5Answer(i) \/ T7(i) \/ Elect(i) \/ Campaign(i)

OneLeader == \A i \in Node \ {Leader} : ~Elect(i)

OnWay(i, j) == ToSet(chan[i][j])

OneWriter ==
    /\ \A i \in Node : i # Leader =>
        /\ state[i] # "LEADER" /\ t1[i].pc = "check"
        /\ q13[i] = << >> /\ t3[i].pc = "idle"
        /\ \A j \in Node : \A m \in OnWay(i, j) : m.type # "APPEND_ENTRIES"
    /\ t2[Leader].pc = "idle"

(* A step of a node leaves the other nodes' threads alone.                 *)
LEMMA Untouched ==
    ASSUME TypeOK, NEW i \in Node, NodeStep(i), NEW k \in Node, k # i
    PROVE  /\ state'[k] = state[k] /\ current_term'[k] = current_term[k]
           /\ t1'[k] = t1[k] /\ q13'[k] = q13[k] /\ q35'[k] = q35[k]
           /\ t2'[k] = t2[k] /\ t3'[k] = t3[k]
           /\ appended'[k] = appended[k] /\ taken'[k] = taken[k]
           /\ k \in dead' <=> k \in dead
<1>4. CASE T5(i)
  <2>1. UNCHANGED <<state, current_term, t1, q13, t2, t3, appended, dead>>
    BY <1>4 DEF T5
  <2>2. q35'[k] = q35[k] /\ taken'[k] = taken[k]
    <3>1. q35 \in [Node -> Seq(Seq(Write))] /\ taken \in [Node -> Seq(Write)]
      BY DEF TypeOK
    <3> QED
      BY <1>4, <3>1, T5Cases DEF TakesUp
  <2> QED
    BY <2>1, <2>2
<1> USE DEF TypeOK
<1>1. CASE T1Check(i) \/ T1Start(i) \/ T1Recv(i) \/ T1Hand(i)
  BY <1>1 DEF T1Check, T1Start, T1Recv, T1Hand
<1>2. CASE T3Send(i) \/ T3Commit(i) \/ T3Pass(i) \/ T4(i)
  BY <1>2 DEF T3Send, T3Commit, T3Pass, T4
<1>3. CASE T5Answer(i) \/ T7(i) \/ Elect(i) \/ Campaign(i)
  BY <1>3 DEF T5Answer, T7, Elect, Campaign, threads
<1>5. CASE Abort(i)
  BY <1>5 DEF Abort
<1>6. CASE T3Ack(i)
  BY <1>5, <1>6 DEF T3Ack
<1>7. CASE T2Log(i) \/ T2Pass(i)
  BY <1>7 DEF T2Log, T2Pass
<1>8. ASSUME NEW j \in Peers(i),
             \/ T2Old(i, j) \/ T2Heartbeat(i, j) \/ T2Append(i, j)
             \/ T2Response(i, j) \/ T2VoteRequest(i, j)
      PROVE  /\ state'[k] = state[k] /\ current_term'[k] = current_term[k]
             /\ UNCHANGED <<t1, q13, q35, t3, appended, taken, dead>> /\ t2'[k] = t2[k]
  <2>1. CASE T2Old(i, j) \/ T2Heartbeat(i, j) \/ T2Response(i, j) \/ T2VoteRequest(i, j)
    BY <2>1 DEF T2Old, T2Heartbeat, T2Response, T2VoteRequest, T2Take, threads
  <2>2. CASE T2Append(i, j)
    <3>1. state'[k] = state[k] /\ current_term'[k] = current_term[k]
      BY <2>2 DEF T2Append, T2Take
    <3>2. UNCHANGED <<t1, q13, q35, t3, appended, taken, dead>>
      BY <2>2 DEF T2Append
    <3>3. \/ t2' = t2
          \/ t2' = [t2 EXCEPT ![i] = [pc |-> "log", b |-> Msg(i, j).batch]]
      BY <2>2 DEF T2Append
    <3> QED
      BY <3>1, <3>2, <3>3
  <2> QED
    BY <1>8, <2>1, <2>2
<1>9. CASE \E j \in Peers(i) : T2VoteResponse(i, j) \/ T2Coalesced(i, j) \/ T2Partial(i, j)
  BY <1>5, <1>9 DEF T2VoteResponse, T2Coalesced, T2Partial
<1> HIDE DEF TypeOK
<1> QED
  BY <1>1, <1>2, <1>3, <1>4, <1>5, <1>6, <1>7, <1>8, <1>9 DEF NodeStep, Thread2, PeerGone

(* What a step of a node puts on the sockets.                              *)
NewMsg(i, m) ==
    \/ /\ T3Send(i)
       /\ m = [type |-> "APPEND_ENTRIES", term |-> Head(q13[i]).term,
               prev |-> LastApplied[i], batch |-> Head(q13[i])]
    \/ T7(i) /\ m = [type |-> "HEARTBEAT", term |-> current_term[i]]
    \/ Campaign(i) /\ m.type = "REQUEST_VOTE"
    \/ \E j \in Peers(i) :
         \/ /\ T2Append(i, j) /\ m.type = "RESP_APPEND_ENTRIES" /\ m.term = Msg(i, j).term
            /\ Msg(i, j) \in OnWay(j, i)
         \/ /\ T2VoteRequest(i, j) /\ m.type = "RESP_REQUEST_VOTE"
            /\ Msg(i, j) \in OnWay(j, i)

LEMMA SendOnWay ==
    ASSUME TypeOK, NEW i \in Node, NEW msg \in Message, Send(i, msg),
           NEW k \in Node, NEW j \in Node
    PROVE  chan'[k][j] = IF k = i /\ j # i THEN Append(chan[k][j], msg) ELSE chan[k][j]
BY DEF Send, TypeOK

LEMMA TookOnWay ==
    ASSUME TypeOK, NEW i \in Node, NEW j \in Node, NEW k \in Node, NEW n \in Node
    PROVE  Took(i, j)[k][n] = IF k = j /\ n = i THEN Tail(chan[k][n]) ELSE chan[k][n]
BY DEF Took, TypeOK

LEMMA ReadOnWay ==
    ASSUME TypeOK, NEW i \in Node, NEW j \in Node, chan[j][i] # << >>
    PROVE  /\ Msg(i, j) \in OnWay(j, i)
           /\ \A k, n \in Node : Took(i, j)[k][n] \in Seq(Message)
                                 /\ ToSet(Took(i, j)[k][n]) \subseteq OnWay(k, n)
<1>1. chan[j][i] \in Seq(Message)
  BY DEF TypeOK
<1>2. ToSet(chan[j][i]) = {Msg(i, j)} \cup ToSet(Tail(chan[j][i]))
  BY <1>1, TailSet DEF Msg
<1>3. ASSUME NEW k \in Node, NEW n \in Node
      PROVE  ToSet(Took(i, j)[k][n]) \subseteq OnWay(k, n)
  BY <1>2, <1>3, TookOnWay DEF OnWay
<1>4. Took(i, j) \in [Node -> [Node -> Seq(Message)]]
  BY TookType
<1> QED
  BY <1>2, <1>3, <1>4 DEF OnWay

(* Every message on a socket was there or is new, and from this node.      *)
LEMMA ChanStep ==
    ASSUME TypeOK, NEW i \in Node, NodeStep(i), NEW k \in Node, NEW j \in Node,
           NEW m \in OnWay(k, j)'
    PROVE  m \in OnWay(k, j) \/ (k = i /\ NewMsg(i, m))
<1> USE DEF OnWay
<1>0. chan[k][j] \in Seq(Message)
  BY DEF TypeOK
<1>s. ASSUME NEW msg \in Message, Send(i, msg)
      PROVE  m \in OnWay(k, j) \/ (k = i /\ m = msg)
  <2>1. chan'[k][j] = IF k = i /\ j # i THEN Append(chan[k][j], msg) ELSE chan[k][j]
    BY <1>s, SendOnWay
  <2>2. ToSet(Append(chan[k][j], msg)) = ToSet(chan[k][j]) \cup {msg}
    BY <1>0, Appended
  <2> QED
    BY <2>1, <2>2
<1>1. CASE UNCHANGED chan
  BY <1>1
<1>2. CASE Abort(i)
  <2>1. chan' = [n \in Node |-> [chan[n] EXCEPT ![i] = << >>]]
    BY <1>2 DEF Abort
  <2>2. chan'[k][j] \in {chan[k][j], << >>}
    BY <2>1 DEF TypeOK
  <2>3. ToSet(<< >>) = {}
    BY DEF ToSet
  <2> QED
    BY <2>2, <2>3
<1>3. CASE T3Send(i)
  <2>1. Head(q13[i]) \in Batch
    BY <1>3, HeadTail DEF T3Send, TypeOK
  <2> DEFINE msg == [type |-> "APPEND_ENTRIES", term |-> Head(q13[i]).term,
                     prev |-> LastApplied[i], batch |-> Head(q13[i])]
  <2>2. msg \in Message
    BY <2>1, ReplicationAssumption DEF Message, Batch, Entry
  <2>3. Send(i, msg)
    BY <1>3 DEF T3Send
  <2> HIDE DEF msg
  <2>4. m \in OnWay(k, j) \/ (k = i /\ m = msg)
    BY <1>s, <2>2, <2>3
  <2> QED
    BY <1>3, <2>4 DEF NewMsg, msg
<1>4. CASE T7(i)
  <2> DEFINE msg == [type |-> "HEARTBEAT", term |-> current_term[i]]
  <2>1. msg \in Message /\ Send(i, msg)
    BY <1>4 DEF T7, Message, TypeOK
  <2> HIDE DEF msg
  <2>2. m \in OnWay(k, j) \/ (k = i /\ m = msg)
    BY <1>s, <2>1
  <2> QED
    BY <1>4, <2>2 DEF NewMsg, msg
<1>5. CASE Campaign(i)
  <2> DEFINE msg == [type |-> "REQUEST_VOTE", term |-> current_term[i] + 1,
                     last |-> LastApplied[i]]
  <2>1. msg \in Message /\ Send(i, msg) /\ msg.type = "REQUEST_VOTE"
    <3>1. current_term[i] + 1 \in Nat /\ LastApplied[i] \in Entry
      <4>1. current_term[i] \in Nat
        BY DEF TypeOK
      <4>2. LastApplied[i] \in Entry
        BY ReplicationAssumption DEF Entry
      <4> QED
        BY <4>1, <4>2
    <3>2. Send(i, msg)
      BY <1>5 DEF Campaign
    <3> QED
      BY <3>1, <3>2 DEF Message
  <2> HIDE DEF msg
  <2>2. m \in OnWay(k, j) \/ (k = i /\ m = msg)
    BY <1>s, <2>1
  <2> QED
    BY <1>5, <2>1, <2>2 DEF NewMsg
<1>6. ASSUME NEW n \in Peers(i), T2Old(i, n) \/ T2Heartbeat(i, n) \/ T2Response(i, n)
      PROVE  m \in OnWay(k, j)
  <2>1. chan' = Took(i, n) /\ chan[n][i] # << >> /\ n \in Node
    BY <1>6 DEF T2Old, T2Heartbeat, T2Response, T2Take, Peers
  <2> QED
    BY <2>1, ReadOnWay
<1>7. ASSUME NEW n \in Peers(i), NEW r, chan[n][i] # << >>, r \in Message,
             chan' = [Took(i, n) EXCEPT ![i][n] = Append(@, r)]
      PROVE  m \in OnWay(k, j) \/ (k = i /\ m = r)
  <2>1. n \in Node
    BY <1>7 DEF Peers
  <2>2. Took(i, n) \in [Node -> [Node -> Seq(Message)]]
    BY <1>7, <2>1, TookType
  <2>3. \/ chan'[k][j] = Took(i, n)[k][j]
        \/ k = i /\ chan'[k][j] = Append(Took(i, n)[k][j], r)
    BY <1>7, <2>1, <2>2
  <2>4. Took(i, n)[k][j] \in Seq(Message) /\ ToSet(Took(i, n)[k][j]) \subseteq OnWay(k, j)
    BY <1>7, <2>1, ReadOnWay
  <2>5. ToSet(Append(Took(i, n)[k][j], r)) = ToSet(Took(i, n)[k][j]) \cup {r}
    BY <1>7, <2>4, Appended
  <2> QED
    BY <2>3, <2>4, <2>5
<1>8. ASSUME NEW n \in Peers(i), T2Append(i, n)
      PROVE  m \in OnWay(k, j) \/ (k = i /\ NewMsg(i, m))
  <2>0. n \in Node /\ chan[n][i] # << >>
    BY <1>8 DEF Peers, T2Append, T2Take
  <2>1. Msg(i, n) \in OnWay(n, i) /\ Msg(i, n) \in Message /\ Msg(i, n).type = "APPEND_ENTRIES"
    BY <1>8, <2>0, ReadOnWay, TookType DEF T2Append, T2Take
  <2>2. Msg(i, n).term \in Nat /\ Msg(i, n).prev \in Entry
    BY <2>1 DEF Message
  <2> DEFINE yes == Accepts(i, Msg(i, n).prev)
             tai == IF yes THEN [term |-> Msg(i, n).prev.term, idx |-> Msg(i, n).prev.idx + 1]
                           ELSE LastApplied[i]
             r == [type |-> "RESP_APPEND_ENTRIES", term |-> Msg(i, n).term, success |-> yes,
                   tai |-> tai]
  <2>3. chan' = [Took(i, n) EXCEPT ![i][n] = Append(@, r)]
    BY <1>8 DEF T2Append
  <2>4. yes \in BOOLEAN /\ tai \in Entry
    BY <2>2, ReplicationAssumption DEF Accepts, Entry
  <2> HIDE DEF yes, tai
  <2>5. r \in Message /\ r.type = "RESP_APPEND_ENTRIES" /\ r.term = Msg(i, n).term
    BY <2>2, <2>4 DEF Message
  <2> HIDE DEF r
  <2>6. m \in OnWay(k, j) \/ (k = i /\ m = r)
    BY <1>7, <2>0, <2>3, <2>5
  <2> QED
    BY <1>8, <2>1, <2>5, <2>6 DEF NewMsg
<1>9. ASSUME NEW n \in Peers(i), T2VoteRequest(i, n)
      PROVE  m \in OnWay(k, j) \/ (k = i /\ NewMsg(i, m))
  <2>0. n \in Node /\ chan[n][i] # << >>
    BY <1>9 DEF Peers, T2VoteRequest, T2Take
  <2>1. Msg(i, n) \in OnWay(n, i) /\ Msg(i, n) \in Message
    BY <2>0, ReadOnWay, TookType
  <2>2. Msg(i, n).term \in Nat
    BY <2>1 DEF Message
  <2> DEFINE r == [type |-> "RESP_REQUEST_VOTE", term |-> Msg(i, n).term,
                   granted |-> Grants(i, Msg(i, n).last)]
  <2>3. chan' = [Took(i, n) EXCEPT ![i][n] = Append(@, r)]
    BY <1>9 DEF T2VoteRequest
  <2>4. Grants(i, Msg(i, n).last) \in BOOLEAN
    BY DEF Grants
  <2>5. r \in Message /\ r.type = "RESP_REQUEST_VOTE"
    BY <2>2, <2>4 DEF Message
  <2> HIDE DEF r
  <2>6. m \in OnWay(k, j) \/ (k = i /\ m = r)
    BY <1>7, <2>0, <2>3, <2>5
  <2> QED
    BY <1>9, <2>1, <2>5, <2>6 DEF NewMsg
<1>a. \/ UNCHANGED chan \/ Abort(i) \/ T3Send(i) \/ T7(i) \/ Campaign(i)
      \/ \E n \in Peers(i) : \/ T2Old(i, n) \/ T2Heartbeat(i, n) \/ T2Response(i, n)
                             \/ T2Append(i, n) \/ T2VoteRequest(i, n)
  BY DEF NodeStep, Thread2, T1Check, T1Start, T1Recv, T1Hand, PeerGone, T2Coalesced, T2Partial,
         T2VoteResponse, T3Ack, T3Commit, T3Pass, T4, T5, T5Answer, Elect, T2Log, T2Pass
<1> QED
  BY <1>1, <1>2, <1>3, <1>4, <1>5, <1>6, <1>8, <1>9, <1>a

LEMMA WriterStep ==
    ASSUME TypeOK, OneWriter, NEW i \in Node, NodeStep(i), Elect(i) => i = Leader
    PROVE  OneWriter'
<1>1. ASSUME NEW k \in Node, k # Leader
      PROVE  /\ state'[k] # "LEADER" /\ t1'[k].pc = "check"
             /\ q13'[k] = << >> /\ t3'[k].pc = "idle"
  <2>0. state[k] # "LEADER" /\ t1[k].pc = "check" /\ q13[k] = << >> /\ t3[k].pc = "idle"
    BY <1>1 DEF OneWriter
  <2>1. CASE k # i
    BY <2>0, <2>1, Untouched
  <2>2. CASE k = i
    <3>1. CASE Abort(i)
      <4>1. state' = state /\ t1'[i] = Idle1 /\ q13'[i] = << >> /\ t3'[i] = Idle
        BY <3>1 DEF Abort, TypeOK
      <4> QED
        BY <2>0, <2>2, <4>1 DEF Idle, Idle1
    <3>2. ASSUME NEW j \in Peers(i),
                 \/ T2Old(i, j) \/ T2Heartbeat(i, j) \/ T2Append(i, j)
                 \/ T2Response(i, j) \/ T2VoteRequest(i, j)
          PROVE  UNCHANGED <<t1, q13, t3>> /\ state'[i] # "LEADER"
      BY <2>0, <2>2, <3>2 DEF T2Old, T2Heartbeat, T2Append, T2Response, T2VoteRequest,
        T2Take, threads, TypeOK
    <3>3. CASE T2Log(i) \/ T2Pass(i) \/ T4(i) \/ T5(i) \/ T5Answer(i) \/ T7(i)
      BY <2>0, <2>2, <3>3 DEF T2Log, T2Pass, T4, T5, T5Answer, T7, threads
    <3>4. CASE Campaign(i)
      BY <2>0, <2>2, <3>4 DEF Campaign, threads, TypeOK
    <3>5. ~T1Check(i) /\ ~T1Start(i) /\ ~T1Recv(i) /\ ~T1Hand(i)
      BY <2>0, <2>2 DEF T1Check, T1Start, T1Recv, T1Hand
    <3>6. ~T3Send(i) /\ ~T3Ack(i) /\ ~T3Commit(i) /\ ~T3Pass(i) /\ ~Elect(i)
      BY <1>1, <2>0, <2>2 DEF T3Send, T3Ack, T3Commit, T3Pass
    <3> QED
      BY <2>0, <2>2, <3>1, <3>2, <3>3, <3>4, <3>5, <3>6
      DEF NodeStep, Thread2, PeerGone, T2Coalesced, T2Partial, T2VoteResponse
  <2> QED
    BY <2>1, <2>2
<1>2. ASSUME NEW k \in Node, k # Leader, NEW j \in Node, NEW m \in OnWay(k, j)'
      PROVE  m.type # "APPEND_ENTRIES"
  <2>1. m \in OnWay(k, j) \/ (k = i /\ NewMsg(i, m))
    BY <1>2, ChanStep
  <2>2. \A n \in OnWay(k, j) : n.type # "APPEND_ENTRIES"
    BY <1>2 DEF OneWriter
  <2>3. k = i => ~T3Send(i)
    BY <1>2 DEF OneWriter, T3Send
  <2>4. k = i /\ NewMsg(i, m) => m.type # "APPEND_ENTRIES"
    BY <2>3 DEF NewMsg
  <2> QED
    BY <2>1, <2>2, <2>4
<1>3. t2'[Leader].pc = "idle"
  <2>0. t2[Leader].pc = "idle" /\ Leader \in Node
    BY ReplicationAssumption DEF OneWriter
  <2>1. CASE Leader # i
    BY <2>0, <2>1, Untouched
  <2>2. CASE Leader = i
    <3>1. ASSUME NEW j \in Peers(i) PROVE ~T2Append(i, j)
      <4>1. SUFFICES ASSUME T2Append(i, j) PROVE FALSE
        OBVIOUS
      <4>2. j \in Node /\ j # Leader /\ chan[j][i] # << >> /\ Msg(i, j).type = "APPEND_ENTRIES"
        BY <2>2, <4>1 DEF T2Append, T2Take, Peers
      <4>3. Msg(i, j) \in OnWay(j, i)
        BY <4>2, ReadOnWay
      <4> QED
        BY <4>2, <4>3 DEF OneWriter
    <3>2. CASE Abort(i)
      <4>1. t2'[i] = Idle
        BY <3>2 DEF Abort, TypeOK
      <4> QED
        BY <2>2, <4>1 DEF Idle
    <3>3. ~T2Log(i) /\ ~T2Pass(i)
      BY <2>0, <2>2 DEF T2Log, T2Pass
    <3>4. Abort(i) \/ UNCHANGED t2
      BY <3>1, <3>3 DEF NodeStep, Thread2, PeerGone, T2Coalesced, T2Partial, T2VoteResponse,
        T2Old, T2Heartbeat, T2Response, T2VoteRequest, T1Check, T1Start, T1Recv, T1Hand,
        T3Send, T3Ack, T3Commit, T3Pass, T4, T5, T5Answer, T7, Elect, Campaign, threads
    <3> QED
      BY <2>0, <2>2, <3>2, <3>4
  <2> QED
    BY <2>1, <2>2
<1> QED
  BY <1>1, <1>2, <1>3 DEF OneWriter

LEMMA WriterInit == Init => OneWriter
<1> SUFFICES ASSUME Init PROVE OneWriter
  OBVIOUS
<1>1. Leader \in Node /\ ToSet(<< >>) = {}
  BY ReplicationAssumption DEF ToSet
<1>2. \A i, j \in Node : OnWay(i, j) = {}
  BY <1>1 DEF Init, OnWay
<1> QED
  BY <1>1, <1>2 DEF Init, OneWriter, Idle, Idle1

-----------------------------------------------------------------------------
(* The writes of a log file.                                               *)
LEMMA WritesType == ASSUME NEW l \in Seq(Batch) PROVE Writes(l) \in Seq(Write)
<1>1. DOMAIN l = 1 .. Len(l) /\ Len(l) \in Nat /\ \A n \in 1 .. Len(l) : l[n] \in Batch
  OBVIOUS
<1>2. \A n \in 1 .. Len(l) : l[n].w \in Seq(Write)
  BY <1>1 DEF Batch
<1>3. [n \in DOMAIN l |-> l[n].w] \in Seq(Seq(Write))
  BY <1>1, <1>2
<1> QED
  BY <1>3, FlattenType DEF Writes

LEMMA WritesAppend ==
    ASSUME NEW l \in Seq(Batch), NEW b \in Batch
    PROVE  /\ Writes(Append(l, b)) = Writes(l) \o b.w
           /\ Append(l, b) \in Seq(Batch) /\ b.w \in Seq(Write)
<1>1. DOMAIN l = 1 .. Len(l) /\ Len(l) \in Nat /\ \A n \in 1 .. Len(l) : l[n] \in Batch
  OBVIOUS
<1>2. \A n \in 1 .. Len(l) : l[n].w \in Seq(Write)
  BY <1>1 DEF Batch
<1> DEFINE ws == [n \in DOMAIN l |-> l[n].w]
           m == Append(l, b)
<1>3. ws \in Seq(Seq(Write)) /\ Len(ws) = Len(l)
  BY <1>1, <1>2
<1>4. b.w \in Seq(Write)
  BY DEF Batch
<1>5. /\ m \in Seq(Batch) /\ DOMAIN m = 1 .. Len(l) + 1 /\ m[Len(l) + 1] = b
      /\ \A n \in 1 .. Len(l) : m[n] = l[n]
  BY <1>1
<1> HIDE DEF m
<1>6. [n \in DOMAIN m |-> m[n].w] = Append(ws, b.w)
  BY <1>1, <1>3, <1>5
<1> HIDE DEF ws
<1>7. FlattenSeq(Append(ws, b.w)) = FlattenSeq(ws) \o b.w
  BY <1>3, <1>4, FlattenAppend
<1> QED
  BY <1>4, <1>5, <1>6, <1>7 DEF Writes, ws, m

LEMMA WritesEmpty == Writes(<< >>) = << >>
<1>1. [n \in DOMAIN << >> |-> << >>[n].w] = << >>
  OBVIOUS
<1> QED
  BY <1>1, FlattenEmpty DEF Writes

LEMMA PrefixConcat ==
    ASSUME NEW S, NEW s, NEW r, s \in Seq(S), r \in Seq(S)
    PROVE  IsPrefix(s, s \o r)
<1> DEFINE t == s \o r
<1>1. /\ Len(s) \in Nat /\ Len(r) \in Nat /\ Len(t) = Len(s) + Len(r)
      /\ \A k \in 1 .. Len(s) : t[k] = s[k]
  OBVIOUS
<1> HIDE DEF t
<1>2. SubSeq(s, 1, Len(s)) = SubSeq(t, 1, Len(s))
  BY <1>1
<1>3. IsPrefix(s, t)
  BY <1>1, <1>2 DEF IsPrefix
<1> QED
  BY <1>3 DEF t

Regrouped(x, t, r, h) == ((<<x>> \o t) \o r) \o h = <<x>> \o ((t \o r) \o h)

LEMMA Regroup ==
    ASSUME NEW S, NEW x, NEW t, NEW r, NEW h, x \in S, t \in Seq(S), r \in Seq(S), h \in Seq(S)
    PROVE  Regrouped(x, t, r, h)
<1> USE DEF Regrouped
<1>1. (<<x>> \o t) \o r = <<x>> \o (t \o r)
  OBVIOUS
<1>2. t \o r \in Seq(S) /\ <<x>> \in Seq(S)
  OBVIOUS
<1> DEFINE a == <<x>>
           c == t \o r
<1>3. a \in Seq(S) /\ c \in Seq(S)
  BY <1>2
<1> HIDE DEF a, c
<1>4. (a \o c) \o h = a \o (c \o h)
  BY <1>3
<1> QED
  BY <1>1, <1>4 DEF a, c

Shifted(k, x, z) ==
    /\ k \o (<<x>> \o z) = Append(k, x) \o z
    /\ Len(k) < Len(k \o (<<x>> \o z))
    /\ (k \o (<<x>> \o z))[Len(k) + 1] = x

LEMMA Shift ==
    ASSUME NEW S, NEW k, NEW x, NEW z, x \in S, k \in Seq(S), z \in Seq(S)
    PROVE  Shifted(k, x, z)
<1> DEFINE y == <<x>> \o z
<1>1. y \in Seq(S) /\ Len(y) = Len(z) + 1 /\ y[1] = x /\ Len(z) \in Nat
      /\ \A n \in 1 .. Len(z) : y[n + 1] = z[n]
  OBVIOUS
<1> DEFINE l == k \o y
           m == Append(k, x) \o z
           a == Append(k, x)
<1>a. a \in Seq(S) /\ Len(a) = Len(k) + 1 /\ Len(k) \in Nat /\ a[Len(k) + 1] = x
      /\ \A n \in 1 .. Len(k) : a[n] = k[n]
  OBVIOUS
<1> HIDE DEF y, a
<1>c. y \in Seq(S)
  BY <1>1
<1>d. l \in Seq(S) /\ Len(l) = Len(k) + Len(y)
  BY <1>c, ConcatProperties
<1>e. \A n \in 1 .. Len(k) + Len(y) : l[n] = IF n <= Len(k) THEN k[n] ELSE y[n - Len(k)]
  BY <1>c, ConcatProperties
<1>b. l \in Seq(S) /\ Len(l) = Len(k) + Len(y)
      /\ \A n \in 1 .. Len(l) : l[n] = IF n <= Len(k) THEN k[n] ELSE y[n - Len(k)]
  BY <1>d, <1>e
<1>2. /\ l \in Seq(S) /\ Len(l) = Len(k) + Len(z) + 1
      /\ \A n \in 1 .. Len(l) : l[n] = IF n <= Len(k) THEN k[n] ELSE y[n - Len(k)]
  BY <1>1, <1>a, <1>b
<1>3. m \in Seq(S) /\ Len(m) = Len(k) + Len(z) + 1
  BY <1>a DEF a
<1>4. \A n \in 1 .. Len(m) : m[n] = IF n <= Len(k) + 1 THEN a[n] ELSE z[n - (Len(k) + 1)]
  BY <1>a, <1>3 DEF a
<1> HIDE DEF l, m
<1>5. ASSUME NEW n \in 1 .. Len(m) PROVE m[n] = l[n]
  <2>1. CASE n <= Len(k)
    BY <1>1, <1>a, <1>2, <1>3, <1>4, <2>1
  <2>2. CASE n = Len(k) + 1
    <3>1. n - Len(k) = 1 /\ n \in 1 .. Len(l) /\ ~(n <= Len(k)) /\ n <= Len(k) + 1
      BY <1>a, <1>1, <1>2, <2>2
    <3> QED
      BY <1>1, <1>a, <1>2, <1>4, <2>2, <3>1
  <2>3. CASE n > Len(k) + 1
    <3>1. n - Len(k) = (n - (Len(k) + 1)) + 1 /\ n - (Len(k) + 1) \in 1 .. Len(z)
      BY <1>a, <1>1, <1>3, <2>3
    <3>2. n \in 1 .. Len(l) /\ ~(n <= Len(k)) /\ ~(n <= Len(k) + 1)
      BY <1>a, <1>1, <1>2, <1>3, <2>3
    <3>3. m[n] = z[n - (Len(k) + 1)] /\ l[n] = y[n - Len(k)]
      BY <1>2, <1>4, <3>2
    <3> QED
      BY <1>1, <3>1, <3>3
  <2> QED
    BY <1>a, <1>3, <2>1, <2>2, <2>3
<1>6. l = m
  BY <1>2, <1>3, <1>5
<1>7. Len(k) < Len(l) /\ l[Len(k) + 1] = x
  BY <1>1, <1>a, <1>2, <1>5, <1>3, <1>4
<1> QED
  BY <1>6, <1>7 DEF l, m, y, a, Shifted

(* What a process has logged it has taken up, or it is in the queue of     *)
(* thread_5, or in the hands of the thread that has logged it.  A process  *)
(* that aborts loses the last two.                                         *)
Hand(i) ==
    IF t2[i].pc = "pass" THEN t2[i].b.w ELSE IF t3[i].pc = "pass" THEN t3[i].b.w ELSE << >>

Rest(i) == FlattenSeq(q35[i]) \o Hand(i)

InStep(i) ==
    \E rest \in Seq(Write) : /\ Writes(appended[i]) = taken[i] \o rest
                             /\ i \notin dead => rest = Rest(i)

LedgerInv == TypeOK /\ TakenInv /\ OneWriter /\ \A i \in Node : InStep(i)

LEMMA RestType ==
    ASSUME TypeOK, NEW i \in Node
    PROVE  /\ FlattenSeq(q35[i]) \in Seq(Write) /\ Hand(i) \in Seq(Write)
           /\ Rest(i) \in Seq(Write)
           /\ appended[i] \in Seq(Batch) /\ Writes(appended[i]) \in Seq(Write)
           /\ taken[i] \in Seq(Write) /\ q35[i] \in Seq(Seq(Write))
<1>1. q35[i] \in Seq(Seq(Write)) /\ appended[i] \in Seq(Batch) /\ taken[i] \in Seq(Write)
  BY DEF TypeOK
<1>2. FlattenSeq(q35[i]) \in Seq(Write)
  BY <1>1, FlattenType
<1>3. t2[i].pc = "pass" => t2[i].b.w \in Seq(Write)
  BY InHand DEF Batch
<1>4. t3[i].pc = "pass" => t3[i].b.w \in Seq(Write)
  BY InHand DEF Batch
<1>5. Hand(i) \in Seq(Write)
  BY <1>3, <1>4 DEF Hand
<1>6. Rest(i) \in Seq(Write)
  BY <1>2, <1>5, ConcatProperties DEF Rest
<1>7. Writes(appended[i]) \in Seq(Write)
  BY <1>1, WritesType
<1> QED
  BY <1>1, <1>2, <1>5, <1>6, <1>7

(* A process that runs has all it has logged.                              *)
LEMMA Running ==
    ASSUME TypeOK, NEW i \in Node, i \notin dead
    PROVE  InStep(i) <=> Writes(appended[i]) = taken[i] \o Rest(i)
BY RestType DEF InStep

(* Only one of the two threads that log is at work.                        *)
LEMMA OneAtWork ==
    ASSUME OneWriter, NEW i \in Node
    PROVE  t2[i].pc = "idle" \/ t3[i].pc = "idle"
BY DEF OneWriter

(* A batch is logged: it goes to the end of the log, and is in hand.       *)
LEMMA LoggedInStep ==
    ASSUME LedgerInv, NEW i \in Node, T2Log(i) \/ T3Commit(i)
    PROVE  /\ InStep(i)'
           /\ \E w \in Seq(Write) : Writes(appended[i])' = Writes(appended[i]) \o w
<1>0. TypeOK /\ TypeOK'
  <2>1. Next
    BY DEF Next, Thread2
  <2> QED
    BY <2>1, TypeNext DEF LedgerInv
<1>1. PICK b \in Batch :
        /\ appended' = [appended EXCEPT ![i] = Append(@, b)]
        /\ UNCHANGED <<taken, q35, dead>> /\ i \notin dead
        /\ Hand(i) = << >> /\ Hand(i)' = b.w
  <2>1. CASE T2Log(i)
    <3>1. t2[i] \in [pc : {"log", "pass"}, b : Batch] /\ t2[i].pc = "log"
      BY <1>0, <2>1, InHand DEF T2Log
    <3>2. t3[i].pc = "idle"
      BY <3>1, OneAtWork DEF LedgerInv
    <3>3. t2' = [t2 EXCEPT ![i].pc = "pass"] /\ UNCHANGED t3
      BY <2>1 DEF T2Log
    <3>4. t2'[i].pc = "pass" /\ t2'[i].b = t2[i].b
      BY <1>0, <3>1, <3>3 DEF TypeOK
    <3> QED
      BY <2>1, <3>1, <3>2, <3>3, <3>4 DEF T2Log, Hand
  <2>2. CASE T3Commit(i)
    <3>1. t3[i] \in [pc : {"wait", "pass"}, b : Batch] /\ t3[i].pc = "wait"
      BY <1>0, <2>2, InHand DEF T3Commit
    <3>2. t2[i].pc = "idle"
      BY <3>1, OneAtWork DEF LedgerInv
    <3>3. t3' = [t3 EXCEPT ![i].pc = "pass"] /\ UNCHANGED t2
      BY <2>2 DEF T3Commit
    <3>4. t3'[i].pc = "pass" /\ t3'[i].b = t3[i].b
      BY <1>0, <3>1, <3>3 DEF TypeOK
    <3> QED
      BY <2>2, <3>1, <3>2, <3>3, <3>4 DEF T3Commit, Hand
  <2> QED
    BY <2>1, <2>2
<1>2. appended'[i] = Append(appended[i], b)
  BY <1>0, <1>1 DEF TypeOK
<1>3. Writes(appended'[i]) = Writes(appended[i]) \o b.w /\ b.w \in Seq(Write)
  BY <1>0, <1>2, RestType, WritesAppend
<1> DEFINE f == FlattenSeq(q35[i])
           w == b.w
           k == taken[i]
<1>4. f \in Seq(Write) /\ k \in Seq(Write) /\ w \in Seq(Write)
  BY <1>0, <1>3, RestType
<1>5. Rest(i) = f \o << >> /\ Rest(i)' = f \o w
  BY <1>1 DEF Rest
<1>6. Writes(appended[i]) = k \o Rest(i)
  BY <1>0, <1>1, Running DEF LedgerInv
<1>7. Writes(appended'[i]) = (k \o Rest(i)) \o w
  BY <1>3, <1>6
<1> HIDE DEF f, w, k
<1>8. f \o << >> = f
  BY <1>4, ConcatEmptySeq
<1>9. k \o (f \o w) = (k \o f) \o w
  <2>1. Joined(k, f, w)
    BY <1>4, Associative
  <2> QED
    BY <2>1 DEF Joined
<1>a. Writes(appended'[i]) = k \o Rest(i)'
  BY <1>5, <1>7, <1>8, <1>9
<1>b. Rest(i)' \in Seq(Write) /\ taken'[i] = k
  <2>1. f \o w \in Seq(Write)
    BY <1>4, ConcatProperties
  <2> QED
    BY <1>1, <1>5, <2>1 DEF k
<1> QED
  BY <1>3, <1>a, <1>b DEF InStep

(* A logged batch is passed on: from the hand to the queue.                *)
LEMMA PassedInStep ==
    ASSUME LedgerInv, NEW i \in Node, T2Pass(i) \/ T3Pass(i)
    PROVE  InStep(i)'
<1>0. TypeOK /\ TypeOK'
  <2>1. Next
    BY DEF Next, Thread2
  <2> QED
    BY <2>1, TypeNext DEF LedgerInv
<1>1. PICK w \in Seq(Write) :
        /\ q35' = [q35 EXCEPT ![i] = Append(@, w)]
        /\ UNCHANGED <<taken, appended, dead>> /\ i \notin dead
        /\ Hand(i) = w /\ Hand(i)' = << >>
  <2>1. CASE T2Pass(i)
    <3>1. t2[i] \in [pc : {"log", "pass"}, b : Batch] /\ t2[i].pc = "pass"
      BY <1>0, <2>1, InHand DEF T2Pass
    <3>2. t3[i].pc = "idle"
      BY <3>1, OneAtWork DEF LedgerInv
    <3>3. t2'[i] = Idle /\ UNCHANGED t3
      BY <1>0, <2>1 DEF T2Pass, TypeOK
    <3>4. t2[i].b.w \in Seq(Write)
      BY <3>1 DEF Batch
    <3>5. Hand(i) = t2[i].b.w
      BY <3>1, <3>2 DEF Hand
    <3>6. Hand(i)' = << >>
      BY <3>2, <3>3 DEF Hand, Idle
    <3>7. /\ q35' = [q35 EXCEPT ![i] = Append(@, t2[i].b.w)]
          /\ UNCHANGED <<taken, appended, dead>> /\ i \notin dead
      BY <2>1 DEF T2Pass
    <3> QED
      BY <3>4, <3>5, <3>6, <3>7
  <2>2. CASE T3Pass(i)
    <3>1. t3[i] \in [pc : {"wait", "pass"}, b : Batch] /\ t3[i].pc = "pass"
      BY <1>0, <2>2, InHand DEF T3Pass
    <3>2. t2[i].pc = "idle"
      BY <3>1, OneAtWork DEF LedgerInv
    <3>3. t3'[i] = Idle /\ UNCHANGED t2
      BY <1>0, <2>2 DEF T3Pass, TypeOK
    <3>4. t3[i].b.w \in Seq(Write)
      BY <3>1 DEF Batch
    <3>5. Hand(i) = t3[i].b.w
      BY <3>1, <3>2 DEF Hand
    <3>6. Hand(i)' = << >>
      BY <3>2, <3>3 DEF Hand, Idle
    <3>7. /\ q35' = [q35 EXCEPT ![i] = Append(@, t3[i].b.w)]
          /\ UNCHANGED <<taken, appended, dead>> /\ i \notin dead
      BY <2>2 DEF T3Pass
    <3> QED
      BY <3>4, <3>5, <3>6, <3>7
  <2> QED
    BY <2>1, <2>2
<1>2. q35'[i] = Append(q35[i], w) /\ q35[i] \in Seq(Seq(Write))
  BY <1>0, <1>1 DEF TypeOK
<1>3. FlattenSeq(q35'[i]) = FlattenSeq(q35[i]) \o w
  BY <1>2, FlattenAppend
<1>4. Rest(i)' = Rest(i) \o << >> /\ Rest(i) \in Seq(Write)
  BY <1>0, <1>1, <1>3, RestType DEF Rest
<1>5. Rest(i)' = Rest(i)
  BY <1>4, ConcatEmptySeq
<1> QED
  BY <1>0, <1>1, <1>4, <1>5, Running DEF LedgerInv, InStep

(* thread_5 takes up the first write of the queue, which is the next one   *)
(* of the log, or drops an empty buffer.                                   *)
LEMMA AppliedInStep ==
    ASSUME LedgerInv, NEW i \in Node, T5(i)
    PROVE  /\ InStep(i)'
           /\ UNCHANGED <<appended, acked>>
           /\ \/ UNCHANGED <<taken, stored>>
              \/ \E w \in Write :
                   /\ Len(taken[i]) < Len(Writes(appended[i]))
                   /\ w = Writes(appended[i])[Len(taken[i]) + 1]
                   /\ taken' = [taken EXCEPT ![i] = Append(@, w)]
                   /\ stored' \in {stored, [stored EXCEPT ![i] = @ \cup {w}]}
<1>0. TypeOK /\ TypeOK'
  <2>1. Next
    BY DEF Next
  <2> QED
    BY <2>1, TypeNext DEF LedgerInv
<1>1. UNCHANGED <<appended, t2, t3, dead>> /\ i \notin dead
  BY DEF T5
<1>2. q35[i] \in Seq(Seq(Write)) /\ q35[i] # << >> /\ Head(q35[i]) = q35[i][1]
      /\ Head(q35[i]) \in Seq(Write) /\ Tail(q35[i]) \in Seq(Seq(Write))
  <2>1. q35[i] \in Seq(Seq(Write)) /\ q35[i] # << >>
    BY <1>0, T5Cases
  <2>2. Head(q35[i]) = q35[i][1]
    BY <2>1
  <2> QED
    BY <2>1, <2>2, HeadTail
<1>3. q35 \in [Node -> Seq(Seq(Write))] /\ taken \in [Node -> Seq(Write)]
  BY <1>0 DEF TypeOK
<1> DEFINE b == Head(q35[i])
           r == FlattenSeq(Tail(q35[i]))
           k == taken[i]
           h == Hand(i)
<1>4. FlattenSeq(q35[i]) = b \o r
  BY <1>2, FlattenTail
<1>5. b \in Seq(Write) /\ r \in Seq(Write) /\ k \in Seq(Write) /\ h \in Seq(Write)
  BY <1>0, <1>2, FlattenType, RestType
<1>6. Writes(appended[i]) = k \o ((b \o r) \o h)
  BY <1>0, <1>1, <1>4, Running DEF LedgerInv, Rest
<1>7. Hand(i)' = h
  BY <1>1 DEF Hand
<1>9. CASE q35' = [q35 EXCEPT ![i] = Tail(q35[i])] /\ b = << >>
           /\ UNCHANGED <<taken, stored, acked>>
  <2>1. Rest(i)' = r \o h
    BY <1>3, <1>7, <1>9 DEF Rest
  <2>2. b \o r = r
    BY <1>5, <1>9, ConcatEmptySeq
  <2>3. Writes(appended[i]) = taken'[i] \o Rest(i)'
    BY <1>6, <1>9, <2>1, <2>2
  <2>4. Rest(i)' \in Seq(Write)
    BY <1>5, <2>1, ConcatProperties
  <2> QED
    BY <1>1, <1>9, <2>3, <2>4 DEF InStep
<1>a. CASE TakesUp(i)
  <2> DEFINE x == NextWrite(i)
             t == Tail(b)
             q == WithoutFirst(q35[i])
             e == r \o h
  <2>1. x \in Write /\ t \in Seq(Write) /\ b = <<x>> \o t
    BY <1>2, <1>5, <1>a, HeadTail DEF TakesUp, NextWrite
  <2>2. q35[i] \in Seq(Seq(Write)) /\ q35[i] # << >> /\ q35[i][1] # << >>
    BY <1>2, <1>a DEF TakesUp
  <2>3. FlattenSeq(q) = t \o r
    BY <1>2, <2>2, FirstGone
  <2>4. Rest(i)' = (t \o r) \o h /\ taken'[i] = Append(k, x)
    BY <1>3, <1>7, <1>a, <2>3 DEF Rest, TakesUp
  <2> HIDE DEF q
  <2> HIDE DEF x, t, b, r, k, h
  <2>5. (b \o r) \o h = <<x>> \o ((t \o r) \o h)
    <3>1. Regrouped(x, t, r, h)
      BY <1>5, <2>1, Regroup
    <3> QED
      BY <2>1, <3>1 DEF Regrouped
  <2>6. e \in Seq(Write) /\ (t \o r) \o h \in Seq(Write)
    BY <1>5, <2>1
  <2> DEFINE z == (t \o r) \o h
  <2>z. z \in Seq(Write)
    BY <2>6
  <2>7. Writes(appended[i]) = k \o (<<x>> \o z)
    BY <1>6, <2>5
  <2>8. Rest(i)' = z
    BY <2>4
  <2> HIDE DEF z
  <2>9. /\ k \o (<<x>> \o z) = Append(k, x) \o z
        /\ Len(k) < Len(k \o (<<x>> \o z))
        /\ (k \o (<<x>> \o z))[Len(k) + 1] = x
    <3>1. Shifted(k, x, z)
      BY <1>5, <2>1, <2>z, Shift
    <3> QED
      BY <3>1 DEF Shifted
  <2>a. Writes(appended[i]) = taken'[i] \o Rest(i)'
    BY <2>4, <2>7, <2>8, <2>9
  <2>b. InStep(i)'
    BY <1>1, <2>8, <2>a, <2>z DEF InStep
  <2> QED
    BY <1>1, <1>a, <2>1, <2>7, <2>9, <2>b DEF k, x, TakesUp
<1> QED
  <2>1. CASE /\ q35[i][1] = << >>
             /\ q35' = [q35 EXCEPT ![i] = Tail(q35[i])]
             /\ UNCHANGED <<t5, taken, stored, acked>>
    BY <1>2, <1>9, <2>1
  <2> QED
    BY <1>0, <1>a, <2>1, T5Cases

(* A process that aborts keeps what it has logged and taken up, and any    *)
(* other step leaves the writes of its node where they are.                *)
LEMMA AbortInStep == ASSUME LedgerInv, NEW i \in Node, Abort(i) PROVE InStep(i)'
<1>1. PICK rest \in Seq(Write) : Writes(appended[i]) = taken[i] \o rest
  BY DEF LedgerInv, InStep
<1>2. UNCHANGED <<appended, taken>> /\ i \in dead'
  BY DEF Abort
<1>3. Writes(appended[i])' = taken'[i] \o rest
  BY <1>1, <1>2
<1> QED
  BY <1>2, <1>3 DEF InStep

LEMMA OtherInStep ==
    ASSUME LedgerInv, NEW i \in Node, NodeStep(i),
           ~ (T2Log(i) \/ T3Commit(i) \/ T2Pass(i) \/ T3Pass(i) \/ T5(i) \/ T5Answer(i))
    PROVE  InStep(i)' /\ UNCHANGED <<appended, taken, stored, acked>>
<1>0. TypeOK /\ OneWriter /\ InStep(i)
  BY DEF LedgerInv
<1>1. CASE Abort(i)
  BY <1>1, AbortInStep DEF Abort
<1>2. CASE UNCHANGED <<appended, taken, stored, acked, q35, dead>> /\ Hand(i)' = Hand(i)
  <2>1. Rest(i)' = Rest(i)
    BY <1>2 DEF Rest
  <2>2. PICK rest \in Seq(Write) : /\ Writes(appended[i]) = taken[i] \o rest
                                   /\ i \notin dead => rest = Rest(i)
    BY <1>0 DEF InStep
  <2>3. Writes(appended[i])' = taken'[i] \o rest /\ (i \notin dead' => rest = Rest(i)')
    BY <1>2, <2>1, <2>2
  <2> QED
    BY <1>2, <2>3 DEF InStep
<1>3. CASE T3Send(i)
  <2>1. UNCHANGED <<appended, taken, stored, acked, q35, dead, t2>> /\ t3[i].pc = "idle"
    BY <1>3 DEF T3Send, history
  <2>2. t3'[i].pc = "wait"
    BY <1>0, <1>3 DEF T3Send, TypeOK
  <2> QED
    BY <1>2, <2>1, <2>2 DEF Hand
<1>4. ASSUME NEW j \in Peers(i), T2Append(i, j)
      PROVE  UNCHANGED <<appended, taken, stored, acked, q35, dead>> /\ Hand(i)' = Hand(i)
  <2>1. UNCHANGED <<appended, taken, stored, acked, q35, dead, t3>> /\ t2[i].pc = "idle"
    BY <1>4 DEF T2Append, T2Take
  <2>2. t2'[i].pc \in {"idle", "log"}
    <3>1. t2' \in {t2, [t2 EXCEPT ![i] = [pc |-> "log", b |-> Msg(i, j).batch]]}
      BY <1>4 DEF T2Append
    <3> QED
      BY <1>0, <2>1, <3>1 DEF TypeOK
  <2> QED
    BY <2>1, <2>2 DEF Hand
<1>5. CASE UNCHANGED <<appended, taken, stored, acked, q35, dead, t2, t3>>
  BY <1>2, <1>5 DEF Hand
<1>6. Abort(i) \/ UNCHANGED <<appended, taken, stored, acked, q35, dead, t2, t3>>
      \/ T3Send(i) \/ \E j \in Peers(i) : T2Append(i, j)
  BY DEF NodeStep, Thread2, T1Check, T1Start, T1Recv, T1Hand, PeerGone, T3Ack, T4, T7, Elect,
         Campaign, T2Coalesced, T2Partial, T2Old, T2Heartbeat, T2Response, T2VoteRequest,
         T2VoteResponse, threads
<1> QED
  BY <1>1, <1>2, <1>3, <1>4, <1>5, <1>6

(* A client is answered: the write taken up last is acknowledged, or not.  *)
LEMMA AnsweredInStep ==
    ASSUME LedgerInv, NEW i \in Node, T5Answer(i)
    PROVE  InStep(i)' /\ (Ledger!Acknowledge(i) \/ UNCHANGED Ledger!vars)
<1>1. UNCHANGED <<appended, taken, stored, q35, t2, t3, dead>>
  BY DEF T5Answer, threads
<1>2. InStep(i)'
  <2>1. PICK rest \in Seq(Write) : /\ Writes(appended[i]) = taken[i] \o rest
                                   /\ i \notin dead => rest = Rest(i)
    BY DEF LedgerInv, InStep
  <2>2. Rest(i)' = Rest(i)
    BY <1>1 DEF Rest, Hand
  <2>3. Writes(appended[i])' = taken'[i] \o rest /\ (i \notin dead' => rest = Rest(i)')
    BY <1>1, <2>1, <2>2
  <2> QED
    BY <2>3 DEF InStep
<1>3. taken[i] # << >> /\ Last(taken[i]) = t5[i]
  BY DEF LedgerInv, TakenInv, LastTaken, T5Answer
<1>4. Ledger!Last(taken[i]) = t5[i]
  BY <1>3 DEF Last, Ledger!Last
<1>5. acked \in [Node -> SUBSET Write]
  BY DEF LedgerInv, TypeOK
<1>6. acked' = [acked EXCEPT ![i] = @ \cup {t5[i]}] \/ acked' = acked
  BY <1>5 DEF T5Answer
<1> QED
  BY <1>1, <1>2, <1>3, <1>4, <1>6 DEF Ledger!Acknowledge, Ledger!vars

(* Every step keeps the log ahead of the store, and is a step of the       *)
(* ledger or none.                                                         *)
LEMMA RecordStep ==
    ASSUME LedgerInv, NEW i \in Node, T2Log(i) \/ T3Commit(i)
    PROVE  Ledger!Record(i)
<1>0. TypeOK
  BY DEF LedgerInv
<1>1. PICK w \in Seq(Write) : Writes(appended'[i]) = Writes(appended[i]) \o w
  BY LoggedInStep
<1>2. Writes(appended[i]) \in Seq(Write)
  BY <1>0, RestType
<1>3. IsPrefix(Writes(appended[i]), Writes(appended'[i]))
  BY <1>1, <1>2, PrefixConcat
<1>4. UNCHANGED <<taken, stored, acked>> /\ \A k \in Node : k # i => appended'[k] = appended[k]
  BY <1>0 DEF T2Log, T3Commit, TypeOK
<1> DEFINE l == [k \in Node |-> Writes(appended[k])]
           m == [k \in Node |-> Writes(appended'[k])]
<1>5. \A k \in Node : k # i => Writes(appended'[k]) = Writes(appended[k])
  BY <1>4
<1>6. m = [l EXCEPT ![i] = m[i]]
  BY <1>5
<1>7. IsPrefix(l[i], m[i])
  BY <1>3
<1> HIDE DEF l, m
<1>8. Ledger!IsPrefix(l[i], m[i])
  BY <1>7 DEF IsPrefix, Ledger!IsPrefix
<1> USE DEF l, m
<1> QED
  BY <1>4, <1>6, <1>8 DEF Ledger!Record

LEMMA ApplyKept ==
    ASSUME LedgerInv, NEW i \in Node, T5(i)
    PROVE  Ledger!TakeUp(i) \/ UNCHANGED Ledger!vars
<1>1. CASE UNCHANGED <<appended, taken, stored, acked>>
  BY <1>1 DEF Ledger!vars
<1>2. CASE /\ UNCHANGED <<appended, acked>>
           /\ \E w \in Write :
                   /\ Len(taken[i]) < Len(Writes(appended[i]))
                   /\ w = Writes(appended[i])[Len(taken[i]) + 1]
                   /\ taken' = [taken EXCEPT ![i] = Append(@, w)]
                   /\ stored' \in {stored, [stored EXCEPT ![i] = @ \cup {w}]}
  BY <1>2 DEF Ledger!TakeUp
<1> QED
  BY <1>1, <1>2, AppliedInStep

LEMMA LedgerStep ==
    ASSUME LedgerInv, NEW i \in Node, NodeStep(i), Elect(i) => i = Leader
    PROVE  LedgerInv' /\ (Ledger!Next \/ UNCHANGED Ledger!vars)
<1>1. Next
  BY DEF Next, NodeStep
<1>2. TypeOK /\ TypeOK' /\ TakenInv' /\ OneWriter'
  BY <1>1, TypeNext, TakenNext, WriterStep DEF LedgerInv
<1>3. ASSUME NEW k \in Node, k # i PROVE InStep(k)'
  <2>1. /\ appended'[k] = appended[k] /\ taken'[k] = taken[k] /\ q35'[k] = q35[k]
        /\ t2'[k] = t2[k] /\ t3'[k] = t3[k] /\ (k \in dead' <=> k \in dead)
    BY <1>2, <1>3, Untouched
  <2>2. Rest(k)' = Rest(k) /\ Writes(appended[k])' = Writes(appended[k])
    BY <2>1 DEF Rest, Hand
  <2>3. PICK rest \in Seq(Write) : /\ Writes(appended[k]) = taken[k] \o rest
                                   /\ k \notin dead => rest = Rest(k)
    BY DEF LedgerInv, InStep
  <2>4. Writes(appended[k])' = taken'[k] \o rest /\ (k \notin dead' => rest = Rest(k)')
    BY <2>1, <2>2, <2>3
  <2> QED
    BY <2>4 DEF InStep
<1>4. /\ InStep(i)'
      /\ \/ Ledger!Record(i) \/ Ledger!TakeUp(i) \/ Ledger!Acknowledge(i)
         \/ UNCHANGED Ledger!vars
  <2>1. CASE T2Log(i) \/ T3Commit(i)
    BY <2>1, LoggedInStep, RecordStep
  <2>2. CASE T2Pass(i) \/ T3Pass(i)
    BY <2>2, PassedInStep DEF T2Pass, T3Pass, Ledger!vars
  <2>3. CASE T5(i)
    BY <2>3, AppliedInStep, ApplyKept
  <2>4. CASE T5Answer(i)
    BY <2>4, AnsweredInStep
  <2>5. CASE ~ (T2Log(i) \/ T3Commit(i) \/ T2Pass(i) \/ T3Pass(i) \/ T5(i) \/ T5Answer(i))
    BY <2>5, OtherInStep DEF Ledger!vars
  <2> QED
    BY <2>1, <2>2, <2>3, <2>4, <2>5
<1> QED
  BY <1>2, <1>3, <1>4 DEF LedgerInv, Ledger!Next

LEMMA LedgerInit == Init => LedgerInv /\ Ledger!Init
<1> SUFFICES ASSUME Init PROVE LedgerInv /\ Ledger!Init
  OBVIOUS
<1>1. /\ \A i \in Node : appended[i] = << >> /\ taken[i] = << >> /\ q35[i] = << >>
                         /\ t2[i] = Idle /\ t3[i] = Idle
      /\ taken = [i \in Node |-> << >>] /\ stored = [i \in Node |-> {}]
      /\ acked = [i \in Node |-> {}]
  BY DEF Init
<1>2. \A i \in Node : Writes(appended[i]) = << >>
  BY <1>1, WritesEmpty
<1>3. << >> \in Seq(Write) /\ << >> \o << >> = << >>
  OBVIOUS
<1>4. ASSUME NEW i \in Node PROVE InStep(i)
  <2>1. Hand(i) = << >>
    BY <1>1 DEF Hand, Idle
  <2>2. Rest(i) = << >>
    BY <1>1, <1>3, <2>1, FlattenEmpty DEF Rest
  <2>3. Writes(appended[i]) = taken[i] \o << >>
    BY <1>1, <1>2, <1>3
  <2> QED
    BY <1>3, <2>2, <2>3 DEF InStep
<1>5. Ledger!Init
  BY <1>1, <1>2 DEF Ledger!Init
<1> QED
  BY <1>4, <1>5, TypeInit, TakenInit, WriterInit DEF LedgerInv

(* Every node keeps a ledger, as long as no other node than the first      *)
(* leader is made leader: it takes up what it has logged, in the order of  *)
(* the log and each write once, never ahead of the log, tries each once on *)
(* its store, which may refuse it, and acknowledges a write, if at all,    *)
(* after that and before it takes up the next.  Elections, old terms,      *)
(* aborts and mangled reads are not excluded.                              *)
THEOREM NodesKeepLedgers == Spec /\ [][OneLeader]_vars => ImplementsLedger
<1>1. Init => LedgerInv /\ Ledger!Init
  BY LedgerInit
<1>2. LedgerInv /\ [Next]_vars /\ [OneLeader]_vars => LedgerInv' /\ [Ledger!Next]_(Ledger!vars)
  <2> SUFFICES ASSUME LedgerInv, [Next]_vars, [OneLeader]_vars
               PROVE  LedgerInv' /\ [Ledger!Next]_(Ledger!vars)
    OBVIOUS
  <2>1. CASE UNCHANGED vars
    <3>1. TypeOK' /\ TakenInv'
      BY TypeNext, TakenNext DEF LedgerInv
    <3>2. UNCHANGED <<state, t1, q13, q35, t2, t3, chan, appended, taken, stored, acked, dead>>
      BY <2>1 DEF vars, threads
    <3>3. OneWriter'
      BY <3>2 DEF LedgerInv, OneWriter, OnWay
    <3>4. \A i \in Node : InStep(i)'
      BY <3>2 DEF LedgerInv, InStep, Rest, Hand
    <3> QED
      BY <3>1, <3>2, <3>3, <3>4 DEF LedgerInv, Ledger!vars
  <2>2. CASE vars' # vars
    <3>1. Next /\ OneLeader
      BY <2>2
    <3>2. PICK i \in Node : NodeStep(i)
      BY <3>1 DEF Next, NodeStep
    <3>3. Elect(i) => i = Leader
      BY <3>1 DEF OneLeader
    <3> QED
      BY <3>2, <3>3, LedgerStep
  <2> QED
    BY <2>1, <2>2
<1> QED
  BY <1>1, <1>2, PTL DEF Spec, ImplementsLedger, Ledger!Spec

-----------------------------------------------------------------------------
(* One sequence for the whole cluster: as long as nobody becomes leader or *)
(* candidate, the batches that the leader has sent.  Its log is that       *)
(* sequence, but for the batch that waits for its majority; the log of a   *)
(* follower is that sequence, but for the batch thread_2 is logging        *)
(* and those on the socket.  A node of a newer term, or whose last entry   *)
(* is not the leader's, takes no batch and has an empty log.               *)
NoElection == \A i \in Node : ~Elect(i) /\ ~Campaign(i)

Own(m) == IF m.type = "APPEND_ENTRIES" THEN <<m.batch>> ELSE << >>

Batches(c) == FlattenSeq([n \in DOMAIN c |-> Own(c[n])])

Follows(j) == InitTerm[j] <= InitTerm[Leader] /\ Accepts(j, LastApplied[Leader])

Sending == IF t3[Leader].pc = "wait" THEN <<t3[Leader].b>> ELSE << >>

Logging(j) == IF t2[j].pc = "log" THEN <<t2[j].b>> ELSE << >>

Backlog(j) == Logging(j) \o Batches(chan[Leader][j])

InTerm(m) ==
    /\ m.type # "REQUEST_VOTE" /\ m.term = InitTerm[Leader]
    /\ m.type = "APPEND_ENTRIES" => m.prev = LastApplied[Leader]

OneTerm ==
    /\ current_term[Leader] = InitTerm[Leader]
    /\ \A j \in Node : current_term[j] <= InitTerm[Leader] <=> InitTerm[j] <= InitTerm[Leader]
    /\ t1[Leader].pc = "fill" => t1[Leader].term = InitTerm[Leader]
    /\ \A b \in ToSet(q13[Leader]) : b.term = InitTerm[Leader]
    /\ \A i, j \in Node : \A m \in OnWay(i, j) : InTerm(m)

LeaderSent(s) ==
    /\ IsPrefix(appended[Leader], s)
    /\ Leader \notin dead => appended[Leader] \o Sending = s

FollowerSent(j, s) ==
    /\ IsPrefix(appended[j], s)
    /\ Follows(j) /\ j \notin dead => appended[j] \o Backlog(j) = s
    /\ ~Follows(j) => appended[j] = << >> /\ t2[j].pc = "idle"

AllSent(s) == LeaderSent(s) /\ \A j \in Node \ {Leader} : FollowerSent(j, s)

TermInv == TypeOK /\ OneWriter /\ OneTerm

AgreeInv == TermInv /\ \E s \in Seq(Batch) : AllSent(s)

(* Prefixes.                                                               *)
LEMMA PrefixIs ==
    ASSUME NEW S, NEW s, NEW t, s \in Seq(S), t \in Seq(S)
    PROVE  IsPrefix(s, t) <=> Len(s) <= Len(t) /\ \A n \in 1 .. Len(s) : s[n] = t[n]
<1> DEFINE a == SubSeq(s, 1, Len(s))
           b == SubSeq(t, 1, Len(s))
<1>1. Len(s) \in Nat /\ Len(t) \in Nat
  OBVIOUS
<1>2. Len(a) = Len(s) /\ \A n \in 1 .. Len(s) : a[n] = s[n]
  OBVIOUS
<1>3. ASSUME Len(s) <= Len(t)
      PROVE  Len(b) = Len(s) /\ \A n \in 1 .. Len(s) : b[n] = t[n]
  BY <1>1, <1>3
<1>4. a \in Seq(S) /\ (Len(s) <= Len(t) => b \in Seq(S))
  BY <1>1
<1> HIDE DEF a, b
<1>5. ASSUME Len(s) <= Len(t) PROVE a = b <=> \A n \in 1 .. Len(s) : s[n] = t[n]
  BY <1>1, <1>2, <1>3, <1>4, <1>5
<1> QED
  BY <1>1, <1>5 DEF IsPrefix, a, b

LEMMA PrefixLonger ==
    ASSUME NEW S, NEW s, NEW t, NEW r, s \in Seq(S), t \in Seq(S), r \in Seq(S), IsPrefix(s, t)
    PROVE  IsPrefix(s, t \o r)
<1> DEFINE l == t \o r
<1>1. l \in Seq(S) /\ Len(l) = Len(t) + Len(r) /\ Len(t) \in Nat /\ Len(r) \in Nat
      /\ Len(s) \in Nat /\ \A n \in 1 .. Len(t) : l[n] = t[n]
  OBVIOUS
<1> HIDE DEF l
<1>2. Len(s) <= Len(t) /\ \A n \in 1 .. Len(s) : s[n] = t[n]
  BY PrefixIs
<1>3. Len(s) <= Len(l) /\ \A n \in 1 .. Len(s) : s[n] = l[n]
  BY <1>1, <1>2
<1>4. IsPrefix(s, l)
  BY <1>1, <1>3, PrefixIs
<1> QED
  BY <1>4 DEF l

LEMMA Comparable ==
    ASSUME NEW S, NEW s, NEW t, NEW u, s \in Seq(S), t \in Seq(S), u \in Seq(S),
           IsPrefix(s, u), IsPrefix(t, u)
    PROVE  IsPrefix(s, t) \/ IsPrefix(t, s)
<1>1. Len(s) \in Nat /\ Len(t) \in Nat
  OBVIOUS
<1>2. /\ Len(s) <= Len(u) /\ \A n \in 1 .. Len(s) : s[n] = u[n]
      /\ Len(t) <= Len(u) /\ \A n \in 1 .. Len(t) : t[n] = u[n]
  BY PrefixIs
<1>3. CASE Len(s) <= Len(t)
  <2>1. \A n \in 1 .. Len(s) : s[n] = t[n]
    BY <1>1, <1>2, <1>3
  <2> QED
    BY <1>3, <2>1, PrefixIs
<1>4. CASE Len(t) <= Len(s)
  <2>1. \A n \in 1 .. Len(t) : t[n] = s[n]
    BY <1>1, <1>2, <1>4
  <2> QED
    BY <1>4, <2>1, PrefixIs
<1> QED
  BY <1>1, <1>3, <1>4

LEMMA PrefixOfItself == ASSUME NEW S, NEW s, s \in Seq(S) PROVE IsPrefix(s, s)
BY DEF IsPrefix

(* The batches on a socket.                                                *)
LEMMA OwnType == ASSUME NEW m \in Message PROVE Own(m) \in Seq(Batch)
<1>1. m.type = "APPEND_ENTRIES" => m.batch \in Batch
  BY DEF Message
<1> QED
  BY <1>1 DEF Own

LEMMA BatchesType == ASSUME NEW c \in Seq(Message) PROVE Batches(c) \in Seq(Batch)
<1>1. DOMAIN c = 1 .. Len(c) /\ Len(c) \in Nat /\ \A n \in 1 .. Len(c) : c[n] \in Message
  OBVIOUS
<1>2. \A n \in 1 .. Len(c) : Own(c[n]) \in Seq(Batch)
  BY <1>1, OwnType
<1>3. [n \in DOMAIN c |-> Own(c[n])] \in Seq(Seq(Batch))
  BY <1>1, <1>2
<1> QED
  BY <1>3, FlattenType DEF Batches

LEMMA BatchesAppend ==
    ASSUME NEW c \in Seq(Message), NEW m \in Message
    PROVE  Batches(Append(c, m)) = Batches(c) \o Own(m)
<1>1. DOMAIN c = 1 .. Len(c) /\ Len(c) \in Nat /\ \A n \in 1 .. Len(c) : c[n] \in Message
  OBVIOUS
<1>2. Own(m) \in Seq(Batch) /\ \A n \in 1 .. Len(c) : Own(c[n]) \in Seq(Batch)
  BY <1>1, OwnType
<1> DEFINE ws == [n \in DOMAIN c |-> Own(c[n])]
           d == Append(c, m)
<1>3. ws \in Seq(Seq(Batch)) /\ Len(ws) = Len(c)
  BY <1>1, <1>2
<1>4. /\ DOMAIN d = 1 .. Len(c) + 1 /\ d[Len(c) + 1] = m
      /\ \A n \in 1 .. Len(c) : d[n] = c[n]
  BY <1>1
<1> HIDE DEF d
<1>5. [n \in DOMAIN d |-> Own(d[n])] = Append(ws, Own(m))
  BY <1>1, <1>3, <1>4
<1> HIDE DEF ws
<1>6. FlattenSeq(Append(ws, Own(m))) = FlattenSeq(ws) \o Own(m)
  BY <1>2, <1>3, FlattenAppend
<1> QED
  BY <1>5, <1>6 DEF Batches, ws, d

LEMMA BatchesTail ==
    ASSUME NEW c \in Seq(Message), c # << >>
    PROVE  Batches(c) = Own(Head(c)) \o Batches(Tail(c))
<1>1. DOMAIN c = 1 .. Len(c) /\ Len(c) \in Nat /\ \A n \in 1 .. Len(c) : c[n] \in Message
  OBVIOUS
<1>2. \A n \in 1 .. Len(c) : Own(c[n]) \in Seq(Batch)
  BY <1>1, OwnType
<1> DEFINE ws == [n \in DOMAIN c |-> Own(c[n])]
           d == Tail(c)
<1>3. ws \in Seq(Seq(Batch)) /\ Len(ws) = Len(c) /\ Len(c) # 0 /\ Head(c) = c[1]
  BY <1>1, <1>2
<1>4. Len(d) = Len(c) - 1 /\ DOMAIN d = 1 .. Len(c) - 1 /\ \A n \in 1 .. Len(c) - 1 : d[n] = c[n + 1]
  OBVIOUS
<1> HIDE DEF d
<1>5. Head(ws) = Own(Head(c)) /\ ws # << >>
  BY <1>1, <1>3
<1>6. [n \in DOMAIN d |-> Own(d[n])] = Tail(ws)
  BY <1>1, <1>3, <1>4
<1> HIDE DEF ws
<1>7. FlattenSeq(ws) = Head(ws) \o FlattenSeq(Tail(ws))
  BY <1>3, <1>5, FlattenTail
<1> QED
  BY <1>5, <1>6, <1>7 DEF Batches, ws, d

LEMMA BacklogType ==
    ASSUME TypeOK, NEW j \in Node
    PROVE  /\ Logging(j) \in Seq(Batch) /\ Batches(chan[Leader][j]) \in Seq(Batch)
           /\ Backlog(j) \in Seq(Batch) /\ appended[j] \in Seq(Batch) /\ Sending \in Seq(Batch)
           /\ chan[Leader][j] \in Seq(Message)
<1>1. chan[Leader][j] \in Seq(Message) /\ appended[j] \in Seq(Batch)
  BY ReplicationAssumption DEF TypeOK
<1>2. Logging(j) \in Seq(Batch)
  BY InHand DEF Logging
<1>3. Sending \in Seq(Batch)
  BY InHand, ReplicationAssumption DEF Sending
<1>4. Batches(chan[Leader][j]) \in Seq(Batch)
  BY <1>1, BatchesType
<1>5. Backlog(j) \in Seq(Batch)
  BY <1>2, <1>4, ConcatProperties DEF Backlog
<1> QED
  BY <1>1, <1>2, <1>3, <1>4, <1>5

-----------------------------------------------------------------------------
(* Without elections no term changes but those of followers that catch up  *)
(* with the leader's.                                                      *)
LEMMA TermKept ==
    ASSUME TermInv, NEW i \in Node, NodeStep(i), ~Elect(i), ~Campaign(i)
    PROVE  /\ i # Leader => current_term'[Leader] = current_term[Leader]
           /\ \A k \in Node : \/ current_term'[k] = current_term[k]
                              \/ /\ current_term[k] <= InitTerm[Leader]
                                 /\ current_term'[k] = InitTerm[Leader]
<1>0. TypeOK /\ Leader \in Node /\ InitTerm[Leader] \in Nat
  BY ReplicationAssumption DEF TermInv
<1>1. ASSUME NEW k \in Node, k # i PROVE current_term'[k] = current_term[k]
  BY <1>0, <1>1, Untouched
<1>2. \/ current_term'[i] = current_term[i]
      \/ current_term[i] <= InitTerm[Leader] /\ current_term'[i] = InitTerm[Leader]
  <2>1. ASSUME NEW j \in Peers(i), NEW type, T2Take(i, j, type)
        PROVE  current_term[i] <= InitTerm[Leader] /\ current_term'[i] = InitTerm[Leader]
    <3>1. j \in Node /\ chan[j][i] # << >>
      BY <2>1 DEF T2Take, Peers
    <3>2. Msg(i, j) \in OnWay(j, i)
      BY <1>0, <3>1, ReadOnWay
    <3>3. Msg(i, j).term = InitTerm[Leader]
      BY <3>1, <3>2 DEF TermInv, OneTerm, InTerm
    <3>4. Msg(i, j).term >= current_term[i] /\ current_term'[i] = Msg(i, j).term
      BY <1>0, <2>1 DEF T2Take, TypeOK
    <3> QED
      BY <3>3, <3>4
  <2>2. CASE UNCHANGED current_term
    BY <2>2
  <2>3. ASSUME NEW j \in Peers(i),
               T2Heartbeat(i, j) \/ T2Append(i, j) \/ T2Response(i, j) \/ T2VoteRequest(i, j)
        PROVE  current_term[i] <= InitTerm[Leader] /\ current_term'[i] = InitTerm[Leader]
    BY <2>1, <2>3 DEF T2Heartbeat, T2Append, T2Response, T2VoteRequest
  <2>4. \/ UNCHANGED current_term
        \/ \E j \in Peers(i) : \/ T2Heartbeat(i, j) \/ T2Append(i, j)
                               \/ T2Response(i, j) \/ T2VoteRequest(i, j)
    BY DEF NodeStep, Thread2, T1Check, T1Start, T1Recv, T1Hand, PeerGone, T2Coalesced,
      T2Partial, T2VoteResponse, T3Send, T3Ack, T3Commit, T3Pass, T4, T5, T5Answer, T7, T2Log, T2Pass,
      T2Old, Abort
  <2> QED
    BY <2>2, <2>3, <2>4
<1> QED
  BY <1>1, <1>2, <1>0

LEMMA TermStep ==
    ASSUME TermInv, NEW i \in Node, NodeStep(i), ~Elect(i), ~Campaign(i)
    PROVE  OneTerm'
<1>0. TypeOK /\ Leader \in Node /\ InitTerm \in [Node -> Nat] /\ OneTerm /\ OneWriter
  BY ReplicationAssumption DEF TermInv
<1>1. /\ current_term'[Leader] = InitTerm[Leader]
      /\ \A j \in Node : current_term'[j] <= InitTerm[Leader] <=> InitTerm[j] <= InitTerm[Leader]
  BY <1>0, TermKept DEF OneTerm
<1>2. t1'[Leader].pc = "fill" => t1'[Leader].term = InitTerm[Leader]
  <2>1. CASE i # Leader
    BY <1>0, <2>1, Untouched DEF OneTerm
  <2>2. CASE i = Leader
    <3>1. CASE T1Check(i) \/ T1Hand(i) \/ Abort(i)
      <4>0. DOMAIN t1 = Node
        BY <1>0 DEF TypeOK
      <4>2. t1' = [t1 EXCEPT ![i] = [pc |-> "start"]] \/ t1' = [t1 EXCEPT ![i] = Idle1]
        BY <3>1 DEF T1Check, T1Hand, Abort
      <4>1. t1'[i].pc # "fill"
        BY <4>0, <4>2 DEF Idle1
      <4> QED
        BY <2>2, <4>1
    <3>2. CASE T1Start(i)
      <4>1. t1'[i].term = current_term[i]
        BY <1>0, <3>2 DEF T1Start, TypeOK
      <4> QED
        BY <1>0, <2>2, <4>1 DEF OneTerm
    <3>3. CASE T1Recv(i)
      <4>1. t1[i].pc = "fill" /\ t1[i].term = InitTerm[Leader] /\ t1 \in [Node -> [pc : {"check", "start"}] \cup Filling]
        BY <1>0, <2>2, <3>3 DEF T1Recv, OneTerm, TypeOK
      <4>2. t1[i] \in Filling
        BY <4>1
      <4>3. \E w : t1' = [t1 EXCEPT ![i].w = w] \/ t1' = [t1 EXCEPT ![i].r = w]
        BY <3>3 DEF T1Recv
      <4>4. t1'[i].term = t1[i].term
        BY <4>1, <4>2, <4>3 DEF Filling
      <4> QED
        BY <2>2, <4>1, <4>4
    <3>4. CASE UNCHANGED t1
      BY <1>0, <3>4 DEF OneTerm
    <3>5. T1Check(i) \/ T1Hand(i) \/ Abort(i) \/ T1Start(i) \/ T1Recv(i) \/ UNCHANGED t1
      BY DEF NodeStep, Thread2, PeerGone, T2Coalesced, T2Partial, T2VoteResponse, T3Send,
        T3Ack, T3Commit, T3Pass, T4, T5, T5Answer, T7, T2Log, T2Pass, T2Old, T2Heartbeat, T2Append,
        T2Response, T2VoteRequest, threads
    <3> QED
      BY <3>1, <3>2, <3>3, <3>4, <3>5
  <2> QED
    BY <2>1, <2>2
<1>3. ASSUME NEW b \in ToSet(q13'[Leader]) PROVE b.term = InitTerm[Leader]
  <2>0. q13[Leader] \in Seq(Batch) /\ \A n \in ToSet(q13[Leader]) : n.term = InitTerm[Leader]
    BY <1>0 DEF TypeOK, OneTerm
  <2>1. CASE q13'[Leader] = q13[Leader]
    BY <1>3, <2>0, <2>1
  <2>2. CASE i = Leader /\ T1Hand(i) /\ ~UNCHANGED q13
    <3>1. t1[i].pc = "fill"
      BY <2>2 DEF T1Hand
    <3>2. t1[i].term = InitTerm[Leader] /\ t1[i] \in Filling
      BY <1>0, <2>2, <3>1 DEF OneTerm, TypeOK
    <3> DEFINE e == [id |-> Len(accepted'), term |-> t1[i].term, idx |-> t1[i].idx,
                     w |-> t1[i].w, r |-> t1[i].r]
    <3>3. q13' = [q13 EXCEPT ![i] = Append(@, e)] /\ accepted' = Append(accepted, {})
      BY <2>2 DEF T1Hand
    <3>4. accepted \in Seq(SUBSET Node)
      BY <1>0 DEF TypeOK
    <3>5. Len(accepted') \in Nat
      BY <3>3, <3>4
    <3>6. e \in Batch /\ e.term = InitTerm[Leader]
      BY <3>2, <3>5 DEF Filling, Batch
    <3> HIDE DEF e
    <3>7. q13'[Leader] = Append(q13[Leader], e)
      BY <1>0, <2>2, <3>3 DEF TypeOK
    <3>8. ToSet(q13'[Leader]) = ToSet(q13[Leader]) \cup {e}
      BY <2>0, <3>6, <3>7, Appended
    <3> QED
      BY <1>3, <2>0, <3>6, <3>8
  <2>3. CASE i = Leader /\ T3Send(i)
    <3>1. q13'[Leader] = Tail(q13[Leader]) /\ q13[Leader] # << >>
      BY <1>0, <2>3 DEF T3Send, TypeOK
    <3>2. ToSet(q13'[Leader]) \subseteq ToSet(q13[Leader])
      BY <2>0, <3>1, TailSet
    <3> QED
      BY <1>3, <2>0, <3>2
  <2>4. CASE i = Leader /\ Abort(i)
    <3>1. q13'[Leader] = << >> /\ ToSet(<< >>) = {}
      BY <1>0, <2>4 DEF Abort, TypeOK, ToSet
    <3> QED
      BY <1>3, <3>1
  <2>5. CASE i # Leader
    BY <1>0, <2>1, <2>5, Untouched
  <2>6. T1Hand(i) \/ T3Send(i) \/ Abort(i) \/ UNCHANGED q13
    BY DEF NodeStep, Thread2, T1Check, T1Start, T1Recv, PeerGone, T2Coalesced, T2Partial,
      T2VoteResponse, T3Ack, T3Commit, T3Pass, T4, T5, T5Answer, T7, T2Log, T2Pass, T2Old, T2Heartbeat,
      T2Append, T2Response, T2VoteRequest, threads
  <2> QED
    BY <2>1, <2>2, <2>3, <2>4, <2>5, <2>6
<1>4. ASSUME NEW k \in Node, NEW j \in Node, NEW m \in OnWay(k, j)' PROVE InTerm(m)
  <2>1. CASE m \in OnWay(k, j)
    BY <1>0, <2>1 DEF OneTerm
  <2>2. CASE k = i /\ NewMsg(i, m)
    <3>1. CASE T3Send(i) /\ m = [type |-> "APPEND_ENTRIES", term |-> Head(q13[i]).term,
                                 prev |-> LastApplied[i], batch |-> Head(q13[i])]
      <4>1. i = Leader /\ q13[i] # << >> /\ q13[i] \in Seq(Batch)
        BY <1>0, <3>1 DEF T3Send, OneWriter, TypeOK
      <4>2. Head(q13[i]) \in ToSet(q13[i])
        BY <4>1, HeadTail, TailSet
      <4>3. Head(q13[i]).term = InitTerm[Leader]
        BY <1>0, <4>1, <4>2 DEF OneTerm
      <4> QED
        BY <3>1, <4>1, <4>3 DEF InTerm
    <3>2. CASE T7(i) /\ m = [type |-> "HEARTBEAT", term |-> current_term[i]]
      <4>1. i = Leader
        BY <1>0, <3>2 DEF T7, OneWriter
      <4> QED
        BY <1>0, <3>2, <4>1 DEF InTerm, OneTerm
    <3>3. ASSUME NEW n \in Peers(i), T2Append(i, n), m.type = "RESP_APPEND_ENTRIES",
                 m.term = Msg(i, n).term, Msg(i, n) \in OnWay(n, i)
          PROVE  InTerm(m)
      BY <1>0, <3>3 DEF InTerm, OneTerm, Peers
    <3>4. ASSUME NEW n \in Peers(i), T2VoteRequest(i, n), Msg(i, n) \in OnWay(n, i)
          PROVE  FALSE
      BY <1>0, <3>4 DEF InTerm, OneTerm, T2VoteRequest, T2Take, Peers
    <3> QED
      BY <2>2, <3>1, <3>2, <3>3, <3>4 DEF NewMsg
  <2> QED
    BY <1>0, <1>4, <2>1, <2>2, ChanStep
<1> QED
  BY <1>1, <1>2, <1>3, <1>4 DEF OneTerm

(* What a step does to the socket from the leader to a follower: only      *)
(* T3Send puts a batch on it and only T2Append takes one off, unless the   *)
(* term of the follower is newer.                                          *)
LeaderSends(j, m) == chan'[Leader][j] = Append(chan[Leader][j], m)

NodeReads(j) ==
    /\ chan[Leader][j] # << >>
    /\ chan'[Leader][j] = Tail(chan[Leader][j])

LEMMA SocketStep ==
    ASSUME TermInv, NEW i \in Node, NodeStep(i), ~Campaign(i), NEW j \in Node \ {Leader}
    PROVE  \/ chan'[Leader][j] = chan[Leader][j]
           \/ i = j /\ Abort(j)
           \/ /\ i = Leader /\ T3Send(i)
              /\ \E m \in Message : /\ LeaderSends(j, m) /\ m.type = "APPEND_ENTRIES"
                                    /\ m.batch = Head(q13[i])
           \/ i = Leader /\ \E m \in Message : LeaderSends(j, m) /\ m.type # "APPEND_ENTRIES"
           \/ i = j /\ NodeReads(j) /\ \/ T2Append(j, Leader)
                                       \/ Msg(j, Leader).term < current_term[j]
                                       \/ Msg(j, Leader).type # "APPEND_ENTRIES"
<1>0. TypeOK /\ Leader \in Node /\ OneWriter /\ j \in Node /\ j # Leader
  BY ReplicationAssumption DEF TermInv
<1>1. ASSUME NEW msg \in Message, Send(i, msg)
      PROVE  \/ chan'[Leader][j] = chan[Leader][j]
             \/ i = Leader /\ LeaderSends(j, msg)
  <2>1. chan'[Leader][j] = IF Leader = i /\ j # i THEN Append(chan[Leader][j], msg)
                                                 ELSE chan[Leader][j]
    BY <1>0, <1>1, SendOnWay
  <2> QED
    BY <2>1 DEF LeaderSends
<1>2. CASE T3Send(i)
  <2>1. Head(q13[i]) \in Batch
    BY <1>0, <1>2, HeadTail DEF T3Send, TypeOK
  <2> DEFINE msg == [type |-> "APPEND_ENTRIES", term |-> Head(q13[i]).term,
                     prev |-> LastApplied[i], batch |-> Head(q13[i])]
  <2>2. msg \in Message /\ msg.type = "APPEND_ENTRIES" /\ msg.batch = Head(q13[i])
    BY <2>1, ReplicationAssumption DEF Message, Batch, Entry
  <2>3. Send(i, msg)
    BY <1>2 DEF T3Send
  <2> HIDE DEF msg
  <2> QED
    BY <1>1, <1>2, <2>2, <2>3
<1>3. CASE T7(i)
  <2> DEFINE msg == [type |-> "HEARTBEAT", term |-> current_term[i]]
  <2>1. msg \in Message /\ Send(i, msg) /\ msg.type # "APPEND_ENTRIES"
    BY <1>0, <1>3 DEF T7, Message, TypeOK
  <2> HIDE DEF msg
  <2> QED
    BY <1>1, <2>1
<1>4. CASE Abort(i)
  <2>1. chan' = [n \in Node |-> [chan[n] EXCEPT ![i] = << >>]]
    BY <1>4 DEF Abort
  <2>2. i # j => chan'[Leader][j] = chan[Leader][j]
    BY <1>0, <2>1 DEF TypeOK
  <2> QED
    BY <1>4, <2>2
<1>5. ASSUME NEW n \in Peers(i), T2Old(i, n) \/ T2Heartbeat(i, n) \/ T2Response(i, n)
      PROVE  \/ chan'[Leader][j] = chan[Leader][j]
             \/ i = j /\ NodeReads(j) /\ \/ Msg(j, Leader).term < current_term[j]
                                         \/ Msg(j, Leader).type # "APPEND_ENTRIES"
  <2>1. /\ chan' = Took(i, n) /\ chan[n][i] # << >> /\ n \in Node
        /\ Msg(i, n).term < current_term[i] \/ Msg(i, n).type # "APPEND_ENTRIES"
    BY <1>5 DEF T2Old, T2Heartbeat, T2Response, T2Take, Peers
  <2>2. chan'[Leader][j] = IF Leader = n /\ j = i THEN Tail(chan[Leader][j]) ELSE chan[Leader][j]
    BY <1>0, <2>1, TookOnWay
  <2> QED
    BY <2>1, <2>2 DEF NodeReads
<1>6. ASSUME NEW n \in Peers(i), NEW r \in Message, chan[n][i] # << >>,
             chan' = [Took(i, n) EXCEPT ![i][n] = Append(@, r)]
      PROVE  \/ chan'[Leader][j] = chan[Leader][j]
             \/ i = Leader /\ LeaderSends(j, r)
             \/ i = j /\ n = Leader /\ NodeReads(j)
  <2>1. n \in Node /\ n # i
    BY DEF Peers
  <2>2. Took(i, n) \in [Node -> [Node -> Seq(Message)]]
    BY <1>0, <1>6, <2>1, TookType
  <2>3. chan'[Leader][j] = IF i = Leader /\ n = j THEN Append(Took(i, n)[Leader][j], r)
                                                  ELSE Took(i, n)[Leader][j]
    BY <1>0, <1>6, <2>1, <2>2
  <2>4. Took(i, n)[Leader][j] = IF Leader = n /\ j = i THEN Tail(chan[Leader][j]) ELSE chan[Leader][j]
    BY <1>0, <2>1, TookOnWay
  <2> QED
    BY <1>0, <1>6, <2>1, <2>3, <2>4 DEF LeaderSends, NodeReads
<1>7. ASSUME NEW n \in Peers(i), T2Append(i, n)
      PROVE  \/ chan'[Leader][j] = chan[Leader][j]
             \/ i = Leader /\ \E m \in Message : LeaderSends(j, m) /\ m.type # "APPEND_ENTRIES"
             \/ i = j /\ NodeReads(j) /\ T2Append(j, Leader)
  <2>0. n \in Node /\ chan[n][i] # << >>
    BY <1>7 DEF Peers, T2Append, T2Take
  <2>1. Msg(i, n) \in Message /\ Msg(i, n).type = "APPEND_ENTRIES"
    BY <1>0, <1>7, <2>0, TookType DEF T2Append, T2Take
  <2>2. Msg(i, n).term \in Nat /\ Msg(i, n).prev \in Entry
    BY <2>1 DEF Message
  <2> DEFINE yes == Accepts(i, Msg(i, n).prev)
             tai == IF yes THEN [term |-> Msg(i, n).prev.term, idx |-> Msg(i, n).prev.idx + 1]
                           ELSE LastApplied[i]
             r == [type |-> "RESP_APPEND_ENTRIES", term |-> Msg(i, n).term, success |-> yes,
                   tai |-> tai]
  <2>3. chan' = [Took(i, n) EXCEPT ![i][n] = Append(@, r)]
    BY <1>7 DEF T2Append
  <2>4. yes \in BOOLEAN /\ tai \in Entry
    BY <2>2, ReplicationAssumption DEF Accepts, Entry
  <2> HIDE DEF yes, tai
  <2>5. r \in Message /\ r.type # "APPEND_ENTRIES"
    BY <2>2, <2>4 DEF Message
  <2> HIDE DEF r
  <2> QED
    BY <1>6, <1>7, <2>0, <2>3, <2>5
<1>8. ASSUME NEW n \in Peers(i), T2VoteRequest(i, n)
      PROVE  FALSE
  <2>1. n \in Node /\ chan[n][i] # << >> /\ Msg(i, n).type = "REQUEST_VOTE"
    BY <1>8 DEF Peers, T2VoteRequest, T2Take
  <2>2. Msg(i, n) \in OnWay(n, i)
    BY <1>0, <2>1, ReadOnWay
  <2> QED
    BY <2>1, <2>2 DEF TermInv, OneTerm, InTerm
<1>9. CASE UNCHANGED chan
  BY <1>9
<1>a. \/ UNCHANGED chan \/ Abort(i) \/ T3Send(i) \/ T7(i)
      \/ \E n \in Peers(i) : \/ T2Old(i, n) \/ T2Heartbeat(i, n) \/ T2Response(i, n)
                             \/ T2Append(i, n) \/ T2VoteRequest(i, n)
  BY DEF NodeStep, Thread2, T1Check, T1Start, T1Recv, T1Hand, PeerGone, T2Coalesced, T2Partial,
         T2VoteResponse, T3Ack, T3Commit, T3Pass, T4, T5, T5Answer, Elect, T2Log, T2Pass
<1> QED
  BY <1>2, <1>3, <1>4, <1>5, <1>7, <1>8, <1>9, <1>a

(* What is on the socket changes accordingly.                              *)
Delivered(j) ==
    \/ Batches(chan'[Leader][j]) = Batches(chan[Leader][j])
    \/ j \in dead'
    \/ ~Follows(j)

LEMMA DeliveryStep ==
    ASSUME TermInv, NEW i \in Node, NodeStep(i), ~Campaign(i), NEW j \in Node \ {Leader},
           ~T3Send(Leader), ~T2Append(j, Leader)
    PROVE  Delivered(j)
<1>0. TypeOK /\ Leader \in Node /\ j \in Node
  BY ReplicationAssumption DEF TermInv
<1> DEFINE c == chan[Leader][j]
           d == chan'[Leader][j]
<1>1. c \in Seq(Message) /\ Batches(c) \in Seq(Batch)
  BY <1>0, BacklogType
<1>2. CASE d = c
  BY <1>2 DEF Delivered
<1>3. CASE i = j /\ Abort(j)
  BY <1>3 DEF Abort, Delivered
<1>5. ASSUME NEW m \in Message, LeaderSends(j, m), m.type # "APPEND_ENTRIES"
      PROVE  Delivered(j)
  <2>1. Batches(d) = Batches(c) \o << >>
    BY <1>1, <1>5, BatchesAppend DEF LeaderSends, Own
  <2> QED
    BY <1>1, <2>1, ConcatEmptySeq DEF Delivered
<1>6. ASSUME NodeReads(j)
      PROVE  /\ Batches(c) = Own(Msg(j, Leader)) \o Batches(d)
             /\ d \in Seq(Message) /\ Batches(d) \in Seq(Batch)
             /\ Msg(j, Leader) \in OnWay(Leader, j)
  <2>1. c # << >> /\ d = Tail(c) /\ Head(c) = Msg(j, Leader)
    BY <1>6 DEF NodeReads, Msg
  <2>2. d \in Seq(Message)
    BY <1>1, <2>1, HeadTail
  <2>3. Batches(d) \in Seq(Batch)
    BY <2>2, BatchesType
  <2>4. Msg(j, Leader) \in OnWay(Leader, j)
    BY <1>0, <2>1, ReadOnWay
  <2> HIDE DEF c, d
  <2> QED
    BY <1>1, <2>1, <2>2, <2>3, <2>4, BatchesTail
<1>8. CASE NodeReads(j) /\ Msg(j, Leader).term < current_term[j]
  <2>1. Msg(j, Leader).term = InitTerm[Leader]
    BY <1>0, <1>6, <1>8 DEF TermInv, OneTerm, InTerm
  <2>2. InitTerm[Leader] \in Nat /\ current_term[j] \in Nat
    BY <1>0, ReplicationAssumption DEF TypeOK
  <2>3. ~(current_term[j] <= InitTerm[Leader])
    BY <1>8, <2>1, <2>2
  <2> QED
    BY <1>0, <2>3 DEF TermInv, OneTerm, Follows, Delivered
<1>9. CASE NodeReads(j) /\ Msg(j, Leader).type # "APPEND_ENTRIES"
  <2>1. Own(Msg(j, Leader)) = << >>
    BY <1>9 DEF Own
  <2> HIDE DEF c, d
  <2>2. Batches(c) = Batches(d)
    BY <1>6, <1>9, <2>1, ConcatEmptySeq
  <2> QED
    BY <2>2 DEF Delivered, c, d
<1> HIDE DEF c, d
<1> QED
  BY <1>2, <1>3, <1>5, <1>8, <1>9, SocketStep DEF c, d

LEMMA SentStep ==
    ASSUME TermInv, T3Send(Leader), NEW j \in Node \ {Leader}
    PROVE  /\ Head(q13[Leader]) \in Batch
           /\ Batches(chan'[Leader][j]) = Batches(chan[Leader][j]) \o <<Head(q13[Leader])>>
<1>0. TypeOK /\ Leader \in Node /\ j \in Node /\ j # Leader
  BY ReplicationAssumption DEF TermInv
<1>1. Head(q13[Leader]) \in Batch
  BY <1>0, HeadTail DEF T3Send, TypeOK
<1> DEFINE msg == [type |-> "APPEND_ENTRIES", term |-> Head(q13[Leader]).term,
                   prev |-> LastApplied[Leader], batch |-> Head(q13[Leader])]
<1>2. msg \in Message /\ msg.type = "APPEND_ENTRIES" /\ msg.batch = Head(q13[Leader])
  BY <1>0, <1>1, ReplicationAssumption DEF Message, Batch, Entry
<1>3. Send(Leader, msg)
  BY DEF T3Send
<1> HIDE DEF msg
<1>4. chan'[Leader][j] = Append(chan[Leader][j], msg)
  <2>1. ASSUME NEW i \in Node, NEW x \in Message, Send(i, x), i # j
        PROVE  chan'[i][j] = Append(chan[i][j], x)
    <3>1. chan'[i][j] = IF i = i /\ j # i THEN Append(chan[i][j], x) ELSE chan[i][j]
      BY <1>0, <2>1, SendOnWay
    <3> QED
      BY <2>1, <3>1
  <2> QED
    BY <1>0, <1>2, <1>3, <2>1
<1>5. Own(msg) = <<Head(q13[Leader])>>
  BY <1>2 DEF Own
<1>6. chan[Leader][j] \in Seq(Message)
  BY <1>0, BacklogType
<1> QED
  BY <1>0, <1>1, <1>2, <1>4, <1>5, <1>6, BatchesAppend

LEMMA TakenStep ==
    ASSUME TermInv, NEW j \in Node \ {Leader}, T2Append(j, Leader)
    PROVE  /\ Msg(j, Leader).batch \in Batch /\ Msg(j, Leader).prev = LastApplied[Leader]
           /\ current_term[j] <= InitTerm[Leader]
           /\ Batches(chan[Leader][j]) = <<Msg(j, Leader).batch>> \o Batches(chan'[Leader][j])
           /\ chan'[Leader][j] \in Seq(Message)
<1>0. TypeOK /\ Leader \in Node /\ j \in Node /\ j # Leader
  BY ReplicationAssumption DEF TermInv
<1>1. chan[Leader][j] # << >> /\ Msg(j, Leader).type = "APPEND_ENTRIES"
      /\ Msg(j, Leader).term >= current_term[j]
  BY DEF T2Append, T2Take
<1>2. Msg(j, Leader) \in OnWay(Leader, j) /\ Msg(j, Leader) \in Message
  BY <1>0, <1>1, ReadOnWay, TookType
<1>3. PICK r : chan' = [Took(j, Leader) EXCEPT ![j][Leader] = Append(@, r)]
  BY DEF T2Append
<1>4. Took(j, Leader) \in [Node -> [Node -> Seq(Message)]]
  BY <1>0, <1>1, TookType
<1>5. chan'[Leader][j] = Took(j, Leader)[Leader][j]
  BY <1>0, <1>3, <1>4
<1>6. chan'[Leader][j] = Tail(chan[Leader][j])
  BY <1>0, <1>5, TookOnWay
<1>7. chan[Leader][j] \in Seq(Message) /\ chan'[Leader][j] \in Seq(Message)
  BY <1>0, <1>4, <1>5, BacklogType
<1>8. Own(Msg(j, Leader)) = <<Msg(j, Leader).batch>>
  BY <1>1 DEF Own
<1>9. Batches(chan[Leader][j]) = <<Msg(j, Leader).batch>> \o Batches(chan'[Leader][j])
  BY <1>1, <1>6, <1>7, <1>8, BatchesTail DEF Msg
<1>a. Msg(j, Leader).batch \in Batch
  BY <1>1, <1>2 DEF Message
<1>b. Msg(j, Leader).prev = LastApplied[Leader] /\ Msg(j, Leader).term = InitTerm[Leader]
  BY <1>0, <1>1, <1>2 DEF TermInv, OneTerm, InTerm
<1> QED
  BY <1>1, <1>7, <1>9, <1>a, <1>b

(* A follower that neither takes, logs nor passes on a batch.              *)
LEMMA FollowerKept ==
    ASSUME TypeOK, NEW j \in Node, NEW s, FollowerSent(j, s), appended'[j] = appended[j],
           j \in dead' \/ Logging(j)' = Logging(j), j \in dead => j \in dead',
           Delivered(j), t2'[j].pc = "idle" \/ t2'[j] = t2[j]
    PROVE  FollowerSent(j, s)'
<1>1. IsPrefix(appended'[j], s)
  BY DEF FollowerSent
<1>2. ASSUME Follows(j), j \notin dead' PROVE appended'[j] \o Backlog(j)' = s
  <2>1. Backlog(j)' = Backlog(j)
    BY <1>2 DEF Delivered, Backlog
  <2> QED
    BY <1>2, <2>1 DEF FollowerSent
<1>3. Follows(j)' = Follows(j)
  BY DEF Follows, Accepts
<1>4. ~Follows(j) => appended'[j] = << >> /\ t2'[j].pc = "idle"
  BY DEF FollowerSent
<1> QED
  BY <1>1, <1>2, <1>3, <1>4 DEF FollowerSent

(* A follower takes a batch from the socket ...                            *)
LEMMA FollowerTakes ==
    ASSUME TermInv, NEW j \in Node \ {Leader}, T2Append(j, Leader), NEW s, FollowerSent(j, s)
    PROVE  FollowerSent(j, s)'
<1>0. TypeOK /\ j \in Node
  BY DEF TermInv
<1>1. /\ UNCHANGED <<appended, dead>> /\ j \notin dead /\ t2[j].pc = "idle"
      /\ t2' = IF Accepts(j, Msg(j, Leader).prev)
               THEN [t2 EXCEPT ![j] = [pc |-> "log", b |-> Msg(j, Leader).batch]] ELSE t2
  BY DEF T2Append, T2Take
<1>2. InitTerm[j] <= InitTerm[Leader]
  BY <1>0, TakenStep DEF TermInv, OneTerm
<1>3. Follows(j) <=> Accepts(j, Msg(j, Leader).prev)
  BY <1>2, TakenStep DEF Follows
<1>4. Follows(j)' = Follows(j)
  BY DEF Follows, Accepts
<1>5. CASE ~Follows(j)
  BY <1>1, <1>3, <1>4, <1>5 DEF FollowerSent
<1>6. CASE Follows(j)
  <2> DEFINE b == Msg(j, Leader).batch
             c == Batches(chan[Leader][j])
             d == Batches(chan'[Leader][j])
  <2>1. t2'[j] = [pc |-> "log", b |-> b]
    BY <1>0, <1>1, <1>3, <1>6 DEF TypeOK
  <2>2. Logging(j)' = <<b>> /\ Logging(j) = << >>
    BY <1>1, <2>1 DEF Logging
  <2>3. c = <<b>> \o d /\ c \in Seq(Batch)
    BY <1>0, TakenStep, BacklogType
  <2>4. Backlog(j)' = <<b>> \o d /\ Backlog(j) = << >> \o c
    BY <2>2 DEF Backlog
  <2> HIDE DEF b, c, d
  <2>5. << >> \o c = c
    BY <2>3, ConcatEmptySeq
  <2>6. Backlog(j)' = Backlog(j)
    BY <2>3, <2>4, <2>5
  <2> QED
    BY <1>1, <1>4, <1>6, <2>6 DEF FollowerSent
<1> QED
  BY <1>5, <1>6

(* ... and logs it.                                                        *)
LEMMA FollowerLogs ==
    ASSUME TermInv, NEW j \in Node \ {Leader}, T2Log(j),
           NEW s \in Seq(Batch), FollowerSent(j, s)
    PROVE  FollowerSent(j, s)'
<1>0. TypeOK /\ j \in Node
  BY DEF TermInv
<1>1. t2[j] \in [pc : {"log", "pass"}, b : Batch] /\ t2[j].pc = "log" /\ j \notin dead
  BY <1>0, InHand DEF T2Log
<1>2. Follows(j) /\ appended[j] \o Backlog(j) = s
  BY <1>1 DEF FollowerSent
<1> DEFINE b == t2[j].b
           l == appended[j]
           c == Batches(chan[Leader][j])
<1>3. /\ appended'[j] = Append(l, b) /\ UNCHANGED <<chan, dead>>
      /\ t2'[j].pc = "pass"
  BY <1>0, <1>1 DEF T2Log, TypeOK
<1>4. b \in Batch /\ l \in Seq(Batch) /\ c \in Seq(Batch)
  BY <1>0, <1>1, BacklogType
<1>5. Backlog(j) = <<b>> \o c /\ Backlog(j)' = << >> \o c
  BY <1>1, <1>3 DEF Backlog, Logging
<1> HIDE DEF b, l, c
<1>6. << >> \o c = c
  BY <1>4, ConcatEmptySeq
<1>7. l \o (<<b>> \o c) = Append(l, b) \o c
  <2>1. Shifted(l, b, c)
    BY <1>4, Shift
  <2> QED
    BY <2>1 DEF Shifted
<1>8. appended'[j] \o Backlog(j)' = s
  BY <1>2, <1>3, <1>5, <1>6, <1>7 DEF l
<1>9. Append(l, b) \in Seq(Batch)
  BY <1>4
<1>a. IsPrefix(Append(l, b), Append(l, b) \o c)
  BY <1>4, <1>9, PrefixConcat
<1>b. IsPrefix(appended'[j], s)
  BY <1>3, <1>5, <1>6, <1>8, <1>a
<1>c. Follows(j)' = Follows(j)
  BY DEF Follows, Accepts
<1> QED
  BY <1>2, <1>8, <1>b, <1>c DEF FollowerSent

(* What any step but T3Send leaves of a follower.                          *)
LEMMA FollowerStep ==
    ASSUME TermInv, NEW i \in Node, NodeStep(i), ~Elect(i), ~Campaign(i), ~T3Send(Leader),
           NEW j \in Node \ {Leader}, NEW s \in Seq(Batch), FollowerSent(j, s)
    PROVE  FollowerSent(j, s)'
<1>0. TypeOK /\ OneWriter /\ Leader \in Node /\ j \in Node /\ j # Leader
  BY ReplicationAssumption DEF TermInv
<1>1. CASE T2Append(j, Leader)
  BY <1>1, FollowerTakes
<1>2. CASE T2Log(j)
  BY <1>2, FollowerLogs
<1>3. CASE ~T2Append(j, Leader) /\ ~T2Log(j)
  <2>1. Delivered(j)
    BY <1>3, DeliveryStep
  <2>2. CASE i # j
    <3>1. appended'[j] = appended[j] /\ t2'[j] = t2[j] /\ (j \in dead' <=> j \in dead)
      BY <1>0, <2>2, Untouched
    <3>2. Logging(j)' = Logging(j)
      BY <3>1 DEF Logging
    <3> QED
      BY <1>0, <2>1, <3>1, <3>2, FollowerKept
  <2>3. CASE i = j
    <3>1. CASE Abort(j)
      <4>1. appended' = appended /\ j \in dead' /\ t2'[j] = Idle
        BY <1>0, <3>1 DEF Abort, TypeOK
      <4>2. t2'[j].pc = "idle" /\ appended'[j] = appended[j]
        BY <4>1 DEF Idle
      <4> QED
        BY <1>0, <2>1, <4>1, <4>2, FollowerKept
    <3>2. CASE T2Pass(j)
      <4>1. appended' = appended /\ dead' = dead /\ t2'[j] = Idle /\ t2[j].pc = "pass"
        BY <1>0, <3>2 DEF T2Pass, TypeOK
      <4>2. t2'[j].pc = "idle" /\ appended'[j] = appended[j]
        BY <4>1 DEF Idle
      <4>3. Logging(j)' = Logging(j)
        BY <4>1, <4>2 DEF Logging
      <4> QED
        BY <1>0, <2>1, <4>1, <4>2, <4>3, FollowerKept
    <3>3. CASE UNCHANGED <<appended, t2, dead>>
      <4>1. Logging(j)' = Logging(j) /\ appended'[j] = appended[j] /\ t2'[j] = t2[j]
        BY <3>3 DEF Logging
      <4> QED
        BY <1>0, <2>1, <3>3, <4>1, FollowerKept
    <3>4. ASSUME NEW n \in Peers(j), T2Append(j, n) PROVE FALSE
      <4>1. n \in Node /\ n # Leader /\ chan[n][j] # << >> /\ Msg(j, n).type = "APPEND_ENTRIES"
        BY <1>3, <3>4 DEF T2Append, T2Take, Peers
      <4>2. Msg(j, n) \in OnWay(n, j)
        BY <1>0, <4>1, ReadOnWay
      <4> QED
        BY <1>0, <4>1, <4>2 DEF OneWriter
    <3>5. ~T3Commit(j)
      BY <1>0 DEF T3Commit, OneWriter
    <3>6. Abort(j) \/ T2Pass(j) \/ UNCHANGED <<appended, t2, dead>>
      BY <1>3, <2>3, <3>4, <3>5 DEF NodeStep, Thread2, T1Check, T1Start, T1Recv, T1Hand,
        PeerGone, T2Coalesced, T2Partial, T2VoteResponse, T3Send, T3Ack, T3Pass, T4, T5, T5Answer, T7,
        T2Old, T2Heartbeat, T2Response, T2VoteRequest, threads
    <3> QED
      BY <3>1, <3>2, <3>3, <3>6
  <2> QED
    BY <2>2, <2>3
<1> QED
  BY <1>1, <1>2, <1>3

(* The leader sends a batch: the sequence grows.                           *)
LEMMA SendGrows ==
    ASSUME TermInv, T3Send(Leader), NEW s \in Seq(Batch), AllSent(s)
    PROVE  \E t \in Seq(Batch) : AllSent(t)'
<1>0. TypeOK /\ Leader \in Node
  BY ReplicationAssumption DEF TermInv
<1>a. Head(q13[Leader]) \in Batch
  BY <1>0, HeadTail DEF T3Send, TypeOK
<1>p. PICK b \in Batch : b = Head(q13[Leader])
  BY <1>a
<1> DEFINE t == s \o <<b>>
<1>1. /\ t3[Leader].pc = "idle" /\ Leader \notin dead
      /\ UNCHANGED <<appended, dead, t2>>
      /\ t3'[Leader] = [pc |-> "wait", b |-> b]
  BY <1>0, <1>p DEF T3Send, TypeOK
<1>c. \A j \in Node \ {Leader} :
        Batches(chan'[Leader][j]) = Batches(chan[Leader][j]) \o <<b>>
  BY <1>p, SentStep
<1>2. <<b>> \in Seq(Batch)
  OBVIOUS
<1>3. t \in Seq(Batch)
  BY <1>2, ConcatProperties
<1>4. LeaderSent(t)'
  <2>1. Sending = << >> /\ Sending' = <<b>>
    BY <1>1 DEF Sending
  <2>2. appended[Leader] \in Seq(Batch) /\ appended[Leader] \o << >> = s /\ IsPrefix(appended[Leader], s)
    BY <1>0, <1>1, <2>1, BacklogType DEF AllSent, LeaderSent
  <2>3. appended[Leader] = s
    BY <2>2, ConcatEmptySeq
  <2>4. IsPrefix(appended[Leader], t)
    BY <1>2, <2>2, PrefixLonger
  <2>5. appended'[Leader] \o Sending' = t
    BY <1>1, <2>1, <2>3
  <2> QED
    BY <1>1, <2>4, <2>5 DEF LeaderSent
<1>5. ASSUME NEW j \in Node \ {Leader} PROVE FollowerSent(j, t)'
  <2>1. FollowerSent(j, s) /\ appended[j] \in Seq(Batch)
    BY <1>0, BacklogType DEF AllSent
  <2>2. IsPrefix(appended'[j], t)
    BY <1>1, <1>2, <2>1, PrefixLonger DEF FollowerSent
  <2> DEFINE g == Logging(j)
             c == Batches(chan[Leader][j])
             l == appended[j]
  <2>3. g \in Seq(Batch) /\ c \in Seq(Batch) /\ l \in Seq(Batch) /\ g \o c \in Seq(Batch)
    BY <1>0, BacklogType, ConcatProperties
  <2>4. Backlog(j) = g \o c /\ Backlog(j)' = g \o (c \o <<b>>)
    BY <1>1, <1>c DEF Backlog, Logging
  <2> HIDE DEF g, c, l
  <2>5. g \o (c \o <<b>>) = (g \o c) \o <<b>>
    <3>1. Joined(g, c, <<b>>)
      BY <1>2, <2>3, Associative
    <3> QED
      BY <3>1 DEF Joined
  <2>6. l \o ((g \o c) \o <<b>>) = (l \o (g \o c)) \o <<b>>
    <3>1. Joined(l, g \o c, <<b>>)
      BY <1>2, <2>3, Associative
    <3> QED
      BY <3>1 DEF Joined
  <2>7. ASSUME Follows(j), j \notin dead PROVE l \o Backlog(j)' = t
    <3>1. l \o (g \o c) = s
      BY <2>1, <2>4, <2>7 DEF FollowerSent, l
    <3> QED
      BY <2>4, <2>5, <2>6, <3>1
  <2>8. Follows(j)' = Follows(j)
    BY DEF Follows, Accepts
  <2> QED
    BY <1>1, <2>1, <2>2, <2>7, <2>8 DEF FollowerSent, l
<1>6. AllSent(t)'
  BY <1>4, <1>5 DEF AllSent
<1> QED
  BY <1>3, <1>6

(* What any other step leaves of the leader.                               *)
LEMMA LeaderStep ==
    ASSUME TermInv, NEW i \in Node, NodeStep(i), ~Elect(i), ~Campaign(i), ~T3Send(Leader),
           NEW s \in Seq(Batch), LeaderSent(s)
    PROVE  LeaderSent(s)'
<1>0. TypeOK /\ OneWriter /\ Leader \in Node
  BY ReplicationAssumption DEF TermInv
<1>1. CASE appended'[Leader] = appended[Leader] /\ (Leader \in dead' \/ Sending' = Sending)
           /\ (Leader \in dead => Leader \in dead')
  BY <1>1 DEF LeaderSent
<1>2. CASE i # Leader
  <2>1. appended'[Leader] = appended[Leader] /\ t3'[Leader] = t3[Leader]
        /\ (Leader \in dead' <=> Leader \in dead)
    BY <1>0, <1>2, Untouched
  <2> QED
    BY <1>1, <2>1 DEF Sending
<1>3. CASE T3Commit(Leader)
  <2>1. t3[Leader] \in [pc : {"wait", "pass"}, b : Batch] /\ t3[Leader].pc = "wait"
        /\ Leader \notin dead
    BY <1>0, <1>3, InHand DEF T3Commit
  <2> DEFINE b == t3[Leader].b
             l == appended[Leader]
  <2>2. appended'[Leader] = Append(l, b) /\ dead' = dead /\ t3'[Leader].pc = "pass"
    BY <1>0, <1>3, <2>1 DEF T3Commit, TypeOK
  <2>3. Sending = <<b>> /\ Sending' = << >>
    BY <2>1, <2>2 DEF Sending
  <2>4. l \in Seq(Batch) /\ b \in Batch /\ l \o <<b>> = s
    BY <1>0, <2>1, <2>3, BacklogType DEF LeaderSent
  <2> HIDE DEF b, l
  <2>5. Append(l, b) = l \o <<b>> /\ Append(l, b) \in Seq(Batch)
    BY <2>4
  <2>6. Append(l, b) \o << >> = Append(l, b)
    BY <2>5, ConcatEmptySeq
  <2>7. appended'[Leader] = s
    BY <2>2, <2>4, <2>5
  <2>8. appended'[Leader] \o Sending' = s
    BY <2>2, <2>3, <2>6, <2>7
  <2> QED
    BY <2>7, <2>8, PrefixOfItself DEF LeaderSent
<1>4. CASE i = Leader /\ ~T3Commit(Leader)
  <2>1. CASE Abort(i)
    BY <1>1, <1>4, <2>1 DEF Abort
  <2>2. CASE T3Pass(i)
    <3>1. UNCHANGED <<appended, dead>> /\ t3[i].pc = "pass" /\ t3'[i] = Idle
      BY <1>0, <2>2 DEF T3Pass, TypeOK
    <3>2. Sending' = Sending
      BY <1>4, <3>1 DEF Sending, Idle
    <3> QED
      BY <1>1, <1>4, <3>1, <3>2
  <2>3. CASE UNCHANGED <<appended, t3, dead>>
    BY <1>1, <2>3 DEF Sending
  <2>4. ~T2Log(i)
    BY <1>0, <1>4 DEF T2Log, OneWriter
  <2>5. Abort(i) \/ T3Pass(i) \/ UNCHANGED <<appended, t3, dead>>
    BY <1>4, <2>4 DEF NodeStep, Thread2, T1Check, T1Start, T1Recv, T1Hand, PeerGone,
      T2Coalesced, T2Partial, T2VoteResponse, T3Ack, T4, T5, T5Answer, T7, T2Pass, T2Append, T2Old,
      T2Heartbeat, T2Response, T2VoteRequest, threads
  <2> QED
    BY <2>1, <2>2, <2>3, <2>5
<1> QED
  BY <1>2, <1>3, <1>4

LEMMA AgreeStep ==
    ASSUME AgreeInv, NEW i \in Node, NodeStep(i), ~Elect(i), ~Campaign(i)
    PROVE  AgreeInv'
<1>0. TermInv
  BY DEF AgreeInv
<1>1. TermInv'
  <2>1. Next
    BY DEF Next, NodeStep
  <2>2. TypeOK' /\ OneWriter' /\ OneTerm'
    BY <1>0, <2>1, TypeNext, WriterStep, TermStep DEF TermInv
  <2> QED
    BY <2>2 DEF TermInv
<1>2. PICK s \in Seq(Batch) : AllSent(s)
  BY DEF AgreeInv
<1>3. CASE T3Send(Leader)
  BY <1>0, <1>1, <1>2, <1>3, SendGrows DEF AgreeInv
<1>4. CASE ~T3Send(Leader)
  <2>1. LeaderSent(s)'
    BY <1>0, <1>2, <1>4, LeaderStep DEF AllSent
  <2>2. \A j \in Node \ {Leader} : FollowerSent(j, s)'
    BY <1>0, <1>2, <1>4, FollowerStep DEF AllSent
  <2>3. AllSent(s)'
    BY <2>1, <2>2 DEF AllSent
  <2> QED
    BY <1>1, <2>3 DEF AgreeInv
<1> QED
  BY <1>3, <1>4

LEMMA AgreeInit == Init => AgreeInv
<1> SUFFICES ASSUME Init PROVE AgreeInv
  OBVIOUS
<1>0. TypeOK /\ OneWriter /\ Leader \in Node
  BY TypeInit, WriterInit, ReplicationAssumption
<1>1. ToSet(<< >>) = {}
  BY DEF ToSet
<1>2. /\ current_term = InitTerm /\ t1[Leader].pc # "fill" /\ q13[Leader] = << >>
      /\ \A j \in Node : /\ chan[Leader][j] = << >> /\ appended[j] = << >>
                         /\ t2[j].pc = "idle" /\ t3[j].pc = "idle"
      /\ \A i, j \in Node : OnWay(i, j) = {}
  BY <1>0, <1>1 DEF Init, Idle1, Idle, OnWay
<1>3. OneTerm
  BY <1>0, <1>1, <1>2 DEF OneTerm
<1> DEFINE s == << >>
<1>4. s \in Seq(Batch) /\ s \o s = s /\ IsPrefix(s, s)
  <2>1. s \in Seq(Batch) /\ s \o s = s
    OBVIOUS
  <2> QED
    BY <2>1, PrefixOfItself
<1>5. Batches(s) = s
  <2>1. [n \in DOMAIN << >> |-> Own(<< >>[n])] = << >>
    OBVIOUS
  <2> QED
    BY <2>1, FlattenEmpty DEF Batches
<1>6. LeaderSent(s)
  BY <1>0, <1>2, <1>4 DEF LeaderSent, Sending
<1>7. ASSUME NEW j \in Node PROVE FollowerSent(j, s)
  <2>1. Backlog(j) = s \o s
    BY <1>2, <1>5 DEF Backlog, Logging
  <2> QED
    BY <1>2, <1>4, <2>1 DEF FollowerSent
<1>8. AllSent(s)
  BY <1>6, <1>7 DEF AllSent
<1> QED
  BY <1>0, <1>3, <1>4, <1>8 DEF AgreeInv, TermInv

LEMMA AgreeStutter == ASSUME AgreeInv, UNCHANGED vars PROVE AgreeInv'
<1>1. UNCHANGED <<state, current_term, t1, q13, t2, t3, chan, appended, dead>>
  BY DEF vars, threads
<1>2. TypeOK'
  BY TypeNext DEF AgreeInv, TermInv
<1>3. OneWriter' /\ OneTerm'
  BY <1>1 DEF AgreeInv, TermInv, OneWriter, OneTerm, OnWay, InTerm
<1>4. PICK s \in Seq(Batch) : AllSent(s)
  BY DEF AgreeInv
<1>5. AllSent(s)'
  BY <1>1, <1>4 DEF AllSent, LeaderSent, FollowerSent, Sending, Backlog, Logging, Follows, Accepts
<1> QED
  BY <1>2, <1>3, <1>5 DEF AgreeInv, TermInv

(* No two log files disagree, for any number of nodes, terms, last entries *)
(* and writes, and whatever a read() returns, as long as no node becomes   *)
(* leader or candidate after the start.                                    *)
THEOREM OneLog == Spec /\ [][NoElection]_vars => []LogsAgree
<1>1. AgreeInv /\ [Next]_vars /\ [NoElection]_vars => AgreeInv'
  <2> SUFFICES ASSUME AgreeInv, [Next]_vars, [NoElection]_vars PROVE AgreeInv'
    OBVIOUS
  <2>1. CASE UNCHANGED vars
    BY <2>1, AgreeStutter
  <2>2. CASE vars' # vars
    <3>1. PICK i \in Node : NodeStep(i)
      BY <2>2 DEF Next, NodeStep
    <3>2. ~Elect(i) /\ ~Campaign(i)
      BY <2>2 DEF NoElection
    <3> QED
      BY <3>1, <3>2, AgreeStep
  <2> QED
    BY <2>1, <2>2
<1>2. AgreeInv => LogsAgree
  <2> SUFFICES ASSUME AgreeInv, NEW i \in Node, NEW j \in Node
               PROVE  IsPrefix(appended[i], appended[j]) \/ IsPrefix(appended[j], appended[i])
    BY DEF LogsAgree
  <2>1. PICK s \in Seq(Batch) : AllSent(s)
    BY DEF AgreeInv
  <2>2. IsPrefix(appended[i], s) /\ IsPrefix(appended[j], s)
    BY <2>1 DEF AllSent, LeaderSent, FollowerSent
  <2>3. appended[i] \in Seq(Batch) /\ appended[j] \in Seq(Batch)
    BY DEF AgreeInv, TermInv, TypeOK
  <2> QED
    BY <2>2, <2>3, Comparable
<1> QED
  BY AgreeInit, <1>1, <1>2, PTL DEF Spec
=============================================================================

--------------------------- MODULE StoreUsersProofs ---------------------------
(***************************************************************************)
(* Of the users of the store, for every log, every sequence of GETs and    *)
(* writes and every size of the ring: an apply thread that was stopped is  *)
(* gone, thread_4 neither meets a full ring nor leaves a reply behind as   *)
(* long as the kernel takes what is submitted, a GET is answered with a    *)
(* value that its own key had while the client waited, and the batches of  *)
(* the log are applied once, in order and whole by the two threads that    *)
(* apply.                                                                  *)
(***************************************************************************)
EXTENDS StoreUsers, Flattening

-----------------------------------------------------------------------------
(* The invariant.  What thread_4 has prepared is what it has counted,      *)
(* unless the kernel has refused a submission; between submissions there   *)
(* is room for one more, and an empty batch leaves nothing counted.        *)
Counted ==
    /\ ~refused => sq = t4.n
    /\ gone = "ring" => refused
    /\ t4.pc = "wait" => t4.n = 0
    /\ t4.pc = "next" => t4.n < QueueLen
    /\ t4.pc = "next" /\ t4.todo = << >> => t4.n = 0

(* A reply that is submitted goes to a client that asked.                  *)
Asked == t4.pc = "submit" => slot.to \in Get

SInv == TypeOK /\ StoppedIsGone /\ Counted /\ Asked /\ ReplyWasHeld

(* What the store may hold.                                                *)
LEMMA StoreTyped ==
    ASSUME KvTypeOK, NEW k, NEW v \in Val \cup {Missing, Closed}
    PROVE  [kv EXCEPT ![k] = v] \in [Key -> Val \cup {Missing, Closed}]
BY DEF KvTypeOK

(* A queue and the batch that is taken from it.                            *)
LEMMA Taken ==
    ASSUME NEW S, NEW s \in Seq(S), s # << >>
    PROVE  Head(s) \in S /\ Tail(s) \in Seq(S)
OBVIOUS

-----------------------------------------------------------------------------
(* The initial states satisfy the invariant.                               *)
LEMMA SInvInit == Init => SInv
<1> SUFFICES ASSUME Init PROVE SInv
  OBVIOUS
<1> USE DEF Init
<1>1. KvTypeOK
  BY DEF KvInit, KvTypeOK, Missing, Closed
<1>2. ApplyTypeOK /\ StoppedIsGone
  <2>1. << >> \in Seq(LogEntry) /\ Len(<< >>) = 0
    OBVIOUS
  <2>2. last_applied \in 0 .. Len(log) /\ commit_index \in 0 .. MaxLog
    BY ApplyAssumption, <2>1 DEF ApplyInit
  <2>3. at \in [i : Nat \ {0}, n : Nat \ {0}]
    BY DEF ApplyInit
  <2>4. pc \in [Applier -> {"none", "loop", "enter", "apply"}] /\ pc["thread"] = "none"
    BY DEF ApplyInit, Applier
  <2>5. log \in Seq(LogEntry) /\ Len(log) <= MaxLog
    BY ApplyAssumption, <2>1 DEF ApplyInit
  <2> QED
    BY <2>2, <2>3, <2>4, <2>5 DEF ApplyInit, ApplyTypeOK, StoppedIsGone
<1>3. \A S : << >> \in Seq(S)
  OBVIOUS
<1>4. t4 \in [pc : {"wait", "next", "submit"}, todo : Seq(Get), n : 0 .. QueueLen]
  <2>1. << >> \in Seq(Get) /\ 0 \in 0 .. QueueLen
    BY RepliesAssumption, <1>3
  <2> QED
    BY <2>1 DEF RepliesInit
<1>5. handed \in [gets : 0 .. Len(GetKey), writes : 0 .. MaxBatches]
  BY RepliesAssumption DEF RepliesInit
<1>6. slot \in [to : Get \cup {0}, val : Val \cup {Missing}, ok : BOOLEAN]
  BY DEF RepliesInit, NoReply
<1>7. RepliesTypeOK
  <2>1. q34 \in Seq(Seq(Get)) /\ q35 \in Seq(Seq(Write)) /\ t5 \in Seq(Write)
    BY <1>3 DEF RepliesInit
  <2>2. sq \in 0 .. QueueLen /\ cq \in 0 .. CqLen /\ refused \in BOOLEAN
    <3>1. 0 \in 0 .. QueueLen /\ 0 \in 0 .. CqLen
      BY RepliesAssumption
    <3>2. sq = 0 /\ cq = 0
      BY DEF RepliesInit
    <3>3. refused \in BOOLEAN
      BY DEF RepliesInit
    <3> QED
      BY <3>1, <3>2, <3>3
  <2> QED
    BY <2>1, <2>2, <1>4, <1>5, <1>6 DEF RepliesTypeOK
<1>8. Counted /\ Asked /\ ReplyWasHeld
  <2>1. t4.pc = "wait" /\ t4.n = 0 /\ sq = 0 /\ gone = "no"
    BY DEF RepliesInit, KvInit
  <2> QED
    BY <2>1 DEF Counted, Asked, ReplyWasHeld
<1>9. held \in [Get -> SUBSET (Val \cup {Missing, Closed})]
  OBVIOUS
<1> QED
  BY <1>1, <1>2, <1>7, <1>8, <1>9 DEF SInv, TypeOK

-----------------------------------------------------------------------------
(* The state machine leaves the store typed.                               *)
LEMMA MachineTyped ==
    ASSUME KvTypeOK, NEW cmd, kv_state_machine_apply(cmd)
    PROVE  kv' \in [Key -> Val \cup {Missing, Closed}]
<1>1. CASE cmd.type = "CMD_DELETE"
  <2>1. kv' = kv \/ kv' = [kv EXCEPT ![cmd.key] = Missing]
    BY <1>1 DEF kv_state_machine_apply, kv_store_delete
  <2> QED
    BY <2>1, StoreTyped DEF KvTypeOK
<1>2. CASE cmd.type # "CMD_DELETE"
  <2>1. kv' = kv
    BY <1>2 DEF kv_state_machine_apply
  <2> QED
    BY <2>1 DEF KvTypeOK
<1> QED
  BY <1>1, <1>2

(* Return keeps the thread a thread, and leaves the other caller alone.    *)
LEMMA ReturnTyped ==
    ASSUME ApplyTypeOK, NEW a \in Applier, Return(a)
    PROVE  /\ pc' \in [Applier -> {"none", "loop", "enter", "apply"}]
           /\ a # "thread" => pc'["thread"] = pc["thread"]
BY DEF ApplyTypeOK, Return, Applier

(* An entry that is done was in the log.                                   *)
LEMMA AppliedTyped ==
    ASSUME ApplyTypeOK, at.i <= Len(log), Applied(at.i)
    PROVE  /\ last_applied' \in 0 .. Len(log)
           /\ at' \in [i : Nat \ {0}, n : Nat \ {0}]
<1>1. at.i \in Nat \ {0} /\ at.n \in Nat \ {0} /\ Len(log) \in Nat
  BY DEF ApplyTypeOK
<1> QED
  BY <1>1 DEF Applied

(* Each step of an applier keeps its part of the invariant.                *)
LEMMA ApplierKeeps ==
    ASSUME ApplyTypeOK, KvTypeOK, StoppedIsGone, NEW a \in Applier, ApplierStep(a)
    PROVE  ApplyTypeOK' /\ KvTypeOK' /\ StoppedIsGone'
<1> USE DEF StoppedIsGone, store
<1>0. a = "thread" \/ a # "thread"
  OBVIOUS
<1>1. CASE Enter(a)
  <2>1. CASE ~machine \/ last_applied >= commit_index
    <3>1. Return(a) /\ UNCHANGED <<holder, at>>
      BY <1>1, <2>1 DEF Enter
    <3> QED
      BY <1>1, <3>1, ReturnTyped DEF Enter, ApplyTypeOK, KvTypeOK
  <2>2. CASE ~(~machine \/ last_applied >= commit_index)
    <3>1. /\ holder' = a /\ pc' = [pc EXCEPT ![a] = "apply"]
          /\ at' = [i |-> last_applied + 1, n |-> 1]
      BY <1>1, <2>2 DEF Enter
    <3>2. at' \in [i : Nat \ {0}, n : Nat \ {0}]
      BY <3>1 DEF ApplyTypeOK
    <3>3. /\ pc' \in [Applier -> {"none", "loop", "enter", "apply"}]
          /\ a # "thread" => pc'["thread"] = pc["thread"]
      BY <3>1 DEF ApplyTypeOK, Applier
    <3> QED
      BY <1>1, <3>1, <3>2, <3>3 DEF Enter, ApplyTypeOK, KvTypeOK
  <2> QED
    BY <2>1, <2>2
<1>2. CASE Leave(a)
  <2>1. Return(a) /\ pc[a] = "apply"
    BY <1>2 DEF Leave
  <2> QED
    BY <1>2, <2>1, ReturnTyped DEF Leave, ApplyTypeOK, KvTypeOK, Applier
<1>3. CASE Skip(a)
  <2>1. last_applied' \in 0 .. Len(log) /\ at' \in [i : Nat \ {0}, n : Nat \ {0}]
    BY <1>3, AppliedTyped DEF Skip
  <2> QED
    BY <1>3, <2>1 DEF Skip, ApplyTypeOK, KvTypeOK
<1>4. CASE ApplyCommand(a)
  <2>1. last_applied' \in 0 .. Len(log) /\ at' \in [i : Nat \ {0}, n : Nat \ {0}]
    <3>1. CASE at.n < Len(log[at.i].cmds)
      <4>1. at' = [at EXCEPT !.n = @ + 1] /\ UNCHANGED last_applied
        BY <1>4, <3>1 DEF ApplyCommand, apply_command_batch
      <4> QED
        BY <4>1 DEF ApplyTypeOK
    <3>2. CASE ~(at.n < Len(log[at.i].cmds))
      <4>1. Applied(at.i) /\ at.i <= Len(log)
        BY <1>4, <3>2 DEF ApplyCommand, apply_command_batch
      <4> QED
        BY <4>1, AppliedTyped
    <3> QED
      BY <3>1, <3>2
  <2>2. kv_state_machine_apply(log[at.i].cmds[at.n])
    BY <1>4 DEF ApplyCommand
  <2>3. kv' \in [Key -> Val \cup {Missing, Closed}]
    BY <2>2, MachineTyped
  <2> QED
    BY <1>4, <2>1, <2>3 DEF ApplyCommand, ApplyTypeOK, KvTypeOK
<1> QED
  BY <1>1, <1>2, <1>3, <1>4 DEF ApplierStep

(* So does each other step around the log and the apply thread.            *)
LEMMA ApplyKeeps ==
    ASSUME ApplyTypeOK, KvTypeOK, StoppedIsGone, ApplyNext
    PROVE  ApplyTypeOK' /\ KvTypeOK' /\ StoppedIsGone'
<1> USE DEF StoppedIsGone, store
<1>1. CASE AppendLog
  <2>1. PICK e \in LogEntry : log' = Append(log, e)
    BY <1>1 DEF AppendLog
  <2>2. log' \in Seq(LogEntry) /\ Len(log') = Len(log) + 1 /\ Len(log) \in Nat
    BY <2>1 DEF ApplyTypeOK
  <2>3. Len(log') <= MaxLog /\ last_applied \in 0 .. Len(log')
    BY <1>1, <2>2, ApplyAssumption DEF AppendLog, ApplyTypeOK
  <2> QED
    BY <1>1, <2>2, <2>3 DEF AppendLog, ApplyTypeOK, KvTypeOK
<1>2. CASE Commit
  <2>1. commit_index' \in 0 .. MaxLog
    <3>1. PICK n \in commit_index + 1 .. Len(log) + 1 : commit_index' = n
      BY <1>2 DEF Commit
    <3> QED
      BY <1>2, <3>1, ApplyAssumption DEF Commit, ApplyTypeOK
  <2> QED
    BY <1>2, <2>1 DEF Commit, ApplyTypeOK, KvTypeOK
<1>3. CASE InitStateMachine
  BY <1>3 DEF InitStateMachine, ApplyTypeOK, KvTypeOK
<1>4. CASE StartApply
  <2>1. CASE applying' = TRUE /\ pc' = [pc EXCEPT !["thread"] = "loop"]
    <3>1. pc' \in [Applier -> {"none", "loop", "enter", "apply"}]
      BY <2>1 DEF ApplyTypeOK
    <3> QED
      BY <1>4, <2>1, <3>1 DEF StartApply, ApplyTypeOK, KvTypeOK
  <2>2. CASE UNCHANGED <<applying, pc>>
    BY <1>4, <2>2 DEF StartApply, ApplyTypeOK, KvTypeOK
  <2> QED
    BY <1>4, <2>1, <2>2 DEF StartApply
<1>5. CASE StopApply
  BY <1>5 DEF StopApply, ApplyTypeOK, KvTypeOK
<1>6. CASE JoinApply
  BY <1>6 DEF JoinApply, ApplyTypeOK, KvTypeOK
<1>7. CASE ThreadLoop
  <2>1. pc' \in [Applier -> {"none", "loop", "enter", "apply"}]
    BY <1>7 DEF ThreadLoop, ApplyTypeOK
  <2> QED
    BY <1>7, <2>1 DEF ThreadLoop, ApplyTypeOK, KvTypeOK
<1>8. CASE CallApply
  <2>1. pc' \in [Applier -> {"none", "loop", "enter", "apply"}] /\ pc'["thread"] = pc["thread"]
    BY <1>8 DEF CallApply, ApplyTypeOK, Applier
  <2> QED
    BY <1>8, <2>1 DEF CallApply, ApplyTypeOK, KvTypeOK
<1>9. CASE \E a \in Applier : ApplierStep(a)
  BY <1>9, ApplierKeeps
<1> QED
  BY <1>1, <1>2, <1>3, <1>4, <1>5, <1>6, <1>7, <1>8, <1>9 DEF ApplyNext

-----------------------------------------------------------------------------
T4Type == [pc : {"wait", "next", "submit"}, todo : Seq(Get), n : 0 .. QueueLen]
SlotType == [to : Get \cup {0}, val : Val \cup {Missing}, ok : BOOLEAN]

(* What is submitted is a reply to a client that asked; if the lookup did  *)
(* not fail, to the client of the value its key has now.                   *)
SlotNow(g) == slot'.to = g /\ (slot'.ok => slot'.val = kv[GetKey[g]])

(* A lookup on an open store gives a value or nothing.                     *)
LEMMA ReplyTyped ==
    ASSUME KvTypeOK, KvOpen, NEW g \in Get, NEW ok \in BOOLEAN, slot' = Reply(g, ok)
    PROVE  slot' \in SlotType /\ SlotNow(g)
<1>1. GetKey[g] \in Key
  BY RepliesAssumption DEF Get
<1>2. kv[GetKey[g]] \in Val \cup {Missing}
  BY <1>1 DEF KvTypeOK, KvOpen
<1>3. kv_store_get(GetKey[g], ok) \in Val \cup {Missing}
  BY <1>2 DEF kv_store_get
<1>4. slot' = [to |-> g, val |-> kv_store_get(GetKey[g], ok), ok |-> ok]
  BY DEF Reply
<1>5. slot' \in SlotType
  BY <1>3, <1>4 DEF SlotType
<1>6. SlotNow(g)
  BY <1>4 DEF SlotNow, kv_store_get
<1> QED
  BY <1>5, <1>6

(* thread_4 keeps what it has prepared and what it has counted together.   *)
LEMMA T4Keeps ==
    ASSUME RepliesTypeOK, KvTypeOK, Counted, Asked, T4Work
    PROVE  /\ RepliesTypeOK' /\ KvTypeOK' /\ Counted' /\ Asked'
           /\ t4'.pc = "submit" => \E g \in Get : SlotNow(g)
           /\ kv' = kv
<1> USE DEF store
<1>0. QueueLen \in Nat \ {0} /\ CqLen \in Nat /\ t4 \in T4Type /\ slot \in SlotType
  BY RepliesAssumption DEF RepliesTypeOK, T4Type, SlotType
<1>t. /\ t4.pc \in {"wait", "next", "submit"} /\ t4.todo \in Seq(Get)
      /\ t4.n \in 0 .. QueueLen
  BY <1>0 DEF T4Type
<1>s. NoReply \in SlotType
  BY DEF NoReply, SlotType
<1> HIDE DEF NoReply
<1>1. CASE T4Take
  <2>1. Head(q34) \in Seq(Get) /\ Tail(q34) \in Seq(Seq(Get))
    BY <1>1, Taken DEF T4Take, RepliesTypeOK
  <2>2. t4' = [pc |-> "next", todo |-> Head(q34), n |-> 0] /\ t4.pc = "wait"
    BY <1>1 DEF T4Take
  <2>3. t4' \in T4Type
    BY <1>0, <2>1, <2>2 DEF T4Type
  <2>4. RepliesTypeOK'
    BY <1>1, <2>1, <2>3 DEF T4Take, RepliesTypeOK, T4Type
  <2>5. t4'.pc = "next" /\ t4'.n = 0 /\ t4.n = 0
    BY <2>2 DEF Counted
  <2> QED
    BY <1>0, <1>1, <2>4, <2>5 DEF T4Take, Counted, Asked, KvTypeOK
<1>2. CASE T4Prepare
  <2>0. t4.pc = "next" /\ t4.todo # << >> /\ sq < QueueLen /\ KvOpen
    BY <1>2 DEF T4Prepare
  <2>1. Head(t4.todo) \in Get /\ Tail(t4.todo) \in Seq(Get)
    BY <1>t, <2>0, Taken
  <2>2. PICK ok \in BOOLEAN : slot' = Reply(Head(t4.todo), ok)
    BY <1>2 DEF T4Prepare
  <2>3. slot' \in SlotType /\ SlotNow(Head(t4.todo))
    BY <2>0, <2>1, <2>2, ReplyTyped
  <2>4. t4.n \in 0 .. QueueLen - 1 /\ t4.n + 1 \in 0 .. QueueLen
    BY <1>0, <1>t, <2>0 DEF Counted
  <2> DEFINE after == IF Due(t4.n + 1, Tail(t4.todo)) THEN "submit" ELSE "next"
  <2>5. t4' = [todo |-> Tail(t4.todo), n |-> t4.n + 1, pc |-> after]
    BY <1>2 DEF T4Prepare
  <2>6. after \in {"wait", "next", "submit"} /\ after # "wait"
    OBVIOUS
  <2>7. after = "next" => t4.n + 1 # QueueLen /\ Tail(t4.todo) # << >>
    BY DEF Due
  <2> HIDE DEF after
  <2>8. t4' \in T4Type
    BY <2>1, <2>4, <2>5, <2>6 DEF T4Type
  <2>9. /\ t4'.pc = after /\ t4'.n = t4.n + 1 /\ t4'.todo = Tail(t4.todo)
        /\ sq' = sq + 1 /\ sq \in Nat /\ UNCHANGED <<kv, gone, refused, q34, q35, t5, cq, handed>>
    BY <1>2, <2>5 DEF T4Prepare, RepliesTypeOK
  <2>a. sq' \in 0 .. QueueLen
    BY <1>0, <2>0, <2>9
  <2>b. RepliesTypeOK'
    BY <2>3, <2>8, <2>9, <2>a DEF RepliesTypeOK, T4Type, SlotType
  <2>c. after = "next" => t4.n + 1 < QueueLen
    BY <1>0, <2>4, <2>7
  <2>d. Counted'
    BY <2>6, <2>7, <2>9, <2>c DEF Counted
  <2>e. slot'.to \in Get
    BY <2>1, <2>3 DEF SlotNow
  <2> QED
    BY <2>1, <2>3, <2>9, <2>b, <2>d, <2>e DEF KvTypeOK, Asked
<1>3. CASE T4Aborts
  <2>1. refused
    BY <1>0, <1>t, <1>3 DEF T4Aborts, Counted
  <2>2. UNCHANGED <<kv, q34, q35, t4, t5, slot, sq, cq, refused, handed>> /\ gone' = "ring"
    BY <1>3 DEF T4Aborts, replyVars
  <2>3. t4'.pc = "next"
    BY <1>3, <2>2 DEF T4Aborts
  <2>4. RepliesTypeOK'
    BY <2>2 DEF RepliesTypeOK
  <2> QED
    BY <2>1, <2>2, <2>3, <2>4 DEF Counted, Asked, KvTypeOK
<1>4. CASE T4Done
  <2>1. t4' = [t4 EXCEPT !.pc = "wait"] /\ t4.pc = "next" /\ t4.todo = << >>
    BY <1>4 DEF T4Done
  <2>2. t4' \in T4Type /\ t4'.pc = "wait" /\ t4'.n = t4.n /\ t4.n = 0
    BY <1>0, <2>1 DEF T4Type, Counted
  <2>3. RepliesTypeOK'
    BY <1>4, <2>2 DEF T4Done, RepliesTypeOK, T4Type
  <2> QED
    BY <1>4, <2>2, <2>3 DEF T4Done, Counted, Asked, KvTypeOK
<1>5. CASE T4Submit
  <2>1. t4' = [t4 EXCEPT !.pc = "next", !.n = 0] /\ sq' = 0 /\ slot' = NoReply
    BY <1>5 DEF T4Submit
  <2>2. t4' \in T4Type /\ t4'.pc = "next" /\ t4'.n = 0
    <3>1. t4' = [pc |-> "next", todo |-> t4.todo, n |-> 0]
      BY <1>0, <2>1 DEF T4Type
    <3>2. 0 \in 0 .. QueueLen
      BY <1>0
    <3> QED
      BY <1>t, <3>1, <3>2 DEF T4Type
  <2>3. cq' \in 0 .. CqLen
    <3>1. cq' = IF cq + sq <= CqLen THEN cq + sq ELSE CqLen
      BY <1>5 DEF T4Submit
    <3>2. cq \in 0 .. CqLen /\ sq \in 0 .. QueueLen
      BY DEF RepliesTypeOK
    <3> QED
      BY <1>0, <3>1, <3>2
  <2>4. RepliesTypeOK'
    <3>1. sq' \in 0 .. QueueLen
      BY <1>0, <2>1
    <3>2. slot' \in SlotType
      BY <1>s, <2>1
    <3>3. UNCHANGED <<q34, q35, t5, refused, handed>>
      BY <1>5 DEF T4Submit
    <3> QED
      BY <2>2, <2>3, <3>1, <3>2, <3>3 DEF RepliesTypeOK, T4Type, SlotType
  <2> QED
    BY <1>0, <1>5, <2>1, <2>2, <2>4 DEF T4Submit, Counted, Asked, KvTypeOK
<1>6. CASE T4Refused
  <2>1. t4' = [t4 EXCEPT !.pc = "next", !.n = 0] /\ refused' = TRUE /\ slot' = NoReply
    BY <1>6 DEF T4Refused
  <2>2. t4' \in T4Type /\ t4'.pc = "next" /\ t4'.n = 0
    <3>1. t4' = [pc |-> "next", todo |-> t4.todo, n |-> 0]
      BY <1>0, <2>1 DEF T4Type
    <3>2. 0 \in 0 .. QueueLen
      BY <1>0
    <3> QED
      BY <1>t, <3>1, <3>2 DEF T4Type
  <2>3. RepliesTypeOK'
    <3>1. slot' \in SlotType
      BY <1>s, <2>1
    <3>2. refused' \in BOOLEAN
      BY <2>1
    <3>3. UNCHANGED <<q34, q35, t5, sq, cq, handed>>
      BY <1>6 DEF T4Refused
    <3> QED
      BY <2>2, <3>1, <3>2, <3>3 DEF RepliesTypeOK, T4Type, SlotType
  <2> QED
    BY <1>0, <1>6, <2>1, <2>2, <2>3 DEF T4Refused, Counted, Asked, KvTypeOK
<1> QED
  BY <1>1, <1>2, <1>3, <1>4, <1>5, <1>6 DEF T4Work

(* The other threads leave what thread_4 has prepared alone.               *)
LEMMA OthersKeep ==
    ASSUME RepliesTypeOK, KvTypeOK, Counted, Asked,
           HandGets \/ HandWrites \/ T5Work
    PROVE  /\ RepliesTypeOK' /\ KvTypeOK' /\ Counted' /\ Asked'
           /\ UNCHANGED <<t4, slot>>
<1> USE DEF store
<1>0. /\ t4 \in T4Type /\ slot \in SlotType
      /\ handed \in [gets : 0 .. Len(GetKey), writes : 0 .. MaxBatches]
      /\ handed.gets \in Nat /\ handed.writes \in Nat
  BY DEF RepliesTypeOK, T4Type, SlotType
<1>1. CASE HandGets
  <2>1. PICK n \in handed.gets + 1 .. Len(GetKey) :
          /\ q34' = Append(q34, [k \in 1 .. n - handed.gets |-> handed.gets + k])
          /\ handed' = [handed EXCEPT !.gets = n]
    BY <1>1 DEF HandGets
  <2> DEFINE gets == [k \in 1 .. n - handed.gets |-> handed.gets + k]
  <2>2. Len(GetKey) \in Nat /\ Get = 1 .. Len(GetKey)
    BY RepliesAssumption DEF Get
  <2>3. \A k \in 1 .. n - handed.gets : handed.gets + k \in Get
    BY <1>0, <2>2
  <2>4. n - handed.gets \in Nat
    BY <1>0, <2>2
  <2>5. gets \in Seq(Get)
    BY <2>3, <2>4
  <2> HIDE DEF gets
  <2>6. q34' \in Seq(Seq(Get))
    BY <2>1, <2>5 DEF RepliesTypeOK, gets
  <2>7. handed' \in [gets : 0 .. Len(GetKey), writes : 0 .. MaxBatches]
    BY <1>0, <2>1, <2>2
  <2>8. UNCHANGED <<kv, gone, q35, t4, t5, slot, sq, cq, refused>>
    BY <1>1 DEF HandGets
  <2>9. RepliesTypeOK'
    BY <2>6, <2>7, <2>8 DEF RepliesTypeOK
  <2> QED
    BY <2>8, <2>9 DEF Counted, Asked, KvTypeOK
<1>2. CASE HandWrites
  <2>1. handed' \in [gets : 0 .. Len(GetKey), writes : 0 .. MaxBatches]
    <3>1. handed' = [handed EXCEPT !.writes = @ + 1] /\ handed.writes < MaxBatches
      BY <1>2 DEF HandWrites
    <3>2. handed.writes + 1 \in 0 .. MaxBatches
      BY <1>0, <3>1, RepliesAssumption
    <3> QED
      BY <1>0, <3>1, <3>2
  <2>2. PICK w \in Write : q35' = Append(q35, <<w>>)
    BY <1>2 DEF HandWrites
  <2>3. <<w>> \in Seq(Write)
    OBVIOUS
  <2>4. q35' \in Seq(Seq(Write))
    BY <2>2, <2>3 DEF RepliesTypeOK
  <2>5. UNCHANGED <<kv, gone, q34, t4, t5, slot, sq, cq, refused>>
    BY <1>2 DEF HandWrites
  <2>6. RepliesTypeOK'
    BY <2>1, <2>4, <2>5 DEF RepliesTypeOK
  <2> QED
    BY <2>5, <2>6 DEF Counted, Asked, KvTypeOK
<1>3. CASE T5Take
  <2>1. t5' \in Seq(Write) /\ q35' \in Seq(Seq(Write))
    BY <1>3, Taken DEF T5Take, RepliesTypeOK
  <2>2. UNCHANGED <<kv, gone, q34, t4, slot, sq, cq, refused, handed>>
    BY <1>3 DEF T5Take
  <2>3. RepliesTypeOK'
    BY <2>1, <2>2 DEF RepliesTypeOK
  <2> QED
    BY <2>2, <2>3 DEF Counted, Asked, KvTypeOK
<1>4. CASE T5Apply
  <2>1. t5 # << >> /\ t5' = Tail(t5) /\ UNCHANGED <<q34, q35, t4, slot, sq, cq, refused, handed>>
    BY <1>4 DEF T5Apply, replyVars
  <2>2. Head(t5) \in Write /\ t5' \in Seq(Write)
    BY <2>1, Taken DEF RepliesTypeOK
  <2>3. Head(t5).val \in Val
    BY <2>2, RepliesAssumption
  <2>5. gone' = gone \/ gone' = "reply"
    BY <1>4 DEF T5Apply
  <2>6. RepliesTypeOK'
    BY <2>1, <2>2 DEF RepliesTypeOK
  <2>7. kv' \in [Key -> Val \cup {Missing, Closed}]
    <3> DEFINE w == Head(t5)
    <3>1. PICK ok \in BOOLEAN : IF w.type = "CMD_DELETE"
                                THEN kv_store_delete(w.key, ok)
                                ELSE kv_store_set(w.key, w.val, ok)
      BY <1>4 DEF T5Apply
    <3>2. \/ kv' = kv \/ kv' = [kv EXCEPT ![w.key] = Missing]
          \/ kv' = [kv EXCEPT ![w.key] = w.val]
      BY <3>1 DEF kv_store_delete, kv_store_set
    <3> HIDE DEF w
    <3>3. w.val \in Val
      BY <2>3 DEF w
    <3> QED
      BY <3>2, <3>3, StoreTyped DEF KvTypeOK
  <2> QED
    BY <2>1, <2>5, <2>6, <2>7 DEF Counted, Asked, KvTypeOK
<1> QED
  BY <1>1, <1>2, <1>3, <1>4 DEF T5Work

-----------------------------------------------------------------------------
(* The history keeps what the key of a client that waits has had, and adds *)
(* what it has now.                                                        *)
LEMMA RecordKeeps ==
    ASSUME TypeOK, KvTypeOK', Record
    PROVE  /\ held' \in [Get -> SUBSET (Val \cup {Missing, Closed})]
           /\ \A g \in Get : g \in Waiting' =>
                held'[g] = held[g] \cup {kv'[GetKey[g]]}
<1>1. /\ held \in [Get -> SUBSET (Val \cup {Missing, Closed})]
      /\ \A g \in Get : GetKey[g] \in Key
  BY RepliesAssumption DEF TypeOK, Get
<1>2. \A g \in Get : kv'[GetKey[g]] \in Val \cup {Missing, Closed}
  BY <1>1 DEF KvTypeOK
<1> QED
  BY <1>1, <1>2 DEF Record

(* Each step keeps the invariant: of the state machine's side ...          *)
LEMMA ApplySideKeeps ==
    ASSUME SInv, ApplyStep(ApplyNext)
    PROVE  SInv'
<1>0. TypeOK /\ KvTypeOK /\ ApplyTypeOK /\ RepliesTypeOK /\ StoppedIsGone /\ Counted /\ Asked
      /\ ReplyWasHeld
  BY DEF SInv, TypeOK
<1>1. Running /\ ApplyNext /\ UNCHANGED replyVars /\ Record
  BY DEF ApplyStep
<1>2. ApplyTypeOK' /\ KvTypeOK' /\ StoppedIsGone'
  BY <1>0, <1>1, ApplyKeeps
<1>3. UNCHANGED <<q34, q35, t4, t5, slot, sq, cq, refused, handed>>
  BY <1>1 DEF replyVars
<1>4. RepliesTypeOK' /\ Asked'
  BY <1>0, <1>3 DEF RepliesTypeOK, Asked
<1>5. gone' = gone
  BY <1>1 DEF ApplyNext, AppendLog, Commit, InitStateMachine, StartApply, StopApply,
    JoinApply, ThreadLoop, CallApply, ApplierStep, Enter, Leave, Skip, ApplyCommand, store
<1>6. Counted'
  BY <1>0, <1>3, <1>5 DEF Counted
<1>7. /\ held' \in [Get -> SUBSET (Val \cup {Missing, Closed})]
      /\ \A g \in Get : g \in Waiting' => held'[g] = held[g] \cup {kv'[GetKey[g]]}
  BY <1>0, <1>1, <1>2, RecordKeeps
<1>8. ReplyWasHeld'
  BY <1>0, <1>3, <1>7 DEF ReplyWasHeld, Asked, Waiting
<1> QED
  BY <1>2, <1>4, <1>6, <1>7, <1>8 DEF SInv, TypeOK

(* ... of the threads that serve clients ...                               *)
LEMMA ReplySideKeeps ==
    ASSUME SInv, ReplyStep(RepliesNext)
    PROVE  SInv'
<1>0. TypeOK /\ KvTypeOK /\ ApplyTypeOK /\ RepliesTypeOK /\ StoppedIsGone /\ Counted /\ Asked
      /\ ReplyWasHeld
  BY DEF SInv, TypeOK
<1>1. RepliesNext /\ UNCHANGED applyVars /\ Record
  BY DEF ReplyStep
<1>2. ApplyTypeOK' /\ StoppedIsGone'
  BY <1>0, <1>1 DEF ApplyTypeOK, StoppedIsGone, applyVars
<1>3. /\ RepliesTypeOK' /\ KvTypeOK' /\ Counted' /\ Asked'
      /\ \/ UNCHANGED <<t4, slot>>
         \/ kv' = kv /\ (t4'.pc = "submit" => \E g \in Get : SlotNow(g))
  <2>1. CASE T4Work
    BY <1>0, <2>1, T4Keeps
  <2>2. CASE HandGets \/ HandWrites \/ T5Work
    BY <1>0, <2>2, OthersKeep
  <2> QED
    BY <1>1, <2>1, <2>2 DEF RepliesNext
<1>4. /\ held' \in [Get -> SUBSET (Val \cup {Missing, Closed})]
      /\ \A g \in Get : g \in Waiting' => held'[g] = held[g] \cup {kv'[GetKey[g]]}
  BY <1>0, <1>1, <1>3, RecordKeeps
<1>5. ReplyWasHeld'
  <2>1. CASE UNCHANGED <<t4, slot>>
    BY <1>0, <1>4, <2>1 DEF ReplyWasHeld, Asked, Waiting
  <2>2. CASE kv' = kv /\ (t4'.pc = "submit" => \E g \in Get : SlotNow(g))
    <3> SUFFICES ASSUME t4'.pc = "submit", slot'.ok
                 PROVE  slot'.val \in held'[slot'.to]
      BY DEF ReplyWasHeld
    <3>1. PICK g \in Get : SlotNow(g)
      BY <2>2
    <3>2. slot'.to = g /\ slot'.val = kv'[GetKey[g]]
      BY <2>2, <3>1 DEF SlotNow
    <3>3. g \in Waiting'
      BY <3>2 DEF Waiting
    <3> QED
      BY <1>4, <3>2, <3>3
  <2> QED
    BY <1>3, <2>1, <2>2
<1> QED
  BY <1>2, <1>3, <1>4, <1>5 DEF SInv, TypeOK

(* ... and the step that ends the process.                                 *)
LEMMA SInvNext ==
    ASSUME SInv, [Next]_vars
    PROVE  SInv'
<1>1. CASE KvAborts
  <2>1. gone' = "store" /\ UNCHANGED <<kv, applyVars, replyVars, held>>
    BY <1>1 DEF KvAborts
  <2>2. TypeOK'
    BY <2>1 DEF SInv, TypeOK, KvTypeOK, ApplyTypeOK, RepliesTypeOK, applyVars, replyVars
  <2> QED
    BY <2>1, <2>2
    DEF SInv, StoppedIsGone, Counted, Asked, ReplyWasHeld, applyVars, replyVars
<1>2. CASE UNCHANGED vars
  <2>1. UNCHANGED <<kv, gone, applyVars, replyVars, held>>
    BY <1>2 DEF vars, store
  <2>2. TypeOK'
    BY <2>1 DEF SInv, TypeOK, KvTypeOK, ApplyTypeOK, RepliesTypeOK, applyVars, replyVars
  <2> QED
    BY <2>1, <2>2
    DEF SInv, StoppedIsGone, Counted, Asked, ReplyWasHeld, applyVars, replyVars
<1> QED
  BY <1>1, <1>2, ApplySideKeeps, ReplySideKeeps DEF Next

LEMMA SInvAlways == Spec => []SInv
<1>1. Init => SInv
  BY SInvInit
<1>2. SInv /\ [Next]_vars => SInv'
  BY SInvNext
<1> QED
  BY <1>1, <1>2, PTL DEF Spec

(* Every reachable state is well typed: thread_4 never counts more sends   *)
(* than the ring has entries, and nothing is applied beyond the log.       *)
THEOREM TypeCorrect == Spec => []TypeOK
<1>1. SInv => TypeOK
  BY DEF SInv
<1> QED
  BY <1>1, SInvAlways, PTL

(* When raft_stop_apply_thread has returned, the apply thread is gone,     *)
(* whoever started and stopped it before.                                  *)
THEOREM StoppedGone == Spec => []StoppedIsGone
<1>1. SInv => StoppedIsGone
  BY DEF SInv
<1> QED
  BY <1>1, SInvAlways, PTL

(* While the kernel takes what is submitted, thread_4 leaves no reply      *)
(* behind when it waits for a batch of GETs, and it never meets a full     *)
(* ring and aborts.                                                        *)
THEOREM NoneLeft == Spec => []RepliesLeave
<1>1. SInv => RepliesLeave
  BY DEF SInv, Counted, RepliesLeave, NoReplyLeft, RingNeverFull
<1> QED
  BY <1>1, SInvAlways, PTL

(* A GET whose lookup succeeds is answered with a value that its own key   *)
(* had after thread_3 passed it on, whatever thread_5 and the apply thread *)
(* do to the store meanwhile.                                              *)
THEOREM ReplyTrue == Spec => []ReplyWasHeld
<1>1. SInv => ReplyWasHeld
  BY DEF SInv
<1> QED
  BY <1>1, SInvAlways, PTL
-----------------------------------------------------------------------------
(* What the state machine is given.  Only the holder of the mutex is in    *)
(* the loop; it is at the entry after the last applied one, and what it    *)
(* has begun is a committed command entry of the log.                      *)
Working ==
    /\ \A a \in Applier : pc[a] = "apply" => holder = a
    /\ holder # Nobody => at.i = last_applied + 1
    /\ holder # Nobody /\ at.n > 1 =>
         /\ at.i <= commit_index /\ at.i <= Len(log)
         /\ log[at.i].type = "COMMAND" /\ at.n <= Len(log[at.i].cmds)

OrderInv == Working /\ AppliedOnceInOrder

Step == Nat \X Nat    \* the pairs in attempted
Done == [i \in 1 .. last_applied |-> Commands(i)]
Begun == IF holder # Nobody THEN [n \in 1 .. at.n - 1 |-> <<at.i, n>>] ELSE << >>

LEMMA OrderIs == AppliedOnceInOrder <=> attempted = FlattenSeq(Done) \o Begun
BY DEF AppliedOnceInOrder, Done, Begun

(* The commands of an entry of the log.                                    *)
LEMMA CommandsTyped ==
    ASSUME ApplyTypeOK, NEW i \in 1 .. Len(log)
    PROVE  /\ Commands(i) \in Seq(Step)
           /\ log[i].cmds \in Seq(Command) /\ i \in Nat
           /\ log[i].type = "COMMAND" => log[i].cmds # << >>
<1>1. log[i] \in LogEntry
  BY DEF ApplyTypeOK
<1>2. log[i].cmds \in Seq(Command) /\ i \in Nat
  BY <1>1, ApplyAssumption DEF ApplyTypeOK
<1>3. CASE log[i].type = "COMMAND"
  <2>1. Len(log[i].cmds) \in Nat /\ DOMAIN log[i].cmds = 1 .. Len(log[i].cmds)
    BY <1>2
  <2>2. \A n \in 1 .. Len(log[i].cmds) : <<i, n>> \in Step
    BY <1>2, <2>1 DEF Step
  <2>3. [n \in 1 .. Len(log[i].cmds) |-> <<i, n>>] \in Seq(Step)
    BY <2>1, <2>2
  <2>4. Commands(i) = [n \in 1 .. Len(log[i].cmds) |-> <<i, n>>]
    BY <1>3, <2>1 DEF Commands
  <2> QED
    BY <1>1, <1>2, <2>3, <2>4, ApplyAssumption
<1>4. CASE log[i].type # "COMMAND"
  BY <1>2, <1>4 DEF Commands
<1> QED
  BY <1>3, <1>4

LEMMA DoneTyped ==
    ASSUME ApplyTypeOK
    PROVE  /\ Done \in Seq(Seq(Step)) /\ FlattenSeq(Done) \in Seq(Step)
           /\ Begun \in Seq(Step)
<1>1. last_applied \in Nat /\ \A i \in 1 .. last_applied : Commands(i) \in Seq(Step)
  BY CommandsTyped DEF ApplyTypeOK
<1>2. Done \in Seq(Seq(Step))
  BY <1>1 DEF Done
<1>3. at.i \in Nat /\ at.n - 1 \in Nat
  BY DEF ApplyTypeOK
<1>4. [n \in 1 .. at.n - 1 |-> <<at.i, n>>] \in Seq(Step)
  BY <1>3 DEF Step
<1> QED
  BY <1>2, <1>4, FlattenType DEF Begun

(* The log grows at its end and entries of it do not change.               *)
LEMMA DoneKeeps ==
    ASSUME ApplyTypeOK, UNCHANGED last_applied,
           log' = log \/ \E e \in LogEntry : log' = Append(log, e)
    PROVE  Done' = Done
<1>1. ASSUME NEW i \in 1 .. last_applied PROVE log'[i] = log[i]
  <2>1. log \in Seq(LogEntry) /\ Len(log) \in Nat /\ i \in 1 .. Len(log)
    BY DEF ApplyTypeOK
  <2>2. ASSUME NEW e \in LogEntry, log' = Append(log, e) PROVE log'[i] = log[i]
    BY <2>1, <2>2
  <2> QED
    BY <2>2
<1>2. \A i \in 1 .. last_applied : Commands(i)' = Commands(i)
  BY <1>1 DEF Commands
<1> QED
  BY <1>2 DEF Done

(* An entry is done: its commands are at the end.                          *)
LEMMA DoneGrows ==
    ASSUME ApplyTypeOK, UNCHANGED log, last_applied' = last_applied + 1,
           last_applied + 1 <= Len(log)
    PROVE  FlattenSeq(Done') = FlattenSeq(Done) \o Commands(last_applied + 1)
<1>1. last_applied \in Nat /\ Len(log) \in Nat
  BY DEF ApplyTypeOK
<1>2. Commands(last_applied + 1) \in Seq(Step)
  BY <1>1, CommandsTyped
<1>3. \A i : Commands(i)' = Commands(i)
  BY DEF Commands
<1>4. Done' = [i \in 1 .. last_applied + 1 |-> Commands(i)]
  BY <1>3 DEF Done
<1>5. Done' = Append(Done, Commands(last_applied + 1))
  BY <1>1, <1>4 DEF Done
<1> QED
  BY <1>2, <1>5, DoneTyped, FlattenAppend

LEMMA OrderInit == Init => OrderInv
<1> SUFFICES ASSUME Init PROVE OrderInv
  OBVIOUS
<1>1. /\ holder = Nobody /\ last_applied = 0 /\ attempted = << >>
      /\ \A a \in Applier : pc[a] = "none"
  BY DEF Init, ApplyInit
<1>2. Done = << >> /\ Begun = << >>
  BY <1>1 DEF Done, Begun
<1>3. FlattenSeq(Done) \o Begun = << >>
  BY <1>2, FlattenEmpty
<1> QED
  BY <1>1, <1>3, OrderIs DEF OrderInv, Working

(* Two threads want to apply; the mutex lets one of them in.               *)
LEMMA EnterOrder ==
    ASSUME ApplyTypeOK, OrderInv, NEW a \in Applier, Enter(a)
    PROVE  OrderInv'
<1>0. UNCHANGED <<log, last_applied, commit_index, attempted>>
  BY DEF Enter
<1>d. Done' = Done
  BY <1>0, DoneKeeps
<1>1. CASE ~machine \/ last_applied >= commit_index
  <2>1. UNCHANGED <<holder, at>> /\ Return(a)
    BY <1>1 DEF Enter
  <2>2. \A b \in Applier : pc'[b] = "apply" => pc[b] = "apply"
    BY <2>1 DEF Return, ApplyTypeOK
  <2>3. Begun' = Begun
    BY <2>1 DEF Begun
  <2> QED
    BY <1>0, <1>d, <2>1, <2>2, <2>3, OrderIs DEF OrderInv, Working, AppliedOnceInOrder, Done, Begun
<1>2. CASE ~(~machine \/ last_applied >= commit_index)
  <2>1. /\ holder = Nobody /\ holder' = a /\ pc' = [pc EXCEPT ![a] = "apply"]
        /\ at' = [i |-> last_applied + 1, n |-> 1]
    BY <1>2 DEF Enter
  <2>2. \A b \in Applier : b # Nobody
    BY DEF Applier, Nobody
  <2>3. \A b \in Applier : pc'[b] = "apply" => b = a
    BY <2>1, <2>2 DEF OrderInv, Working, ApplyTypeOK
  <2>4. Begun' = << >> /\ Begun = << >>
    BY <2>1, <2>2 DEF Begun
  <2>5. AppliedOnceInOrder'
    BY <1>0, <1>d, <2>4 DEF OrderInv, AppliedOnceInOrder, Done, Begun
  <2>6. at'.i = last_applied' + 1 /\ at'.n = 1
    BY <1>0, <2>1
  <2> QED
    BY <2>1, <2>3, <2>5, <2>6 DEF OrderInv, Working
<1> QED
  BY <1>1, <1>2

LEMMA LeaveOrder ==
    ASSUME ApplyTypeOK, OrderInv, NEW a \in Applier, Leave(a)
    PROVE  OrderInv'
<1>0. UNCHANGED <<log, last_applied, commit_index, attempted, at>> /\ holder' = Nobody /\ Return(a)
  BY DEF Leave
<1>d. Done' = Done
  BY <1>0, DoneKeeps
<1>1. holder = a /\ a # Nobody
  BY DEF Leave, OrderInv, Working, Applier, Nobody
<1>2. at.n = 1
  <2>1. at.i \in Nat /\ at.n \in Nat \ {0} /\ commit_index \in Nat /\ Len(log) \in Nat
    BY DEF ApplyTypeOK
  <2>2. ~(at.n > 1)
    BY <1>1, <2>1 DEF Leave, OrderInv, Working
  <2> QED
    BY <2>1, <2>2
<1>3. Begun = << >> /\ Begun' = << >>
  BY <1>0, <1>1, <1>2 DEF Begun
<1>4. AppliedOnceInOrder'
  BY <1>0, <1>d, <1>3 DEF OrderInv, AppliedOnceInOrder, Done, Begun
<1>5. ASSUME NEW b \in Applier PROVE pc'[b] # "apply"
  <2>1. CASE b = a
    BY <1>0, <2>1 DEF Return, ApplyTypeOK
  <2>2. CASE b # a
    <3>1. pc[b] # "apply" /\ pc'[b] = pc[b]
      BY <1>0, <1>1, <2>2 DEF OrderInv, Working, Return, ApplyTypeOK
    <3> QED
      BY <3>1
  <2> QED
    BY <2>1, <2>2
<1> QED
  BY <1>0, <1>4, <1>5 DEF OrderInv, Working

LEMMA SkipOrder ==
    ASSUME ApplyTypeOK, OrderInv, NEW a \in Applier, Skip(a)
    PROVE  OrderInv'
<1>0. /\ UNCHANGED <<log, commit_index, attempted, holder, pc>>
      /\ last_applied' = at.i /\ at' = [i |-> at.i + 1, n |-> 1]
  BY DEF Skip, Applied
<1>1. holder = a /\ a # Nobody /\ at.i = last_applied + 1
  BY DEF Skip, OrderInv, Working, Applier, Nobody
<1>2. at.i \in 1 .. Len(log) /\ at.n \in Nat \ {0} /\ at.i \in Nat
  BY DEF Skip, ApplyTypeOK
<1>3. at.n = 1 /\ Commands(at.i) = << >>
  BY <1>1, <1>2 DEF Skip, OrderInv, Working, Commands
<1>4. Begun = << >> /\ Begun' = << >>
  BY <1>0, <1>1, <1>3 DEF Begun
<1>5. FlattenSeq(Done') = FlattenSeq(Done) \o << >>
  <2>1. last_applied' = last_applied + 1 /\ last_applied + 1 <= Len(log)
    BY <1>0, <1>1, <1>2
  <2>2. FlattenSeq(Done') = FlattenSeq(Done) \o Commands(last_applied + 1)
    BY <1>0, <2>1, DoneGrows
  <2> QED
    BY <1>1, <1>3, <2>2
<1>6. attempted' = FlattenSeq(Done') \o Begun'
  BY <1>0, <1>4, <1>5, DoneTyped, OrderIs DEF OrderInv
<1>7. AppliedOnceInOrder'
  BY <1>6 DEF AppliedOnceInOrder, Done, Begun
<1>8. Working'
  BY <1>0, <1>1, <1>2 DEF OrderInv, Working
<1> QED
  BY <1>7, <1>8 DEF OrderInv

LEMMA CommandOrder ==
    ASSUME ApplyTypeOK, OrderInv, NEW a \in Applier, ApplyCommand(a)
    PROVE  OrderInv'
<1>0. /\ UNCHANGED <<log, commit_index, holder, pc>>
      /\ attempted' = Append(attempted, <<at.i, at.n>>)
      /\ log[at.i].type = "COMMAND" /\ at.i <= commit_index
      /\ apply_command_batch(at.i)
  BY DEF ApplyCommand
<1>1. holder = a /\ a # Nobody /\ at.i = last_applied + 1
  BY DEF ApplyCommand, OrderInv, Working, Applier, Nobody
<1>2. at.i \in 1 .. Len(log) /\ at.n \in Nat \ {0} /\ at.i \in Nat /\ Len(log) \in Nat
  BY DEF ApplyCommand, ApplyTypeOK
<1>3. /\ log[at.i].cmds \in Seq(Command) /\ log[at.i].cmds # << >>
      /\ Len(log[at.i].cmds) \in Nat \ {0}
  BY <1>0, <1>2, CommandsTyped
<1>4. at.n <= Len(log[at.i].cmds)
  BY <1>1, <1>2, <1>3 DEF OrderInv, Working
<1> DEFINE d == FlattenSeq(Done)
           x == <<at.i, at.n>>
           more == [n \in 1 .. at.n |-> <<at.i, n>>]
<1>5. d \in Seq(Step) /\ Begun \in Seq(Step) /\ x \in Step
  BY <1>2, DoneTyped DEF Step
<1>6. more = Append(Begun, x)
  BY <1>1, <1>2 DEF Begun
<1>7. attempted = d \o Begun
  BY OrderIs DEF OrderInv
<1> HIDE DEF d, x, more
<1>8. attempted' = d \o more
  <2>1. attempted' = Append(d \o Begun, x)
    BY <1>0, <1>7 DEF x
  <2>2. Append(d \o Begun, x) = d \o Append(Begun, x)
    BY <1>5
  <2> QED
    BY <1>6, <2>1, <2>2
<1>9. CASE at.n < Len(log[at.i].cmds)
  <2>1. at' = [at EXCEPT !.n = @ + 1] /\ UNCHANGED last_applied
    BY <1>0, <1>9 DEF apply_command_batch
  <2>2. at'.i = at.i /\ at'.n = at.n + 1 /\ at'.n - 1 = at.n
    BY <1>2, <2>1 DEF ApplyTypeOK
  <2>3. Begun' = more
    BY <1>0, <1>1, <2>2 DEF Begun, more
  <2>4. Done' = Done
    BY <1>0, <2>1, DoneKeeps
  <2>5. AppliedOnceInOrder'
    BY <1>8, <2>3, <2>4 DEF AppliedOnceInOrder, Done, Begun, d
  <2>6. at'.n <= Len(log[at.i].cmds)
    BY <1>2, <1>3, <1>9, <2>2
  <2>7. Working'
    BY <1>0, <1>1, <1>2, <2>1, <2>2, <2>6 DEF OrderInv, Working
  <2> QED
    BY <2>5, <2>7 DEF OrderInv
<1>a. CASE ~(at.n < Len(log[at.i].cmds))
  <2>1. last_applied' = at.i /\ at' = [i |-> at.i + 1, n |-> 1]
    BY <1>0, <1>a DEF apply_command_batch, Applied
  <2>2. at.n = Len(log[at.i].cmds)
    BY <1>2, <1>3, <1>4, <1>a
  <2>3. Commands(at.i) = more
    BY <1>0, <1>3, <2>2 DEF Commands, more
  <2>4. FlattenSeq(Done') = d \o more
    <3>1. last_applied' = last_applied + 1 /\ last_applied + 1 <= Len(log)
      BY <1>1, <1>2, <2>1
    <3>2. FlattenSeq(Done') = FlattenSeq(Done) \o Commands(last_applied + 1)
      BY <1>0, <3>1, DoneGrows
    <3> QED
      BY <1>1, <2>3, <3>2 DEF d
  <2>5. Begun' = << >>
    BY <1>0, <1>1, <2>1 DEF Begun
  <2>6. more \in Seq(Step)
    BY <1>2, <2>3, CommandsTyped
  <2>7. attempted' = FlattenSeq(Done') \o Begun'
    BY <1>5, <1>8, <2>4, <2>5, <2>6
  <2>8. AppliedOnceInOrder'
    BY <2>7 DEF AppliedOnceInOrder, Done, Begun
  <2>9. Working'
    BY <1>0, <1>1, <1>2, <2>1 DEF OrderInv, Working
  <2> QED
    BY <2>8, <2>9 DEF OrderInv
<1> QED
  BY <1>9, <1>a

(* Whatever else happens to the node happens outside the loop, or leaves   *)
(* the loop alone.                                                         *)
LEMMA OrderNext == ASSUME ApplyTypeOK, OrderInv, [Next]_vars PROVE OrderInv'
<1>1. ASSUME UNCHANGED <<last_applied, holder, attempted, at>>,
             \A a \in Applier : pc'[a] = "apply" => pc[a] = "apply",
             \/ UNCHANGED <<log, commit_index>>
             \/ holder = Nobody /\ (log' = log \/ \E e \in LogEntry : log' = Append(log, e))
      PROVE  OrderInv'
  <2>1. Done' = Done
    BY <1>1, DoneKeeps
  <2>2. Begun' = Begun
    BY <1>1 DEF Begun
  <2>3. AppliedOnceInOrder'
    BY <1>1, <2>1, <2>2 DEF OrderInv, AppliedOnceInOrder, Done, Begun
  <2>4. Working'
    BY <1>1 DEF OrderInv, Working
  <2> QED
    BY <2>3, <2>4 DEF OrderInv
<1>2. CASE ApplyNext
  <2>1. CASE AppendLog \/ Commit \/ InitStateMachine
    <3>1. log' = log \/ \E e \in LogEntry : log' = Append(log, e)
      BY <2>1 DEF AppendLog, Commit, InitStateMachine
    <3> QED
      BY <1>1, <2>1 DEF AppendLog, Commit, InitStateMachine
  <2>2. CASE StartApply \/ StopApply \/ JoinApply \/ ThreadLoop \/ CallApply
    <3>1. \A a \in Applier : pc'[a] = "apply" => pc[a] = "apply"
      BY <2>2 DEF StartApply, StopApply, JoinApply, ThreadLoop, CallApply, ApplyTypeOK
    <3> QED
      BY <1>1, <2>2, <3>1 DEF StartApply, StopApply, JoinApply, ThreadLoop, CallApply
  <2> QED
    BY <1>2, <2>1, <2>2, EnterOrder, LeaveOrder, SkipOrder, CommandOrder
    DEF ApplyNext, ApplierStep
<1>3. CASE UNCHANGED applyVars
  BY <1>1, <1>3 DEF applyVars
<1> QED
  BY <1>2, <1>3 DEF Next, ApplyStep, ReplyStep, KvAborts, vars

(* The state machine is given the commands of the log in their order, each *)
(* once, whoever applies them and however often the apply thread is        *)
(* stopped and started.                                                    *)
THEOREM AppliedInOrder == Spec => []AppliedOnceInOrder
<1>1. Init => OrderInv
  BY OrderInit
<1>2. SInv /\ OrderInv /\ [Next]_vars => OrderInv'
  BY OrderNext DEF SInv, TypeOK
<1>3. OrderInv => AppliedOnceInOrder
  BY DEF OrderInv
<1> QED
  BY <1>1, <1>2, <1>3, SInvAlways, PTL DEF Spec
=============================================================================

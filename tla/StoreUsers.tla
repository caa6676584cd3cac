----------------------------- MODULE StoreUsers -----------------------------
(***************************************************************************)
(* The users of one key-value store: the apply thread of src/raft_core.c   *)
(* (ApplyThread) and the threads of src/main.c that serve clients          *)
(* (ClientReplies).  None of them waits for another.                       *)
(***************************************************************************)
EXTENDS ApplyThread, ClientReplies

VARIABLE held    \* history: held[g], what g's key was since thread_3 passed g on,
                 \* as long as g waits for its answer

vars == <<store, applyVars, replyVars, held>>

Init == KvInit /\ ApplyInit /\ RepliesInit /\ held = [g \in Get |-> {}]

(* The GETs that thread_4 has still to answer.                             *)
Waiting ==
    {slot.to} \cup ToSet(t4.todo) \cup UNION {ToSet(q34[k]) : k \in DOMAIN q34}

Record ==
    held' = [g \in Get |-> IF g \in Waiting' THEN held[g] \cup {kv'[GetKey[g]]} ELSE {}]

(* All threads die with the process.                                       *)
Running == gone = "no"

ApplyStep(A) == Running /\ A /\ UNCHANGED replyVars /\ Record
ReplyStep(A) == Running /\ A /\ UNCHANGED applyVars /\ Record

(* The assertion of kv_store_get, kv_store_set and kv_store_delete fails   *)
(* for the first of them that is called.                                   *)
KvAborts ==
    /\ Running /\ ~KvOpen
    /\ \/ t4.pc = "next" /\ t4.todo # << >> /\ sq < QueueLen
       \/ t5 # << >>
       \/ \E a \in Applier :
            /\ pc[a] = "apply" /\ at.i <= commit_index /\ at.i <= Len(log)
            /\ log[at.i].type = "COMMAND"
            /\ log[at.i].cmds[at.n].type \in {"CMD_GET", "CMD_DELETE"}
    /\ gone' = "store"
    /\ UNCHANGED <<kv, applyVars, replyVars, held>>

Next == ApplyStep(ApplyNext) \/ ReplyStep(RepliesNext) \/ KvAborts

(* The threads keep running; the mutex is not kept from one that waits.    *)
Fairness ==
    /\ WF_vars(ApplyStep(ThreadLoop))
    /\ SF_vars(ApplyStep(Enter("thread")))
    /\ \A a \in Applier : WF_vars(ApplyStep(Leave(a) \/ Skip(a) \/ ApplyCommand(a)))
    /\ WF_vars(ReplyStep(T4Work)) /\ WF_vars(ReplyStep(T5Work)) /\ WF_vars(KvAborts)

Spec == Init /\ [][Next]_vars
FairSpec == Spec /\ Fairness

-----------------------------------------------------------------------------
(* Every variable has its type.                                            *)
TypeOK ==
    /\ KvTypeOK /\ ApplyTypeOK /\ RepliesTypeOK
    /\ held \in [Get -> SUBSET (Val \cup {Missing, Closed})]

(* What the state machine was given: the commands of the applied entries   *)
(* and of the entry at work, in the order of the log and each once, though *)
(* two threads may call raft_apply_committed_entries and one of them is    *)
(* stopped and started at any moment.                                      *)
Commands(i) ==
    IF log[i].type = "COMMAND" THEN [n \in DOMAIN log[i].cmds |-> <<i, n>>] ELSE << >>

AppliedOnceInOrder ==
    attempted = FlattenSeq([i \in 1 .. last_applied |-> Commands(i)])
                    \o (IF holder # Nobody THEN [n \in 1 .. at.n - 1 |-> <<at.i, n>>]
                                           ELSE << >>)

(* When raft_stop_apply_thread has returned, the apply thread is gone: the *)
(* node may be freed.                                                      *)
StoppedIsGone == ctl = "idle" /\ ~applying => pc["thread"] = "none"

(* What is committed and in the log is applied in the end, again and       *)
(* again, unless the apply thread is stopped or the process ends.          *)
CommittedIsApplied ==
    []<>(Running /\ machine /\ applying => last_applied >= commit_index
                                            \/ last_applied >= Len(log))

(* A client is sent the value of its own key, and one the key had after    *)
(* thread_3 passed the GET on: whatever the buffer and the msghdr that all *)
(* replies share are overwritten with before they are submitted.           *)
ReplyWasHeld == t4.pc = "submit" /\ slot.ok => slot.val \in held[slot.to]

(* While the kernel takes what is submitted, thread_4 leaves no reply      *)
(* behind when it waits for the next batch, which may never come ...       *)
NoReplyLeft == t4.pc = "wait" /\ ~refused => sq = 0

(* ... and it never meets a full ring.                                     *)
RingNeverFull == gone = "ring" => refused

(* Submissions come neither too late nor too early: the sends that         *)
(* thread_4 counts are those in the ring, for every division of the GETs   *)
(* into batches.                                                           *)
RepliesLeave == NoReplyLeft /\ RingNeverFull
=============================================================================

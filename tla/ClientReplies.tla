---------------------------- MODULE ClientReplies ----------------------------
(***************************************************************************)
(* How src/main.c serves clients from the key-value store: thread_4 looks  *)
(* GETs up and answers them through an io_uring, thread_5 applies SETs and *)
(* DELETEs and, on a leader, answers with sendto() (src/client_ops.c).     *)
(*                                                                         *)
(* resp_to_client_uring describes a reply by a msghdr on its own stack,    *)
(* and thread_4 builds every reply in the same buffer: all prepared sends  *)
(* of a ring describe the reply built last.  When they are submitted, the  *)
(* kernel finds it there, or finds a frame that was overwritten: a client  *)
(* is sent slot or is sent nothing.  Nobody takes completions from the     *)
(* ring: once they fill it, a kernel may refuse a submission, depending on *)
(* its version.                                                            *)
(***************************************************************************)
EXTENDS KvStore, FiniteSets, SequencesExt

CONSTANTS
    GetKey,       \* the keys of the GETs, in the order thread_3 passes them on
    Write,        \* the SETs and DELETEs: [type, key, val]
    QueueLen,     \* IOU_QUEUE_LEN
    CqLen,        \* completions the ring holds
    MaxBatches    \* bound: batches of writes

ASSUME RepliesAssumption ==
    /\ GetKey \in Seq(Key)
    /\ Write \subseteq [type : {"CMD_SET", "CMD_DELETE"}, key : Key, val : Val]
    /\ QueueLen \in Nat \ {0} /\ CqLen \in Nat /\ MaxBatches \in Nat

VARIABLES
    q34, q35,   \* _3_to_4, _3_to_5
    t4, t5,     \* where the threads are and what is left of their batches;
                \* t4.n is num_ring_added
    slot,       \* the reply the prepared sends describe
    sq,         \* sends prepared and not taken by the kernel
    cq,         \* completions nobody has taken from the ring
    refused,    \* has the kernel refused a submission?
    handed      \* how many GETs and batches of writes thread_3 has passed on

replyVars == <<q34, q35, t4, t5, slot, sq, cq, refused, handed>>

Get == DOMAIN GetKey

NoReply == [to |-> 0, val |-> Missing, ok |-> TRUE]

RepliesInit ==
    /\ q34 = << >> /\ q35 = << >>
    /\ t4 = [pc |-> "wait", todo |-> << >>, n |-> 0] /\ t5 = << >>
    /\ slot = NoReply /\ sq = 0 /\ cq = 0
    /\ refused = FALSE
    /\ handed = [gets |-> 0, writes |-> 0]

-----------------------------------------------------------------------------
(* thread_3 passes a committed batch on (external): its GETs ...           *)
HandGets ==
    /\ \E n \in handed.gets + 1 .. Len(GetKey) :
        /\ q34' = Append(q34, [k \in 1 .. n - handed.gets |-> handed.gets + k])
        /\ handed' = [handed EXCEPT !.gets = n]
    /\ UNCHANGED <<store, q35, t4, t5, slot, sq, cq, refused>>

(* ... and its writes.                                                     *)
HandWrites ==
    /\ handed.writes < MaxBatches
    /\ handed' = [handed EXCEPT !.writes = @ + 1]
    /\ \E w \in Write : q35' = Append(q35, <<w>>)
    /\ UNCHANGED <<store, q34, t4, t5, slot, sq, cq, refused>>

-----------------------------------------------------------------------------
(* thread_4 takes a batch.                                                 *)
T4Take ==
    /\ t4.pc = "wait" /\ q34 # << >>
    /\ t4' = [pc |-> "next", todo |-> Head(q34), n |-> 0]
    /\ q34' = Tail(q34)
    /\ UNCHANGED <<store, q35, t5, slot, sq, cq, refused, handed>>

(* Mutant of Reply: queued before the value is filled in.                  *)
ReplyUnfilled(g, ok) == [to |-> g, val |-> slot.val, ok |-> ok]

(* The reply to a GET; a lookup that fails looks like a missing key.       *)
Reply(g, ok) == [to |-> g, val |-> kv_store_get(GetKey[g], ok), ok |-> ok]

(* Mutant of Due: the end of the batch is looked for before the command is *)
(* counted (as in thread_5_new).                                           *)
DueUncounted(n, rest) == n = QueueLen

(* A submission is due when the ring is full and at the end of the batch.  *)
Due(n, rest) == n = QueueLen \/ rest = << >>

(* It gets a submission entry, looks the key up, builds the reply and      *)
(* prepares the send ...                                                   *)
T4Prepare ==
    /\ t4.pc = "next" /\ t4.todo # << >> /\ sq < QueueLen
    /\ KvOpen
    /\ \E ok \in BOOLEAN : slot' = Reply(Head(t4.todo), ok)
    /\ sq' = sq + 1
    /\ t4' = [todo |-> Tail(t4.todo), n |-> t4.n + 1,
              pc |-> IF Due(t4.n + 1, Tail(t4.todo)) THEN "submit" ELSE "next"]
    /\ UNCHANGED <<store, q34, q35, t5, cq, refused, handed>>

(* ... but a ring without a free entry aborts the process.                 *)
T4Aborts ==
    /\ t4.pc = "next" /\ t4.todo # << >> /\ sq = QueueLen
    /\ gone' = "ring"
    /\ UNCHANGED <<kv, replyVars>>

(* The end of the batch: the buffer is freed.                              *)
T4Done ==
    /\ t4.pc = "next" /\ t4.todo = << >>
    /\ t4' = [t4 EXCEPT !.pc = "wait"]
    /\ UNCHANGED <<store, q34, q35, t5, slot, sq, cq, refused, handed>>

(* ... io_uring_submit: every prepared send is of the reply built last,    *)
(* whose buffer then goes out of scope.                                    *)
T4Submit ==
    /\ t4.pc = "submit"
    /\ cq' = IF cq + sq <= CqLen THEN cq + sq ELSE CqLen
    /\ sq' = 0 /\ slot' = NoReply
    /\ t4' = [t4 EXCEPT !.pc = "next", !.n = 0]
    /\ UNCHANGED <<store, q34, q35, t5, refused, handed>>

(* A kernel that refuses more while the completions fill the ring; what    *)
(* io_uring_submit returns is not looked at.                               *)
T4Refused ==
    /\ t4.pc = "submit" /\ cq = CqLen
    /\ refused' = TRUE /\ slot' = NoReply
    /\ t4' = [t4 EXCEPT !.pc = "next", !.n = 0]
    /\ UNCHANGED <<store, q34, q35, t5, sq, cq, handed>>

(* thread_5 takes a batch, applies its writes one after the other and      *)
(* tells the client that it did, whatever the store returned; if the reply *)
(* cannot be sent, resp_to_client ends the process.                        *)
T5Take ==
    /\ t5 = << >> /\ q35 # << >>
    /\ t5' = Head(q35) /\ q35' = Tail(q35)
    /\ UNCHANGED <<store, q34, t4, slot, sq, cq, refused, handed>>

T5Apply ==
    /\ t5 # << >>
    /\ LET w == Head(t5) IN
       \E ok \in BOOLEAN : IF w.type = "CMD_DELETE"
                           THEN kv_store_delete(w.key, ok)
                           ELSE kv_store_set(w.key, w.val, ok)
    /\ \/ UNCHANGED gone
       \/ gone' = "reply"
    /\ t5' = Tail(t5)
    /\ UNCHANGED <<q34, q35, t4, slot, sq, cq, refused, handed>>

T4Work == T4Take \/ T4Prepare \/ T4Aborts \/ T4Done \/ T4Submit \/ T4Refused
T5Work == T5Take \/ T5Apply

RepliesNext == HandGets \/ HandWrites \/ T4Work \/ T5Work

RepliesTypeOK ==
    /\ q34 \in Seq(Seq(Get)) /\ q35 \in Seq(Seq(Write)) /\ t5 \in Seq(Write)
    /\ t4 \in [pc : {"wait", "next", "submit"}, todo : Seq(Get), n : 0 .. QueueLen]
    /\ slot \in [to : Get \cup {0}, val : Val \cup {Missing}, ok : BOOLEAN]
    /\ sq \in 0 .. QueueLen /\ cq \in 0 .. CqLen /\ refused \in BOOLEAN
    /\ handed \in [gets : 0 .. Len(GetKey), writes : 0 .. MaxBatches]
=============================================================================

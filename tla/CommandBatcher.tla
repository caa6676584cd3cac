--------------------------- MODULE CommandBatcher ---------------------------
(***************************************************************************)
(* The client path of one Raft node: raft_handle_client_command and        *)
(* process_raft_batch of src/raft_core.c on top of src/command_batcher.c.  *)
(*                                                                         *)
(* Three kinds of thread share the node: one client thread per command,    *)
(* the batch thread that command_batcher_start creates, and the event      *)
(* thread that runs elections and the RPC handlers.  A section under       *)
(* batch_mutex is one step.  The node's mutex is modelled as a lock,       *)
(* because raft_become_follower waits for the batch thread while it holds  *)
(* it; the other sections under it are one step each, taken when it is     *)
(* free.  What the code reads without a lock (state, current_term, active) *)
(* is read in a step of its own.                                           *)
(*                                                                         *)
(* A batch is the sequence of its commands and their total_length.  The    *)
(* clock is left out: a batch that holds a command may be due at any look, *)
(* is due when it is half full, and is due in the end.  next_index is the  *)
(* same for every peer and is kept once.                                   *)
(***************************************************************************)
EXTENDS Naturals, FiniteSets, SequencesExt

CONSTANTS
    Command,             \* the commands that clients send, each once
    Size,                \* [Command -> Nat]: kvs_command_len
    MAX_COMMAND_BUFFER,
    StepsDown,           \* does the event thread call raft_become_follower?
    MaxTerm              \* bound: current_term

ASSUME BatcherAssumption ==
    /\ IsFiniteSet(Command) /\ Command \cap {"batch", "event"} = {}
    /\ Size \in [Command -> Nat \ {0}]
    /\ MAX_COMMAND_BUFFER \in Nat
    /\ StepsDown \in BOOLEAN
    /\ MaxTerm \in Nat

VARIABLES
    state, current_term, log, next_index,  \* the node
    mutex,       \* the thread that holds node->mutex
    active,      \* command_batcher.active
    batch,       \* command_batcher.current_batch: its commands ...
    total_length,\* ... and its total_length
    pc,          \* where each thread is
    entry,       \* the entry a thread has in hand
    added        \* history: the batched commands in the order they were added

newBatch == <<batch, total_length>>
vars == <<state, current_term, log, next_index, mutex, active, newBatch, pc, entry,
          added>>
node == <<state, current_term, log, next_index, mutex>>

Free == "free"
Thread == Command \cup {"batch", "event"}
NoEntry == [cmds |-> << >>, term |-> 0, idx |-> 0]

Init ==
    /\ state = "FOLLOWER" /\ current_term = 0 /\ log = << >> /\ next_index = 1
    /\ mutex = Free
    /\ active = FALSE
    /\ batch = << >> /\ total_length = 0
    /\ pc = [t \in Thread |-> IF t = "batch" THEN "none" ELSE "idle"]
    /\ entry = [t \in Thread |-> NoEntry]
    /\ added = << >>

GoTo(t, where) == pc' = [pc EXCEPT ![t] = where]

(* command_batcher_new_batch.                                              *)
NewBatch == batch' = << >> /\ total_length' = 0

-----------------------------------------------------------------------------
(* raft_handle_client_command: the role is read without the mutex ...      *)
ClientCheck(c) ==
    /\ pc[c] = "idle"
    /\ GoTo(c, IF state = "LEADER" THEN "add" ELSE "refused")
    /\ UNCHANGED <<node, active, newBatch, entry, added>>

(* Mutant of Overflows: only a full batch is refused.                      *)
OverflowsWhenFull(c) == total_length >= MAX_COMMAND_BUFFER

Overflows(c) == total_length + Size[c] > MAX_COMMAND_BUFFER

(* ... command_batcher_add_command: added if it fits; otherwise the        *)
(* command gets an entry of its own.                                       *)
ClientAdd(c) ==
    /\ pc[c] = "add"
    /\ IF Overflows(c)
       THEN /\ GoTo(c, "create")
            /\ entry' = [entry EXCEPT ![c].cmds = <<c>>]
            /\ UNCHANGED <<newBatch, added>>
       ELSE /\ GoTo(c, "done")
            /\ batch' = Append(batch, c) /\ total_length' = total_length + Size[c]
            /\ added' = Append(added, c)
            /\ UNCHANGED entry
    /\ UNCHANGED <<node, active>>

-----------------------------------------------------------------------------
(* The batch thread: while the batcher is active ...                       *)
BatchLoop ==
    /\ pc["batch"] = "loop"
    /\ GoTo("batch", IF active THEN "look" ELSE "none")
    /\ UNCHANGED <<node, active, newBatch, entry, added>>

(* A batch that is half full is due at once.                               *)
HalfFull == total_length >= MAX_COMMAND_BUFFER \div 2

(* ... it sleeps when the batch is empty or not due ...                    *)
BatchSleep ==
    /\ pc["batch"] = "look"
    /\ batch = << >> \/ ~HalfFull
    /\ GoTo("batch", "loop")
    /\ UNCHANGED <<node, active, newBatch, entry, added>>

(* Mutant of BatchTake: no new batch is started.                           *)
BatchTakeCopy ==
    /\ pc["batch"] = "look" /\ batch # << >>
    /\ entry' = [entry EXCEPT !["batch"].cmds = batch]
    /\ GoTo("batch", "create")
    /\ UNCHANGED <<node, active, newBatch, added>>

(* ... or takes it, starts a new one and calls process_raft_batch.         *)
BatchTake ==
    /\ pc["batch"] = "look" /\ batch # << >>
    /\ entry' = [entry EXCEPT !["batch"].cmds = batch]
    /\ NewBatch
    /\ GoTo("batch", "create")
    /\ UNCHANGED <<node, active, added>>

-----------------------------------------------------------------------------
(* What process_raft_batch and the direct path of a client have in common: *)
(* raft_create_entry with the term of the moment ...                       *)
CreateEntry(t) ==
    /\ pc[t] = "create"
    /\ entry' = [entry EXCEPT ![t].term = current_term]
    /\ GoTo(t, "append")
    /\ UNCHANGED <<node, active, newBatch, added>>

(* ... raft_append_entry under the mutex: a copy that shares the data ...  *)
AppendEntry(t) ==
    /\ pc[t] = "append" /\ mutex = Free
    /\ log' = Append(log, [term |-> entry[t].term, cmds |-> entry[t].cmds,
                           data |-> "live"])
    /\ entry' = [entry EXCEPT ![t].idx = Len(log')]
    /\ GoTo(t, "replicate")
    /\ UNCHANGED <<state, current_term, next_index, mutex, active, newBatch, added>>

(* ... the role again, without the mutex ...                               *)
ReplicateCheck(t) ==
    /\ pc[t] = "replicate"
    /\ GoTo(t, IF state = "LEADER" THEN "advance" ELSE "free")
    /\ UNCHANGED <<node, active, newBatch, entry, added>>

(* Mutant of ReplicateLogs: the last entry is left for the next call.      *)
ReplicateLogsLate(t) ==
    /\ pc[t] = "advance" /\ mutex = Free
    /\ next_index' = IF next_index < Len(log) THEN next_index + 1 ELSE next_index
    /\ GoTo(t, "free")
    /\ UNCHANGED <<state, current_term, log, mutex, active, newBatch, entry, added>>

(* ... raft_replicate_logs: one more entry is sent ...                     *)
ReplicateLogs(t) ==
    /\ pc[t] = "advance" /\ mutex = Free
    /\ next_index' = IF next_index <= Len(log) THEN next_index + 1 ELSE next_index
    /\ GoTo(t, "free")
    /\ UNCHANGED <<state, current_term, log, mutex, active, newBatch, entry, added>>

(* Mutant of FreeEntry: the batch thread ends after its first batch.       *)
FreeEntryAndEnd(t) ==
    /\ pc[t] = "free"
    /\ log' = [log EXCEPT ![entry[t].idx].data = "freed"]
    /\ entry' = [entry EXCEPT ![t] = NoEntry]
    /\ GoTo(t, CASE t = "batch" -> "none" [] t = "event" -> "follow" [] OTHER -> "done")
    /\ UNCHANGED <<state, current_term, next_index, mutex, active, newBatch, added>>

(* ... and the entry is freed with its data, which the log points to.      *)
FreeEntry(t) ==
    /\ pc[t] = "free"
    /\ log' = [log EXCEPT ![entry[t].idx].data = "freed"]
    /\ entry' = [entry EXCEPT ![t] = NoEntry]
    /\ GoTo(t, CASE t = "batch" -> "loop" [] t = "event" -> "follow" [] OTHER -> "done")
    /\ UNCHANGED <<state, current_term, next_index, mutex, active, newBatch, added>>

-----------------------------------------------------------------------------
(* The event thread.  An election: raft_become_candidate.                  *)
BecomeCandidate ==
    /\ pc["event"] = "idle" /\ mutex = Free
    /\ state # "LEADER" /\ current_term < MaxTerm
    /\ state' = "CANDIDATE" /\ current_term' = current_term + 1
    /\ UNCHANGED <<log, next_index, mutex, active, newBatch, pc, entry, added>>

(* raft_become_leader with command_batcher_start, which does nothing if    *)
(* the batcher is still active; if pthread_create fails, there is a leader *)
(* without a batch thread.                                                 *)
BecomeLeader ==
    /\ pc["event"] = "idle" /\ mutex = Free
    /\ state = "CANDIDATE"
    /\ state' = "LEADER"
    /\ next_index' = Len(log) + 1
    /\ \/ active' = TRUE /\ pc' = IF active THEN pc ELSE [pc EXCEPT !["batch"] = "loop"]
       \/ ~active /\ UNCHANGED <<active, pc>>
    /\ UNCHANGED <<current_term, log, mutex, newBatch, entry, added>>

(* A request of a newer term: the handlers make the node a follower and    *)
(* leave the batcher alone.                                                *)
HigherTerm ==
    /\ pc["event"] = "idle" /\ mutex = Free
    /\ current_term < MaxTerm
    /\ state' = "FOLLOWER" /\ current_term' = current_term + 1
    /\ UNCHANGED <<log, next_index, mutex, active, newBatch, pc, entry, added>>

(* raft_become_follower takes the mutex; a leader stops the batcher ...    *)
BecomeFollower ==
    /\ StepsDown /\ current_term < MaxTerm
    /\ pc["event"] = "idle" /\ mutex = Free
    /\ mutex' = "event"
    /\ IF state = "LEADER" /\ active
       THEN active' = FALSE /\ GoTo("event", "join")
       ELSE GoTo("event", "follow") /\ UNCHANGED active
    /\ UNCHANGED <<state, current_term, log, next_index, newBatch, entry, added>>

(* ... waits for the batch thread and processes what is left ...           *)
StopJoin ==
    /\ pc["event"] = "join" /\ pc["batch"] = "none"
    /\ entry' = [entry EXCEPT !["event"].cmds = batch]
    /\ NewBatch
    /\ GoTo("event", IF batch = << >> THEN "follow" ELSE "create")
    /\ UNCHANGED <<node, active, added>>

(* ... and becomes a follower.                                             *)
Follow ==
    /\ pc["event"] = "follow"
    /\ state' = "FOLLOWER" /\ current_term' = current_term + 1
    /\ mutex' = Free
    /\ GoTo("event", "idle")
    /\ UNCHANGED <<log, next_index, active, newBatch, entry, added>>

-----------------------------------------------------------------------------
Process(t) ==
    \/ CreateEntry(t) \/ AppendEntry(t) \/ ReplicateCheck(t)
    \/ ReplicateLogs(t) \/ FreeEntry(t)

Next ==
    \/ \E c \in Command : ClientCheck(c) \/ ClientAdd(c)
    \/ \E t \in Thread : Process(t)
    \/ BatchLoop \/ BatchSleep \/ BatchTake
    \/ BecomeCandidate \/ BecomeLeader \/ HigherTerm
    \/ BecomeFollower \/ StopJoin \/ Follow

(* A thread that has started keeps running, and a batch is due in the end. *)
Fairness ==
    /\ \A c \in Command : WF_vars(ClientAdd(c))
    /\ \A t \in Thread : WF_vars(Process(t))
    /\ WF_vars(BatchLoop) /\ WF_vars(BatchSleep) /\ SF_vars(BatchTake)
    /\ WF_vars(StopJoin) /\ WF_vars(Follow)

Spec == Init /\ [][Next]_vars
FairSpec == Spec /\ Fairness

-----------------------------------------------------------------------------
Logged == FlattenSeq([n \in DOMAIN log |-> log[n].cmds])

Entry == [cmds : Seq(Command), term : 0 .. MaxTerm, idx : Nat]
LogEntry == [term : 0 .. MaxTerm, cmds : Seq(Command), data : {"live", "freed"}]
Place == {"none", "idle", "refused", "add", "done", "loop", "look", "create", "append",
          "replicate", "advance", "free", "join", "follow"}

(* Every variable has its type, and the batch fits its buffer.             *)
TypeOK ==
    /\ state \in {"FOLLOWER", "CANDIDATE", "LEADER"}
    /\ current_term \in 0 .. MaxTerm
    /\ log \in Seq(LogEntry)
    /\ next_index \in Nat \ {0}
    /\ mutex \in {Free, "event"}
    /\ active \in BOOLEAN
    /\ batch \in Seq(Command) /\ total_length \in 0 .. MAX_COMMAND_BUFFER
    /\ entry \in [Thread -> Entry]
    /\ pc \in [Thread -> Place]

(* The commands of those entries of a log that hold commands of cs only,   *)
(* and the commands of an entry that is not yet in the log.                *)
Batched(l, cs) ==
    FlattenSeq([n \in DOMAIN l |-> IF ToSet(l[n].cmds) \subseteq cs THEN l[n].cmds ELSE << >>])
InHand(t) == IF entry[t].idx = 0 THEN entry[t].cmds ELSE << >>

(* No batched command is lost, doubled or overtaken by another on its way  *)
(* from the current batch through the batch thread, or the thread that     *)
(* stops the batcher, to the log, and no entry of the log mixes batched    *)
(* commands with one that was refused a place in the batch.                *)
BatchesInOrder ==
    Batched(log, ToSet(added)) \o InHand("batch") \o InHand("event") \o batch = added

(* A leader has sent, or is about to send, everything in its log that is   *)
(* newer than its leadership: one replication call follows every append,   *)
(* and each call advances next_index by one.                               *)
NothingUnsent ==
    state = "LEADER" =>
        Len(log) + 1 <= next_index
                        + Cardinality({t \in Thread : pc[t] \in {"replicate", "advance"}})

(* Every command that was added to a batch reaches the log, whatever       *)
(* happens to the node's role and to other commands, unless the batcher is *)
(* stopped.                                                                *)
AddedIsLogged ==
    \A c \in Command : c \in ToSet(added) ~> c \in ToSet(Logged) \/ ~active

(* Stopping the batcher processes the commands that are left in the batch. *)
StopProcessesRest ==
    \A c \in Command :
        pc["event"] = "join" /\ c \in ToSet(batch) ~> c \in ToSet(Logged)
=============================================================================

----------------------------- MODULE ApplyThread -----------------------------
(***************************************************************************)
(* The apply loop of src/raft_core.c and the state machine behind it       *)
(* (src/kv_state_machine.c).  raft_apply_committed_entries is called by    *)
(* the apply thread and may be called by any other thread; one such call   *)
(* is modelled.  It holds the node's mutex over the whole loop, but the    *)
(* store it writes to is shared, so each command is a step.                *)
(*                                                                         *)
(* Nothing in src/ sets commit_index or appends to the log of a node that  *)
(* applies, and only raft_destroy stops the apply thread: Append, Commit   *)
(* and the calls of start and stop are external.  An entry is its type and *)
(* its commands; one with several commands is a batch, whose data is       *)
(* longer than its first command.                                          *)
(***************************************************************************)
EXTENDS KvStore, FiniteSets, SequencesExt

CONSTANTS
    LogEntry,    \* the entries that may be appended
    MaxLog       \* bound: entries in the log

Command == [type : {"CMD_NOP", "CMD_GET", "CMD_SET", "CMD_DELETE"}, key : Key]

ASSUME ApplyAssumption ==
    /\ LogEntry \subseteq [type : {"NOOP", "COMMAND"}, cmds : Seq(Command)]
    /\ \A e \in LogEntry : e.type = "COMMAND" => e.cmds # << >>
    /\ MaxLog \in Nat

VARIABLES
    log, commit_index, last_applied,   \* the node
    machine,       \* is there a state machine?
    applying,      \* applying_entries
    holder,        \* who holds node->mutex in raft_apply_committed_entries
    pc,            \* where the apply thread and the other caller are
    ctl,           \* the caller of raft_start_apply_thread and raft_stop_...
    at,            \* the loop: entry i, n - 1 of its commands done
    attempted      \* history: <<entry, command>> pairs handed to the state machine

applyVars == <<log, commit_index, last_applied, machine, applying, holder, pc, ctl, at,
               attempted>>

Applier == {"thread", "call"}
Nobody == "nobody"

ApplyInit ==
    /\ log = << >> /\ commit_index = 0 /\ last_applied = 0
    /\ machine = FALSE /\ applying = FALSE
    /\ holder = Nobody
    /\ pc = [a \in Applier |-> "none"]
    /\ ctl = "idle"
    /\ at = [i |-> 1, n |-> 1]
    /\ attempted = << >>

-----------------------------------------------------------------------------
(* raft_append_entry (external caller).                                    *)
AppendLog ==
    /\ holder = Nobody
    /\ Len(log) < MaxLog
    /\ \E e \in LogEntry : log' = Append(log, e)
    /\ UNCHANGED <<store, commit_index, last_applied, machine, applying, holder, pc, ctl,
                   at, attempted>>

(* The commit index moves (external), perhaps ahead of the log.            *)
Commit ==
    /\ holder = Nobody
    /\ \E n \in commit_index + 1 .. Len(log) + 1 : commit_index' = n
    /\ commit_index' <= MaxLog
    /\ UNCHANGED <<store, log, last_applied, machine, applying, holder, pc, ctl, at,
                   attempted>>

(* raft_init_state_machine: a machine there was is replaced.               *)
InitStateMachine ==
    /\ holder = Nobody
    /\ machine' = TRUE
    /\ UNCHANGED <<store, log, commit_index, last_applied, applying, holder, pc, ctl, at,
                   attempted>>

-----------------------------------------------------------------------------
(* raft_start_apply_thread, if there is no apply thread; pthread_create    *)
(* may fail.  A node's apply thread is started and stopped by one caller   *)
(* (external), which is still in raft_stop_apply_thread while ctl is       *)
(* "join".  Another caller that started a thread then, between the unlock  *)
(* and the join, would leave two of them and one handle; it is left out.   *)
StartApply ==
    /\ ctl = "idle" /\ holder = Nobody
    /\ applying = FALSE
    /\ \/ applying' = TRUE /\ pc' = [pc EXCEPT !["thread"] = "loop"]
       \/ UNCHANGED <<applying, pc>>
    /\ UNCHANGED <<store, log, commit_index, last_applied, machine, holder, ctl, at,
                   attempted>>

(* Mutant of StopApply: the flag is cleared and the thread is not awaited. *)
StopApplyHasty ==
    /\ ctl = "idle" /\ holder = Nobody
    /\ applying
    /\ applying' = FALSE
    /\ UNCHANGED <<store, log, commit_index, last_applied, machine, holder, pc, ctl, at,
                   attempted>>

(* raft_stop_apply_thread clears the flag ...                              *)
StopApply ==
    /\ ctl = "idle" /\ holder = Nobody
    /\ applying
    /\ applying' = FALSE
    /\ ctl' = "join"
    /\ UNCHANGED <<store, log, commit_index, last_applied, machine, holder, pc, at,
                   attempted>>

(* ... and waits for the thread without the mutex.                         *)
JoinApply ==
    /\ ctl = "join" /\ pc["thread"] = "none"
    /\ ctl' = "idle"
    /\ UNCHANGED <<store, log, commit_index, last_applied, machine, applying, holder, pc,
                   at, attempted>>

(* The loop of the apply thread.                                           *)
ThreadLoop ==
    /\ pc["thread"] = "loop"
    /\ pc' = [pc EXCEPT !["thread"] = IF applying THEN "enter" ELSE "none"]
    /\ UNCHANGED <<store, log, commit_index, last_applied, machine, applying, holder, ctl,
                   at, attempted>>

(* Another thread calls raft_apply_committed_entries.                      *)
CallApply ==
    /\ pc["call"] = "none"
    /\ pc' = [pc EXCEPT !["call"] = "enter"]
    /\ UNCHANGED <<store, log, commit_index, last_applied, machine, applying, holder, ctl,
                   at, attempted>>

-----------------------------------------------------------------------------
Return(a) == pc' = [pc EXCEPT ![a] = IF a = "thread" THEN "loop" ELSE "none"]

(* Mutant of Enter: the mutex is not taken.                                *)
EnterUnlocked(a) ==
    /\ pc[a] = "enter"
    /\ IF ~machine \/ last_applied >= commit_index
       THEN Return(a) /\ UNCHANGED <<holder, at>>
       ELSE /\ holder' = a
            /\ pc' = [pc EXCEPT ![a] = "apply"]
            /\ at' = [i |-> last_applied + 1, n |-> 1]
    /\ UNCHANGED <<store, log, commit_index, last_applied, machine, applying, ctl,
                   attempted>>

(* Mutant of Enter: the last committed entry is left out.                  *)
EnterShort(a) ==
    /\ pc[a] = "enter"
    /\ ~machine \/ holder = Nobody
    /\ IF ~machine \/ last_applied + 1 >= commit_index
       THEN Return(a) /\ UNCHANGED <<holder, at>>
       ELSE /\ holder' = a
            /\ pc' = [pc EXCEPT ![a] = "apply"]
            /\ at' = [i |-> last_applied + 1, n |-> 1]
    /\ UNCHANGED <<store, log, commit_index, last_applied, machine, applying, ctl,
                   attempted>>

(* raft_apply_committed_entries: nothing to do without a state machine or  *)
(* an entry to apply; otherwise the loop starts, under the mutex.          *)
Enter(a) ==
    /\ pc[a] = "enter"
    /\ ~machine \/ holder = Nobody
    /\ IF ~machine \/ last_applied >= commit_index
       THEN Return(a) /\ UNCHANGED <<holder, at>>
       ELSE /\ holder' = a
            /\ pc' = [pc EXCEPT ![a] = "apply"]
            /\ at' = [i |-> last_applied + 1, n |-> 1]
    /\ UNCHANGED <<store, log, commit_index, last_applied, machine, applying, ctl,
                   attempted>>

(* The end of the loop: everything committed is applied, or the log ends.  *)
Leave(a) ==
    /\ pc[a] = "apply"
    /\ at.i > commit_index \/ at.i > Len(log)
    /\ holder' = Nobody
    /\ Return(a)
    /\ UNCHANGED <<store, log, commit_index, last_applied, machine, applying, ctl, at,
                   attempted>>

(* Mutant of Applied: the index of the next entry is recorded.             *)
AppliedNext(i) == last_applied' = i + 1 /\ at' = [i |-> i + 1, n |-> 1]

(* The entry is done, whatever became of its commands.                     *)
Applied(i) == last_applied' = i /\ at' = [i |-> i + 1, n |-> 1]

(* An entry that is not a command is skipped.                              *)
Skip(a) ==
    /\ pc[a] = "apply"
    /\ at.i <= commit_index /\ at.i <= Len(log)
    /\ log[at.i].type # "COMMAND"
    /\ Applied(at.i)
    /\ UNCHANGED <<store, log, commit_index, machine, applying, holder, pc, ctl,
                   attempted>>

(* kv_state_machine_apply: what it does to the store.  The call that sets  *)
(* a value is commented out, and what a command returns is only logged.    *)
kv_state_machine_apply(cmd) ==
    CASE cmd.type = "CMD_DELETE" -> \E ok \in BOOLEAN : kv_store_delete(cmd.key, ok)
      [] cmd.type = "CMD_GET" -> KvOpen /\ UNCHANGED kv
      [] OTHER -> UNCHANGED kv

(* apply_command_batch goes on to the next command, whatever became of     *)
(* those before it; an entry with one command is done.                     *)
apply_command_batch(i) ==
    IF at.n < Len(log[i].cmds)
    THEN at' = [at EXCEPT !.n = @ + 1] /\ UNCHANGED last_applied
    ELSE Applied(i)

(* A command of the entry goes to the state machine.                       *)
ApplyCommand(a) ==
    /\ pc[a] = "apply"
    /\ at.i <= commit_index /\ at.i <= Len(log)
    /\ log[at.i].type = "COMMAND"
    /\ kv_state_machine_apply(log[at.i].cmds[at.n])
    /\ attempted' = Append(attempted, <<at.i, at.n>>)
    /\ apply_command_batch(at.i)
    /\ UNCHANGED <<gone, log, commit_index, machine, applying, holder, pc, ctl>>

-----------------------------------------------------------------------------
ApplierStep(a) == Enter(a) \/ Leave(a) \/ Skip(a) \/ ApplyCommand(a)

ApplyNext ==
    \/ AppendLog \/ Commit \/ InitStateMachine
    \/ StartApply \/ StopApply \/ JoinApply
    \/ ThreadLoop \/ CallApply
    \/ \E a \in Applier : ApplierStep(a)

ApplyTypeOK ==
    /\ log \in Seq(LogEntry) /\ Len(log) <= MaxLog
    /\ commit_index \in 0 .. MaxLog /\ last_applied \in 0 .. Len(log)
    /\ machine \in BOOLEAN /\ applying \in BOOLEAN
    /\ holder \in Applier \cup {Nobody} /\ ctl \in {"idle", "join"}
    /\ pc \in [Applier -> {"none", "loop", "enter", "apply"}]
    /\ at \in [i : Nat \ {0}, n : Nat \ {0}]
=============================================================================

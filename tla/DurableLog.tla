----------------------------- MODULE DurableLog -----------------------------
(***************************************************************************)
(* What a log file promises to the server, with no word on how the file is *)
(* laid out: appends begin and finish, in any order when two threads       *)
(* append at once; a failure abandons those in progress; a recovery        *)
(* answers with a batch that was not over before some finished batch       *)
(* began, or the log is given up.                                          *)
(***************************************************************************)
EXTENDS Naturals

CONSTANT MaxBatches

VARIABLES
    up,      \* "up", "down" or "aborted"
    begun,   \* number of appends begun; a batch is the number of its append
    active,  \* the batches in progress
    done,    \* the batches whose append has finished
    before,  \* before[b]: the batches that were over when b began
    found    \* the batch the last recovery answered with

vars == <<up, begun, active, done, before, found>>

Init ==
    /\ up = "up" /\ begun = 0 /\ active = {} /\ done = {} /\ found = 0
    /\ before = [b \in 1 .. MaxBatches |-> {}]

Begin ==
    /\ up = "up" /\ begun < MaxBatches
    /\ begun' = begun + 1
    /\ active' = active \cup {begun + 1}
    /\ before' = [before EXCEPT ![begun + 1] = (1 .. begun) \ active]
    /\ UNCHANGED <<up, done, found>>

Finish(b) ==
    /\ up = "up" /\ b \in active
    /\ active' = active \ {b}
    /\ done' = done \cup {b}
    /\ UNCHANGED <<up, begun, before, found>>

Fail ==
    /\ up = "up"
    /\ up' \in {"down", "aborted"}
    /\ active' = {}
    /\ UNCHANGED <<begun, done, before, found>>

(* Is x an answer that loses nothing?  Nothing was over after x ended.     *)
NotOlder(x) == \A b \in done : x # 0 /\ x \notin before[b]

Recover(x) ==
    /\ up = "down" /\ NotOlder(x)
    /\ up' = "up" /\ found' = x
    /\ UNCHANGED <<begun, active, done, before>>

GiveUp ==
    /\ up = "down" /\ up' = "aborted"
    /\ UNCHANGED <<begun, active, done, before, found>>

Next ==
    \/ Begin \/ Fail \/ GiveUp
    \/ \E b \in 1 .. MaxBatches : Finish(b)
    \/ \E x \in 0 .. MaxBatches : Recover(x)

Spec == Init /\ [][Next]_vars
=============================================================================

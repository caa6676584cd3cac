------------------------------- MODULE Ledger -------------------------------
(***************************************************************************)
(* What a server promises about client writes: every node logs them, takes *)
(* them up from its log, in order and each once, tries each once on its    *)
(* store, which may refuse it, and acknowledges a write before it takes up *)
(* the next, or never.                                                     *)
(***************************************************************************)
EXTENDS Naturals, SequencesExt

CONSTANT Node

VARIABLES
    log,    \* log[i]: the writes that were logged
    taken,  \* taken[i]: the writes tried on the store, in order
    stored, \* stored[i]: the writes that the store took
    acked   \* acked[i]: the writes acknowledged to clients

vars == <<log, taken, stored, acked>>

Init ==
    /\ log = [i \in Node |-> << >>]
    /\ taken = [i \in Node |-> << >>]
    /\ stored = [i \in Node |-> {}]
    /\ acked = [i \in Node |-> {}]

(* A batch of writes goes to the end of the log.                           *)
Record(i) ==
    /\ IsPrefix(log[i], log'[i])
    /\ log' = [log EXCEPT ![i] = log'[i]]
    /\ UNCHANGED <<taken, stored, acked>>

(* The next write of the log is tried on the store, which takes it or not. *)
TakeUp(i) ==
    /\ Len(taken[i]) < Len(log[i])
    /\ LET w == log[i][Len(taken[i]) + 1] IN
        /\ taken' = [taken EXCEPT ![i] = Append(@, w)]
        /\ stored' \in {stored, [stored EXCEPT ![i] = @ \cup {w}]}
    /\ UNCHANGED <<log, acked>>

(* The write that was tried last is acknowledged.                          *)
Acknowledge(i) ==
    /\ taken[i] # << >>
    /\ acked' = [acked EXCEPT ![i] = @ \cup {Last(taken[i])}]
    /\ UNCHANGED <<log, taken, stored>>

Next == \E i \in Node : Record(i) \/ TakeUp(i) \/ Acknowledge(i)

Spec == Init /\ [][Next]_vars
=============================================================================

----------------------------- MODULE MCStartup -----------------------------
EXTENDS Startup, SequencesExt

LineOf(k, a) == [kind |-> k, ip |-> a, port |-> a]
Lines == [a \in 1 .. N |-> LineOf("node", a)]
Skipped == {LineOf("no address", 8), LineOf("no port", 9)}
Addresses == [i \in Node |-> [ip |-> i + 1, port |-> i + 1]]

(* The nodes' lines alone, with a line that is skipped before any of them, *)
(* and with one that is no ip.                                             *)
CopiesOfClusterTxt ==
    {Lines, << LineOf("not an ip", 7) >> \o Lines}
    \cup {InsertAt(Lines, n, l) : n \in 1 .. N, l \in Skipped}
    \cup {InsertAt(InsertAt(Lines, n, l), n, m) : n \in 1 .. N, l, m \in Skipped}
=============================================================================

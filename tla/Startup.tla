------------------------------ MODULE Startup ------------------------------
(***************************************************************************)
(* main of src/main.c on every node, up to its threads: parse_ip_addr      *)
(* reads the node's copy of cluster.txt, then the log file, the queues,    *)
(* the store and the clients' sockets are opened and init_cluster runs.    *)
(*                                                                         *)
(* A line of cluster.txt is the address it names, as ip and port, and what *)
(* parse_ip_addr makes of it:                                              *)
(*   "node"        a node, whose id is the number of nodes before it       *)
(*   "no address"  no colon, no ip or one that is too long: skipped        *)
(*   "no port"     no port or one out of range: skipped, but the ip has    *)
(*                 been copied by then                                     *)
(*   "not an ip"   inet_pton refuses the ip: the process aborts            *)
(***************************************************************************)
EXTENDS ClusterInit

CONSTANTS
    MAX_NODES,
    Address,  \* Address[i]: where node i is to listen, as ip and port
    Files     \* the copies of cluster.txt the nodes may have

Slot == 0 .. MAX_NODES - 1
Empty == [ip |-> 0, port |-> 0]
Line == [kind : {"node", "no address", "no port", "not an ip"}, ip : Nat, port : Nat]

(* The lines of a copy that name a node, at the places at, are those of    *)
(* the N nodes in their order.                                             *)
NamesNodes(f, at) ==
    /\ \A k \in Node :
        f[at[k]] = [kind |-> "node", ip |-> Address[k].ip, port |-> Address[k].port]
    /\ \A k, l \in Node : k < l => at[k] < at[l]
    /\ \A n \in 1 .. Len(f) : f[n].kind = "node" => \E k \in Node : at[k] = n

(* The nodes have addresses of their own, and the copies name the same     *)
(* nodes in the same order, among lines that are skipped or abort.         *)
ASSUME StartupAssumption ==
    /\ MAX_NODES \in Nat /\ N <= MAX_NODES
    /\ Address \in [Node -> [ip : Nat, port : Nat]]
    /\ \A k, l \in Node : Address[k] = Address[l] => k = l
    /\ \A f \in Files : /\ f \in Seq(Line)
                        /\ \E at \in [Node -> 1 .. Len(f)] : NamesNodes(f, at)

VARIABLE cluster   \* cluster[i]: what node i has read from its copy

startVars == <<vars, cluster>>

Unread == [nodes |-> [k \in Slot |-> Empty], num_nodes |-> 0, parsed |-> TRUE]

(* Mutant of ParseLine: a line without a port takes an id.                 *)
ParseLineCounted(c, l) ==
    IF c.num_nodes = MAX_NODES \/ ~c.parsed \/ l.kind = "no address" THEN c
    ELSE CASE l.kind = "not an ip" -> [c EXCEPT !.parsed = FALSE]
           [] l.kind = "no port" ->
                [c EXCEPT !.nodes[c.num_nodes].ip = l.ip, !.num_nodes = @ + 1]
           [] l.kind = "node" ->
                [c EXCEPT !.nodes[c.num_nodes] = [ip |-> l.ip, port |-> l.port],
                          !.num_nodes = @ + 1]

(* One line, unless the table is full: a node takes the next slot, and a   *)
(* line that is skipped late leaves its ip in it.                          *)
ParseLine(c, l) ==
    IF c.num_nodes = MAX_NODES \/ ~c.parsed \/ l.kind = "no address" THEN c
    ELSE CASE l.kind = "not an ip" -> [c EXCEPT !.parsed = FALSE]
           [] l.kind = "no port" -> [c EXCEPT !.nodes[c.num_nodes].ip = l.ip]
           [] l.kind = "node" ->
                [c EXCEPT !.nodes[c.num_nodes] = [ip |-> l.ip, port |-> l.port],
                          !.num_nodes = @ + 1]

parse_ip_addr(file) ==
    LET after[n \in 0 .. Len(file)] ==
            IF n = 0 THEN Unread ELSE ParseLine(after[n - 1], file[n])
    IN  after[Len(file)]

Parsed == {parse_ip_addr(f) : f \in Files}

SInit == Init /\ cluster = [i \in Node |-> Unread]

Started(i) == cluster[i] # Unread

(* main up to init_cluster.  An assertion that fails, or a file or socket  *)
(* that cannot be opened (Exit), ends the process.                         *)
Start(i) ==
    /\ pc[i] = "start" /\ ~Started(i)
    /\ \E c \in Parsed :
        IF c.parsed /\ i < MAX_NODES /\ i < c.num_nodes
        THEN cluster' = [cluster EXCEPT ![i] = c] /\ UNCHANGED vars
        ELSE Gone(i) /\ UNCHANGED cluster

InitCluster(i) == Started(i) /\ Step(i) /\ UNCHANGED cluster
Fail(i) == Exit(i) /\ UNCHANGED cluster

SNext == \E i \in Node : Start(i) \/ InitCluster(i) \/ Fail(i)

SSpec == SInit /\ [][SNext]_startVars
SFairSpec == SSpec /\ \A i \in Node : WF_startVars(Start(i) \/ InitCluster(i))

-----------------------------------------------------------------------------
(* Every process takes an id for the same address, another for each id,    *)
(* whichever lines its copy of cluster.txt has besides the nodes: a node   *)
(* that connects to an id reaches the process that listens for it.         *)
IdsAgree ==
    \A i, j \in Node : Started(i) /\ Started(j) =>
        /\ \A k \in Node : cluster[i].nodes[k] = cluster[j].nodes[k]
        /\ \A k, l \in Node : cluster[i].nodes[k] = cluster[i].nodes[l] => k = l
        /\ cluster[i].num_nodes = N
=============================================================================

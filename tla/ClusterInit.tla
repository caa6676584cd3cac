----------------------------- MODULE ClusterInit -----------------------------
(***************************************************************************)
(* init_cluster of src/main.c on every node: the TCP connection of every   *)
(* pair of nodes, made by the lower id to the higher.  A node first        *)
(* accepts one connection from every lower id, then connects to the higher *)
(* ids one after the other, trying again while it is refused.  The two     *)
(* sides of a connection exchange their ids.                               *)
(*                                                                         *)
(* backlog[i] is the listening socket's queue: connect() succeeds as soon  *)
(* as the connection is in it.  Nodes agree on cluster.txt, so that every  *)
(* id they exchange is the one expected.  A process whose system call      *)
(* fails exits, and nobody starts it again.                                *)
(***************************************************************************)
EXTENDS Naturals, Sequences, FiniteSets

CONSTANT N   \* num_nodes

ASSUME ClusterAssumption == N \in Nat

Node == 0 .. N - 1

VARIABLES
    pc,        \* where each node is in init_cluster
    incoming,  \* connections accepted so far
    target,    \* the node being connected to
    backlog,   \* connections that have not been accepted
    answered,  \* has the peer answered the connection in progress?
    node_fds   \* the peers a node has a connection with

vars == <<pc, incoming, target, backlog, answered, node_fds>>

(* Mutant of FirstTarget: a node starts with itself.                       *)
FirstTargetSelf(i) == i

(* The lowest id that a node connects to.                                  *)
FirstTarget(i) == i + 1

Init ==
    /\ pc = [i \in Node |-> "start"]
    /\ incoming = [i \in Node |-> 0]
    /\ target = [i \in Node |-> FirstTarget(i)]
    /\ backlog = [i \in Node |-> << >>]
    /\ answered = [i \in Node |-> FALSE]
    /\ node_fds = [i \in Node |-> {}]

(* socket, bind and listen.                                                *)
Listen(i) ==
    /\ pc[i] = "start"
    /\ pc' = [pc EXCEPT ![i] = "accept"]
    /\ UNCHANGED <<incoming, target, backlog, answered, node_fds>>

Listening(i) == pc[i] \notin {"start", "done", "exit"}

(* accept, read the peer's id, answer with the own id.  The connection may *)
(* be that of a process that has exited since it sent its id.  An id that  *)
(* is not lower, whose connection the code closes, is never read, since    *)
(* only lower ids connect and all nodes agree on them.                     *)
Accept(i) ==
    /\ pc[i] = "accept" /\ incoming[i] < i
    /\ backlog[i] # << >>
    /\ LET peer == Head(backlog[i]) IN
        /\ answered' = [answered EXCEPT ![peer] = TRUE]
        /\ node_fds' = [node_fds EXCEPT ![i] = @ \cup {peer}]
    /\ backlog' = [backlog EXCEPT ![i] = Tail(@)]
    /\ incoming' = [incoming EXCEPT ![i] = @ + 1]
    /\ UNCHANGED <<pc, target>>

(* Mutant of AcceptedAll: one connection less than there are lower ids.    *)
AcceptedAllButOne(i) ==
    /\ pc[i] = "accept" /\ incoming[i] + 1 >= i
    /\ pc' = [pc EXCEPT ![i] = "connect"]
    /\ UNCHANGED <<incoming, target, backlog, answered, node_fds>>

(* All the lower ids have connected.                                       *)
AcceptedAll(i) ==
    /\ pc[i] = "accept" /\ incoming[i] = i
    /\ pc' = [pc EXCEPT ![i] = "connect"]
    /\ UNCHANGED <<incoming, target, backlog, answered, node_fds>>

(* connect and send the own id; a peer that does not listen refuses, and   *)
(* the node tries again.                                                   *)
Connect(i) ==
    /\ pc[i] = "connect" /\ target[i] < N
    /\ Listening(target[i])
    /\ backlog' = [backlog EXCEPT ![target[i]] = Append(@, i)]
    /\ pc' = [pc EXCEPT ![i] = "answer"]
    /\ UNCHANGED <<incoming, target, answered, node_fds>>

(* Mutant of Answer: the descriptor is not stored.                         *)
AnswerForgotten(i) ==
    /\ pc[i] = "answer" /\ answered[i]
    /\ target' = [target EXCEPT ![i] = @ + 1]
    /\ answered' = [answered EXCEPT ![i] = FALSE]
    /\ pc' = [pc EXCEPT ![i] = "connect"]
    /\ UNCHANGED <<incoming, backlog, node_fds>>

(* Read the peer's id and keep the connection.                             *)
Answer(i) ==
    /\ pc[i] = "answer" /\ answered[i]
    /\ node_fds' = [node_fds EXCEPT ![i] = @ \cup {target[i]}]
    /\ target' = [target EXCEPT ![i] = @ + 1]
    /\ answered' = [answered EXCEPT ![i] = FALSE]
    /\ pc' = [pc EXCEPT ![i] = "connect"]
    /\ UNCHANGED <<incoming, backlog>>

(* Connected to all the higher ids: the listening socket is closed.        *)
Close(i) ==
    /\ pc[i] = "connect" /\ target[i] = N
    /\ pc' = [pc EXCEPT ![i] = "done"]
    /\ UNCHANGED <<incoming, target, backlog, answered, node_fds>>

(* The process is gone, and the connections that wait for it are reset.    *)
Gone(i) ==
    /\ pc' = [pc EXCEPT ![i] = "exit"]
    /\ backlog' = [backlog EXCEPT ![i] = << >>]
    /\ UNCHANGED <<incoming, target, answered, node_fds>>

(* Any system call of init_cluster may fail.                               *)
Exit(i) == pc[i] \notin {"done", "exit"} /\ Gone(i)

(* Mutant of Reset: a node does not notice that its peer is gone.          *)
ResetUnseen(i) ==
    /\ pc[i] = "answer" /\ ~answered[i] /\ pc[target[i]] = "done"
    /\ Gone(i)

(* The peer is gone, or listens no more, and has not answered: the read()  *)
(* of its id fails.                                                        *)
Reset(i) ==
    /\ pc[i] = "answer" /\ ~answered[i] /\ ~Listening(target[i])
    /\ Gone(i)

Step(i) ==
    \/ Listen(i) \/ Accept(i) \/ AcceptedAll(i)
    \/ Connect(i) \/ Answer(i) \/ Close(i) \/ Reset(i)

Next == \E i \in Node : Step(i) \/ Exit(i)

Spec == Init /\ [][Next]_vars
FairSpec == Spec /\ \A i \in Node : WF_vars(Step(i))

-----------------------------------------------------------------------------
(* Every variable has its type; in particular node_fds is only written at  *)
(* ids of peers.                                                           *)
TypeOK ==
    /\ pc \in [Node -> {"start", "accept", "connect", "answer", "done", "exit"}]
    /\ incoming \in [Node -> Nat]
    /\ target \in [Node -> 1 .. N]
    /\ backlog \in [Node -> Seq(Node)]
    /\ answered \in [Node -> BOOLEAN]
    /\ node_fds \in [Node -> SUBSET Node]

(* A node returns from init_cluster only with a connection to every other  *)
(* node, of which the other end is stored or has the answer that lets it   *)
(* be stored, whichever processes fail meanwhile.                          *)
FullyConnected ==
    \A i \in Node : pc[i] = "done" =>
        /\ node_fds[i] = Node \ {i}
        /\ \A j \in Node \ {i} :
            \/ i \in node_fds[j]
            \/ pc[j] \in {"answer", "exit"} /\ answered[j] /\ target[j] = i

(* No connection is lost in the queue of a listening socket that is closed *)
(* or no longer accepted from.                                             *)
NobodyStranded ==
    \A i \in Node : pc[i] \in {"connect", "answer", "done"} => backlog[i] = << >>

(* Unless a process fails, every node returns from init_cluster: accepting *)
(* before connecting never makes the nodes wait for one another in a       *)
(* circle.                                                                 *)
AllReturn ==
    <>((\A i \in Node : pc[i] = "done") \/ (\E i \in Node : pc[i] = "exit"))

(* Whichever processes fail, no node waits for ever for the answer to a    *)
(* connection it made: it comes, or the connection is reset.               *)
AnswerComes == \A i \in Node : pc[i] = "answer" ~> pc[i] # "answer"
=============================================================================

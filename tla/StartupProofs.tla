---------------------------- MODULE StartupProofs ----------------------------
(***************************************************************************)
(* For every number of nodes and all copies of cluster.txt that name the   *)
(* same nodes, the processes that start agree on the ids, and init_cluster *)
(* returns with a connection to every other node and strands nobody.       *)
(*                                                                         *)
(* The argument for init_cluster counts: a node has accepted as many       *)
(* connections as there are lower ids it has a connection with, so that    *)
(* when it stops accepting it has all of them.  That for parse_ip_addr     *)
(* goes through the lines of a copy: after each, the table holds the nodes *)
(* that were named so far.                                                 *)
(***************************************************************************)
EXTENDS Startup, Flattening, FiniteSetTheorems

Lower(i) == 0 .. i - 1

(* Where a node is and what it has done agree.                             *)
Progress ==
    \A i \in Node :
        /\ target[i] > i
        /\ pc[i] \in {"start", "accept"} => target[i] = i + 1
        /\ pc[i] = "done" => target[i] = N
        /\ pc[i] = "answer" => target[i] < N
        /\ answered[i] => pc[i] \in {"answer", "exit"}
        /\ pc[i] \in {"connect", "answer", "done"} => incoming[i] = i

(* Who is in a queue waits there for an answer, once.                      *)
Waiting ==
    \A i \in Node : \A k \in 1 .. Len(backlog[i]) :
        LET j == backlog[i][k] IN
        /\ j < i /\ pc[j] \in {"answer", "exit"} /\ target[j] = i /\ ~answered[j]
        /\ \A l \in 1 .. Len(backlog[i]) : backlog[i][l] = j => l = k

(* The higher ids a node has a connection with are those it is done with.  *)
Upward ==
    \A i, j \in Node : i < j => (j \in node_fds[i] <=> target[i] > j)

(* A node has accepted a lower id when that id has it behind it, or has    *)
(* its answer.                                                             *)
Downward ==
    \A i, j \in Node : j < i =>
        (j \in node_fds[i] <=> target[j] > i \/ (target[j] = i /\ answered[j]))

NoSelf == \A i \in Node : i \notin node_fds[i]

Counted ==
    \A i \in Node : incoming[i] = Cardinality(node_fds[i] \cap Lower(i))

CInv == TypeOK /\ Progress /\ Waiting /\ Upward /\ Downward /\ NoSelf /\ Counted

(* A node that has accepted as many connections as there are lower ids has *)
(* one with each of them.                                                  *)
LEMMA AllLower ==
    ASSUME TypeOK, Counted, NEW i \in Node, incoming[i] = i
    PROVE  Lower(i) \subseteq node_fds[i]
<1>1. i \in Nat
  BY ClusterAssumption DEF Node
<1>2. IsFiniteSet(Lower(i)) /\ Cardinality(Lower(i)) = i
  BY <1>1, FS_Interval DEF Lower
<1>3. Cardinality(node_fds[i] \cap Lower(i)) = i
  BY DEF Counted
<1>4. node_fds[i] \cap Lower(i) = Lower(i)
  <2>1. node_fds[i] \cap Lower(i) \subseteq Lower(i)
    OBVIOUS
  <2> QED
    BY <1>2, <1>3, <2>1, FS_Subset
<1> QED
  BY <1>4

(* The initial state satisfies the invariant.                              *)
LEMMA CInvInit == Init => CInv
<1> SUFFICES ASSUME Init PROVE CInv
  OBVIOUS
<1> USE ClusterAssumption
<1>1. TypeOK
  BY DEF Init, FirstTarget, TypeOK, Node
<1>2. Progress /\ NoSelf
  BY DEF Init, FirstTarget, Progress, Node, NoSelf
<1>3. Waiting
  BY DEF Init, Waiting
<1>4. Upward /\ Downward
  BY DEF Init, FirstTarget, Upward, Downward, Node
<1>5. Counted
  <2>1. ASSUME NEW i \in Node PROVE incoming[i] = Cardinality(node_fds[i] \cap Lower(i))
    <3>1. node_fds[i] \cap Lower(i) = {}
      BY DEF Init
    <3> QED
      BY <3>1, FS_EmptySet DEF Init
  <2> QED
    BY <2>1 DEF Counted
<1> QED
  BY <1>1, <1>2, <1>3, <1>4, <1>5 DEF CInv

(* A step that changes neither queues nor answers, and moves no node that  *)
(* waits for one.                                                          *)
LEMMA WaitingKept ==
    ASSUME TypeOK, Waiting, UNCHANGED <<backlog, target, answered>>,
           \A j \in Node : pc[j] \in {"answer", "exit"} => pc'[j] = pc[j]
    PROVE  Waiting'
<1> SUFFICES ASSUME NEW i \in Node, NEW k \in 1 .. Len(backlog[i])
             PROVE  LET j == backlog[i][k] IN
                    /\ j < i /\ pc'[j] \in {"answer", "exit"} /\ target[j] = i /\ ~answered[j]
                    /\ \A l \in 1 .. Len(backlog[i]) : backlog[i][l] = j => l = k
  BY DEF Waiting
<1>1. backlog[i][k] \in Node
  BY DEF TypeOK
<1>2. LET j == backlog[i][k] IN
      /\ j < i /\ pc[j] \in {"answer", "exit"} /\ target[j] = i /\ ~answered[j]
      /\ \A l \in 1 .. Len(backlog[i]) : backlog[i][l] = j => l = k
  BY DEF Waiting
<1> QED
  BY <1>1, <1>2

(* Every step keeps the invariant.                                         *)
LEMMA CInvNext == CInv /\ [Next]_vars => CInv'
<1> SUFFICES ASSUME CInv, [Next]_vars PROVE CInv'
  OBVIOUS
<1> USE ClusterAssumption
<1>T. TypeOK /\ Progress /\ Waiting /\ Upward /\ Downward /\ NoSelf /\ Counted
  BY DEF CInv
<1>1. ASSUME UNCHANGED vars PROVE CInv'
  <2>1. UNCHANGED <<pc, incoming, target, backlog, answered, node_fds>>
    BY <1>1 DEF vars
  <2>2. TypeOK' /\ Progress'
    BY <1>T, <2>1 DEF TypeOK, Progress
  <2>3. Waiting'
    BY <1>T, <2>1, WaitingKept
  <2>4. Upward' /\ Downward' /\ NoSelf' /\ Counted'
    BY <1>T, <2>1 DEF Upward, Downward, NoSelf, Counted
  <2> QED
    BY <2>2, <2>3, <2>4 DEF CInv
<1>2. ASSUME NEW i \in Node, Listen(i) PROVE CInv'
  <2>1. TypeOK' /\ Progress'
    BY <1>2, <1>T DEF Listen, TypeOK, Progress
  <2>2. Waiting'
    BY <1>2, <1>T, WaitingKept DEF Listen, TypeOK
  <2>3. Upward' /\ Downward' /\ NoSelf' /\ Counted'
    BY <1>2, <1>T DEF Listen, Upward, Downward, NoSelf, Counted
  <2> QED
    BY <2>1, <2>2, <2>3 DEF CInv
<1>3. ASSUME NEW i \in Node, AcceptedAll(i) PROVE CInv'
  <2>1. TypeOK' /\ Progress'
    BY <1>3, <1>T DEF AcceptedAll, TypeOK, Progress
  <2>2. Waiting'
    BY <1>3, <1>T, WaitingKept DEF AcceptedAll, TypeOK
  <2>3. Upward' /\ Downward' /\ NoSelf' /\ Counted'
    BY <1>3, <1>T DEF AcceptedAll, Upward, Downward, NoSelf, Counted
  <2> QED
    BY <2>1, <2>2, <2>3 DEF CInv
<1>4. ASSUME NEW i \in Node, Close(i) PROVE CInv'
  <2>1. TypeOK' /\ Progress'
    BY <1>4, <1>T DEF Close, TypeOK, Progress
  <2>2. Waiting'
    BY <1>4, <1>T, WaitingKept DEF Close, TypeOK
  <2>3. Upward' /\ Downward' /\ NoSelf' /\ Counted'
    BY <1>4, <1>T DEF Close, Upward, Downward, NoSelf, Counted
  <2> QED
    BY <2>1, <2>2, <2>3 DEF CInv
<1>5. ASSUME NEW i \in Node, Accept(i) PROVE CInv'
  <2> DEFINE peer == Head(backlog[i])
  <2>1. /\ backlog[i] \in Seq(Node) /\ backlog[i] # << >>
        /\ Len(backlog[i]) \in Nat \ {0} /\ peer = backlog[i][1] /\ peer \in Node
    BY <1>5, <1>T DEF Accept, TypeOK
  <2>2. peer < i /\ pc[peer] \in {"answer", "exit"} /\ target[peer] = i /\ ~answered[peer]
    BY <1>T, <2>1 DEF Waiting
  <2>3. /\ answered' = [answered EXCEPT ![peer] = TRUE]
        /\ node_fds' = [node_fds EXCEPT ![i] = @ \cup {peer}]
        /\ backlog' = [backlog EXCEPT ![i] = Tail(@)]
        /\ incoming' = [incoming EXCEPT ![i] = @ + 1]
        /\ UNCHANGED <<pc, target>> /\ pc[i] = "accept"
    BY <1>5 DEF Accept
  <2>4. TypeOK'
    <3> HIDE DEF peer
    <3>1. incoming \in [Node -> Nat] /\ answered \in [Node -> BOOLEAN]
      BY <1>T DEF TypeOK
    <3>2. incoming' \in [Node -> Nat]
      BY <2>3, <3>1
    <3>3. answered' \in [Node -> BOOLEAN]
      BY <2>3, <3>1
    <3>4. Tail(backlog[i]) \in Seq(Node)
      BY <2>1
    <3>5. backlog' \in [Node -> Seq(Node)]
      BY <1>T, <2>3, <3>4 DEF TypeOK
    <3>6. node_fds' \in [Node -> SUBSET Node]
      BY <1>T, <2>1, <2>3 DEF TypeOK
    <3> QED
      BY <1>T, <2>3, <3>5, <3>6, <3>2, <3>3 DEF TypeOK
  <2>5. Progress'
    BY <1>T, <2>1, <2>2, <2>3 DEF Progress, TypeOK
  <2>6. Waiting'
    <3> SUFFICES ASSUME NEW n \in Node, NEW k \in 1 .. Len(backlog'[n])
                 PROVE  LET j == backlog'[n][k] IN
                        /\ j < n /\ pc[j] \in {"answer", "exit"} /\ target[j] = n /\ ~answered'[j]
                        /\ \A l \in 1 .. Len(backlog'[n]) : backlog'[n][l] = j => l = k
      <4>1. pc' = pc /\ target' = target
        BY <2>3
      <4> QED
        BY <4>1 DEF Waiting
    <3>1. CASE n = i
      <4>1. backlog'[n] = Tail(backlog[i])
        BY <1>T, <2>3, <3>1 DEF TypeOK
      <4>2. Len(backlog'[n]) = Len(backlog[i]) - 1
            /\ \A l \in 1 .. Len(backlog'[n]) : backlog'[n][l] = backlog[i][l + 1]
        BY <2>1, <4>1
      <4>3. k + 1 \in 1 .. Len(backlog[i]) /\ 1 \in 1 .. Len(backlog[i])
        BY <2>1, <4>2
      <4>4. backlog[i][k + 1] # peer
        BY <1>T, <2>1, <4>3 DEF Waiting
      <4>5. backlog[i][k + 1] \in Node
        BY <2>1, <4>3
      <4>6. ~answered'[backlog[i][k + 1]]
        BY <1>T, <2>3, <4>3, <4>4, <4>5 DEF Waiting, TypeOK
      <4>7. ASSUME NEW l \in 1 .. Len(backlog'[n]), backlog'[n][l] = backlog'[n][k]
            PROVE  l = k
        <5>0. Len(backlog[i]) \in Nat
          BY <2>1
        <5>1. l + 1 \in 1 .. Len(backlog[i]) /\ backlog[i][l + 1] = backlog[i][k + 1]
          <6>1. l + 1 \in 1 .. Len(backlog[i])
            BY <4>2, <5>0
          <6>2. backlog'[n][l] = backlog[i][l + 1] /\ backlog'[n][k] = backlog[i][k + 1]
            BY <4>2
          <6> QED
            BY <4>7, <6>1, <6>2
        <5>2. l + 1 = k + 1
          BY <1>T, <4>3, <5>1 DEF Waiting
        <5> QED
          BY <5>2, <4>2, <2>1
      <4> QED
        BY <1>T, <3>1, <4>2, <4>3, <4>6, <4>7 DEF Waiting
    <3>2. CASE n # i
      <4>1. backlog'[n] = backlog[n] /\ backlog[n] \in Seq(Node)
        BY <1>T, <2>3, <3>2 DEF TypeOK
      <4>2. target[backlog[n][k]] = n /\ ~answered[backlog[n][k]] /\ backlog[n][k] \in Node
        BY <1>T, <4>1 DEF Waiting
      <4>3. ~answered'[backlog[n][k]]
        BY <1>T, <2>2, <2>3, <3>2, <4>2 DEF TypeOK
      <4> QED
        BY <1>T, <4>1, <4>3 DEF Waiting
    <3> QED
      BY <3>1, <3>2
  <2>7. Upward' /\ NoSelf'
    <3>1. \A n, j \in Node : j >= n => (j \in node_fds'[n] <=> j \in node_fds[n])
      <4> SUFFICES ASSUME NEW n \in Node, NEW j \in Node, j >= n
                   PROVE  j \in node_fds'[n] <=> j \in node_fds[n]
        OBVIOUS
      <4>1. CASE n = i
        <5>1. j # peer
          BY <2>1, <2>2, <4>1 DEF Node
        <5> QED
          BY <1>T, <2>3, <4>1, <5>1 DEF TypeOK
      <4>2. CASE n # i
        BY <1>T, <2>3, <4>2 DEF TypeOK
      <4> QED
        BY <4>1, <4>2
    <3>2. Upward'
      BY <1>T, <2>3, <3>1 DEF Upward, Node
    <3>3. NoSelf'
      BY <1>T, <3>1 DEF NoSelf, Node
    <3> QED
      BY <3>2, <3>3
  <2>8. Downward'
    <3> SUFFICES ASSUME NEW n \in Node, NEW j \in Node, j < n
                 PROVE  j \in node_fds'[n]
                        <=> target[j] > n \/ (target[j] = n /\ answered'[j])
      BY <2>3 DEF Downward
    <3>0. j \in node_fds[n] <=> target[j] > n \/ (target[j] = n /\ answered[j])
      BY <1>T DEF Downward
    <3>1. CASE n = i /\ j = peer
      BY <1>T, <2>1, <2>2, <2>3, <3>1 DEF TypeOK
    <3>2. CASE n = i /\ j # peer
      BY <1>T, <2>1, <2>3, <3>0, <3>2 DEF TypeOK
    <3>3. CASE n # i /\ j = peer
      BY <1>T, <2>1, <2>2, <2>3, <3>0, <3>3 DEF TypeOK
    <3>4. CASE n # i /\ j # peer
      BY <1>T, <2>1, <2>3, <3>0, <3>4 DEF TypeOK
    <3> QED
      BY <3>1, <3>2, <3>3, <3>4
  <2>9. Counted'
    <3> SUFFICES ASSUME NEW n \in Node
                 PROVE  incoming'[n] = Cardinality(node_fds'[n] \cap Lower(n))
      BY DEF Counted
    <3>1. CASE n = i
      <4>1. peer \notin node_fds[i]
        BY <1>T, <2>1, <2>2 DEF Downward, TypeOK, Node
      <4>2. node_fds'[i] \cap Lower(i) = (node_fds[i] \cap Lower(i)) \cup {peer}
        <5>1. peer \in Lower(i)
          BY <2>1, <2>2 DEF Lower, Node
        <5>2. node_fds'[i] = node_fds[i] \cup {peer}
          BY <1>T, <2>3 DEF TypeOK
        <5> QED
          BY <5>1, <5>2
      <4>3. IsFiniteSet(node_fds[i] \cap Lower(i))
        <5>1. IsFiniteSet(Lower(i))
          BY FS_Interval DEF Lower, Node
        <5> QED
          BY <5>1, FS_Subset
      <4>4. Cardinality((node_fds[i] \cap Lower(i)) \cup {peer})
                = Cardinality(node_fds[i] \cap Lower(i)) + 1
        BY <4>1, <4>3, FS_AddElement
      <4> QED
        BY <1>T, <2>3, <3>1, <4>2, <4>4 DEF Counted, TypeOK
    <3>2. CASE n # i
      BY <1>T, <2>3, <3>2 DEF Counted, TypeOK
    <3> QED
      BY <3>1, <3>2
  <2> QED
    BY <2>4, <2>5, <2>6, <2>7, <2>8, <2>9 DEF CInv
<1>6. ASSUME NEW i \in Node, Connect(i) PROVE CInv'
  <2> DEFINE t == target[i]
  <2>1. /\ pc[i] = "connect" /\ t \in Node /\ t > i /\ Listening(t)
        /\ backlog' = [backlog EXCEPT ![t] = Append(@, i)]
        /\ pc' = [pc EXCEPT ![i] = "answer"]
        /\ UNCHANGED <<incoming, target, answered, node_fds>>
    <3>1. /\ pc[i] = "connect" /\ t < N /\ Listening(t)
          /\ backlog' = [backlog EXCEPT ![t] = Append(@, i)]
          /\ pc' = [pc EXCEPT ![i] = "answer"]
          /\ UNCHANGED <<incoming, target, answered, node_fds>>
      BY <1>6 DEF Connect
    <3>2. t > i /\ t \in Nat
      BY <1>T DEF Progress, TypeOK
    <3> QED
      BY <3>1, <3>2 DEF Node
  <2>2. ~answered[i]
    BY <1>T, <2>1 DEF Progress
  <2>3. TypeOK'
    BY <1>T, <2>1 DEF TypeOK
  <2>4. Progress'
    <3> SUFFICES ASSUME NEW n \in Node
                 PROVE  /\ target[n] > n
                        /\ pc'[n] \in {"start", "accept"} => target[n] = n + 1
                        /\ pc'[n] = "done" => target[n] = N
                        /\ pc'[n] = "answer" => target[n] < N
                        /\ answered[n] => pc'[n] \in {"answer", "exit"}
                        /\ pc'[n] \in {"connect", "answer", "done"} => incoming[n] = n
      BY <2>1 DEF Progress
    <3>1. CASE n = i
      <4>1. pc'[n] = "answer" /\ target[n] < N
        BY <1>T, <2>1, <3>1 DEF TypeOK, Node
      <4>2. target[n] > n /\ incoming[n] = n
        BY <1>T, <2>1, <3>1 DEF Progress
      <4> QED
        BY <4>1, <4>2
    <3>2. CASE n # i
      <4>1. pc'[n] = pc[n]
        BY <1>T, <2>1, <3>2 DEF TypeOK
      <4> QED
        BY <1>T, <4>1 DEF Progress
    <3> QED
      BY <3>1, <3>2
  <2>5. Waiting'
    <3> SUFFICES ASSUME NEW n \in Node, NEW k \in 1 .. Len(backlog'[n])
                 PROVE  LET j == backlog'[n][k] IN
                        /\ j < n /\ pc'[j] \in {"answer", "exit"} /\ target[j] = n /\ ~answered[j]
                        /\ \A l \in 1 .. Len(backlog'[n]) : backlog'[n][l] = j => l = k
      BY <2>1 DEF Waiting
    <3>1. backlog[n] \in Seq(Node)
      BY <1>T DEF TypeOK
    <3>2. \A l \in 1 .. Len(backlog[n]) : backlog[n][l] # i /\ backlog[n][l] \in Node
      BY <1>T, <2>1, <3>1 DEF Waiting
    <3>3. CASE n = t
      <4>1. backlog'[n] = Append(backlog[n], i)
        BY <1>T, <2>1, <3>3 DEF TypeOK
      <4>2. Len(backlog'[n]) = Len(backlog[n]) + 1 /\ backlog'[n][Len(backlog[n]) + 1] = i
            /\ \A l \in 1 .. Len(backlog[n]) : backlog'[n][l] = backlog[n][l]
        BY <3>1, <4>1
      <4>3. CASE k = Len(backlog[n]) + 1
        <5>1. \A l \in 1 .. Len(backlog'[n]) : backlog'[n][l] = i => l = k
          BY <3>1, <3>2, <4>2, <4>3
        <5>2. pc'[i] = "answer"
          BY <1>T, <2>1 DEF TypeOK
        <5> QED
          BY <2>1, <2>2, <3>3, <4>2, <4>3, <5>1, <5>2
      <4>4. CASE k \in 1 .. Len(backlog[n])
        <5>0. \A l \in 1 .. Len(backlog[n]) : backlog[n][l] = backlog[n][k] => l = k
          BY <1>T, <4>4 DEF Waiting
        <5>1. \A l \in 1 .. Len(backlog'[n]) : backlog'[n][l] = backlog[n][k] => l = k
          <6> TAKE l \in 1 .. Len(backlog'[n])
          <6>1. l = Len(backlog[n]) + 1 \/ l \in 1 .. Len(backlog[n])
            BY <3>1, <4>2
          <6>2. backlog[n][k] # i
            BY <3>2, <4>4
          <6> QED
            BY <4>2, <5>0, <6>1, <6>2
        <5>2. pc'[backlog[n][k]] = pc[backlog[n][k]]
          BY <1>T, <2>1, <3>2, <4>4 DEF TypeOK
        <5> QED
          BY <1>T, <4>2, <4>4, <5>1, <5>2 DEF Waiting
      <4> QED
        BY <3>1, <4>2, <4>3, <4>4
    <3>4. CASE n # t
      <4>1. backlog'[n] = backlog[n]
        BY <1>T, <2>1, <3>4 DEF TypeOK
      <4>2. pc'[backlog[n][k]] = pc[backlog[n][k]]
        BY <1>T, <2>1, <3>2, <4>1 DEF TypeOK
      <4> QED
        BY <1>T, <4>1, <4>2 DEF Waiting
    <3> QED
      BY <3>3, <3>4
  <2>6. Upward' /\ Downward' /\ NoSelf' /\ Counted'
    BY <1>T, <2>1 DEF Upward, Downward, NoSelf, Counted
  <2> QED
    BY <2>3, <2>4, <2>5, <2>6 DEF CInv
<1>7. ASSUME NEW i \in Node, Answer(i) PROVE CInv'
  <2> DEFINE t == target[i]
  <2>1. /\ pc[i] = "answer" /\ answered[i] /\ t \in Node /\ t > i
        /\ node_fds' = [node_fds EXCEPT ![i] = @ \cup {t}]
        /\ target' = [target EXCEPT ![i] = t + 1]
        /\ answered' = [answered EXCEPT ![i] = FALSE]
        /\ pc' = [pc EXCEPT ![i] = "connect"]
        /\ UNCHANGED <<incoming, backlog>>
    <3>1. /\ pc[i] = "answer" /\ answered[i]
          /\ node_fds' = [node_fds EXCEPT ![i] = @ \cup {t}]
          /\ target' = [target EXCEPT ![i] = t + 1]
          /\ answered' = [answered EXCEPT ![i] = FALSE]
          /\ pc' = [pc EXCEPT ![i] = "connect"]
          /\ UNCHANGED <<incoming, backlog>>
      BY <1>7 DEF Answer
    <3>2. t > i /\ t < N /\ t \in Nat
      BY <1>T, <3>1 DEF Progress, TypeOK
    <3> QED
      BY <3>1, <3>2 DEF Node
  <2>2. TypeOK'
    <3>1. t + 1 \in 1 .. N
      BY <2>1 DEF Node
    <3>2. target' \in [Node -> 1 .. N]
      BY <1>T, <2>1, <3>1 DEF TypeOK
    <3>3. node_fds' \in [Node -> SUBSET Node]
      BY <1>T, <2>1 DEF TypeOK
    <3> QED
      BY <1>T, <2>1, <3>2, <3>3 DEF TypeOK
  <2>3. Progress'
    <3> SUFFICES ASSUME NEW n \in Node
                 PROVE  /\ target'[n] > n
                        /\ pc'[n] \in {"start", "accept"} => target'[n] = n + 1
                        /\ pc'[n] = "done" => target'[n] = N
                        /\ pc'[n] = "answer" => target'[n] < N
                        /\ answered'[n] => pc'[n] \in {"answer", "exit"}
                        /\ pc'[n] \in {"connect", "answer", "done"} => incoming'[n] = n
      BY DEF Progress
    <3>1. CASE n = i
      <4>1. target'[n] = t + 1 /\ pc'[n] = "connect" /\ ~answered'[n]
            /\ incoming'[n] = incoming[i]
        BY <1>T, <2>1, <3>1 DEF TypeOK
      <4>2. incoming[i] = i /\ t + 1 > i
        BY <1>T, <2>1 DEF Progress, Node
      <4> QED
        BY <3>1, <4>1, <4>2
    <3>2. CASE n # i
      <4>1. target'[n] = target[n] /\ pc'[n] = pc[n] /\ answered'[n] = answered[n]
            /\ incoming'[n] = incoming[n]
        BY <1>T, <2>1, <3>2 DEF TypeOK
      <4> QED
        BY <1>T, <4>1 DEF Progress
    <3> QED
      BY <3>1, <3>2
  <2>4. Waiting'
    <3> SUFFICES ASSUME NEW n \in Node, NEW k \in 1 .. Len(backlog[n])
                 PROVE  LET j == backlog[n][k] IN
                        /\ j < n /\ pc'[j] \in {"answer", "exit"} /\ target'[j] = n /\ ~answered'[j]
                        /\ \A l \in 1 .. Len(backlog[n]) : backlog[n][l] = j => l = k
      BY <2>1 DEF Waiting
    <3>1. backlog[n][k] \in Node /\ ~answered[backlog[n][k]]
      BY <1>T DEF Waiting, TypeOK
    <3>2. backlog[n][k] # i
      BY <2>1, <3>1
    <3>3. /\ pc'[backlog[n][k]] = pc[backlog[n][k]]
          /\ target'[backlog[n][k]] = target[backlog[n][k]]
          /\ answered'[backlog[n][k]] = answered[backlog[n][k]]
      BY <1>T, <2>1, <3>1, <3>2 DEF TypeOK
    <3> QED
      BY <1>T, <3>3 DEF Waiting
  <2>5. Upward'
    <3> SUFFICES ASSUME NEW n \in Node, NEW j \in Node, n < j
                 PROVE  j \in node_fds'[n] <=> target'[n] > j
      BY DEF Upward
    <3>1. j \in node_fds[n] <=> target[n] > j
      BY <1>T DEF Upward
    <3>2. CASE n = i
      BY <1>T, <2>1, <3>1, <3>2 DEF TypeOK, Node
    <3>3. CASE n # i
      BY <1>T, <2>1, <3>1, <3>3 DEF TypeOK
    <3> QED
      BY <3>2, <3>3
  <2>6. Downward'
    <3> SUFFICES ASSUME NEW n \in Node, NEW j \in Node, j < n
                 PROVE  j \in node_fds'[n]
                        <=> target'[j] > n \/ (target'[j] = n /\ answered'[j])
      BY DEF Downward
    <3>1. j \in node_fds[n] <=> target[j] > n \/ (target[j] = n /\ answered[j])
      BY <1>T DEF Downward
    <3>2. j \in node_fds'[n] <=> j \in node_fds[n]
      <4>1. CASE n = i
        <5>1. j # t
          BY <2>1, <4>1 DEF Node
        <5>2. node_fds'[n] = node_fds[n] \cup {t}
          BY <1>T, <2>1, <4>1 DEF TypeOK
        <5> QED
          BY <5>1, <5>2
      <4>2. CASE n # i
        BY <1>T, <2>1, <4>2 DEF TypeOK
      <4> QED
        BY <4>1, <4>2
    <3>3. CASE j = i
      <4>1. target'[j] = t + 1 /\ ~answered'[j]
        BY <1>T, <2>1, <3>3 DEF TypeOK
      <4>2. t \in Int /\ n \in Int
        BY <2>1 DEF Node
      <4>3. j \in node_fds[n] <=> t >= n
        BY <2>1, <3>1, <3>3, <4>2
      <4> QED
        BY <3>2, <4>1, <4>2, <4>3
    <3>4. CASE j # i
      BY <1>T, <2>1, <3>1, <3>2, <3>4 DEF TypeOK
    <3> QED
      BY <3>3, <3>4
  <2>7. NoSelf'
    <3> SUFFICES ASSUME NEW n \in Node PROVE n \notin node_fds'[n]
      BY DEF NoSelf
    <3>1. n \notin node_fds[n]
      BY <1>T DEF NoSelf
    <3>2. CASE n = i
      <4>1. n # t
        BY <2>1, <3>2 DEF Node
      <4>2. node_fds'[n] = node_fds[n] \cup {t}
        BY <1>T, <2>1, <3>2 DEF TypeOK
      <4> QED
        BY <3>1, <4>1, <4>2
    <3>3. CASE n # i
      BY <1>T, <2>1, <3>1, <3>3 DEF TypeOK
    <3> QED
      BY <3>2, <3>3
  <2>8. Counted'
    <3> SUFFICES ASSUME NEW n \in Node
                 PROVE  incoming[n] = Cardinality(node_fds'[n] \cap Lower(n))
      BY <2>1 DEF Counted
    <3>1. node_fds'[n] \cap Lower(n) = node_fds[n] \cap Lower(n)
      <4>1. CASE n = i
        <5>1. t \notin Lower(n)
          BY <2>1, <4>1 DEF Lower, Node
        <5>2. node_fds'[n] = node_fds[n] \cup {t}
          BY <1>T, <2>1, <4>1 DEF TypeOK
        <5> QED
          BY <5>1, <5>2
      <4>2. CASE n # i
        BY <1>T, <2>1, <4>2 DEF TypeOK
      <4> QED
        BY <4>1, <4>2
    <3> QED
      BY <1>T, <3>1 DEF Counted
  <2> QED
    BY <2>2, <2>3, <2>4, <2>5, <2>6, <2>7, <2>8 DEF CInv
<1>8. ASSUME NEW i \in Node, Gone(i), pc[i] \notin {"done", "exit"} PROVE CInv'
  <2>1. /\ pc' = [pc EXCEPT ![i] = "exit"]
        /\ backlog' = [backlog EXCEPT ![i] = << >>]
        /\ UNCHANGED <<incoming, target, answered, node_fds>>
    BY <1>8 DEF Gone
  <2>2. TypeOK'
    BY <1>T, <2>1 DEF TypeOK
  <2>3. Progress'
    BY <1>T, <2>1 DEF Progress, TypeOK
  <2>4. Waiting'
    <3> SUFFICES ASSUME NEW n \in Node, NEW k \in 1 .. Len(backlog'[n])
                 PROVE  LET j == backlog'[n][k] IN
                        /\ j < n /\ pc'[j] \in {"answer", "exit"} /\ target[j] = n /\ ~answered[j]
                        /\ \A l \in 1 .. Len(backlog'[n]) : backlog'[n][l] = j => l = k
      BY <2>1 DEF Waiting
    <3>1. n # i
      BY <1>T, <2>1 DEF TypeOK
    <3>2. backlog'[n] = backlog[n] /\ backlog[n][k] \in Node
      BY <1>T, <2>1, <3>1 DEF TypeOK
    <3>3. pc'[backlog[n][k]] \in {pc[backlog[n][k]], "exit"}
      BY <1>T, <2>1, <3>2 DEF TypeOK
    <3> QED
      BY <1>T, <3>2, <3>3 DEF Waiting
  <2>5. Upward' /\ Downward' /\ NoSelf' /\ Counted'
    BY <1>T, <2>1 DEF Upward, Downward, NoSelf, Counted
  <2> QED
    BY <2>2, <2>3, <2>4, <2>5 DEF CInv
<1>9. ASSUME NEW i \in Node, Exit(i) \/ Reset(i) PROVE CInv'
  BY <1>8, <1>9 DEF Exit, Reset
<1> QED
  BY <1>1, <1>2, <1>3, <1>4, <1>5, <1>6, <1>7, <1>9 DEF Next, Step

(* Type correctness of the cluster's start-up.                             *)
THEOREM TypeCorrect == Spec => []TypeOK
<1>1. CInv => TypeOK
  BY DEF CInv
<1> QED
  BY <1>1, CInvInit, CInvNext, PTL DEF Spec

(* No connection is left in the queue of a node that accepts no more.      *)
THEOREM NoneStranded == Spec => []NobodyStranded
<1>1. CInv => NobodyStranded
  <2> SUFFICES ASSUME CInv, NEW i \in Node, pc[i] \in {"connect", "answer", "done"},
                      backlog[i] # << >>
               PROVE  FALSE
    BY DEF NobodyStranded
  <2>1. incoming[i] = i
    BY DEF CInv, Progress
  <2>2. Lower(i) \subseteq node_fds[i]
    BY <2>1, AllLower DEF CInv
  <2>3. 1 \in 1 .. Len(backlog[i]) /\ backlog[i][1] \in Node
    BY DEF CInv, TypeOK
  <2>4. backlog[i][1] < i /\ target[backlog[i][1]] = i /\ ~answered[backlog[i][1]]
    BY <2>3 DEF CInv, Waiting
  <2>5. backlog[i][1] \in node_fds[i]
    BY <2>2, <2>3, <2>4, ClusterAssumption DEF Lower, Node
  <2> QED
    BY <2>3, <2>4, <2>5, ClusterAssumption DEF CInv, Downward, Node
<1> QED
  BY <1>1, CInvInit, CInvNext, PTL DEF Spec

(* A node that has returned is connected with every other node, at both    *)
(* ends.                                                                   *)
THEOREM Connected == Spec => []FullyConnected
<1>1. CInv => FullyConnected
  <2> SUFFICES ASSUME CInv, NEW i \in Node, pc[i] = "done"
               PROVE  /\ node_fds[i] = Node \ {i}
                      /\ \A j \in Node \ {i} :
                          \/ i \in node_fds[j]
                          \/ pc[j] \in {"answer", "exit"} /\ answered[j] /\ target[j] = i
    BY DEF FullyConnected
  <2>1. incoming[i] = i /\ target[i] = N
    BY DEF CInv, Progress
  <2>2. Lower(i) \subseteq node_fds[i]
    BY <2>1, AllLower DEF CInv
  <2>3. \A j \in Node : j > i => j \in node_fds[i] /\ i \in node_fds[j]
    BY <2>1, ClusterAssumption DEF CInv, Upward, Downward, Node
  <2>4. \A j \in Node : j < i => j \in node_fds[i]
    BY <2>2, ClusterAssumption DEF Lower, Node
  <2>5. node_fds[i] = Node \ {i}
    BY <2>3, <2>4, ClusterAssumption DEF CInv, NoSelf, TypeOK, Node
  <2>6. ASSUME NEW j \in Node, j < i
        PROVE  \/ i \in node_fds[j]
               \/ pc[j] \in {"answer", "exit"} /\ answered[j] /\ target[j] = i
    BY <2>4, <2>6 DEF CInv, Downward, Upward, Progress
  <2> QED
    BY <2>3, <2>5, <2>6, ClusterAssumption DEF Node
<1> QED
  BY <1>1, CInvInit, CInvNext, PTL DEF Spec

-----------------------------------------------------------------------------
(* parse_ip_addr.  What has been read after each line of a copy.           *)
Reads(f, p) ==
    p = [n \in 0 .. Len(f) |-> IF n = 0 THEN Unread ELSE ParseLine(p[n - 1], f[n])]

LEMMA ReadsExist ==
    ASSUME NEW f, Len(f) \in Nat
    PROVE  \E p : Reads(f, p)
<1> DEFINE Upto(k, p) ==
               p = [n \in 0 .. k |-> IF n = 0 THEN Unread ELSE ParseLine(p[n - 1], f[n])]
           T == {k \in 0 .. Len(f) : \E p : Upto(k, p)}
<1>1. 0 \in T
  <2> DEFINE p == [n \in 0 .. 0 |-> Unread]
  <2>1. Upto(0, p)
    OBVIOUS
  <2> HIDE DEF Upto, p
  <2> QED
    BY <2>1
<1>2. ASSUME NEW k \in 0 .. Len(f) - 1, k \in T
      PROVE  k + 1 \in T
  <2>0. k \in Nat /\ k + 1 \in 0 .. Len(f) /\ k + 1 # 0 /\ (k + 1) - 1 = k
    OBVIOUS
  <2>1. PICK p : Upto(k, p)
    BY <1>2
  <2> DEFINE q == [n \in 0 .. k + 1 |-> IF n = k + 1 THEN ParseLine(p[k], f[k + 1]) ELSE p[n]]
  <2>2. \A n \in 0 .. k : q[n] = p[n]
    OBVIOUS
  <2>3. q[k + 1] = ParseLine(p[k], f[k + 1])
    BY <2>0
  <2>4. \A n \in 0 .. k + 1 : q[n] = IF n = 0 THEN Unread ELSE ParseLine(q[n - 1], f[n])
    <3> TAKE n \in 0 .. k + 1
    <3>1. CASE n = k + 1
      BY <2>0, <2>2, <2>3, <3>1
    <3>2. CASE n = 0
      <4>1. q[0] = p[0] /\ p[0] = Unread
        BY <2>0, <2>1, <2>2
      <4> QED
        BY <3>2, <4>1
    <3>3. CASE n # k + 1 /\ n # 0
      <4>1. n \in 0 .. k /\ n - 1 \in 0 .. k
        BY <2>0, <3>3
      <4>2. p[n] = ParseLine(p[n - 1], f[n])
        BY <2>1, <3>3, <4>1
      <4> QED
        BY <2>2, <3>3, <4>1, <4>2
    <3> QED
      BY <3>1, <3>2, <3>3
  <2>5. q = [n \in 0 .. k + 1 |-> q[n]]
    OBVIOUS
  <2> HIDE DEF q
  <2>6. Upto(k + 1, q)
    BY <2>4, <2>5
  <2> HIDE DEF Upto
  <2> QED
    BY <2>0, <2>6
<1> HIDE DEF T
<1>3. \A k \in 0 .. Len(f) : k \in T
  BY <1>1, <1>2, Induct
<1>4. Len(f) \in T
  BY <1>3
<1> QED
  BY <1>4 DEF T, Reads

LEMMA ParsesLines ==
    ASSUME NEW f, Len(f) \in Nat
    PROVE  \E p : /\ p[0] = Unread /\ parse_ip_addr(f) = p[Len(f)]
                  /\ \A n \in 1 .. Len(f) : p[n] = ParseLine(p[n - 1], f[n])
<1> DEFINE p == CHOOSE q : Reads(f, q)
<1>1. Reads(f, p)
  BY ReadsExist
<1>2. parse_ip_addr(f) = p[Len(f)]
  BY DEF parse_ip_addr, Reads
<1> HIDE DEF p
<1>3. p[0] = Unread
  BY <1>1 DEF Reads
<1>4. \A n \in 1 .. Len(f) : p[n] = ParseLine(p[n - 1], f[n])
  <2> TAKE n \in 1 .. Len(f)
  <2>1. n \in 0 .. Len(f) /\ n # 0
    OBVIOUS
  <2> QED
    BY <1>1, <2>1 DEF Reads
<1> QED
  BY <1>2, <1>3, <1>4

(* The table after n lines, when none of them aborted: the nodes that were *)
(* named so far, under the ids of their order.                             *)
Tables == [nodes : [Slot -> [ip : Nat, port : Nat]], num_nodes : 0 .. N, parsed : BOOLEAN]

Holds(c, at, n) ==
    /\ c \in Tables
    /\ c.parsed => /\ \A k \in Node : at[k] <= n <=> k < c.num_nodes
                   /\ \A k \in Node : k < c.num_nodes => c.nodes[k] = Address[k]

LEMMA LineHolds ==
    ASSUME NEW f \in Files, NEW at \in [Node -> 1 .. Len(f)], NamesNodes(f, at),
           NEW n \in 1 .. Len(f), NEW c, Holds(c, at, n - 1)
    PROVE  Holds(ParseLine(c, f[n]), at, n)
<1> USE ClusterAssumption
<1>0. /\ f \in Seq(Line) /\ Len(f) \in Nat /\ f[n] \in Line /\ n \in Nat
      /\ \A k \in Node : k \in Nat /\ k < N /\ at[k] \in Nat /\ at[k] <= Len(f)
      /\ MAX_NODES \in Nat /\ N <= MAX_NODES
  <2>1. f \in Seq(Line) /\ MAX_NODES \in Nat /\ N <= MAX_NODES
    BY StartupAssumption
  <2>2. Len(f) \in Nat /\ f[n] \in Line /\ n \in Nat
    BY <2>1
  <2>3. \A k \in Node : k \in Nat /\ k < N /\ at[k] \in Nat /\ at[k] <= Len(f)
    BY <2>2 DEF Node
  <2> QED
    BY <2>1, <2>2, <2>3
<1>1. /\ c \in Tables /\ c.num_nodes \in Nat /\ c.num_nodes <= N
      /\ c.nodes \in [Slot -> [ip : Nat, port : Nat]] /\ c.parsed \in BOOLEAN
      /\ \A k \in Node : k \in Slot
  BY <1>0 DEF Holds, Tables, Node, Slot
<1>2. f[n].kind \in {"node", "no address", "no port", "not an ip"}
      /\ f[n].ip \in Nat /\ f[n].port \in Nat
  BY <1>0 DEF Line
<1>3. f[n].kind # "node" => \A k \in Node : at[k] <= n <=> at[k] <= n - 1
  <2>1. \A k \in Node : f[at[k]].kind = "node"
    <3> TAKE k \in Node
    <3>1. f[at[k]] = [kind |-> "node", ip |-> Address[k].ip, port |-> Address[k].port]
      BY DEF NamesNodes
    <3> QED
      BY <3>1
  <2> QED
    BY <1>0, <2>1
<1>4. CASE c.num_nodes = MAX_NODES \/ ~c.parsed \/ f[n].kind = "no address"
  <2>1. ParseLine(c, f[n]) = c
    BY <1>4 DEF ParseLine
  <2>2. ASSUME c.parsed, c.num_nodes = MAX_NODES, NEW k \in Node
        PROVE  at[k] <= n <=> k < c.num_nodes
    <3>1. k < c.num_nodes
      BY <1>0, <2>2
    <3>2. at[k] <= n - 1
      BY <2>2, <3>1 DEF Holds
    <3> QED
      BY <1>0, <3>1, <3>2
  <2>3. Holds(c, at, n)
    BY <1>3, <1>4, <2>2 DEF Holds
  <2> QED
    BY <2>1, <2>3
<1>5. CASE c.num_nodes # MAX_NODES /\ c.parsed /\ f[n].kind = "not an ip"
  <2>1. ParseLine(c, f[n]) = [c EXCEPT !.parsed = FALSE]
    BY <1>5 DEF ParseLine
  <2>2. Holds([c EXCEPT !.parsed = FALSE], at, n)
    BY <1>1 DEF Holds, Tables
  <2> QED
    BY <2>1, <2>2
<1>6. c.num_nodes # MAX_NODES => c.num_nodes \in Slot
  BY <1>0, <1>1 DEF Slot
<1>7. CASE c.num_nodes # MAX_NODES /\ c.parsed /\ f[n].kind = "no port"
  <2> DEFINE d == [c EXCEPT !.nodes[c.num_nodes].ip = f[n].ip]
             t == [c.nodes EXCEPT ![c.num_nodes].ip = f[n].ip]
  <2>1. ParseLine(c, f[n]) = d
    BY <1>7 DEF ParseLine
  <2>2. c.nodes[c.num_nodes] \in [ip : Nat, port : Nat]
    BY <1>1, <1>6, <1>7
  <2>3. [c.nodes[c.num_nodes] EXCEPT !.ip = f[n].ip] \in [ip : Nat, port : Nat]
    BY <1>2, <2>2
  <2>t. /\ t \in [Slot -> [ip : Nat, port : Nat]]
        /\ \A k \in Slot : k # c.num_nodes => t[k] = c.nodes[k]
    BY <1>1, <2>3
  <2>e. d = [c EXCEPT !.nodes = t]
    OBVIOUS
  <2> HIDE DEF d, t
  <2>4. /\ d \in Tables /\ d.num_nodes = c.num_nodes
        /\ \A k \in Slot : k # c.num_nodes => d.nodes[k] = c.nodes[k]
    <3>1. d \in Tables /\ d.num_nodes = c.num_nodes /\ d.nodes = t
      BY <1>1, <2>e, <2>t DEF Tables
    <3> QED
      BY <2>t, <3>1
  <2>5. \A k \in Node : k < d.num_nodes => d.nodes[k] = Address[k]
    <3> SUFFICES ASSUME NEW k \in Node, k < d.num_nodes PROVE d.nodes[k] = Address[k]
      OBVIOUS
    <3>1. k < c.num_nodes /\ k # c.num_nodes
      BY <1>0, <1>1, <2>4
    <3>2. d.nodes[k] = c.nodes[k]
      BY <1>1, <2>4, <3>1
    <3>3. c.nodes[k] = Address[k]
      BY <1>7, <3>1 DEF Holds
    <3> QED
      BY <3>2, <3>3
  <2>6. \A k \in Node : at[k] <= n <=> k < d.num_nodes
    BY <1>3, <1>7, <2>4 DEF Holds
  <2>7. Holds(d, at, n)
    BY <2>4, <2>5, <2>6 DEF Holds
  <2> QED
    BY <2>1, <2>7
<1>8. CASE c.num_nodes # MAX_NODES /\ c.parsed /\ f[n].kind = "node"
  <2> DEFINE m == c.num_nodes
             a == [ip |-> f[n].ip, port |-> f[n].port]
             d == [c EXCEPT !.nodes[c.num_nodes] = a, !.num_nodes = @ + 1]
             t == [c.nodes EXCEPT ![c.num_nodes] = a]
  <2>1. ParseLine(c, f[n]) = d
    BY <1>8 DEF ParseLine
  <2>2. PICK k \in Node : at[k] = n
    BY <1>8 DEF NamesNodes
  <2>3. \A l \in Node : at[l] <= n - 1 <=> l < m
    BY <1>8 DEF Holds
  <2>4. k = m
    <3>1. ~ (k < m)
      BY <1>0, <2>2, <2>3
    <3>2. ASSUME m < k PROVE FALSE
      <4>1. m \in Node
        BY <1>0, <1>1, <3>2 DEF Node
      <4>2. at[m] < n
        BY <2>2, <3>2, <4>1 DEF NamesNodes
      <4>3. at[m] <= n - 1
        BY <1>0, <4>1, <4>2
      <4> QED
        BY <1>0, <2>3, <4>1, <4>3
    <3> QED
      BY <1>0, <1>1, <3>1, <3>2
  <2>5. Address[k] = a
    <3>1. f[n] = [kind |-> "node", ip |-> Address[k].ip, port |-> Address[k].port]
      BY <2>2 DEF NamesNodes
    <3>2. Address[k] \in [ip : Nat, port : Nat]
      BY StartupAssumption
    <3> QED
      BY <3>1, <3>2
  <2>6. a \in [ip : Nat, port : Nat]
    BY <1>2
  <2>t. /\ t \in [Slot -> [ip : Nat, port : Nat]] /\ t[m] = a
        /\ \A l \in Slot : l # m => t[l] = c.nodes[l]
    BY <1>1, <1>6, <1>8, <2>6
  <2>e. d = [c EXCEPT !.nodes = t, !.num_nodes = m + 1]
    OBVIOUS
  <2>8. m + 1 \in 0 .. N
    BY <1>0, <2>2, <2>4
  <2> HIDE DEF d, a, t
  <2>9. d \in Tables /\ d.num_nodes = m + 1 /\ d.nodes = t
    BY <1>1, <2>8, <2>e, <2>t DEF Tables
  <2>7. d.nodes[m] = a /\ \A l \in Slot : l # m => d.nodes[l] = c.nodes[l]
    BY <2>9, <2>t
  <2>a. \A l \in Node : at[l] <= n <=> l < d.num_nodes
    <3> TAKE l \in Node
    <3>1. l = m => at[l] = n
      BY <2>2, <2>4
    <3>2. l < m => at[l] <= n - 1
      BY <2>3
    <3>3. l > m => at[l] > n
      BY <2>2, <2>4 DEF NamesNodes
    <3>4. l \in Nat /\ at[l] \in Nat /\ n \in Nat /\ m \in Nat
      BY <1>0, <1>1
    <3>5. l <= m => at[l] <= n
      BY <3>1, <3>2, <3>4
    <3>6. at[l] <= n <=> l < m + 1
      BY <3>3, <3>4, <3>5
    <3> QED
      BY <2>9, <3>6
  <2>b. \A l \in Node : l < d.num_nodes => d.nodes[l] = Address[l]
    <3> TAKE l \in Node
    <3>1. CASE l = m
      BY <2>4, <2>5, <2>7, <3>1
    <3>2. CASE l # m
      <4>1. l < d.num_nodes => l < m
        BY <1>0, <1>1, <2>9, <3>2
      <4> QED
        BY <1>1, <1>8, <2>7, <3>2, <4>1 DEF Holds
    <3> QED
      BY <3>1, <3>2
  <2>c. Holds(d, at, n)
    BY <2>9, <2>a, <2>b DEF Holds
  <2> QED
    BY <2>1, <2>c
<1> QED
  BY <1>1, <1>2, <1>4, <1>5, <1>7, <1>8

(* A copy that does not abort the process gives it the N nodes.            *)
Agreed(c) == c.num_nodes = N /\ \A k \in Node : c.nodes[k] = Address[k]

LEMMA ParsedAgreed ==
    ASSUME NEW c \in Parsed, c.parsed
    PROVE  Agreed(c)
<1>1. PICK f \in Files : c = parse_ip_addr(f)
  BY DEF Parsed
<1>2. PICK at \in [Node -> 1 .. Len(f)] : NamesNodes(f, at)
  BY StartupAssumption
<1>3. Len(f) \in Nat
  <2>1. f \in Seq(Line)
    BY StartupAssumption
  <2> QED
    BY <2>1
<1>4. PICK p : /\ p[0] = Unread /\ c = p[Len(f)]
               /\ \A n \in 1 .. Len(f) : p[n] = ParseLine(p[n - 1], f[n])
  BY <1>1, <1>3, ParsesLines
<1> DEFINE T == {n \in 0 .. Len(f) : Holds(p[n], at, n)}
<1>5. 0 \in T
  <2>1. Unread \in Tables /\ Unread.num_nodes = 0 /\ Unread.parsed
    BY ClusterAssumption DEF Unread, Tables, Empty
  <2>2. \A k \in Node : ~ (at[k] <= 0) /\ ~ (k < 0)
    BY ClusterAssumption, <1>3 DEF Node
  <2>3. Holds(Unread, at, 0)
    BY <2>1, <2>2 DEF Holds
  <2> QED
    BY <1>3, <1>4, <2>3
<1>6. ASSUME NEW n \in 0 .. Len(f) - 1, n \in T PROVE n + 1 \in T
  <2>1. n + 1 \in 1 .. Len(f) /\ n + 1 \in 0 .. Len(f) /\ (n + 1) - 1 = n
    BY <1>3
  <2>2. p[n + 1] = ParseLine(p[n], f[n + 1]) /\ Holds(p[n], at, (n + 1) - 1)
    BY <1>4, <1>6, <2>1
  <2>3. Holds(p[n + 1], at, n + 1)
    BY <1>2, <2>1, <2>2, LineHolds
  <2> QED
    BY <2>1, <2>3
<1> HIDE DEF T
<1>7. Len(f) \in T
  <2>1. \A n \in 0 .. Len(f) : n \in T
    BY <1>3, <1>5, <1>6, Induct
  <2> QED
    BY <1>3, <2>1
<1>8. Holds(c, at, Len(f))
  BY <1>4, <1>7 DEF T
<1>9. \A k \in Node : k < c.num_nodes
  BY <1>3, <1>8 DEF Holds
<1>a. c.num_nodes = N
  <2>1. c.num_nodes \in 0 .. N
    BY <1>8 DEF Holds, Tables
  <2>2. c.num_nodes # N => c.num_nodes \in Node
    BY <2>1, ClusterAssumption DEF Node
  <2> QED
    BY <1>9, <2>1, <2>2, ClusterAssumption
<1> QED
  BY <1>8, <1>9, <1>a DEF Agreed, Holds

(* What a process that has started has read.                               *)
Read == cluster \in [Node -> {Unread} \cup {c \in Parsed : c.parsed}]

LEMMA ReadNext == Read /\ [SNext]_startVars => Read'
<1> SUFFICES ASSUME Read, [SNext]_startVars PROVE Read'
  OBVIOUS
<1>1. ASSUME NEW i \in Node, Start(i) PROVE Read'
  BY <1>1 DEF Read, Start
<1>2. CASE UNCHANGED cluster
  BY <1>2 DEF Read
<1> QED
  BY <1>1, <1>2 DEF SNext, InitCluster, Fail, startVars

(* However the lines that parse_ip_addr skips differ from one node's       *)
(* cluster.txt to another's, the processes that start have given the same  *)
(* ids to the same addresses.                                              *)
THEOREM SameIds == SSpec => []IdsAgree
<1>1. SInit => Read
  BY DEF SInit, Read
<1>2. Read => IdsAgree
  <2> SUFFICES ASSUME Read, NEW i \in Node, NEW j \in Node, Started(i), Started(j)
               PROVE  /\ \A k \in Node : cluster[i].nodes[k] = cluster[j].nodes[k]
                      /\ \A k, l \in Node : cluster[i].nodes[k] = cluster[i].nodes[l] => k = l
                      /\ cluster[i].num_nodes = N
    BY DEF IdsAgree
  <2>1. Agreed(cluster[i]) /\ Agreed(cluster[j])
    BY ParsedAgreed DEF Read, Started
  <2> QED
    BY <2>1, StartupAssumption DEF Agreed
<1> QED
  BY <1>1, <1>2, ReadNext, PTL DEF SSpec

(* main calls init_cluster after parse_ip_addr, or ends: what is proved of *)
(* init_cluster by itself holds of the processes that main starts.         *)
THEOREM StartupImplementsInit == SSpec => Spec
<1>1. SInit => Init
  BY DEF SInit
<1>2. [SNext]_startVars => [Next]_vars
  <2> SUFFICES ASSUME SNext, ~ UNCHANGED vars PROVE Next
    BY DEF startVars
  <2>1. ASSUME NEW i \in Node, Start(i) PROVE Exit(i)
    BY <2>1 DEF Start, Exit
  <2> QED
    BY <2>1 DEF SNext, InitCluster, Fail, Next
<1> QED
  BY <1>1, <1>2, PTL DEF SSpec, Spec
=============================================================================

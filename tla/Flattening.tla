----------------------------- MODULE Flattening -----------------------------
(***************************************************************************)
(* Facts about FlattenSeq, with which the models say that what a store has *)
(* applied is its log, batch after batch.  FlattenSeq is defined by        *)
(* recursion on the length of its argument; what it computes is proved by  *)
(* induction, as the absence of a least counterexample.                    *)
(***************************************************************************)
EXTENDS SequencesExt, SequenceTheorems, WellFoundedInduction, TLAPS

(* Every nonempty set of natural numbers has a least element.              *)
LEMMA LeastNat ==
    ASSUME NEW T, T \subseteq Nat, T # {}
    PROVE  \E n \in T : \A m \in T : n <= m
<1> DEFINE Less == {ss \in Nat \X Nat : ss[1] < ss[2]}
<1>1. IsWellFoundedOn(Less, Nat)
  BY NatLessThanWellFounded DEF OpToRel
<1>2. \A x, y \in Nat : y < x => <<y, x>> \in Less
  OBVIOUS
<1> HIDE DEF Less
<1>3. PICK n \in T : \A y \in T : <<y, n>> \notin Less
  BY <1>1, WFMin
<1>4. ASSUME NEW m \in T PROVE n <= m
  <2>1. ~ (m < n)
    BY <1>2, <1>3
  <2> QED
    BY <2>1
<1> QED
  BY <1>4

(* Induction from 0 to n.                                                  *)
LEMMA Induct ==
    ASSUME NEW T, NEW n \in Nat, 0 \in T, \A k \in 0 .. n - 1 : k \in T => k + 1 \in T
    PROVE  \A k \in 0 .. n : k \in T
<1> DEFINE Bad == {k \in 0 .. n : k \notin T}
<1>0. Bad \subseteq Nat /\ \A k \in 0 .. n : k \in Bad <=> k \notin T
  OBVIOUS
<1>b. Bad \subseteq 0 .. n
  OBVIOUS
<1> HIDE DEF Bad
<1>1. SUFFICES ASSUME Bad # {} PROVE FALSE
  BY <1>0
<1>2. PICK k \in Bad : \A m \in Bad : k <= m
  BY <1>0, <1>1, LeastNat
<1>3. k # 0 /\ k \in 0 .. n
  BY <1>0, <1>b
<1>4. k - 1 \in 0 .. n - 1 /\ k - 1 \notin Bad
  BY <1>2, <1>3
<1>5. k - 1 \in T /\ (k - 1) + 1 = k
  BY <1>0, <1>3, <1>4
<1> QED
  BY <1>0, <1>3, <1>4, <1>5

-----------------------------------------------------------------------------
(* The concatenations of the first k sequences of s, for every k.          *)
Concatenates(s, f) ==
    /\ f[0] = << >>
    /\ \A k \in 1 .. Len(s) : f[k] = f[k - 1] \o s[k]

Concats(S, s, f) == f \in [0 .. Len(s) -> Seq(S)] /\ Concatenates(s, f)

LEMMA ConcatsExist ==
    ASSUME NEW S, NEW s \in Seq(Seq(S))
    PROVE  \E f : Concats(S, s, f)
<1> DEFINE Upto(k) == {f \in [0 .. k -> Seq(S)] :
                          /\ f[0] = << >>
                          /\ \A i \in 1 .. k : f[i] = f[i - 1] \o s[i]}
           T == {k \in 0 .. Len(s) : Upto(k) # {}}
<1>0. Len(s) \in Nat /\ \A k \in 1 .. Len(s) : s[k] \in Seq(S)
  OBVIOUS
<1>1. 0 \in T
  <2>1. [i \in 0 .. 0 |-> << >>] \in Upto(0)
    OBVIOUS
  <2> HIDE DEF Upto
  <2> QED
    BY <1>0, <2>1
<1>2. ASSUME NEW k \in 0 .. Len(s) - 1, k \in T
      PROVE  k + 1 \in T
  <2>1. PICK f : f \in Upto(k)
    BY <1>2
  <2> DEFINE g == [i \in 0 .. k + 1 |-> IF i = k + 1 THEN f[k] \o s[k + 1] ELSE f[i]]
  <2>0. k \in Nat /\ k + 1 \in 1 .. Len(s) /\ k + 1 # 0
    BY <1>0
  <2>2. f[k] \in Seq(S) /\ s[k + 1] \in Seq(S)
    BY <1>0, <2>0, <2>1
  <2>3. g \in [0 .. k + 1 -> Seq(S)]
    <3>1. f[k] \o s[k + 1] \in Seq(S)
      BY <2>2
    <3>2. \A i \in 0 .. k + 1 : i = k + 1 \/ i \in 0 .. k
      BY <2>0
    <3>3. \A i \in 0 .. k : f[i] \in Seq(S)
      BY <2>1
    <3> QED
      BY <3>1, <3>2, <3>3
  <2>4. g[0] = << >>
    BY <2>0, <2>1
  <2>5. ASSUME NEW i \in 1 .. k + 1 PROVE g[i] = g[i - 1] \o s[i]
    <3>0. i \in 0 .. k + 1 /\ i - 1 \in 0 .. k + 1 /\ i - 1 # k + 1
      BY <2>0
    <3>1. CASE i = k + 1
      <4>1. i - 1 = k
        BY <2>0, <3>1
      <4> QED
        BY <3>0, <3>1, <4>1
    <3>2. CASE i # k + 1
      <4>1. i \in 1 .. k
        BY <2>0, <3>2
      <4>2. f[i] = f[i - 1] \o s[i]
        BY <2>1, <4>1
      <4> QED
        BY <3>0, <3>2, <4>2
    <3> QED
      BY <3>1, <3>2
  <2>6. g \in Upto(k + 1)
    BY <2>3, <2>4, <2>5
  <2> HIDE DEF g, Upto
  <2>7. k + 1 \in 0 .. Len(s)
    BY <2>0
  <2> QED
    BY <2>6, <2>7
<1> HIDE DEF T
<1>3. Len(s) \in T
  <2>1. \A k \in 0 .. Len(s) : k \in T
    BY <1>0, <1>1, <1>2, Induct
  <2> QED
    BY <1>0, <2>1
<1> QED
  BY <1>3 DEF T, Concats, Concatenates

(* There is one such function only.                                        *)
LEMMA ConcatsUnique ==
    ASSUME NEW s, Len(s) \in Nat, NEW f, NEW g, Concatenates(s, f), Concatenates(s, g)
    PROVE  g[Len(s)] = f[Len(s)]
<1> DEFINE T == {k \in 0 .. Len(s) : g[k] = f[k]}
<1>1. 0 \in T
  BY DEF Concatenates
<1>2. ASSUME NEW k \in 0 .. Len(s) - 1, k \in T PROVE k + 1 \in T
  <2>1. k + 1 \in 1 .. Len(s) /\ k + 1 \in 0 .. Len(s) /\ (k + 1) - 1 = k
    OBVIOUS
  <2>2. f[k + 1] = f[k] \o s[k + 1] /\ g[k + 1] = g[k] \o s[k + 1]
    BY <2>1 DEF Concatenates
  <2> QED
    BY <1>2, <2>1, <2>2
<1> HIDE DEF T
<1>3. \A k \in 0 .. Len(s) : k \in T
  BY <1>1, <1>2, Induct
<1> QED
  BY <1>3 DEF T

(* FlattenSeq computes the last of them.                                   *)
LEMMA FlattenIs ==
    ASSUME NEW S, NEW s \in Seq(Seq(S)), NEW f, Concats(S, s, f)
    PROVE  FlattenSeq(s) = f[Len(s)]
<1>0. Len(s) \in Nat /\ \A k \in 1 .. Len(s) : s[k] \in Seq(S)
  OBVIOUS
<1>1. CASE Len(s) = 0
  <2>1. s = << >>
    BY <1>1
  <2> QED
    BY <1>1, <2>1 DEF FlattenSeq, Concats, Concatenates
<1>2. CASE Len(s) # 0
  <2> DEFINE F(g) == [i \in 1 .. Len(s) |-> IF i = 1 THEN s[i] ELSE g[i - 1] \o s[i]]
             flatten == CHOOSE g : g = F(g)
  <2>1. FlattenSeq(s) = flatten[Len(s)]
    BY <1>2 DEF FlattenSeq
  <2> DEFINE h == [i \in 1 .. Len(s) |-> f[i]]
  <2>2. h = F(h)
    <3>1. ASSUME NEW i \in 1 .. Len(s) PROVE f[i] = IF i = 1 THEN s[i] ELSE h[i - 1] \o s[i]
      <4>1. f[i] = f[i - 1] \o s[i]
        BY DEF Concats, Concatenates
      <4>2. CASE i = 1
        <5>1. f[0] = << >> /\ i - 1 = 0 /\ s[i] \in Seq(S)
          BY <1>0, <4>2 DEF Concats, Concatenates
        <5>2. f[i] = << >> \o s[i]
          BY <4>1, <5>1
        <5>3. << >> \o s[i] = s[i]
          BY <5>1
        <5> QED
          BY <4>2, <5>2, <5>3
      <4>3. CASE i # 1
        <5>1. i - 1 \in 1 .. Len(s) /\ h[i - 1] = f[i - 1]
          BY <1>0, <4>3
        <5> QED
          BY <4>1, <4>3, <5>1
      <4> QED
        BY <4>2, <4>3
    <3> QED
      BY <3>1
  <2> HIDE DEF h
  <2>3. flatten = F(flatten)
    BY <2>2
  <2> HIDE DEF flatten
  <2> DEFINE g == [k \in 0 .. Len(s) |-> IF k = 0 THEN << >> ELSE flatten[k]]
  <2>4. ASSUME NEW k \in 1 .. Len(s) PROVE g[k] = g[k - 1] \o s[k]
    <3>0. k \in 0 .. Len(s) /\ k # 0 /\ k - 1 \in 0 .. Len(s)
      BY <1>0
    <3>1. flatten[k] = IF k = 1 THEN s[k] ELSE flatten[k - 1] \o s[k]
      BY <2>3
    <3>2. CASE k = 1
      <4>1. << >> \o s[k] = s[k]
        BY <1>0
      <4>2. k - 1 = 0
        BY <3>2
      <4> QED
        BY <3>0, <3>1, <3>2, <4>1, <4>2
    <3>3. CASE k # 1
      <4>1. k - 1 # 0
        BY <1>0, <3>3
      <4> QED
        BY <3>0, <3>1, <3>3, <4>1
    <3> QED
      BY <3>2, <3>3
  <2>5. g[0] = << >> /\ g[Len(s)] = flatten[Len(s)]
    BY <1>0, <1>2
  <2> HIDE DEF g
  <2>6. Concatenates(s, g) /\ Concatenates(s, f)
    BY <2>4, <2>5 DEF Concatenates, Concats
  <2>7. g[Len(s)] = f[Len(s)]
    BY <1>0, <2>6, ConcatsUnique
  <2> QED
    BY <2>1, <2>5, <2>7
<1> QED
  BY <1>1, <1>2

-----------------------------------------------------------------------------
(* What the other proofs use.                                              *)
LEMMA FlattenType ==
    ASSUME NEW S, NEW s \in Seq(Seq(S))
    PROVE  FlattenSeq(s) \in Seq(S)
<1>1. PICK f : Concats(S, s, f)
  BY ConcatsExist
<1>2. f[Len(s)] \in Seq(S)
  BY <1>1 DEF Concats, Concatenates
<1> QED
  BY <1>1, <1>2, FlattenIs

LEMMA FlattenEmpty == FlattenSeq(<< >>) = << >>
BY DEF FlattenSeq

LEMMA FlattenAppend ==
    ASSUME NEW S, NEW s \in Seq(Seq(S)), NEW e \in Seq(S)
    PROVE  FlattenSeq(Append(s, e)) = FlattenSeq(s) \o e
<1> DEFINE t == Append(s, e)
<1>1. PICK f : Concats(S, s, f)
  BY ConcatsExist
<1>2. /\ t \in Seq(Seq(S)) /\ Len(t) = Len(s) + 1 /\ Len(s) \in Nat
      /\ t[Len(s) + 1] = e /\ \A k \in 1 .. Len(s) : t[k] = s[k]
  OBVIOUS
<1> HIDE DEF t
<1> DEFINE g == [k \in 0 .. Len(t) |-> IF k = Len(t) THEN f[Len(s)] \o e ELSE f[k]]
<1>3. /\ f \in [0 .. Len(s) -> Seq(S)] /\ f[0] = << >>
      /\ \A k \in 1 .. Len(s) : f[k] = f[k - 1] \o s[k]
  BY <1>1 DEF Concats, Concatenates
<1>4. g \in [0 .. Len(t) -> Seq(S)]
  <2>1. f[Len(s)] \o e \in Seq(S)
    <3>1. f[Len(s)] \in Seq(S)
      <4>1. Len(s) \in 0 .. Len(s)
        BY <1>2
      <4>2. f \in [0 .. Len(s) -> Seq(S)]
        BY <1>3
      <4> QED
        BY <4>1, <4>2
    <3> QED
      BY <3>1
  <2>2. ASSUME NEW k \in 0 .. Len(t), k # Len(t) PROVE f[k] \in Seq(S)
    <3>1. k \in 0 .. Len(s)
      BY <1>2, <2>2
    <3> QED
      BY <1>3, <3>1
  <2> QED
    BY <2>1, <2>2
<1>5. g[0] = << >> /\ g[Len(t)] = f[Len(s)] \o e
  BY <1>2, <1>3
<1>6. ASSUME NEW k \in 1 .. Len(t) PROVE g[k] = g[k - 1] \o t[k]
  <2>0. k \in 0 .. Len(t) /\ k - 1 \in 0 .. Len(t) /\ k - 1 # Len(t)
    BY <1>2
  <2>1. CASE k = Len(t)
    <3>1. k - 1 = Len(s) /\ t[k] = e
      BY <1>2, <2>1
    <3> QED
      BY <2>0, <2>1, <3>1
  <2>2. CASE k # Len(t)
    <3>1. k \in 1 .. Len(s)
      BY <1>2, <2>2
    <3>2. f[k] = f[k - 1] \o t[k]
      BY <1>2, <1>3, <3>1
    <3> QED
      BY <2>0, <2>2, <3>2
  <2> QED
    BY <2>1, <2>2
<1> HIDE DEF g
<1>7. Concats(S, t, g)
  BY <1>4, <1>5, <1>6 DEF Concats, Concatenates
<1>8. FlattenSeq(t) = g[Len(t)]
  BY <1>2, <1>7, FlattenIs
<1>9. FlattenSeq(s) = f[Len(s)]
  BY <1>1, FlattenIs
<1> QED
  BY <1>5, <1>8, <1>9 DEF t

(* ... and with another sequence before them.                              *)
Joined(a, b, c) == a \o (b \o c) = (a \o b) \o c

LEMMA Associative ==
    ASSUME NEW S, NEW a, NEW b, NEW c, a \in Seq(S), b \in Seq(S), c \in Seq(S)
    PROVE  Joined(a, b, c)
BY DEF Joined

After(h, t, f) == \A k \in 1 .. Len(t) : h \o f[k] = (h \o f[k - 1]) \o t[k]

LEMMA ConcatsAfter ==
    ASSUME NEW S, NEW h, NEW t, NEW f, h \in Seq(S), Len(t) \in Nat,
           \A k \in 1 .. Len(t) : t[k] \in Seq(S), Concats(S, t, f)
    PROVE  After(h, t, f)
<1> SUFFICES ASSUME NEW k \in 1 .. Len(t)
             PROVE  h \o f[k] = (h \o f[k - 1]) \o t[k]
  BY DEF After
<1>1. f[k] = f[k - 1] \o t[k]
  BY DEF Concats, Concatenates
<1>2. f[k - 1] \in Seq(S)
  <2>1. k - 1 \in 0 .. Len(t)
    OBVIOUS
  <2> QED
    BY <2>1 DEF Concats
<1>3. t[k] \in Seq(S)
  OBVIOUS
<1> DEFINE a == f[k - 1]
           b == t[k]
<1> HIDE DEF a, b
<1>4. h \o (a \o b) = (h \o a) \o b
  <2>1. a \in Seq(S) /\ b \in Seq(S)
    BY <1>2, <1>3 DEF a, b
  <2>2. Joined(h, a, b)
    BY <2>1, Associative
  <2> QED
    BY <2>2 DEF Joined
<1> QED
  BY <1>1, <1>4 DEF a, b

LEMMA FlattenTail ==
    ASSUME NEW S, NEW s \in Seq(Seq(S)), s # << >>
    PROVE  FlattenSeq(s) = Head(s) \o FlattenSeq(Tail(s))
<1> DEFINE t == Tail(s)
           h == Head(s)
<1>0. /\ h \in Seq(S) /\ t \in Seq(Seq(S)) /\ Len(t) = Len(s) - 1
      /\ Len(s) \in Nat /\ Len(t) \in Nat
      /\ h = s[1] 
  BY HeadTailProperties
<1>e. \A k \in 2 .. Len(s) : s[k] = t[k - 1]
  BY <1>0
<1> HIDE DEF t, h
<1>1. PICK f : Concats(S, t, f)
  BY <1>0, ConcatsExist
<1>2. /\ f \in [0 .. Len(t) -> Seq(S)] /\ f[0] = << >>
      /\ \A k \in 1 .. Len(t) : f[k] = f[k - 1] \o t[k]
  BY <1>1 DEF Concats, Concatenates
<1>a. After(h, t, f)
  <2>1. \A k \in 1 .. Len(t) : t[k] \in Seq(S)
    BY <1>0
  <2> QED
    BY <1>0, <1>1, <2>1, ConcatsAfter
<1> DEFINE g == [k \in 0 .. Len(s) |-> IF k = 0 THEN << >> ELSE h \o f[k - 1]]
<1>3. g \in [0 .. Len(s) -> Seq(S)]
  <2>1. ASSUME NEW k \in 0 .. Len(s), k # 0 PROVE h \o f[k - 1] \in Seq(S)
    <3>1. k - 1 \in 0 .. Len(t)
      BY <1>0, <2>1
    <3>2. f[k - 1] \in Seq(S)
      BY <1>2, <3>1
    <3> QED
      BY <1>0, <3>2
  <2> QED
    BY <2>1
<1>4. g[0] = << >> /\ g[Len(s)] = h \o f[Len(t)]
  <2>1. 0 \in 0 .. Len(s) /\ Len(s) \in 0 .. Len(s) /\ Len(s) # 0 /\ Len(s) - 1 = Len(t)
    BY <1>0
  <2> QED
    BY <2>1
<1>5. ASSUME NEW k \in 1 .. Len(s) PROVE g[k] = g[k - 1] \o s[k]
  <2>0. k \in 0 .. Len(s) /\ k - 1 \in 0 .. Len(s) /\ k # 0
    BY <1>0
  <2>1. CASE k = 1
    <3>1. k - 1 = 0 /\ f[k - 1] = << >> /\ s[k] = h
      BY <1>0, <1>2, <2>1
    <3>2. h \o << >> = << >> \o h
      BY <1>0
    <3> QED
      BY <2>0, <3>1, <3>2
  <2>2. CASE k # 1
    <3>1. k - 1 \in 1 .. Len(t) /\ k - 1 # 0 /\ k - 2 \in 0 .. Len(t) /\ (k - 1) - 1 = k - 2
      BY <1>0, <2>2
    <3>2. h \o f[k - 1] = (h \o f[(k - 1) - 1]) \o t[k - 1]
      BY <1>a, <3>1 DEF After
    <3>3. s[k] = t[k - 1]
      BY <1>0, <1>e, <2>2
    <3> QED
      BY <2>0, <3>1, <3>2, <3>3
  <2> QED
    BY <2>1, <2>2
<1> HIDE DEF g
<1>6. Concats(S, s, g)
  BY <1>3, <1>4, <1>5 DEF Concats, Concatenates
<1>7. FlattenSeq(s) = g[Len(s)] /\ FlattenSeq(t) = f[Len(t)]
  BY <1>0, <1>1, <1>6, FlattenIs
<1> QED
  BY <1>4, <1>7 DEF t, h
=============================================================================

---------------------------- MODULE XXHashProofs ----------------------------
(***************************************************************************)
(* TLAPS proofs about XXHash, for all lengths of a message and of its      *)
(* pieces, all seeds and every size of a caller's secret that is allowed:  *)
(* a message given in pieces hashes to what it hashes to in one call, each *)
(* hash reads every byte of it, and XXH3 none beyond its secret.           *)
(***************************************************************************)
EXTENDS XXHash, Flattening

(* A function on 1 .. n is a sequence.                                     *)
LEMMA FunctionSeq ==
    ASSUME NEW S, NEW n \in Nat, NEW f \in [1 .. n -> S]
    PROVE  f \in Seq(S) /\ Len(f) = n /\ DOMAIN f = 1 .. n
OBVIOUS

(* A sequence that agrees with a on its first, with b on its other         *)
(* elements.                                                               *)
LEMMA ConcatIs ==
    ASSUME NEW S, NEW a \in Seq(S), NEW b \in Seq(S), NEW c \in Seq(S),
           Len(c) = Len(a) + Len(b),
           \A k \in 1 .. Len(a) : a[k] = c[k],
           \A k \in 1 .. Len(b) : b[k] = c[Len(a) + k]
    PROVE  a \o b = c
<1> DEFINE d == a \o b
           m == Len(a)
           n == Len(b)
<1>0. m \in Nat /\ n \in Nat
  OBVIOUS
<1>1. d \in Seq(S) /\ Len(d) = m + n
  OBVIOUS
<1>2. ASSUME NEW k \in 1 .. m + n PROVE d[k] = c[k]
  <2>1. CASE k <= m
    BY <2>1
  <2>2. CASE k > m
    <3>1. (a \o b)[k] = b[k - m] /\ k - m \in 1 .. n /\ m + (k - m) = k
      BY <2>2
    <3> QED
      BY <3>1
  <2> QED
    BY <2>1, <2>2
<1> HIDE DEF d
<1>3. d = c
  BY <1>1, <1>2, SeqEqual
<1> QED
  BY <1>3 DEF d

(* w bytes of the message from offset o.                                   *)
Win(o, w) == [k \in 1 .. w |-> o + k]

LEMMA WinType ==
    ASSUME NEW o \in Int, NEW w \in Nat
    PROVE  /\ Win(o, w) \in Seq(Int) /\ Len(Win(o, w)) = w
           /\ DOMAIN Win(o, w) = 1 .. w /\ \A k \in 1 .. w : Win(o, w)[k] = o + k
<1>1. Win(o, w) \in [1 .. w -> Int]
  BY DEF Win
<1>2. Win(o, w) \in Seq(Int)
  BY <1>1
<1>3. DOMAIN Win(o, w) = 1 .. w
  BY DEF Win
<1>4. Len(Win(o, w)) = w
  BY <1>2, <1>3
<1> QED
  BY <1>2, <1>3, <1>4 DEF Win

(* Does b hold the message from offset c on, in the w bytes after o?       *)
Holds(b, o, w, c) == \A j \in 1 .. w : o + j \in DOMAIN b /\ b[o + j] = c + j

(* Then that is what is read there.                                        *)
LEMMA BytesAre ==
    ASSUME NEW b, NEW o \in Int, NEW w \in Nat, NEW c \in Int, Holds(b, o, w, c)
    PROVE  Bytes(b, o, w) = Win(c, w)
BY DEF Bytes, Win, Holds

LEMMA BytesType ==
    ASSUME NEW b, NEW o \in Int, NEW w \in Nat, \A k \in DOMAIN b : b[k] \in Int
    PROVE  Bytes(b, o, w) \in Seq(Int) /\ Len(Bytes(b, o, w)) = w /\ DOMAIN Bytes(b, o, w) = 1 .. w
<1>1. Bytes(b, o, w) \in [1 .. w -> Int]
  BY DEF Bytes, Outside
<1>2. DOMAIN Bytes(b, o, w) = 1 .. w
  BY DEF Bytes
<1> QED
  BY <1>1, <1>2

(* A window of a window.                                                   *)
LEMMA WinHolds ==
    ASSUME NEW c \in Int, NEW n \in Nat, NEW o \in Nat, NEW w \in Nat, o + w <= n
    PROVE  Holds(Win(c, n), o, w, c + o)
<1>1. \A j \in 1 .. w : o + j \in 1 .. n /\ c + (o + j) = (c + o) + j
  OBVIOUS
<1> QED
  BY <1>1 DEF Holds, Win

LEMMA WinBytes ==
    ASSUME NEW c \in Int, NEW n \in Nat, NEW o \in Nat, NEW w \in Nat, o + w <= n
    PROVE  Bytes(Win(c, n), o, w) = Win(c + o, w)
BY WinHolds, BytesAre

(* A part of what b holds.                                                 *)
LEMMA PartIs ==
    ASSUME NEW b, NEW c \in Int, NEW n \in Nat, NEW o \in Nat, NEW w \in Nat, o + w <= n,
           Holds(b, 0, n, c)
    PROVE  Bytes(b, o, w) = Win(c + o, w)
<1>1. ASSUME NEW j \in 1 .. w PROVE o + j \in DOMAIN b /\ b[o + j] = (c + o) + j
  <2>1. o + j \in 1 .. n /\ 0 + (o + j) = o + j /\ c + (o + j) = (c + o) + j
    OBVIOUS
  <2>2. 0 + (o + j) \in DOMAIN b /\ b[0 + (o + j)] = c + (o + j)
    BY <2>1 DEF Holds
  <2> QED
    BY <2>1, <2>2
<1>2. ASSUME NEW e \in Int, e = c + o PROVE Bytes(b, o, w) = Win(e, w)
  <2>1. Holds(b, o, w, e)
    BY <1>1, <1>2 DEF Holds
  <2> QED
    BY <2>1, BytesAre
<1> QED
  BY <1>2

LEMMA WinFrom ==
    ASSUME NEW c \in Int, NEW n \in Nat, NEW o \in Nat, o <= n
    PROVE  From(Win(c, n), o) = Win(c + o, n - o)
<1>1. Len(Win(c, n)) = n
  BY WinType
<1>2. PICK w \in Nat : w = n - o
  OBVIOUS
<1>3. Bytes(Win(c, n), o, w) = Win(c + o, w)
  BY <1>2, WinBytes
<1> QED
  BY <1>1, <1>2, <1>3 DEF From

LEMMA MessageIs ==
    ASSUME NEW n \in Nat
    PROVE  Message(n) = Win(0, n)
BY DEF Message, Win

-----------------------------------------------------------------------------
(* XXH32 and XXH64.                                                        *)

(* What the accumulators have taken of the message.                        *)
Lanes(N, n) == [k \in 1 .. n |-> Win(N * (k - 1), N)]

LEMMA LanesType ==
    ASSUME NEW N \in Nat, N \in {16, 32}, NEW n \in Nat
    PROVE  Lanes(N, n) \in Seq(Seq(Int)) /\ Len(Lanes(N, n)) = n
<1>1. \A k \in 1 .. n : N * (k - 1) \in Int /\ N \in Nat
  OBVIOUS
<1>2. \A k \in 1 .. n : Win(N * (k - 1), N) \in Seq(Int)
  BY <1>1, WinType
<1>3. Lanes(N, n) \in [1 .. n -> Seq(Int)] /\ DOMAIN Lanes(N, n) = 1 .. n
  BY <1>2 DEF Lanes
<1> QED
  BY <1>3

(* Division by N, as the provers need it.                                  *)
LEMMA Division ==
    ASSUME NEW N \in Nat, N \in {16, 32}, NEW t \in Nat
    PROVE  /\ t \div N \in Nat /\ t % N \in 0 .. N - 1
           /\ t = N * (t \div N) + (t % N)
<1>1. CASE N = 16
  <2>1. /\ t \div 16 \in Nat /\ t % 16 \in 0 .. 15
        /\ t = 16 * (t \div 16) + (t % 16)
    OBVIOUS
  <2> QED
    BY <1>1, <2>1
<1>2. CASE N = 32
  <2>1. /\ t \div 32 \in Nat /\ t % 32 \in 0 .. 31
        /\ t = 32 * (t \div 32) + (t % 32)
    OBVIOUS
  <2> QED
    BY <1>2, <2>1
<1> QED
  BY <1>1, <1>2

LEMMA DivisionUnique ==
    ASSUME NEW N \in Nat, N \in {16, 32}, NEW t \in Nat, NEW q \in Nat, NEW r \in 0 .. N - 1, t = N * q + r
    PROVE  t \div N = q /\ t % N = r
<1>1. CASE N = 16
  <2>1. t = 16 * q + r /\ r \in 0 .. 15
    BY <1>1
  <2>2. t \div 16 = q /\ t % 16 = r
    BY <2>1
  <2> QED
    BY <1>1, <2>2
<1>2. CASE N = 32
  <2>1. t = 32 * q + r /\ r \in 0 .. 31
    BY <1>2
  <2>2. t \div 32 = q /\ t % 32 = r
    BY <2>1
  <2> QED
    BY <1>2, <2>2
<1> QED
  BY <1>1, <1>2

(* Consuming the bytes that follow takes as many lanes more.               *)
LEMMA ConsumeLanes ==
    ASSUME NEW N \in Nat, N \in {16, 32}, NEW m \in Nat, NEW n \in Nat
    PROVE  consumeLong(Lanes(N, m), Win(N * m, n), N) = Lanes(N, m + (n \div N))
<1> DEFINE q == n \div N
           in == Win(N * m, n)
           more == [k \in 1 .. q |-> Bytes(in, N * (k - 1), N)]
<1>0. q \in Nat /\ m + q \in Nat /\ N \in Nat
  BY Division
<1>1. N * q <= n /\ N * m \in Nat
  BY Division
<1>2. Len(in) = n
  BY <1>1, WinType
<1>3. ASSUME NEW k \in 1 .. q PROVE more[k] = Win(N * (m + k - 1), N)
  <2>1. N * (k - 1) \in Nat /\ N * (k - 1) + N <= n /\ N * m + N * (k - 1) = N * (m + k - 1)
    <3>1. CASE N = 16
      BY <1>0, <1>1, <3>1
    <3>2. CASE N = 32
      BY <1>0, <1>1, <3>2
    <3> QED
      BY <3>1, <3>2
  <2>2. Bytes(in, N * (k - 1), N) = Win(N * m + N * (k - 1), N)
    BY <1>0, <1>1, <2>1, WinBytes
  <2> QED
    BY <2>1, <2>2
<1>4. more \in Seq(Seq(Int)) /\ Len(more) = q
  <2>1. ASSUME NEW k \in 1 .. q PROVE more[k] \in Seq(Int)
    <3>1. N * (m + k - 1) \in Int
      BY <1>0
    <3> QED
      BY <1>0, <1>3, <3>1, WinType
  <2>2. more \in [1 .. q -> Seq(Int)]
    BY <2>1
  <2> HIDE DEF more, q
  <2> QED
    BY <1>0, <2>2, FunctionSeq
<1>5. consumeLong(Lanes(N, m), in, N) = Lanes(N, m) \o more
  BY <1>2 DEF consumeLong
<1> HIDE DEF more, in, q
<1>6. /\ Lanes(N, m) \in Seq(Seq(Int)) /\ Len(Lanes(N, m)) = m
      /\ Lanes(N, m + q) \in Seq(Seq(Int)) /\ Len(Lanes(N, m + q)) = m + q
  BY <1>0, LanesType
<1>7. ASSUME NEW k \in 1 .. m PROVE Lanes(N, m)[k] = Lanes(N, m + q)[k]
  <2>1. k \in 1 .. m + q
    BY <1>0
  <2> QED
    BY <2>1 DEF Lanes
<1>8. ASSUME NEW k \in 1 .. q PROVE more[k] = Lanes(N, m + q)[m + k]
  <2>1. m + k \in 1 .. m + q
    BY <1>0
  <2> QED
    BY <1>0, <1>3, <2>1 DEF Lanes
<1>9. Lanes(N, m) \o more = Lanes(N, m + q)
  <2> DEFINE a == Lanes(N, m)
             c == Lanes(N, m + q)
  <2>1. a \in Seq(Seq(Int)) /\ c \in Seq(Seq(Int)) /\ Len(a) = m /\ Len(c) = m + q
    BY <1>6
  <2>2. /\ Len(c) = Len(a) + Len(more)
        /\ \A k \in 1 .. Len(a) : a[k] = c[k]
        /\ \A k \in 1 .. Len(more) : more[k] = c[Len(a) + k]
    BY <1>4, <1>6, <1>7, <1>8
  <2> HIDE DEF a, c
  <2>3. a \o more = c
    BY <1>0, <1>4, <2>1, <2>2, ConcatIs
  <2> QED
    BY <2>3 DEF a, c
<1> QED
  BY <1>5, <1>9 DEF in, q

Buffers(N) == [1 .. N -> Int]

(* A state that has been given the first t bytes.                          *)
StateOf(N) ==
    [acc : Seq(Seq(Int)), total : Nat, large : BOOLEAN, buffer : Buffers(N),
     buffered : Nat]

Streams(s, N, t) ==
    /\ s \in StateOf(N)
    /\ s.acc = Lanes(N, t \div N)
    /\ s.buffered = t % N
    /\ Holds(s.buffer, 0, s.buffered, t - s.buffered)

(* b with w bytes of the message from offset c put after its first o.      *)
Put(N, b, o, c, w) == [k \in 1 .. N |-> IF k - o \in 1 .. w THEN c + (k - o) ELSE b[k]]

LEMMA CopiedIs ==
    ASSUME NEW N \in Nat, NEW o \in Nat, NEW c \in Int, NEW w \in Nat, NEW b \in Buffers(N)
    PROVE  Copied(b, o, Win(c, w)) = Put(N, b, o, c, w)
<1>1. DOMAIN b = 1 .. N /\ DOMAIN Win(c, w) = 1 .. w
  BY WinType DEF Buffers
<1>2. \A k \in 1 .. N : k - o \in 1 .. w => Win(c, w)[k - o] = c + (k - o)
  BY WinType
<1> QED
  BY <1>1, <1>2 DEF Copied, Put

LEMMA CopiedType ==
    ASSUME NEW N \in Nat, NEW o \in Nat, NEW c \in Int, NEW w \in Nat, NEW b \in Buffers(N)
    PROVE  Copied(b, o, Win(c, w)) \in Buffers(N)
<1>1. \A k \in 1 .. N : b[k] \in Int /\ (k - o \in 1 .. w => c + (k - o) \in Int)
  BY DEF Buffers
<1>2. Put(N, b, o, c, w) \in Buffers(N)
  BY <1>1 DEF Put, Buffers
<1> QED
  BY <1>2, CopiedIs

(* Bytes that hold the message and more of it put after them.              *)
LEMMA CopiedHolds ==
    ASSUME NEW N \in Nat, NEW o \in Nat, NEW c \in Int, NEW w \in Nat, NEW b \in Buffers(N),
           NEW e \in Int, e = c + o, o + w <= N, Holds(b, 0, o, c)
    PROVE  Holds(Copied(b, o, Win(e, w)), 0, o + w, c)
<1>1. Copied(b, o, Win(e, w)) = Put(N, b, o, e, w)
  BY CopiedIs
<1> DEFINE d == Copied(b, o, Win(e, w))
<1> HIDE DEF d
<1>2. DOMAIN d = 1 .. N
  BY <1>1 DEF d, Put
<1>3. ASSUME NEW j \in 1 .. o + w PROVE 0 + j \in DOMAIN d /\ d[0 + j] = c + j
  <2>1. j \in 1 .. N /\ 0 + j = j
    OBVIOUS
  <2>2. d[j] = IF j - o \in 1 .. w THEN e + (j - o) ELSE b[j]
    BY <1>1, <2>1 DEF d, Put
  <2>3. CASE j <= o
    <3>1. j \in 1 .. o /\ j - o \notin 1 .. w
      BY <2>3
    <3>2. b[0 + j] = c + j
      BY <3>1 DEF Holds
    <3> QED
      BY <1>2, <2>1, <2>2, <3>1, <3>2
  <2>4. CASE j > o
    <3>1. j - o \in 1 .. w /\ e + (j - o) = c + j
      BY <2>4
    <3> QED
      BY <1>2, <2>1, <2>2, <3>1
  <2> QED
    BY <2>1, <2>3, <2>4
<1> QED
  BY <1>3 DEF Holds, d

(* The division of t + n, when the buffer is not filled.                   *)
LEMMA FillDivision ==
    ASSUME NEW N \in Nat, N \in {16, 32}, NEW t \in Nat, NEW n \in Nat, NEW b \in Nat, b = t % N, n < N - b
    PROVE  (t + n) \div N = t \div N /\ (t + n) % N = b + n
<1>1. t \div N \in Nat /\ t % N \in 0 .. N - 1 /\ t = N * (t \div N) + (t % N)
  BY Division
<1>2. b + n \in 0 .. N - 1 /\ t + n = N * (t \div N) + (b + n) /\ t + n \in Nat
  BY <1>1
<1> QED
  BY <1>1, <1>2, DivisionUnique

(* A whole buffer is a window.                                             *)
LEMMA WholeIs ==
    ASSUME NEW N \in Nat, NEW c \in Int, NEW b \in Buffers(N), Holds(b, 0, N, c)
    PROVE  b = Win(c, N)
<1>1. \A k \in 1 .. N : b[k] = c + k
  BY DEF Holds
<1> QED
  BY <1>1 DEF Win, Buffers

(* One more lane, from a buffer.                                           *)
LEMMA ConsumeBuffer ==
    ASSUME NEW N \in Nat, N \in {16, 32}, NEW m \in Nat
    PROVE  consumeLong(Lanes(N, m), Win(N * m, N), N) = Lanes(N, m + 1)
<1>1. N \in Nat /\ N \div N = 1
  <2>1. 16 \div 16 = 1 /\ 32 \div 32 = 1
    OBVIOUS
  <2> QED
    BY <2>1
<1>2. consumeLong(Lanes(N, m), Win(N * m, N), N) = Lanes(N, m + (N \div N))
  BY <1>1, ConsumeLanes
<1> QED
  BY <1>1, <1>2

(* What Fed does to the accumulators, the buffer and its length.           *)
Feeds(s, N, t, n) ==
    LET u == Fed(s, Win(t, n), N) IN
    Streams(u, N, t + n) /\ u.total = s.total /\ u.large = s.large

LEMMA FedBuffers ==
    ASSUME NEW N \in Nat, N \in {16, 32}, NEW t \in Nat, NEW n \in Nat, NEW s, Streams(s, N, t),
           Fits(s, n, N)
    PROVE  Feeds(s, N, t, n)
<1> DEFINE in == Win(t, n)
<1>1. s \in StateOf(N) /\ s.buffered = t % N /\ t % N \in 0 .. N - 1 /\ N \in Nat
  BY Division DEF Streams
<1>2. SUFFICES ASSUME NEW b \in Nat, NEW buffer \in Buffers(N),
                      b <= N - 1 /\ b = s.buffered /\ buffer = s.buffer
             PROVE  Feeds(s, N, t, n)
  BY <1>1 DEF StateOf
<1> DEFINE buf == Copied(buffer, b, in)
           u == [s EXCEPT !.buffer = buf, !.buffered = b + n]
<1>3. Len(in) = n
  BY WinType
<1>4. Fed(s, in, N) = u
  BY <1>2, <1>3 DEF Fed
<1>5. (t + n) \div N = t \div N /\ (t + n) % N = b + n
  <2>1. b = t % N /\ n < N - b
    BY <1>1, <1>2 DEF Fits
  <2> QED
    BY <2>1, FillDivision
<1>6. buf \in Buffers(N)
  BY CopiedType
<1>7. SUFFICES ASSUME NEW c \in Int,
                      c = t - b
             PROVE  Feeds(s, N, t, n)
  OBVIOUS
<1>8. Holds(buf, 0, b + n, c)
  <2>1. Holds(buffer, 0, b, c)
    BY <1>2, <1>7 DEF Streams
  <2>2. t = c + b /\ b + n <= N
    BY <1>1, <1>2, <1>7 DEF Fits
  <2> QED
    BY <1>1, <2>1, <2>2, CopiedHolds
<1> HIDE DEF buf
<1>9. /\ u \in StateOf(N) /\ u.acc = s.acc /\ u.buffer = buf /\ u.buffered = b + n
      /\ u.total = s.total /\ u.large = s.large
  <2>1. \A l \in Nat : LET v == [s EXCEPT !.buffer = buf, !.buffered = l] IN
            /\ v \in StateOf(N) /\ v.acc = s.acc /\ v.buffer = buf /\ v.buffered = l
            /\ v.total = s.total /\ v.large = s.large
    BY <1>1, <1>6 DEF StateOf
  <2>2. b + n \in Nat
    OBVIOUS
  <2> QED
    BY <2>1, <2>2
<1> HIDE DEF u
<1>10. (t + n) - (b + n) = c
  BY <1>7
<1>11. s.acc = Lanes(N, t \div N)
  BY DEF Streams
<1> QED
  BY <1>4, <1>5, <1>8, <1>9, <1>10, <1>11 DEF Streams, Feeds

LEMMA FedConsumes ==
    ASSUME NEW N \in Nat, N \in {16, 32}, NEW t \in Nat, NEW n \in Nat, NEW s, Streams(s, N, t),
           ~ Fits(s, n, N)
    PROVE  Feeds(s, N, t, n)
<1> DEFINE in == Win(t, n)
<1>1. /\ s \in StateOf(N) /\ s.buffered = t % N /\ t % N \in 0 .. N - 1 /\ N \in Nat
      /\ t \div N \in Nat /\ s.acc = Lanes(N, t \div N) /\ t = N * (t \div N) + (t % N)
  BY Division DEF Streams
<1>2. SUFFICES ASSUME NEW b \in Nat, NEW buffer \in Buffers(N), NEW q \in Nat,
                      b <= N - 1 /\ b = s.buffered /\ buffer = s.buffer /\ q = t \div N
             PROVE  Feeds(s, N, t, n)
  <2>1. s.buffer \in Buffers(N) /\ s.buffered \in Nat /\ s.buffered <= N - 1
    BY <1>1 DEF StateOf
  <2> QED
    BY <1>1, <2>1
<1>3. SUFFICES ASSUME NEW load \in Nat,
                      load <= n /\ load = IF b > 0 THEN N - b ELSE 0
             PROVE  Feeds(s, N, t, n)
  <2>1. (IF b > 0 THEN N - b ELSE 0) \in Nat /\ (IF b > 0 THEN N - b ELSE 0) <= n
    BY <1>2 DEF Fits
  <2> QED
    BY <2>1
<1>4. SUFFICES ASSUME NEW m \in Nat,
                      m = IF b > 0 THEN q + 1 ELSE q
             PROVE  Feeds(s, N, t, n)
  OBVIOUS
<1>5. N * m = t + load
  <2>1. N * q = t - b
    BY <1>1, <1>2
  <2>2. CASE N = 16
    BY <1>3, <1>4, <2>1, <2>2
  <2>3. CASE N = 32
    BY <1>3, <1>4, <2>1, <2>3
  <2> QED
    BY <2>2, <2>3
<1> DEFINE whole == Copied(buffer, b, Bytes(in, 0, load))
           rest == From(in, load)
           left == From(rest, Len(rest) - (Len(rest) % N))
           first == IF b > 0 THEN consumeLong(s.acc, whole, N) ELSE s.acc
           old == IF b > 0 THEN whole ELSE buffer
           buf == Copied(old, 0, left)
           u == [s EXCEPT !.acc = consumeLong(first, rest, N), !.buffer = buf, !.buffered = Len(left)]
<1>6. Len(in) = n
  BY WinType
<1>7. Fed(s, in, N) = u
  BY <1>2, <1>3, <1>6 DEF Fed
<1>8. SUFFICES ASSUME NEW k \in Nat,
                      k = n - load
             PROVE  Feeds(s, N, t, n)
  <2>1. n - load \in Nat
    BY <1>3
  <2> QED
    BY <2>1
<1>9. SUFFICES ASSUME NEW r \in Nat,
                      r <= N - 1 /\ r = k % N /\ r <= k
             PROVE  Feeds(s, N, t, n)
  <2>1. CASE N = 16
    BY <2>1
  <2>2. CASE N = 32
    BY <2>2
  <2> QED
    BY <2>1, <2>2
<1>10. (t + n) \div N = m + (k \div N) /\ (t + n) % N = r /\ k \div N \in Nat
  <2>1. k \div N \in Nat /\ k = N * (k \div N) + r
    BY <1>9, Division
  <2>2. m + (k \div N) \in Nat /\ t + n = N * (m + (k \div N)) + r
    <3>1. CASE N = 16
      BY <1>5, <1>8, <2>1, <3>1
    <3>2. CASE N = 32
      BY <1>5, <1>8, <2>1, <3>2
    <3> QED
      BY <3>1, <3>2
  <2>3. t + n \in Nat /\ r \in 0 .. N - 1
    BY <1>9
  <2>4. ASSUME NEW x \in Nat, x = m + (k \div N), t + n = N * x + r
        PROVE  (t + n) \div N = x /\ (t + n) % N = r
    BY <2>3, <2>4, DivisionUnique
  <2> QED
    BY <2>1, <2>2, <2>4
<1>11. SUFFICES ASSUME NEW o \in Nat,
                      o = t + load
             PROVE  Feeds(s, N, t, n)
  OBVIOUS
<1>12. rest = Win(o, k) /\ Len(rest) = k
  <2>0. load <= n
    BY <1>3
  <2>1. rest = Win(t + load, n - load)
    BY <2>0, WinFrom
  <2>2. rest = Win(o, k)
    BY <1>8, <1>11, <2>1
  <2> QED
    BY <2>2, WinType
<1>13. SUFFICES ASSUME NEW c \in Nat,
                      c = t + n - r
             PROVE  Feeds(s, N, t, n)
  BY <1>8, <1>9
<1>14. left = Win(c, r) /\ Len(left) = r
  <2>1. PICK d \in Nat : d = k - r /\ d <= k
    BY <1>9
  <2>2. From(Win(o, k), d) = Win(o + d, k - d)
    BY <2>1, WinFrom
  <2>3. o + d = c /\ k - d = r
    BY <1>8, <1>11, <1>13, <2>1
  <2>4. left = From(Win(o, k), d)
    BY <1>9, <1>12, <2>1
  <2>5. left = Win(c, r)
    BY <2>2, <2>3, <2>4
  <2>6. r \in Nat
    OBVIOUS
  <2> QED
    BY <2>5, <2>6, WinType
<1>15. ASSUME b > 0 PROVE whole = Win(t - b, N) /\ whole \in Buffers(N)
  <2>1. Bytes(in, 0, load) = Win(t, load)
    <3>1. 0 + load <= n /\ t + 0 = t
      BY <1>3
    <3>2. Bytes(in, 0, load) = Win(t + 0, load)
      BY <3>1, WinBytes
    <3> QED
      BY <3>1, <3>2
  <2>2. PICK d \in Int : d = t - b
    OBVIOUS
  <2>3. t = d + b /\ b + load = N /\ b + load <= N /\ load \in Nat /\ b \in Nat
    BY <1>1, <1>3, <1>15, <2>2
  <2>4. Holds(buffer, 0, b, d)
    BY <1>2, <2>2 DEF Streams
  <2>5. Holds(Copied(buffer, b, Win(t, load)), 0, b + load, d)
    BY <1>1, <2>3, <2>4, CopiedHolds
  <2>6. whole \in Buffers(N)
    <3>1. Copied(buffer, b, Win(t, load)) \in Buffers(N)
      BY CopiedType
    <3> QED
      BY <2>1, <3>1
  <2>7. Holds(whole, 0, N, d)
    BY <2>1, <2>3, <2>5
  <2> HIDE DEF whole
  <2>8. whole = Win(d, N)
    BY <1>1, <2>6, <2>7, WholeIs
  <2> QED
    BY <2>2, <2>6, <2>8
<1>16. first = Lanes(N, m)
  <2>1. CASE b > 0
    <3>1. N * q = t - b /\ m = q + 1
      BY <1>1, <1>2, <1>4, <2>1
    <3>2. consumeLong(Lanes(N, q), Win(N * q, N), N) = Lanes(N, q + 1)
      BY ConsumeBuffer
    <3> QED
      BY <1>1, <1>2, <1>15, <2>1, <3>1, <3>2
  <2>2. CASE ~ (b > 0)
    BY <1>1, <1>2, <1>4, <2>2
  <2> QED
    BY <2>1, <2>2
<1>17. old \in Buffers(N)
  BY <1>15
<1> HIDE DEF old, whole, rest, left, first
<1>18. consumeLong(first, rest, N) = Lanes(N, m + (k \div N))
  <2>1. consumeLong(Lanes(N, m), Win(N * m, k), N) = Lanes(N, m + (k \div N))
    BY ConsumeLanes
  <2> QED
    BY <1>5, <1>11, <1>12, <1>16, <2>1
<1>19. buf \in Buffers(N) /\ Holds(buf, 0, r, c)
  <2>1. r \in Nat /\ c \in Int /\ 0 + r <= N /\ c = c + 0 /\ 0 + r = r
    BY <1>1, <1>9
  <2>2. Holds(old, 0, 0, c)
    BY DEF Holds
  <2>3. Copied(old, 0, Win(c, r)) \in Buffers(N)
    BY <1>1, <1>17, <2>1, CopiedType
  <2>4. Holds(Copied(old, 0, Win(c, r)), 0, 0 + r, c)
    BY <1>1, <1>17, <2>1, <2>2, CopiedHolds
  <2> QED
    BY <1>14, <2>1, <2>3, <2>4
<1>20. SUFFICES ASSUME NEW a \in Seq(Seq(Int)),
                      a = consumeLong(first, rest, N)
             PROVE  Feeds(s, N, t, n)
  <2>1. PICK x \in Nat : x = m + (k \div N)
    BY <1>10
  <2>2. Lanes(N, x) \in Seq(Seq(Int))
    BY LanesType
  <2> QED
    BY <1>18, <2>1, <2>2
<1> HIDE DEF buf
<1>21. u = [s EXCEPT !.acc = a, !.buffer = buf, !.buffered = r]
  BY <1>14, <1>20
<1> HIDE DEF u
<1>22. /\ u \in StateOf(N) /\ u.acc = a /\ u.buffer = buf /\ u.buffered = r
       /\ u.total = s.total /\ u.large = s.large
  BY <1>1, <1>19, <1>21 DEF StateOf
<1>23. (t + n) - r = c
  BY <1>13
<1> QED
  BY <1>7, <1>10, <1>18, <1>19, <1>20, <1>22, <1>23 DEF Streams, Feeds

LEMMA FedStreams ==
    ASSUME NEW N \in Nat, N \in {16, 32}, NEW t \in Nat, NEW n \in Nat, NEW s, Streams(s, N, t)
    PROVE  Feeds(s, N, t, n)
BY FedBuffers, FedConsumes

-----------------------------------------------------------------------------
(* What is left in the buffer is finalized as the rest of the message is.  *)
LEMMA FinalizeRest32 ==
    ASSUME NEW b, NEW c \in Int, NEW n \in Nat, Holds(b, 0, n, c)
    PROVE  XXH32_finalize(b, n) = XXH32_finalize(Win(c, n), n)
<1>0. Holds(Win(c, n), 0, n, c)
  BY WinHolds
<1>1. ASSUME NEW k \in 1 .. n \div 4 PROVE Bytes(b, 4 * (k - 1), 4) = Bytes(Win(c, n), 4 * (k - 1), 4)
  <2>1. 4 * (k - 1) \in Nat /\ 4 * (k - 1) + 4 <= n
    OBVIOUS
  <2> QED
    BY <1>0, <2>1, PartIs
<1>2. ASSUME NEW k \in 1 .. n % 4
      PROVE  Bytes(b, n - (n % 4) + k - 1, 1) = Bytes(Win(c, n), n - (n % 4) + k - 1, 1)
  <2>1. n - (n % 4) + k - 1 \in Nat /\ (n - (n % 4) + k - 1) + 1 <= n
    OBVIOUS
  <2> QED
    BY <1>0, <2>1, PartIs
<1> QED
  BY <1>1, <1>2 DEF XXH32_finalize

LEMMA FinalizeRest64 ==
    ASSUME NEW b, NEW c \in Int, NEW n \in Nat, Holds(b, 0, n, c)
    PROVE  XXH64_finalize(b, n) = XXH64_finalize(Win(c, n), n)
<1>0. Holds(Win(c, n), 0, n, c)
  BY WinHolds
<1>1. ASSUME NEW k \in 1 .. n \div 8 PROVE Bytes(b, 8 * (k - 1), 8) = Bytes(Win(c, n), 8 * (k - 1), 8)
  <2>1. 8 * (k - 1) \in Nat /\ 8 * (k - 1) + 8 <= n
    OBVIOUS
  <2> QED
    BY <1>0, <2>1, PartIs
<1>2. Bytes(b, n - (n % 8), n % 8) = Bytes(Win(c, n), n - (n % 8), n % 8)
  <2>1. n - (n % 8) \in Nat /\ n % 8 \in Nat /\ (n - (n % 8)) + (n % 8) <= n
    OBVIOUS
  <2> QED
    BY <1>0, <2>1, PartIs
<1> QED
  BY <1>1, <1>2 DEF XXH64_finalize

(* Division by any number.                                                 *)
LEMMA ProductIsLarge ==
    ASSUME NEW M \in Nat, NEW d \in Nat, d >= 1
    PROVE  M * d >= M
<1>1. PICK e \in Nat : d = e + 1
  OBVIOUS
<1>2. M * e \in Nat
  OBVIOUS
<1>3. M * (e + 1) = M * e + M
  OBVIOUS
<1> QED
  BY <1>1, <1>2, <1>3

LEMMA AnyDivision ==
    ASSUME NEW M \in Nat, M >= 1, NEW t \in Nat
    PROVE  t \div M \in Nat /\ t % M \in Nat /\ t % M < M /\ t = M * (t \div M) + (t % M)
OBVIOUS

LEMMA AnyDivisionUnique ==
    ASSUME NEW M \in Nat, M >= 1, NEW t \in Nat,
           NEW q \in Nat, NEW r \in Nat, r < M, t = M * q + r
    PROVE  t \div M = q /\ t % M = r
<1>0. ASSUME NEW x \in Nat, NEW y \in Nat, NEW u \in Nat, NEW v \in Nat,
             y < M, v < M, M * x + y = M * u + v, x < u
      PROVE  FALSE
  <2>1. SUFFICES ASSUME NEW d \in Nat, u = x + d, d >= 1 PROVE FALSE
    <3>1. u - x \in Nat /\ u - x >= 1 /\ u = x + (u - x)
      BY <1>0
    <3> QED
      BY <3>1
  <2>2. SUFFICES ASSUME NEW a \in Nat, NEW b \in Nat, b >= M, M * x = a, M * u = a + b
                 PROVE  FALSE
    <3>1. M * (x + d) = M * x + M * d
      OBVIOUS
    <3>2. M * d >= M /\ M * d \in Nat /\ M * x \in Nat
      BY <2>1, ProductIsLarge
    <3> QED
      BY <2>1, <3>1, <3>2
  <2>3. a + y = a + b + v
    BY <1>0, <2>2
  <2> QED
    BY <1>0, <2>2, <2>3
<1>1. SUFFICES ASSUME NEW x \in Nat, NEW y \in Nat, y < M, M * x + y = M * q + r,
                      x = t \div M, y = t % M
               PROVE  x = q /\ y = r
  <2>1. t \div M \in Nat /\ t % M \in Nat /\ t % M < M /\ M * (t \div M) + (t % M) = M * q + r
    BY AnyDivision
  <2> QED
    BY <2>1
<1>2. ~ (x < q)
  BY <1>0, <1>1
<1>3. ~ (q < x)
  BY <1>0, <1>1
<1>4. x = q
  BY <1>2, <1>3
<1>5. ASSUME NEW a \in Int, a + y = a + r PROVE y = r
  BY <1>5
<1>6. M * q \in Int /\ M * q + y = M * q + r
  BY <1>1, <1>4
<1> QED
  BY <1>4, <1>5, <1>6

(* The total length of XXH32.                                              *)
LEMMA Remainders ==
    ASSUME NEW M \in Nat, M >= 1, NEW t \in Nat, NEW n \in Nat
    PROVE  (t < M => t % M = t) /\ ((t % M) + n) % M = (t + n) % M
<1>1. ASSUME t < M PROVE t % M = t
  <2>1. t = M * 0 + t /\ 0 \in Nat
    OBVIOUS
  <2> QED
    BY <1>1, <2>1, AnyDivisionUnique
<1>2. SUFFICES ASSUME NEW q \in Nat, NEW r \in Nat, r = t % M, t = M * q + r
               PROVE  (r + n) % M = (t + n) % M
  <2>1. t \div M \in Nat /\ t % M \in Nat /\ t = M * (t \div M) + (t % M)
    BY AnyDivision
  <2> QED
    BY <1>1, <2>1
<1>3. SUFFICES ASSUME NEW u \in Nat, u = r + n
               PROVE  u % M = (t + n) % M
  OBVIOUS
<1>4. SUFFICES ASSUME NEW x \in Nat, NEW y \in Nat, y < M, u = M * x + y, y = u % M
               PROVE  (t + n) % M = y
  <2>1. u \div M \in Nat /\ u % M \in Nat /\ u % M < M /\ u = M * (u \div M) + (u % M)
    BY AnyDivision
  <2> QED
    BY <2>1
<1>5. SUFFICES ASSUME NEW v \in Nat, v = t + n, NEW z \in Nat, z = q + x
               PROVE  v % M = y
  OBVIOUS
<1>6. v = M * z + y
  <2>1. M * (q + x) = M * q + M * x
    OBVIOUS
  <2>2. SUFFICES ASSUME NEW a \in Nat, NEW b \in Nat, a = M * q, b = M * x, M * z = a + b
                 PROVE  v = M * z + y
    BY <1>5, <2>1
  <2> QED
    BY <1>2, <1>3, <1>4, <1>5, <2>2
<1> QED
  BY <1>4, <1>6, AnyDivisionUnique

(* What a state of XXH32 is after t bytes, and one of XXH64.               *)
After32(s, t) ==
    /\ Streams(s, 16, t)
    /\ s.total = t % Modulus
    /\ s.large \in BOOLEAN /\ (s.large <=> t >= 16)

After64(s, t) == Streams(s, 32, t) /\ s.total = t

LEMMA ResetIs ==
    After32(ResetState(16), 0) /\ After64(ResetState(32), 0)
<1>1. ASSUME NEW N \in Nat, N \in {16, 32} PROVE Streams(ResetState(N), N, 0)
  <2>1. [k \in 1 .. N |-> Stale] \in Buffers(N) /\ << >> \in Seq(Seq(Int))
    BY DEF Stale, Buffers
  <2> DEFINE b == [k \in 1 .. N |-> Stale]
  <2> HIDE DEF b
  <2>2. ResetState(N) = [acc |-> << >>, total |-> 0, large |-> FALSE, buffer |-> b, buffered |-> 0]
    BY DEF ResetState, b
  <2>3. ResetState(N) \in StateOf(N)
    BY <2>1, <2>2 DEF StateOf, b
  <2>4. 0 \div N = 0 /\ 0 % N = 0
    <3>1. 0 = N * 0 + 0 /\ 0 \in Nat
      OBVIOUS
    <3>2. 0 \in 0 .. N - 1
      BY <1>1
    <3> QED
      BY <1>1, <3>1, <3>2, DivisionUnique
  <2>5. Lanes(N, 0) = << >>
    BY DEF Lanes
  <2>6. \A c : Holds(b, 0, 0, c)
    BY DEF Holds
  <2> QED
    BY <2>2, <2>3, <2>4, <2>5, <2>6 DEF Streams
<1>2. 0 % Modulus = 0
  BY Remainders, XXHashAssumption
<1>3. ResetState(16).total = 0 /\ ResetState(16).large = FALSE /\ ResetState(32).total = 0
  BY DEF ResetState
<1>4. Streams(ResetState(16), 16, 0) /\ Streams(ResetState(32), 32, 0)
  BY <1>1
<1>5. After32(ResetState(16), 0)
  <2>1. ~ (0 >= 16)
    OBVIOUS
  <2>2. ResetState(16).large \in BOOLEAN /\ (ResetState(16).large <=> 0 >= 16)
    BY <1>3, <2>1, Zenon
  <2> QED
    BY <1>2, <1>3, <1>4, <2>2 DEF After32
<1> QED
  BY <1>3, <1>4, <1>5 DEF After64

LEMMA Update32 ==
    ASSUME NEW s, NEW t \in Nat, NEW n \in Nat, After32(s, t)
    PROVE  After32(XXH32_update(s, Win(t, n)), t + n)
<1> DEFINE f == Fed(s, Win(t, n), 16)
           u == XXH32_update(s, Win(t, n))
<1>1. Streams(f, 16, t + n) /\ f.total = s.total
  <2>1. Feeds(s, 16, t, n)
    BY FedStreams DEF After32
  <2> QED
    BY <2>1 DEF Feeds
<1>2. Len(Win(t, n)) = n
  BY WinType
<1>3. /\ (s.total + n) % Modulus = (t + n) % Modulus /\ (t + n) % Modulus \in Nat
      /\ (t + n) % Modulus <= t + n
      /\ t + n < Modulus => (t + n) % Modulus = t + n
  <2>1. t % Modulus \in Nat /\ s.total = t % Modulus
    BY XXHashAssumption, AnyDivision DEF After32
  <2>2. PICK x \in Nat : x = t + n
    OBVIOUS
  <2>3. x % Modulus \in Nat /\ (x < Modulus => x % Modulus = x) /\ x % Modulus <= x
    <3>1. x % Modulus \in Nat /\ x % Modulus < Modulus /\ (x < Modulus => x % Modulus = x)
      BY XXHashAssumption, AnyDivision, Remainders
    <3> QED
      BY <3>1, XXHashAssumption
  <2>4. ASSUME NEW M \in Nat, M = Modulus PROVE ((t % M) + n) % M = (t + n) % M
    <3>1. M >= 1
      BY <2>4, XXHashAssumption
    <3> QED
      BY <3>1, Remainders
  <2> QED
    BY <2>1, <2>2, <2>3, <2>4, XXHashAssumption
<1>4. u = [f EXCEPT !.total = (t + n) % Modulus, !.large = LargeLen(s, n)]
  BY <1>1, <1>2, <1>3 DEF XXH32_update
<1>5. LargeLen(s, n) \in BOOLEAN /\ (LargeLen(s, n) <=> t + n >= 16)
  <2>1. CASE t >= 16
    BY <2>1 DEF LargeLen, After32
  <2>2. CASE n >= 16
    BY <2>2 DEF LargeLen
  <2>3. CASE t < 16 /\ n < 16
    <3>1. (t + n) % Modulus = t + n
      BY <1>3, <2>3, XXHashAssumption
    <3>2. ~ s.large
      BY <2>3 DEF After32
    <3> QED
      BY <1>3, <2>3, <3>1, <3>2 DEF LargeLen
  <2>4. LargeLen(s, n) \in BOOLEAN
    BY DEF LargeLen, After32
  <2> QED
    BY <2>1, <2>2, <2>3, <2>4
<1> HIDE DEF f, u
<1>6. /\ u \in StateOf(16) /\ u.acc = f.acc /\ u.buffer = f.buffer /\ u.buffered = f.buffered
      /\ u.total = (t + n) % Modulus /\ u.large = LargeLen(s, n)
  <2>1. f \in StateOf(16)
    BY <1>1 DEF Streams
  <2> QED
    BY <1>3, <1>4, <1>5, <2>1 DEF StateOf
<1>7. After32(u, t + n)
  BY <1>1, <1>5, <1>6 DEF After32, Streams
<1> QED
  BY <1>7 DEF u

LEMMA Update64 ==
    ASSUME NEW s, NEW t \in Nat, NEW n \in Nat, After64(s, t)
    PROVE  After64(XXH64_update(s, Win(t, n)), t + n)
<1> DEFINE f == Fed(s, Win(t, n), 32)
           u == XXH64_update(s, Win(t, n))
<1>1. Streams(f, 32, t + n) /\ f.total = t
  <2>1. Feeds(s, 32, t, n)
    BY FedStreams DEF After64
  <2> QED
    BY <2>1 DEF Feeds, After64
<1>2. Len(Win(t, n)) = n
  BY WinType
<1>3. u = [f EXCEPT !.total = t + n]
  BY <1>1, <1>2 DEF XXH64_update
<1> HIDE DEF f, u
<1>4. /\ u \in StateOf(32) /\ u.acc = f.acc /\ u.buffer = f.buffer /\ u.buffered = f.buffered
      /\ u.total = t + n
  <2>1. f \in StateOf(32) /\ t + n \in Nat
    BY <1>1 DEF Streams
  <2> QED
    BY <1>3, <2>1 DEF StateOf
<1>5. After64(u, t + n)
  BY <1>1, <1>4 DEF After64, Streams
<1> QED
  BY <1>5 DEF u

(* All lanes of a message, and what is left of it.                         *)
LEMMA AllAtOnce ==
    ASSUME NEW N \in Nat, N \in {16, 32}, NEW t \in Nat
    PROVE  /\ Len(Message(t)) = t
           /\ consumeLong(<< >>, Message(t), N) = Lanes(N, t \div N)
           /\ Bytes(Message(t), t - (t % N), t % N) = Win(t - (t % N), t % N)
<1>1. Message(t) = Win(0, t) /\ Len(Win(0, t)) = t
  BY MessageIs, WinType
<1>2. consumeLong(Lanes(N, 0), Win(N * 0, t), N) = Lanes(N, 0 + (t \div N))
  BY ConsumeLanes
<1>3. Lanes(N, 0) = << >> /\ N * 0 = 0 /\ 0 + (t \div N) = t \div N
  BY Division DEF Lanes
<1>4. ASSUME NEW r \in Nat, r = t % N, NEW o \in Nat, o = t - r
      PROVE  Bytes(Win(0, t), o, r) = Win(o, r)
  <2>1. o + r <= t /\ 0 + o = o /\ 0 \in Int
    BY <1>4
  <2> QED
    BY <2>1, WinBytes
<1>5. t % N \in Nat /\ t - (t % N) \in Nat
  <2>1. CASE N = 16
    BY <2>1
  <2>2. CASE N = 32
    BY <2>2
  <2> QED
    BY <2>1, <2>2
<1>6. Bytes(Win(0, t), t - (t % N), t % N) = Win(t - (t % N), t % N)
  BY <1>4, <1>5
<1> QED
  BY <1>1, <1>2, <1>3, <1>6

LEMMA Digest32 ==
    ASSUME NEW s, NEW t \in Nat, After32(s, t)
    PROVE  XXH32_digest(s) = XXH32(Message(t))
<1>0. s.large = (t >= 16)
  <2>1. s.large \in BOOLEAN /\ (s.large <=> t >= 16)
    BY DEF After32
  <2>2. CASE t >= 16
    BY <2>1, <2>2, Zenon
  <2>3. CASE ~ (t >= 16)
    <3>1. s.large = FALSE
      BY <2>1, <2>3, Zenon
    <3>2. (t >= 16) = FALSE
      BY <2>3
    <3> QED
      BY <3>1, <3>2, Zenon
  <2> QED
    BY <2>2, <2>3
<1>1. /\ s.acc = Lanes(16, t \div 16) /\ s.buffered = t % 16
      /\ s.total = t % Modulus /\ Holds(s.buffer, 0, s.buffered, t - s.buffered)
  BY DEF After32, Streams
<1>2. /\ Len(Message(t)) = t
      /\ consumeLong(<< >>, Message(t), 16) = Lanes(16, t \div 16)
      /\ Bytes(Message(t), t - (t % 16), t % 16) = Win(t - (t % 16), t % 16)
  BY AllAtOnce
<1>3. XXH32_finalize(s.buffer, t % 16) = XXH32_finalize(Win(t - (t % 16), t % 16), t % 16)
  <2>1. t % 16 \in Nat /\ t - (t % 16) \in Int
    OBVIOUS
  <2> QED
    BY <1>1, <2>1, FinalizeRest32
<1> QED
  BY <1>0, <1>1, <1>2, <1>3 DEF XXH32_digest, XXH32

LEMMA Digest64 ==
    ASSUME NEW s, NEW t \in Nat, After64(s, t)
    PROVE  XXH64_digest(s) = XXH64(Message(t))
<1>1. /\ s.acc = Lanes(32, t \div 32) /\ s.buffered = t % 32
      /\ s.total = t /\ Holds(s.buffer, 0, s.buffered, t - s.buffered)
  BY DEF After64, Streams
<1>2. /\ Len(Message(t)) = t
      /\ consumeLong(<< >>, Message(t), 32) = Lanes(32, t \div 32)
      /\ Bytes(Message(t), t - (t % 32), t % 32) = Win(t - (t % 32), t % 32)
  BY AllAtOnce
<1>3. XXH64_finalize(s.buffer, t % 32) = XXH64_finalize(Win(t - (t % 32), t % 32), t % 32)
  <2>1. t % 32 \in Nat /\ t - (t % 32) \in Int
    OBVIOUS
  <2> QED
    BY <1>1, <2>1, FinalizeRest64
<1> QED
  BY <1>1, <1>2, <1>3 DEF XXH64_digest, XXH64

(* Both states are what they are after the bytes of the message so far.    *)
Streamed ==
    /\ len \in Nat
    /\ After32(s32, len) /\ After64(s64, len)

(* Every action either resets the states or gives them the next piece.     *)
Resets ==
    \E how, seed, useSeed, ext, custom : Reset(how, seed, useSeed, ext, custom)

Pieces(n) ==
    /\ mode # Unset
    /\ s32' = XXH32_update(s32, Win(len, n))
    /\ s64' = XXH64_update(s64, Win(len, n))
    /\ s3' = XXH3_update(s3, Win(len, n))
    /\ len' = len + n
    /\ UNCHANGED mode

LEMMA UpdateIsPiece ==
    ASSUME Update
    PROVE  \E n \in Nat : Pieces(n)
<1>1. PICK n \in First \cup Lens :
        LET in == [k \in 1 .. n |-> len + k] IN
        /\ s32' = XXH32_update(s32, in)
        /\ s64' = XXH64_update(s64, in)
        /\ s3' = XXH3_update(s3, in)
        /\ len' = len + n
  BY DEF Update
<1>2. n \in Nat
  BY XXHashAssumption
<1>3. Pieces(n)
  BY <1>1 DEF Update, Pieces, Win
<1> QED
  BY <1>2, <1>3

LEMMA NextIs ==
    ASSUME [Next]_vars
    PROVE  Resets \/ (\E n \in Nat : Pieces(n)) \/ UNCHANGED vars
<1>1. CASE ResetDefault
  BY <1>1 DEF ResetDefault, Resets
<1>2. CASE ResetWithSecret
  BY <1>2 DEF ResetWithSecret, Resets
<1>3. CASE ResetWithSeed
  BY <1>3 DEF ResetWithSeed, Resets
<1>4. CASE ResetWithSecretAndSeed
  BY <1>4 DEF ResetWithSecretAndSeed, Resets
<1>5. CASE Update
  BY <1>5, UpdateIsPiece
<1> QED
  BY <1>1, <1>2, <1>3, <1>4, <1>5 DEF Next

THEOREM StreamedInvariant == Spec => []Streamed
<1>1. Init => Streamed
  BY ResetIs DEF Init, Streamed
<1>2. Streamed /\ [Next]_vars => Streamed'
  <2> SUFFICES ASSUME Streamed, [Next]_vars PROVE Streamed'
    OBVIOUS
  <2>1. CASE Resets
    BY <2>1, ResetIs DEF Resets, Reset, Streamed
  <2>2. ASSUME NEW n \in Nat, Pieces(n) PROVE Streamed'
    <3>1. After32(XXH32_update(s32, Win(len, n)), len + n)
      BY Update32 DEF Streamed
    <3>2. After64(XXH64_update(s64, Win(len, n)), len + n)
      BY Update64 DEF Streamed
    <3>3. len + n \in Nat
      BY DEF Streamed
    <3> QED
      BY <2>2, <3>1, <3>2, <3>3 DEF Pieces, Streamed
  <2>3. CASE UNCHANGED vars
    BY <2>3 DEF vars, Streamed
  <2> QED
    BY <2>1, <2>2, <2>3, NextIs
<1> QED
  BY <1>1, <1>2, PTL DEF Spec

(* A message hashes to the same value in one call and in pieces, wherever  *)
(* it is cut: XXH32_update and XXH32_digest, whose total length may wrap.  *)
THEOREM XXH32StreamsHolds == Spec => []XXH32Streams
<1>1. Streamed => XXH32Streams
  BY Digest32 DEF Streamed, XXH32Streams
<1> QED
  BY <1>1, StreamedInvariant, PTL

(* The same for XXH64_update and XXH64_digest.                             *)
THEOREM XXH64StreamsHolds == Spec => []XXH64Streams
<1>1. Streamed => XXH64Streams
  BY Digest64 DEF Streamed, XXH64Streams
<1> QED
  BY <1>1, StreamedInvariant, PTL

-----------------------------------------------------------------------------
(* XXH3: what is mixed, as a sequence of uses.                             *)
Secrets == {kSecret, User, NULL} \cup {Custom(x) : x \in Seed \cup {"0", "none"}}
Uses == [in : Seq(Int), sec : Secrets, off : Int, width : Int]

LEMMA SecretsType ==
    ASSUME NEW sec \in Secrets
    PROVE  /\ sec.size \in Nat /\ sec.size >= 136
           /\ PerBlock(sec) \in Nat /\ PerBlock(sec) >= 9 /\ 8 * PerBlock(sec) <= sec.size - 64
<1>1. sec.size \in Nat /\ sec.size >= 136
  BY XXHashAssumption DEF Secrets, kSecret, User, NULL, Custom
<1>2. SUFFICES ASSUME NEW n \in Nat, n >= 136, n = sec.size
               PROVE  /\ (n - 64) \div 8 \in Nat /\ (n - 64) \div 8 >= 9
                      /\ 8 * ((n - 64) \div 8) <= n - 64
  BY <1>1 DEF PerBlock
<1> QED
  BY <1>2

LEMMA UseType ==
    ASSUME NEW w \in Seq(Int), NEW sec \in Secrets, NEW o \in Int, NEW n \in Int
    PROVE  Use(w, sec, o, n) \in Uses
BY DEF Use, Uses

(* n stripes from stripe c on, the first with the secret's place k.        *)
Row(sec, c, k, n) ==
    [j \in 1 .. n |-> Use(Win(64 * (c + j - 1), 64), sec, 8 * (k + j - 1), 64)]

LEMMA RowType ==
    ASSUME NEW sec \in Secrets, NEW c \in Nat, NEW k \in Nat, NEW n \in Nat
    PROVE  Row(sec, c, k, n) \in Seq(Uses) /\ Len(Row(sec, c, k, n)) = n
<1>1. ASSUME NEW j \in 1 .. n
      PROVE  Use(Win(64 * (c + j - 1), 64), sec, 8 * (k + j - 1), 64) \in Uses
  <2>1. 64 * (c + j - 1) \in Int /\ 8 * (k + j - 1) \in Int /\ 64 \in Nat /\ 64 \in Int
    OBVIOUS
  <2>2. Win(64 * (c + j - 1), 64) \in Seq(Int)
    BY <2>1, WinType
  <2> QED
    BY <2>1, <2>2, UseType
<1>2. Row(sec, c, k, n) \in [1 .. n -> Uses]
  BY <1>1 DEF Row
<1> QED
  BY <1>2, FunctionSeq

Plus(a, b, c) == c = a + b

LEMMA RowJoin ==
    ASSUME NEW sec \in Secrets, NEW c \in Nat, NEW k \in Nat, NEW n \in Nat, NEW m \in Nat,
           NEW d \in Nat, NEW l \in Nat, Plus(c, n, d), Plus(k, n, l)
    PROVE  Row(sec, c, k, n) \o Row(sec, d, l, m) = Row(sec, c, k, n + m)
<1> DEFINE a == Row(sec, c, k, n)
           b == Row(sec, d, l, m)
           e == Row(sec, c, k, n + m)
<1>1. /\ a \in Seq(Uses) /\ b \in Seq(Uses) /\ e \in Seq(Uses)
      /\ Len(a) = n /\ Len(b) = m /\ Len(e) = n + m
  <2>1. ASSUME NEW x \in Nat, x = n + m
        PROVE  Row(sec, c, k, x) \in Seq(Uses) /\ Len(Row(sec, c, k, x)) = x
    BY RowType, SMTT(30)
  <2>2. n + m \in Nat
    OBVIOUS
  <2>3. e \in Seq(Uses) /\ Len(e) = n + m
    BY <2>1, <2>2
  <2>4. a \in Seq(Uses) /\ Len(a) = n
    BY RowType
  <2>5. b \in Seq(Uses) /\ Len(b) = m
    BY RowType, SMTT(30)
  <2> HIDE DEF a, b, e
  <2> QED
    BY <2>3, <2>4, <2>5
<1>2. ASSUME NEW j \in 1 .. n PROVE a[j] = e[j]
  <2>1. j \in 1 .. n + m
    OBVIOUS
  <2> QED
    BY <2>1 DEF Row
<1>3. ASSUME NEW j \in 1 .. m PROVE b[j] = e[n + j]
  <2>1. n + j \in 1 .. n + m /\ d + j - 1 = c + (n + j) - 1 /\ l + j - 1 = k + (n + j) - 1
    BY DEF Plus
  <2>2. b[j] = Use(Win(64 * (d + j - 1), 64), sec, 8 * (l + j - 1), 64)
    BY DEF Row
  <2>3. e[n + j] = Use(Win(64 * (c + (n + j) - 1), 64), sec, 8 * (k + (n + j) - 1), 64)
    BY <2>1 DEF Row
  <2> QED
    BY <2>1, <2>2, <2>3
<1> HIDE DEF a, b, e
<1>4. a \o b = e
  BY <1>1, <1>2, <1>3, ConcatIs
<1> QED
  BY <1>4 DEF a, b, e

LEMMA RowEmpty ==
    ASSUME NEW sec, NEW c, NEW k
    PROVE  Row(sec, c, k, 0) = << >>
BY DEF Row

(* What accumulate takes of a buffer that holds the message.               *)
LEMMA AccumulateIs ==
    ASSUME NEW sec, NEW b, NEW m \in Nat, NEW e \in Int, Holds(b, 0, m, e),
           NEW i \in Nat, NEW n \in Nat, i + 64 * n <= m,
           NEW c \in Nat, e + i = 64 * c, NEW s \in Nat, NEW k \in Nat, s = 8 * k
    PROVE  accumulate(b, i, sec, s, n) = Row(sec, c, k, n)
<1>1. ASSUME NEW j \in 1 .. n
      PROVE  /\ Bytes(b, i + 64 * (j - 1), 64) = Win(64 * (c + j - 1), 64)
             /\ s + 8 * (j - 1) = 8 * (k + j - 1)
  <2>1. ASSUME NEW o \in Nat, o = i + 64 * (j - 1), NEW x \in Int, x = 64 * (c + j - 1)
        PROVE  Bytes(b, o, 64) = Win(x, 64)
    <3>1. o + 64 <= m /\ e + o = x /\ 64 \in Nat
      BY <2>1
    <3> QED
      BY <3>1, PartIs
  <2>2. i + 64 * (j - 1) \in Nat /\ 64 * (c + j - 1) \in Int
    OBVIOUS
  <2>3. s + 8 * (j - 1) = 8 * (k + j - 1)
    OBVIOUS
  <2> QED
    BY <2>1, <2>2, <2>3
<1> QED
  BY <1>1 DEF accumulate, Row

(* A whole block, the secret's end mixed in after it, and many.            *)
Block(sec, b) == Row(sec, PerBlock(sec) * (b - 1), 0, PerBlock(sec)) \o scramble(sec)
BlockSeq(sec, d, n) == [b \in 1 .. n |-> Block(sec, d + b)]
Blocks(sec, d, n) == FlattenSeq(BlockSeq(sec, d, n))

LEMMA ScrambleType ==
    ASSUME NEW sec \in Secrets
    PROVE  scramble(sec) \in Seq(Uses)
<1>1. sec.size - 64 \in Int /\ 64 \in Int /\ << >> \in Seq(Int)
  BY SecretsType
<1>2. Use(<< >>, sec, sec.size - 64, 64) \in Uses
  BY <1>1, UseType
<1> QED
  BY <1>2 DEF scramble

LEMMA BlockType ==
    ASSUME NEW sec \in Secrets, NEW b \in Nat, b >= 1
    PROVE  Block(sec, b) \in Seq(Uses)
<1>1. PerBlock(sec) \in Nat
  BY SecretsType
<1>2. PerBlock(sec) * (b - 1) \in Nat
  <2>1. b - 1 \in Nat
    OBVIOUS
  <2> QED
    BY <1>1, <2>1
<1>3. Row(sec, PerBlock(sec) * (b - 1), 0, PerBlock(sec)) \in Seq(Uses)
  BY <1>1, <1>2, RowType
<1> QED
  BY <1>3, ScrambleType DEF Block

LEMMA BlockSeqType ==
    ASSUME NEW sec \in Secrets, NEW d \in Nat, NEW n \in Nat
    PROVE  BlockSeq(sec, d, n) \in Seq(Seq(Uses)) /\ Len(BlockSeq(sec, d, n)) = n
<1>1. ASSUME NEW b \in 1 .. n PROVE Block(sec, d + b) \in Seq(Uses)
  <2>1. d + b \in Nat /\ d + b >= 1
    OBVIOUS
  <2> QED
    BY <2>1, BlockType
<1>2. BlockSeq(sec, d, n) \in [1 .. n -> Seq(Uses)]
  BY <1>1 DEF BlockSeq
<1> QED
  BY <1>2, FunctionSeq

LEMMA BlocksType ==
    ASSUME NEW sec \in Secrets, NEW d \in Nat, NEW n \in Nat
    PROVE  Blocks(sec, d, n) \in Seq(Uses)
BY BlockSeqType, FlattenType DEF Blocks

LEMMA BlocksNone ==
    ASSUME NEW sec, NEW d
    PROVE  Blocks(sec, d, 0) = << >>
<1>1. BlockSeq(sec, d, 0) = << >>
  BY DEF BlockSeq
<1> QED
  BY <1>1, FlattenEmpty DEF Blocks

LEMMA BlocksNext ==
    ASSUME NEW sec \in Secrets, NEW d \in Nat, NEW n \in Nat
    PROVE  Blocks(sec, d, n + 1) = Blocks(sec, d, n) \o Block(sec, d + n + 1)
<1> DEFINE a == BlockSeq(sec, d, n)
           e == Block(sec, d + n + 1)
           c == BlockSeq(sec, d, n + 1)
<1>1. a \in Seq(Seq(Uses)) /\ Len(a) = n
  BY BlockSeqType
<1>2. c \in Seq(Seq(Uses)) /\ Len(c) = n + 1
  <2>1. n + 1 \in Nat
    OBVIOUS
  <2> QED
    BY <2>1, BlockSeqType
<1>3. e \in Seq(Uses)
  <2>1. d + n + 1 \in Nat /\ d + n + 1 >= 1
    OBVIOUS
  <2> QED
    BY <2>1, BlockType
<1>4. ASSUME NEW k \in 1 .. n + 1 PROVE Append(a, e)[k] = c[k]
  <2>1. CASE k \in 1 .. n
    <3>1. a[k] = Block(sec, d + k)
      BY <2>1 DEF BlockSeq
    <3>2. c[k] = Block(sec, d + k)
      BY DEF BlockSeq
    <3> HIDE DEF a, e, c
    <3>3. Append(a, e)[k] = a[k]
      BY <1>1, <2>1
    <3> QED
      BY <3>1, <3>2, <3>3
  <2>2. CASE k = n + 1
    <3>1. n + 1 \in 1 .. n + 1 /\ d + (n + 1) = d + n + 1
      OBVIOUS
    <3>2. c[n + 1] = Block(sec, d + (n + 1))
      BY <3>1 DEF BlockSeq
    <3>3. c[n + 1] = e
      BY <3>1, <3>2
    <3> HIDE DEF a, e, c
    <3>4. Append(a, e)[n + 1] = e
      BY <1>1
    <3> QED
      BY <2>2, <3>3, <3>4
  <2>3. k \in 1 .. n \/ k = n + 1
    OBVIOUS
  <2> HIDE DEF a, e, c
  <2> QED
    BY <2>1, <2>2, <2>3
<1> HIDE DEF a, e, c
<1>5. Append(a, e) = c
  <2>1. Append(a, e) \in Seq(Seq(Uses)) /\ Len(Append(a, e)) = n + 1
    BY <1>1, <1>3
  <2> QED
    BY <1>2, <1>4, <2>1, SeqEqual
<1>6. FlattenSeq(Append(a, e)) = FlattenSeq(a) \o e
  BY <1>1, <1>3, FlattenAppend
<1> QED
  BY <1>5, <1>6 DEF a, e, c, Blocks

LEMMA BlocksJoin ==
    ASSUME NEW sec \in Secrets, NEW q \in Nat, NEW n \in Nat
    PROVE  Blocks(sec, 0, q) \o Blocks(sec, q, n) = Blocks(sec, 0, q + n)
<1> DEFINE Joins(k) == Blocks(sec, 0, q) \o Blocks(sec, q, k) = Blocks(sec, 0, q + k)
           T == {k \in 0 .. n : Joins(k)}
<1>1. Joins(0)
  <2>1. Blocks(sec, 0, q) \in Seq(Uses) /\ Blocks(sec, q, 0) = << >> /\ q + 0 = q
    BY BlocksType, BlocksNone
  <2> QED
    BY <2>1
<1>2. ASSUME NEW k \in Nat, Joins(k) PROVE Joins(k + 1)
  <2>1. Blocks(sec, q, k + 1) = Blocks(sec, q, k) \o Block(sec, q + k + 1)
    BY BlocksNext
  <2>2. Blocks(sec, 0, q + k + 1) = Blocks(sec, 0, q + k) \o Block(sec, q + k + 1)
    <3>1. q + k \in Nat /\ 0 + (q + k) + 1 = q + k + 1
      OBVIOUS
    <3> QED
      BY <3>1, BlocksNext
  <2>3. /\ Blocks(sec, 0, q) \in Seq(Uses) /\ Blocks(sec, q, k) \in Seq(Uses)
        /\ Block(sec, q + k + 1) \in Seq(Uses)
    <3>1. q + k + 1 \in Nat /\ q + k + 1 >= 1
      OBVIOUS
    <3> QED
      BY <3>1, BlocksType, BlockType
  <2>4. Blocks(sec, 0, q) \o (Blocks(sec, q, k) \o Block(sec, q + k + 1))
        = (Blocks(sec, 0, q) \o Blocks(sec, q, k)) \o Block(sec, q + k + 1)
    BY <2>3, Associative, SMTT(30) DEF Joined
  <2>5. q + (k + 1) = q + k + 1
    OBVIOUS
  <2> QED
    BY <1>2, <2>1, <2>2, <2>4, <2>5
<1> HIDE DEF Joins
<1>3. 0 \in T
  BY <1>1
<1>4. \A k \in 0 .. n - 1 : k \in T => k + 1 \in T
  BY <1>2
<1> HIDE DEF T
<1>5. n \in T
  <2>1. \A k \in 0 .. n : k \in T
    BY <1>3, <1>4, Induct
  <2> QED
    BY <2>1
<1> QED
  BY <1>5 DEF T, Joins

(* What has been mixed of q blocks and r stripes.                          *)
Mixed(sec, q, r) == Blocks(sec, 0, q) \o Row(sec, PerBlock(sec) * q, 0, r)

LEMMA MixedType ==
    ASSUME NEW sec \in Secrets, NEW q \in Nat, NEW r \in Nat
    PROVE  Mixed(sec, q, r) \in Seq(Uses)
<1>1. PerBlock(sec) * q \in Nat
  BY SecretsType
<1>2. Row(sec, PerBlock(sec) * q, 0, r) \in Seq(Uses)
  BY <1>1, RowType
<1>3. Blocks(sec, 0, q) \in Seq(Uses)
  BY BlocksType
<1> QED
  BY <1>2, <1>3 DEF Mixed

LEMMA MixedWhole ==
    ASSUME NEW sec \in Secrets, NEW q \in Nat
    PROVE  Mixed(sec, q, 0) = Blocks(sec, 0, q)
<1>1. Blocks(sec, 0, q) \in Seq(Uses)
  BY BlocksType
<1> QED
  BY <1>1, RowEmpty DEF Mixed

(* More stripes of the block that was begun ...                            *)
LEMMA MixedMore ==
    ASSUME NEW sec \in Secrets, NEW q \in Nat, NEW r \in Nat, NEW n \in Nat,
           NEW c \in Nat, c = PerBlock(sec) * q + r
    PROVE  Mixed(sec, q, r) \o Row(sec, c, r, n) = Mixed(sec, q, r + n)
<1>1. SUFFICES ASSUME NEW d \in Nat, d = PerBlock(sec) * q
               PROVE  Mixed(sec, q, r) \o Row(sec, c, r, n) = Mixed(sec, q, r + n)
  BY SecretsType
<1> DEFINE x == Blocks(sec, 0, q)
           y == Row(sec, d, 0, r)
           z == Row(sec, c, r, n)
<1>2. y \o z = Row(sec, d, 0, r + n)
  <2>1. ASSUME NEW k \in Nat, k = 0
        PROVE  Row(sec, d, k, r) \o Row(sec, c, r, n) = Row(sec, d, k, r + n)
    <3>1. Plus(d, r, c) /\ Plus(k, r, r)
      BY <1>1, <2>1 DEF Plus
    <3> QED
      BY <3>1, RowJoin
  <2> QED
    BY <2>1
<1>3. x \in Seq(Uses) /\ y \in Seq(Uses) /\ z \in Seq(Uses)
  <2>1. 0 \in Nat
    OBVIOUS
  <2> QED
    BY <2>1, BlocksType, RowType
<1>4. Joined(x, y, z)
  BY <1>3, Associative
<1>5. Mixed(sec, q, r) = x \o y /\ Mixed(sec, q, r + n) = x \o Row(sec, d, 0, r + n)
  BY <1>1 DEF Mixed
<1> HIDE DEF x, y, z
<1>6. Mixed(sec, q, r) \o z = Mixed(sec, q, r + n)
  BY <1>2, <1>4, <1>5 DEF Joined
<1> QED
  BY <1>6 DEF z

Place(sec, q, r, c) == c = PerBlock(sec) * q + r

(* ... or all of it.                                                       *)
LEMMA MixedBlock ==
    ASSUME NEW sec \in Secrets, NEW q \in Nat, NEW r \in Nat, NEW n \in Nat,
           Plus(r, n, PerBlock(sec)), NEW c \in Nat, Place(sec, q, r, c)
    PROVE  (Mixed(sec, q, r) \o Row(sec, c, r, n)) \o scramble(sec) = Blocks(sec, 0, q + 1)
<1>1. Mixed(sec, q, r) \o Row(sec, c, r, n) = Mixed(sec, q, PerBlock(sec))
  <2>1. c = PerBlock(sec) * q + r /\ r + n = PerBlock(sec)
    BY DEF Place, Plus
  <2>2. Mixed(sec, q, r) \o Row(sec, c, r, n) = Mixed(sec, q, r + n)
    BY <2>1, MixedMore, SMTT(30)
  <2> QED
    BY <2>1, <2>2
<1> DEFINE x == Blocks(sec, 0, q)
           y == Row(sec, PerBlock(sec) * q, 0, PerBlock(sec))
           z == scramble(sec)
<1>2. x \in Seq(Uses) /\ y \in Seq(Uses) /\ z \in Seq(Uses)
  <2>1. PerBlock(sec) \in Nat /\ PerBlock(sec) * q \in Nat
    BY SecretsType
  <2> QED
    BY <2>1, BlocksType, RowType, ScrambleType
<1>3. x \o (y \o z) = (x \o y) \o z
  BY <1>2, Associative DEF Joined
<1>4. Mixed(sec, q, PerBlock(sec)) = x \o y
  BY DEF Mixed
<1>5. y \o z = Block(sec, q + 1)
  <2>1. (q + 1) - 1 = q
    OBVIOUS
  <2> QED
    BY <2>1 DEF Block
<1>6. x \o Block(sec, q + 1) = Blocks(sec, 0, q + 1)
  <2>1. 0 + q + 1 = q + 1 /\ 0 \in Nat
    OBVIOUS
  <2>2. Blocks(sec, 0, q + 1) = Blocks(sec, 0, q) \o Block(sec, 0 + q + 1)
    BY BlocksNext
  <2> QED
    BY <2>1, <2>2
<1> HIDE DEF x, y, z
<1>7. Mixed(sec, q, PerBlock(sec)) \o z = Blocks(sec, 0, q + 1)
  BY <1>3, <1>4, <1>5, <1>6
<1> QED
  BY <1>1, <1>7 DEF z

LEMMA ProductMonotone ==
    ASSUME NEW M \in Nat, NEW a \in Nat, NEW b \in Nat, a <= b
    PROVE  M * a <= M * b
<1>1. SUFFICES ASSUME NEW d \in Nat, b = a + d PROVE M * a <= M * (a + d)
  <2>1. b - a \in Nat /\ b = a + (b - a)
    OBVIOUS
  <2> QED
    BY <2>1
<1>2. M * (a + d) = M * a + M * d /\ M * a \in Nat /\ M * d \in Nat
  OBVIOUS
<1> QED
  BY <1>2

(* What consumeStripes takes of a buffer that holds what comes next.       *)
Consumes(s, sec, c, b, i, n) ==
    \E q, r \in Nat :
        /\ r < PerBlock(sec) /\ c + n = PerBlock(sec) * q + r
        /\ consumeStripes(s, b, i, n) = [s EXCEPT !.acc = Mixed(sec, q, r), !.soFar = r]

Took(s, sec, c, q, r) ==
    /\ Secret(s) = sec /\ s.acc = Mixed(sec, q, r) /\ s.soFar = r
    /\ r < PerBlock(sec) /\ c = PerBlock(sec) * q + r

Begun(sec, r, n) == n < PerBlock(sec) - r

LEMMA ConsumeBegun ==
    ASSUME NEW sec \in Secrets, NEW s, NEW q \in Nat, NEW r \in Nat, NEW c \in Nat,
           Took(s, sec, c, q, r),
           NEW b, NEW m \in Nat, NEW e \in Int, Holds(b, 0, m, e),
           NEW i \in Nat, NEW n \in Nat, i + 64 * n <= m, e + i = 64 * c,
           Begun(sec, r, n)
    PROVE  Consumes(s, sec, c, b, i, n)
<1>1. accumulate(b, i, sec, 8 * r, n) = Row(sec, c, r, n)
  <2>1. SUFFICES ASSUME NEW x \in Nat, x = 8 * r
                 PROVE  accumulate(b, i, sec, x, n) = Row(sec, c, r, n)
    OBVIOUS
  <2> QED
    BY <2>1, AccumulateIs
<1>2. Mixed(sec, q, r) \o Row(sec, c, r, n) = Mixed(sec, q, r + n)
  BY MixedMore, SMTT(30) DEF Took
<1>3. consumeStripes(s, b, i, n) = [s EXCEPT !.acc = Mixed(sec, q, r + n), !.soFar = r + n]
  BY <1>1, <1>2 DEF Took, consumeStripes, Begun
<1>4. r + n \in Nat /\ r + n < PerBlock(sec) /\ c + n = PerBlock(sec) * q + (r + n)
  <2>1. PerBlock(sec) \in Nat
    BY SecretsType
  <2>2. SUFFICES ASSUME NEW p \in Nat, p = PerBlock(sec), NEW x \in Nat, x = p * q
                 PROVE  r + n \in Nat /\ r + n < p /\ c + n = x + (r + n)
    BY <2>1
  <2> QED
    BY <2>2 DEF Took, Begun
<1> QED
  BY <1>3, <1>4 DEF Consumes

Times(a, b, c) == c = a * b

(* Whole blocks from a buffer.                                             *)
WholeOf(sec, M, b, i, g, f) ==
    FlattenSeq([k \in 1 .. f |->
        accumulate(b, i + 64 * (g + M * (k - 1)), sec, 0, M) \o scramble(sec)])

LEMMA WholeBlocks ==
    ASSUME NEW sec \in Secrets, NEW M \in Nat, M = PerBlock(sec),
           NEW b, NEW m \in Nat, NEW e \in Int, Holds(b, 0, m, e),
           NEW i \in Nat, NEW q \in Nat, NEW f \in Nat, NEW g \in Nat,
           NEW z \in Nat, Times(M, f, z), i + 64 * (g + z) <= m,
           NEW d \in Nat, Times(M, q, d), e + i + 64 * g = 64 * d
    PROVE  WholeOf(sec, M, b, i, g, f) = Blocks(sec, q, f)
<1>1. ASSUME NEW k \in 1 .. f
      PROVE  accumulate(b, i + 64 * (g + M * (k - 1)), sec, 0, M) \o scramble(sec)
             = Block(sec, q + k)
  <2>1. SUFFICES ASSUME NEW j \in Nat, k = j + 1
                 PROVE  accumulate(b, i + 64 * (g + M * (k - 1)), sec, 0, M) \o scramble(sec)
                        = Block(sec, q + k)
    <3>1. k - 1 \in Nat /\ k = (k - 1) + 1
      OBVIOUS
    <3> QED
      BY <3>1
  <2>2. M * (j + 1) <= M * f
    <3>1. j + 1 \in Nat /\ j + 1 <= f
      BY <2>1
    <3> QED
      BY <3>1, ProductMonotone
  <2>3. SUFFICES ASSUME NEW x \in Nat, x = M * j, x + M <= z
                 PROVE  accumulate(b, i + 64 * (g + M * (k - 1)), sec, 0, M) \o scramble(sec)
                        = Block(sec, q + k)
    <3>1. M * (j + 1) = M * j + M /\ M * j \in Nat
      OBVIOUS
    <3> QED
      BY <2>2, <3>1 DEF Times
  <2>4. SUFFICES ASSUME NEW o \in Nat, o = i + 64 * (g + x), NEW c \in Nat, c = d + x
                 PROVE  accumulate(b, i + 64 * (g + M * (k - 1)), sec, 0, M) \o scramble(sec)
                        = Block(sec, q + k)
    <3>1. i + 64 * (g + x) \in Nat /\ d + x \in Nat
      OBVIOUS
    <3> QED
      BY <3>1
  <2>5. accumulate(b, o, sec, 0, M) = Row(sec, c, 0, M)
    <3>1. o + 64 * M <= m /\ e + o = 64 * c
      BY <2>3, <2>4
    <3>2. ASSUME NEW s \in Nat, NEW l \in Nat, s = 8 * l
          PROVE  accumulate(b, o, sec, s, M) = Row(sec, c, l, M)
      BY <3>1, <3>2, AccumulateIs
    <3>3. 0 \in Nat /\ 0 = 8 * 0
      OBVIOUS
    <3> QED
      BY <3>2, <3>3
  <2>6. PerBlock(sec) * ((q + k) - 1) = c
    <3>1. (q + k) - 1 = q + j /\ M * (q + j) = M * q + M * j
      BY <2>1
    <3>2. M * (q + j) = c
      BY <2>3, <2>4, <3>1 DEF Times
    <3> QED
      BY <3>1, <3>2
  <2>7. i + 64 * (g + M * (k - 1)) = o
    <3>1. k - 1 = j
      BY <2>1
    <3> QED
      BY <2>3, <2>4, <3>1
  <2> QED
    BY <2>5, <2>6, <2>7 DEF Block
<1> QED
  BY <1>1 DEF WholeOf, Blocks, BlockSeq

LEMMA ConsumeMore ==
    ASSUME NEW sec \in Secrets, NEW s, NEW q \in Nat, NEW r \in Nat, NEW c \in Nat,
           Took(s, sec, c, q, r),
           NEW b, NEW m \in Nat, NEW e \in Int, Holds(b, 0, m, e),
           NEW i \in Nat, NEW n \in Nat, i + 64 * n <= m, e + i = 64 * c,
           ~ Begun(sec, r, n)
    PROVE  Consumes(s, sec, c, b, i, n)
<1>1. SUFFICES ASSUME NEW M \in Nat, M = PerBlock(sec), M >= 1
               PROVE  Consumes(s, sec, c, b, i, n)
  BY SecretsType
<1>2. SUFFICES ASSUME NEW p \in Nat, Times(M, q, p)
               PROVE  Consumes(s, sec, c, b, i, n)
  <2>1. M * q \in Nat
    OBVIOUS
  <2> QED
    BY <2>1 DEF Times
<1>3. c = p + r /\ s.acc = Mixed(sec, q, r) /\ s.soFar = r /\ Secret(s) = sec /\ r < M
  BY <1>1, <1>2 DEF Took, Times
<1>4. SUFFICES ASSUME NEW g \in Nat, r + g = M, NEW x \in Nat, n = g + x
               PROVE  Consumes(s, sec, c, b, i, n)
  <2>1. M - r \in Nat /\ r + (M - r) = M
    BY <1>3
  <2>2. n - (M - r) \in Nat /\ n = (M - r) + (n - (M - r))
    BY <1>1, <2>1 DEF Begun
  <2> QED
    BY <2>1, <2>2
<1>5. SUFFICES ASSUME NEW f \in Nat, f = x \div M, NEW z \in Nat, Times(M, f, z),
                      NEW a \in Nat, a < M, x = z + a
               PROVE  Consumes(s, sec, c, b, i, n)
  <2>1. x \div M \in Nat /\ x % M \in Nat /\ x % M < M /\ x = M * (x \div M) + (x % M)
    BY <1>1, AnyDivision
  <2>2. M * (x \div M) \in Nat
    BY <2>1
  <2> QED
    BY <2>1, <2>2 DEF Times
<1>6. SUFFICES ASSUME NEW h \in Nat, h = q + 1, NEW d \in Nat, d = p + M, Times(M, h, d)
               PROVE  Consumes(s, sec, c, b, i, n)
  <2>1. M * (q + 1) = M * q + M
    OBVIOUS
  <2> QED
    BY <1>2, <2>1 DEF Times
<1>7. SUFFICES ASSUME NEW y \in Nat, y = h + f, NEW w \in Nat, w = d + z, Times(M, y, w)
               PROVE  Consumes(s, sec, c, b, i, n)
  <2>1. M * (h + f) = M * h + M * f
    OBVIOUS
  <2> QED
    BY <1>5, <1>6, <2>1 DEF Times
<1> DEFINE blocks == WholeOf(sec, M, b, i, g, f)
           acc == Mixed(sec, q, r) \o accumulate(b, i, sec, 8 * r, g) \o scramble(sec)
                  \o blocks \o accumulate(b, i + 64 * (g + z), sec, 0, a)
<1>8. consumeStripes(s, b, i, n) = [s EXCEPT !.acc = acc, !.soFar = a]
  <2>1. M - r = g /\ n - g = x /\ x - z = a /\ ~ (n < g)
    BY <1>4, <1>5
  <2>2. M * f = z
    BY <1>5 DEF Times
  <2> QED
    BY <1>1, <1>3, <1>5, <2>1, <2>2, ZenonT(40) DEF consumeStripes, WholeOf
<1>9. accumulate(b, i, sec, 8 * r, g) = Row(sec, c, r, g)
  <2>1. SUFFICES ASSUME NEW v \in Nat, v = 8 * r
                 PROVE  accumulate(b, i, sec, v, g) = Row(sec, c, r, g)
    OBVIOUS
  <2>2. i + 64 * g <= m
    BY <1>4
  <2> QED
    BY <2>1, <2>2, AccumulateIs
<1>10. (Mixed(sec, q, r) \o Row(sec, c, r, g)) \o scramble(sec) = Blocks(sec, 0, h)
  <2>1. Plus(r, g, PerBlock(sec)) /\ Place(sec, q, r, c)
    BY <1>1, <1>4 DEF Took, Plus, Place
  <2>2. (Mixed(sec, q, r) \o Row(sec, c, r, g)) \o scramble(sec) = Blocks(sec, 0, q + 1)
    BY <2>1, MixedBlock, SMTT(30)
  <2> QED
    BY <1>6, <2>2
<1>11. blocks = Blocks(sec, h, f)
  <2>1. i + 64 * (g + z) <= m
    BY <1>4, <1>5
  <2>2. e + i + 64 * g = 64 * d
    BY <1>3, <1>4, <1>6
  <2>3. M = PerBlock(sec) /\ Times(M, f, z) /\ Times(M, h, d)
    BY <1>1, <1>5, <1>6
  <2> QED
    BY <2>1, <2>2, <2>3, WholeBlocks
<1>12. accumulate(b, i + 64 * (g + z), sec, 0, a) = Row(sec, w, 0, a)
  <2>1. SUFFICES ASSUME NEW o \in Nat, o = i + 64 * (g + z)
                 PROVE  accumulate(b, o, sec, 0, a) = Row(sec, w, 0, a)
    OBVIOUS
  <2>2. o + 64 * a <= m
    BY <1>4, <1>5, <2>1
  <2>3. e + o = 64 * w
    BY <1>3, <1>4, <1>6, <1>7, <2>1
  <2>4. ASSUME NEW t \in Nat, NEW l \in Nat, t = 8 * l
        PROVE  accumulate(b, o, sec, t, a) = Row(sec, w, l, a)
    BY <2>2, <2>3, <2>4, AccumulateIs
  <2>5. 0 \in Nat /\ 0 = 8 * 0
    OBVIOUS
  <2> QED
    BY <2>4, <2>5
<1> HIDE DEF blocks
<1>13. acc = Mixed(sec, y, a)
  <2>1. Blocks(sec, 0, h) \o Blocks(sec, h, f) = Blocks(sec, 0, h + f)
    BY BlocksJoin
  <2>2. Mixed(sec, y, a) = Blocks(sec, 0, y) \o Row(sec, w, 0, a)
    BY <1>1, <1>7 DEF Mixed, Times
  <2> QED
    BY <1>7, <1>9, <1>10, <1>11, <1>12, <2>1, <2>2
<1> HIDE DEF acc
<1>14. c + n = w + a
  BY <1>3, <1>4, <1>5, <1>6, <1>7
<1>15. a < PerBlock(sec) /\ c + n = PerBlock(sec) * y + a
  BY <1>1, <1>5, <1>7, <1>14 DEF Times
<1>16. consumeStripes(s, b, i, n) = [s EXCEPT !.acc = Mixed(sec, y, a), !.soFar = a]
  BY <1>8, <1>13
<1> QED
  BY <1>15, <1>16 DEF Consumes

LEMMA ConsumeIs ==
    ASSUME NEW sec \in Secrets, NEW s, NEW q \in Nat, NEW r \in Nat, NEW c \in Nat,
           Took(s, sec, c, q, r),
           NEW b, NEW m \in Nat, NEW e \in Int, Holds(b, 0, m, e),
           NEW i \in Nat, NEW n \in Nat, i + 64 * n <= m, e + i = 64 * c
    PROVE  Consumes(s, sec, c, b, i, n)
BY ConsumeBegun, ConsumeMore

-----------------------------------------------------------------------------
(* A state of XXH3: c stripes of the message have been mixed.              *)
StateOf3 ==
    [acc : Seq(Uses), soFar : Nat, buffer : Buffers(256), buffered : Nat, total : Nat,
     seed : Seed \cup {"0"}, useSeed : BOOLEAN, ext : {NULL, kSecret, User},
     custom : Seed \cup {"none"}]

InBlock(s, c) == \E q, r \in Nat : Took(s, Secret(s), c, q, r)

(* What only a reset changes.                                              *)
Keeps(u, s) ==
    /\ u.seed = s.seed /\ u.useSeed = s.useSeed /\ u.ext = s.ext /\ u.custom = s.custom
    /\ Secret(u) = Secret(s)

Advances(u, s, c) ==
    /\ u \in StateOf3 /\ InBlock(u, c) /\ Keeps(u, s)
    /\ u.buffer = s.buffer /\ u.buffered = s.buffered /\ u.total = s.total

LEMMA SecretType ==
    ASSUME NEW s \in StateOf3
    PROVE  Secret(s) \in Secrets
BY DEF StateOf3, Secret, Secrets

LEMMA ConsumeAdvances ==
    ASSUME NEW s \in StateOf3, NEW c \in Nat, InBlock(s, c),
           NEW b, NEW m \in Nat, NEW e \in Int, Holds(b, 0, m, e),
           NEW i \in Nat, NEW n \in Nat, i + 64 * n <= m, e + i = 64 * c
    PROVE  Advances(consumeStripes(s, b, i, n), s, c + n)
<1>1. PICK q \in Nat, r \in Nat : Took(s, Secret(s), c, q, r)
  BY DEF InBlock
<1> DEFINE sec == Secret(s)
           u == consumeStripes(s, b, i, n)
<1>2. sec \in Secrets
  BY SecretType
<1> HIDE DEF sec
<1>3. Consumes(s, sec, c, b, i, n)
  <2>1. SUFFICES ASSUME NEW x \in Nat, NEW y \in Nat, Took(s, sec, c, x, y)
                 PROVE  Consumes(s, sec, c, b, i, n)
    BY <1>1 DEF sec
  <2> QED
    BY <1>2, <2>1, ConsumeIs
<1>4. PICK x \in Nat, y \in Nat :
          /\ y < PerBlock(sec) /\ c + n = PerBlock(sec) * x + y
          /\ u = [s EXCEPT !.acc = Mixed(sec, x, y), !.soFar = y]
  BY <1>3 DEF Consumes
<1>5. Mixed(sec, x, y) \in Seq(Uses)
  BY <1>2, MixedType
<1> HIDE DEF u
<1>6. /\ u \in StateOf3 /\ u.acc = Mixed(sec, x, y) /\ u.soFar = y
      /\ u.buffer = s.buffer /\ u.buffered = s.buffered /\ u.total = s.total
      /\ u.seed = s.seed /\ u.useSeed = s.useSeed /\ u.ext = s.ext /\ u.custom = s.custom
  BY <1>4, <1>5, ZenonT(40) DEF StateOf3
<1>7. Secret(u) = Secret(s)
  BY <1>6 DEF Secret
<1>8. Took(u, Secret(u), c + n, x, y)
  BY <1>4, <1>6, <1>7 DEF Took, sec
<1>9. Advances(u, s, c + n)
  BY <1>6, <1>7, <1>8 DEF Advances, InBlock, Keeps
<1> QED
  BY <1>9 DEF u

(* What a buffer holds beyond w bytes of the message from stripe c on: the *)
(* end of what came before.                                                *)
Leaves(b, w, c) == \A k \in 193 .. 256 : k > w => b[k] = 64 * c - 256 + k

(* A state that has been given the first t bytes, of which c stripes were  *)
(* mixed and the rest is in the buffer.                                    *)
Given(s, t, c) ==
    /\ s \in StateOf3 /\ InBlock(s, c) /\ s.total = t
    /\ s.buffered <= 256 /\ t = 64 * c + s.buffered
    /\ Holds(s.buffer, 0, s.buffered, 64 * c)
    /\ c > 0 => s.buffered > 0 /\ t > 256 /\ Leaves(s.buffer, s.buffered, c)

After3(s, t) == \E c \in Nat : Given(s, t, c)

(* The fields of a state with another buffer.                              *)
Filled(s, b, w, t) == [s EXCEPT !.buffer = b, !.buffered = w, !.total = t]

Fills(u, s, b, w, t, c) ==
    /\ u \in StateOf3 /\ InBlock(u, c) /\ Keeps(u, s)
    /\ u.buffer = b /\ u.buffered = w /\ u.total = t

LEMMA FilledIs ==
    ASSUME NEW s \in StateOf3, NEW b \in Buffers(256), NEW w \in Nat, NEW t \in Nat,
           NEW c \in Nat, InBlock(s, c)
    PROVE  Fills(Filled(s, b, w, t), s, b, w, t, c)
<1> DEFINE u == Filled(s, b, w, t)
<1>1. /\ u \in StateOf3 /\ u.buffer = b /\ u.buffered = w /\ u.total = t
      /\ u.seed = s.seed /\ u.useSeed = s.useSeed /\ u.ext = s.ext /\ u.custom = s.custom
      /\ u.acc = s.acc /\ u.soFar = s.soFar
  BY DEF StateOf3, Filled
<1> HIDE DEF u
<1>2. Secret(u) = Secret(s)
  BY <1>1 DEF Secret
<1>3. InBlock(u, c)
  BY <1>1, <1>2 DEF InBlock, Took
<1> QED
  BY <1>1, <1>2, <1>3 DEF Keeps, Fills, u

(* What is copied after its first o bytes is what is copied, and b before. *)
LEMMA CopiedAt ==
    ASSUME NEW N \in Nat, NEW o \in Nat, NEW c \in Int, NEW w \in Nat, NEW b \in Buffers(N),
           NEW k \in Nat, k >= 1, k <= N
    PROVE  /\ k > o + w => Copied(b, o, Win(c, w))[k] = b[k]
           /\ k > o /\ k <= o + w => Copied(b, o, Win(c, w))[k] = c + (k - o)
<1>1. Copied(b, o, Win(c, w)) = Put(N, b, o, c, w)
  BY CopiedIs
<1>2. Put(N, b, o, c, w)[k] = IF k - o \in 1 .. w THEN c + (k - o) ELSE b[k]
  BY DEF Put
<1>3. k > o + w => k - o \notin 1 .. w
  OBVIOUS
<1>4. k > o /\ k <= o + w => k - o \in 1 .. w
  OBVIOUS
<1> QED
  BY <1>1, <1>2, <1>3, <1>4

Room(s, n) == n <= 256 - s.buffered

LEMMA FillFits ==
    ASSUME NEW s, NEW t \in Nat, NEW c \in Nat, Given(s, t, c), NEW n \in Nat, Room(s, n)
    PROVE  LET u == Filled(s, Copied(s.buffer, s.buffered, Win(t, n)), s.buffered + n, t + n) IN
           Given(u, t + n, c) /\ Keeps(u, s)
<1>1. SUFFICES ASSUME NEW b \in Nat, NEW buffer \in Buffers(256), b = s.buffered, buffer = s.buffer
               PROVE  LET u == Filled(s, Copied(buffer, b, Win(t, n)), b + n, t + n) IN
                      Given(u, t + n, c) /\ Keeps(u, s)
  BY DEF Given, StateOf3
<1>2. SUFFICES ASSUME NEW o \in Nat, o = 64 * c, t = o + b
               PROVE  LET u == Filled(s, Copied(buffer, b, Win(t, n)), b + n, t + n) IN
                      Given(u, t + n, c) /\ Keeps(u, s)
  BY <1>1 DEF Given
<1> DEFINE d == Copied(buffer, b, Win(t, n))
           u == Filled(s, d, b + n, t + n)
<1>3. d \in Buffers(256) /\ Holds(d, 0, b + n, o)
  <2>1. 256 \in Nat /\ b + n <= 256 /\ Holds(buffer, 0, b, o)
    BY <1>1, <1>2 DEF Given, Room
  <2> QED
    BY <1>2, <2>1, CopiedType, CopiedHolds
<1>4. ASSUME c > 0 PROVE b + n > 0 /\ t + n > 256 /\ Leaves(d, b + n, c)
  <2>1. b > 0 /\ t > 256 /\ Leaves(buffer, b, c)
    BY <1>1, <1>4 DEF Given
  <2>2. ASSUME NEW k \in Nat, k >= 193, k <= 256, k > b + n
        PROVE  d[k] = 64 * c - 256 + k
    <3>1. k >= 1 /\ k \in 193 .. 256 /\ 256 \in Nat /\ k > b
      BY <2>2
    <3>2. d[k] = buffer[k]
      BY <2>2, <3>1, CopiedAt
    <3>3. buffer[k] = 64 * c - 256 + k
      BY <2>1, <3>1 DEF Leaves
    <3> QED
      BY <3>2, <3>3
  <2>3. b + n > 0 /\ t + n > 256
    BY <2>1
  <2> HIDE DEF d
  <2> QED
    BY <2>2, <2>3 DEF Leaves
<1> HIDE DEF d
<1>5. /\ u \in StateOf3 /\ InBlock(u, c) /\ Keeps(u, s)
      /\ u.buffer = d /\ u.buffered = b + n /\ u.total = t + n
  <2>1. s \in StateOf3 /\ InBlock(s, c)
    BY DEF Given
  <2>2. ASSUME NEW w \in Nat, NEW x \in Nat PROVE Fills(Filled(s, d, w, x), s, d, w, x, c)
    BY <1>3, <2>1, FilledIs
  <2>3. b + n \in Nat /\ t + n \in Nat
    OBVIOUS
  <2>4. Fills(u, s, d, b + n, t + n, c)
    BY <2>2, <2>3
  <2> QED
    BY <2>4 DEF Fills
<1> HIDE DEF u
<1>6. b + n <= 256 /\ t + n = 64 * c + (b + n)
  BY <1>1, <1>2 DEF Room
<1>7. Given(u, t + n, c)
  BY <1>2, <1>3, <1>4, <1>5, <1>6 DEF Given
<1> QED
  BY <1>5, <1>7 DEF u, d

(* The buffer is filled anew with the rest, which is not empty.            *)
LEMMA FillAnew ==
    ASSUME NEW s \in StateOf3, NEW c \in Nat, InBlock(s, c), NEW o \in Nat, o = 64 * c,
           NEW k \in Nat, k >= 1, k <= 256, NEW t \in Nat, t = o + k, t > 256,
           Leaves(s.buffer, k, c)
    PROVE  LET u == Filled(s, Copied(s.buffer, 0, Win(o, k)), k, t) IN
           Given(u, t, c) /\ Keeps(u, s)
<1>1. SUFFICES ASSUME NEW buffer \in Buffers(256), buffer = s.buffer
               PROVE  LET u == Filled(s, Copied(buffer, 0, Win(o, k)), k, t) IN
                      Given(u, t, c) /\ Keeps(u, s)
  BY DEF StateOf3
<1> DEFINE d == Copied(buffer, 0, Win(o, k))
           u == Filled(s, d, k, t)
<1>2. d \in Buffers(256) /\ Holds(d, 0, k, o)
  <2>1. ASSUME NEW z \in Nat, z = 0
        PROVE  /\ Copied(buffer, z, Win(o, k)) \in Buffers(256)
               /\ Holds(Copied(buffer, z, Win(o, k)), 0, z + k, o)
    <3>1. 256 \in Nat /\ z + k <= 256 /\ Holds(buffer, 0, z, o) /\ o = o + z
      BY <2>1 DEF Holds
    <3> QED
      BY <3>1, CopiedType, CopiedHolds
  <2>2. 0 \in Nat /\ 0 + k = k
    OBVIOUS
  <2> QED
    BY <2>1, <2>2
<1>3. Leaves(d, k, c)
  <2>1. ASSUME NEW j \in Nat, j >= 193, j <= 256, j > k PROVE d[j] = 64 * c - 256 + j
    <3>1. d[j] = buffer[j]
      <4>1. ASSUME NEW z \in Nat, z = 0 PROVE Copied(buffer, z, Win(o, k))[j] = buffer[j]
        <5>1. j >= 1 /\ j <= 256 /\ 256 \in Nat /\ j > z + k
          BY <2>1, <4>1
        <5> QED
          BY <5>1, CopiedAt
      <4> QED
        BY <4>1
    <3>2. buffer[j] = 64 * c - 256 + j
      BY <1>1, <2>1 DEF Leaves
    <3> QED
      BY <3>1, <3>2
  <2> HIDE DEF d
  <2> QED
    BY <2>1 DEF Leaves
<1> HIDE DEF d
<1>4. /\ u \in StateOf3 /\ InBlock(u, c) /\ Keeps(u, s)
      /\ u.buffer = d /\ u.buffered = k /\ u.total = t
  <2>1. Fills(u, s, d, k, t, c)
    BY <1>2, FilledIs
  <2> QED
    BY <2>1 DEF Fills
<1> HIDE DEF u
<1>5. Given(u, t, c)
  BY <1>2, <1>3, <1>4 DEF Given
<1> QED
  BY <1>1, <1>4, <1>5 DEF u, d

(* The state before what does not fit is taken.                            *)
IsLoaded(u, s, t, n, load, c) ==
    /\ u \in StateOf3 /\ InBlock(u, c) /\ Keeps(u, s) /\ u.total = t
    /\ load < n /\ t + load = 64 * c /\ t + n > 256
    /\ n - load <= 256 => c > 0 /\ u.buffer = Win(t + load - 256, 256)

LEMMA LoadedIs ==
    ASSUME NEW s, NEW t \in Nat, NEW x \in Nat, Given(s, t, x), NEW n \in Nat, ~ Room(s, n)
    PROVE  \E load, c \in Nat :
               load = LoadOf(s) /\ IsLoaded(Loaded(s, Win(t, n)), s, t, n, load, c)
<1>1. SUFFICES ASSUME NEW b \in Nat, NEW buffer \in Buffers(256), b = s.buffered, b <= 256,
                      buffer = s.buffer
               PROVE  \E load, c \in Nat :
                          load = LoadOf(s) /\ IsLoaded(Loaded(s, Win(t, n)), s, t, n, load, c)
  BY DEF Given, StateOf3
<1>2. SUFFICES ASSUME NEW o \in Nat, o = 64 * x, t = o + b
               PROVE  \E load, c \in Nat :
                          load = LoadOf(s) /\ IsLoaded(Loaded(s, Win(t, n)), s, t, n, load, c)
  BY <1>1 DEF Given
<1>3. s \in StateOf3 /\ InBlock(s, x) /\ s.total = t
  BY DEF Given
<1>4. CASE b = 0
  <2>1. LoadOf(s) = 0 /\ Loaded(s, Win(t, n)) = s
    BY <1>1, <1>4 DEF LoadOf, Loaded
  <2>2. ~ (x > 0)
    BY <1>1, <1>4 DEF Given
  <2>3. Keeps(s, s)
    BY DEF Keeps
  <2>4. n > 256 /\ t + 0 = 64 * x /\ t + n > 256
    BY <1>1, <1>2, <1>4 DEF Room
  <2>5. IsLoaded(s, s, t, n, 0, x)
    BY <1>3, <2>3, <2>4 DEF IsLoaded
  <2> QED
    BY <2>1, <2>5
<1>5. CASE b > 0
  <2>1. SUFFICES ASSUME NEW load \in Nat, load = LoadOf(s), b + load = 256, load < n
                 PROVE  \E c \in Nat : IsLoaded(Loaded(s, Win(t, n)), s, t, n, load, c)
    BY <1>1, <1>5 DEF LoadOf, Room
  <2> DEFINE whole == Copied(buffer, b, Bytes(Win(t, n), 0, load))
             v == consumeStripes(s, whole, 0, 4)
             u == [v EXCEPT !.buffer = whole]
  <2>2. Loaded(s, Win(t, n)) = u
    BY <1>1, <1>5, <2>1 DEF Loaded
  <2>3. Bytes(Win(t, n), 0, load) = Win(t, load)
    <3>1. ASSUME NEW z \in Nat, z = 0 PROVE Bytes(Win(t, n), z, load) = Win(t + z, load)
      <4>1. z + load <= n
        BY <2>1, <3>1
      <4> QED
        BY <4>1, WinBytes
    <3>2. 0 \in Nat /\ t + 0 = t
      OBVIOUS
    <3> QED
      BY <3>1, <3>2
  <2>4. whole \in Buffers(256) /\ Holds(whole, 0, 256, o)
    <3>1. 256 \in Nat /\ b + load <= 256 /\ Holds(buffer, 0, b, o)
      BY <1>1, <1>2, <2>1 DEF Given
    <3>2. Copied(buffer, b, Win(t, load)) \in Buffers(256)
      BY <3>1, CopiedType
    <3>3. Holds(Copied(buffer, b, Win(t, load)), 0, b + load, o)
      BY <1>2, <3>1, CopiedHolds
    <3> QED
      BY <2>1, <2>3, <3>2, <3>3
  <2> HIDE DEF whole
  <2>5. whole = Win(o, 256)
    <3>1. 256 \in Nat
      OBVIOUS
    <3> QED
      BY <2>4, <3>1, WholeIs
  <2>6. Advances(v, s, x + 4)
    <3>1. ASSUME NEW z \in Nat, z = 0, NEW m \in Nat, m = 256, NEW y \in Nat, y = 4
          PROVE  Advances(consumeStripes(s, whole, z, y), s, x + y)
      <4>1. z + 64 * y <= m /\ o + z = 64 * x /\ Holds(whole, 0, m, o)
        BY <1>2, <2>4, <3>1
      <4> QED
        BY <1>3, <4>1, ConsumeAdvances
    <3>2. 0 \in Nat /\ 256 \in Nat /\ 4 \in Nat
      OBVIOUS
    <3> QED
      BY <3>1, <3>2
  <2> HIDE DEF v
  <2>7. u \in StateOf3 /\ InBlock(u, x + 4) /\ Keeps(u, s) /\ u.total = t /\ u.buffer = whole
    <3>1. v \in StateOf3 /\ InBlock(v, x + 4) /\ Keeps(v, s) /\ v.total = t
      BY <1>3, <2>6 DEF Advances
    <3>2. /\ u \in StateOf3 /\ u.buffer = whole /\ u.total = t
          /\ u.seed = v.seed /\ u.useSeed = v.useSeed /\ u.ext = v.ext /\ u.custom = v.custom
          /\ u.acc = v.acc /\ u.soFar = v.soFar
      BY <2>4, <3>1 DEF StateOf3
    <3> HIDE DEF u
    <3>3. Secret(u) = Secret(v)
      BY <3>2 DEF Secret
    <3>4. Keeps(u, s)
      BY <3>1, <3>2, <3>3 DEF Keeps
    <3>5. InBlock(u, x + 4)
      BY <3>1, <3>2, <3>3 DEF InBlock, Took
    <3> QED
      BY <3>2, <3>4, <3>5
  <2> HIDE DEF u
  <2>8. t + load = 64 * (x + 4) /\ x + 4 \in Nat /\ x + 4 > 0 /\ t + load - 256 = o
        /\ load < n /\ t + n > 256
    BY <1>2, <2>1
  <2>9. IsLoaded(u, s, t, n, load, x + 4)
    BY <2>5, <2>7, <2>8 DEF IsLoaded
  <2> QED
    BY <2>2, <2>8, <2>9
<1>6. b = 0 \/ b > 0
  OBVIOUS
<1> QED
  BY <1>4, <1>5, <1>6

(* What XXH3_update does when the buffer has no room.                      *)
Refilled(s, in, i, n) ==
    Filled(s, Copied(s.buffer, 0, From(in, i)), n - i, s.total + n)

LEMMA UpdateIs ==
    ASSUME NEW s, NEW in, NEW n \in Nat, n = Len(in), NEW load \in Nat, load = LoadOf(s),
           load <= n
    PROVE  /\ Room(s, n) => XXH3_update(s, in)
                            = Filled(s, Copied(s.buffer, s.buffered, in), s.buffered + n, s.total + n)
           /\ ~ Room(s, n) /\ n - load <= 256 =>
                XXH3_update(s, in) = Refilled(Loaded(s, in), in, load, n)
           /\ ~ Room(s, n) /\ n - load > 256 =>
                XXH3_update(s, in) = Refilled(Direct(Loaded(s, in), in, load, Stripes(n - load)),
                                              in, load + 64 * Stripes(n - load), n)
<1>1. ASSUME Room(s, n)
      PROVE  XXH3_update(s, in)
             = Filled(s, Copied(s.buffer, s.buffered, in), s.buffered + n, s.total + n)
  BY <1>1 DEF XXH3_update, Room, Filled
<1>2. ASSUME ~ Room(s, n), n - load <= 256
      PROVE  XXH3_update(s, in) = Refilled(Loaded(s, in), in, load, n)
  <2>1. ~ (n - load > 256)
    BY <1>2
  <2> QED
    BY <1>2, <2>1 DEF XXH3_update, Room, Filled, Refilled
<1>3. ASSUME ~ Room(s, n), n - load > 256
      PROVE  XXH3_update(s, in)
             = Refilled(Direct(Loaded(s, in), in, load, Stripes(n - load)),
                        in, load + 64 * Stripes(n - load), n)
  <2> DEFINE i == load + 64 * Stripes(n - load)
             s1 == Direct(Loaded(s, in), in, load, Stripes(n - load))
  <2>1. XXH3_update(s, in)
        = [s1 EXCEPT !.buffer = Copied(@, 0, From(in, i)), !.buffered = n - i, !.total = @ + n]
    BY <1>3 DEF XXH3_update, Room
  <2> HIDE DEF s1
  <2>2. XXH3_update(s, in) = Refilled(s1, in, i, n)
    BY <2>1 DEF Refilled, Filled
  <2> QED
    BY <2>2 DEF s1
<1> QED
  BY <1>1, <1>2, <1>3

Updates(u, s, t) == After3(u, t) /\ Keeps(u, s)

LEMMA UpdateFits ==
    ASSUME NEW s, NEW t \in Nat, NEW c \in Nat, Given(s, t, c), NEW n \in Nat, Room(s, n)
    PROVE  Updates(XXH3_update(s, Win(t, n)), s, t + n)
<1>1. XXH3_update(s, Win(t, n))
      = Filled(s, Copied(s.buffer, s.buffered, Win(t, n)), s.buffered + n, t + n)
  <2>1. Len(Win(t, n)) = n /\ s.total = t
    BY WinType DEF Given
  <2> QED
    BY <2>1 DEF XXH3_update, Room, Filled
<1> DEFINE u == Filled(s, Copied(s.buffer, s.buffered, Win(t, n)), s.buffered + n, t + n)
<1>2. Given(u, t + n, c) /\ Keeps(u, s)
  BY FillFits
<1> HIDE DEF u
<1>3. Updates(u, s, t + n)
  BY <1>2 DEF Updates, After3
<1> QED
  BY <1>1, <1>3 DEF u

LEMMA UpdateRefills ==
    ASSUME NEW s, NEW t \in Nat, NEW n \in Nat, NEW i \in Nat, i < n, n - i <= 256, t + n > 256,
           NEW s2 \in StateOf3, Keeps(s2, s), s2.total = t,
           NEW c \in Nat, t + i = 64 * c, InBlock(s2, c), Leaves(s2.buffer, n - i, c)
    PROVE  Updates(Refilled(s2, Win(t, n), i, n), s, t + n)
<1>1. SUFFICES ASSUME NEW k \in Nat, k = n - i, NEW o \in Nat, o = t + i, NEW x \in Nat, x = t + n
               PROVE  Updates(Refilled(s2, Win(t, n), i, n), s, x)
  OBVIOUS
<1>2. From(Win(t, n), i) = Win(o, k)
  <2>1. From(Win(t, n), i) = Win(t + i, n - i)
    BY WinFrom
  <2> QED
    BY <1>1, <2>1
<1> DEFINE u == Filled(s2, Copied(s2.buffer, 0, Win(o, k)), k, x)
<1>3. Refilled(s2, Win(t, n), i, n) = u
  BY <1>1, <1>2 DEF Refilled
<1>4. Given(u, x, c) /\ Keeps(u, s2)
  <2>1. o = 64 * c /\ k >= 1 /\ k <= 256 /\ x = o + k /\ x > 256 /\ Leaves(s2.buffer, k, c)
    BY <1>1
  <2> QED
    BY <2>1, FillAnew
<1> HIDE DEF u
<1>5. Keeps(u, s)
  BY <1>4 DEF Keeps
<1>6. Updates(u, s, x)
  BY <1>4, <1>5 DEF Updates, After3
<1> QED
  BY <1>3, <1>6

LEMMA DirectIs ==
    ASSUME NEW s, NEW u, NEW t \in Nat, NEW n \in Nat, NEW load \in Nat, NEW c \in Nat,
           IsLoaded(u, s, t, n, load, c),
           NEW m \in Nat, m >= 1, NEW i \in Nat, i = load + 64 * m, i < n,
           NEW d \in Nat, d = c + m
    PROVE  LET v == Direct(u, Win(t, n), load, m) IN
           /\ v \in StateOf3 /\ Keeps(v, s) /\ v.total = t /\ InBlock(v, d)
           /\ Leaves(v.buffer, n - i, d)
<1> DEFINE in == Win(t, n)
           w == consumeStripes(u, in, load, m)
           b == Remember(w.buffer, in, i)
           v == [w EXCEPT !.buffer = b]
<1>0. Direct(u, in, load, m) = v
  BY DEF Direct
<1>1. u \in StateOf3 /\ InBlock(u, c) /\ Keeps(u, s) /\ u.total = t /\ t + load = 64 * c
  BY DEF IsLoaded
<1>2. Advances(w, u, c + m)
  <2>1. Holds(in, 0, n, t)
    <3>1. \A j \in 1 .. n : 0 + j \in 1 .. n /\ t + (0 + j) = t + j
      OBVIOUS
    <3> QED
      BY <3>1 DEF Holds, Win
  <2>2. load + 64 * m <= n
    OBVIOUS
  <2> HIDE DEF in
  <2> QED
    BY <1>1, <2>1, <2>2, ConsumeAdvances
<1>3. Bytes(in, i - 64, 64) = Win(t + (i - 64), 64)
  <2>1. SUFFICES ASSUME NEW o \in Nat, o = i - 64 PROVE Bytes(in, o, 64) = Win(t + o, 64)
    OBVIOUS
  <2>2. 64 \in Nat /\ o + 64 <= n
    BY <2>1
  <2> QED
    BY <2>2, WinBytes
<1> HIDE DEF w
<1>4. SUFFICES ASSUME NEW buffer \in Buffers(256), buffer = w.buffer, NEW e \in Nat,
                      e = t + (i - 64)
               PROVE  LET x == Direct(u, Win(t, n), load, m) IN
                      /\ x \in StateOf3 /\ Keeps(x, s) /\ x.total = t /\ InBlock(x, d)
                      /\ Leaves(x.buffer, n - i, d)
  <2>1. w.buffer \in Buffers(256)
    BY <1>2 DEF Advances, StateOf3
  <2>2. t + (i - 64) \in Nat
    OBVIOUS
  <2> QED
    BY <2>1, <2>2
<1>5. b = Copied(buffer, 192, Win(e, 64))
  BY <1>3, <1>4 DEF Remember
<1>6. b \in Buffers(256)
  <2>1. 192 \in Nat /\ 64 \in Nat /\ 256 \in Nat
    OBVIOUS
  <2> QED
    BY <1>5, <2>1, CopiedType
<1>7. Leaves(b, n - i, d)
  <2>1. ASSUME NEW k \in Nat, k >= 193, k <= 256 PROVE b[k] = 64 * d - 256 + k
    <3>1. ASSUME NEW z \in Nat, z = 192, NEW y \in Nat, y = 64
          PROVE  Copied(buffer, z, Win(e, y))[k] = e + (k - z)
      <4>1. k >= 1 /\ k <= 256 /\ 256 \in Nat /\ k > z /\ k <= z + y
        BY <2>1, <3>1
      <4> QED
        BY <4>1, CopiedAt
    <3>2. 192 \in Nat /\ 64 \in Nat
      OBVIOUS
    <3>3. Copied(buffer, 192, Win(e, 64))[k] = e + (k - 192)
      BY <3>1, <3>2
    <3>4. e + (k - 192) = 64 * d - 256 + k
      BY <1>1, <1>4
    <3> QED
      BY <1>5, <3>3, <3>4
  <2> HIDE DEF b
  <2> QED
    BY <2>1 DEF Leaves
<1> HIDE DEF b
<1>8. w \in StateOf3 /\ InBlock(w, d) /\ Keeps(w, u) /\ w.total = t
  BY <1>1, <1>2 DEF Advances
<1>9. /\ v \in StateOf3 /\ v.buffer = b /\ v.total = t
      /\ v.seed = w.seed /\ v.useSeed = w.useSeed /\ v.ext = w.ext /\ v.custom = w.custom
      /\ v.acc = w.acc /\ v.soFar = w.soFar
  BY <1>6, <1>8 DEF StateOf3
<1> HIDE DEF v
<1>10. Secret(v) = Secret(w)
  BY <1>9 DEF Secret
<1>11. Keeps(v, s)
  BY <1>1, <1>8, <1>9, <1>10 DEF Keeps
<1>12. InBlock(v, d)
  BY <1>8, <1>9, <1>10 DEF InBlock, Took
<1> QED
  BY <1>0, <1>7, <1>9, <1>11, <1>12 DEF in

LEMMA UpdateMore ==
    ASSUME NEW s, NEW t \in Nat, NEW x \in Nat, Given(s, t, x), NEW n \in Nat, ~ Room(s, n)
    PROVE  Updates(XXH3_update(s, Win(t, n)), s, t + n)
<1> DEFINE in == Win(t, n)
           u == Loaded(s, in)
<1>1. SUFFICES ASSUME NEW load \in Nat, NEW c \in Nat, load = LoadOf(s),
                      IsLoaded(u, s, t, n, load, c)
               PROVE  Updates(XXH3_update(s, in), s, t + n)
  BY LoadedIs
<1> HIDE DEF u
<1>2. /\ u \in StateOf3 /\ InBlock(u, c) /\ Keeps(u, s) /\ u.total = t
      /\ load < n /\ t + load = 64 * c /\ t + n > 256
  BY <1>1 DEF IsLoaded
<1>3. Len(in) = n
  BY WinType
<1>4. CASE n - load <= 256
  <2>1. XXH3_update(s, in) = Refilled(u, in, load, n)
    BY <1>1, <1>2, <1>3, <1>4, UpdateIs DEF u
  <2>2. Leaves(u.buffer, n - load, c)
    <3>1. c > 0 /\ u.buffer = Win(t + load - 256, 256)
      BY <1>1, <1>4 DEF IsLoaded
    <3>2. SUFFICES ASSUME NEW k \in 193 .. 256 PROVE Win(t + load - 256, 256)[k] = 64 * c - 256 + k
      BY <3>1 DEF Leaves
    <3>3. k \in 1 .. 256 /\ t + load - 256 + k = 64 * c - 256 + k
      BY <1>2
    <3> QED
      BY <3>3 DEF Win
  <2>3. Updates(Refilled(u, in, load, n), s, t + n)
    BY <1>2, <1>4, <2>2, UpdateRefills
  <2> QED
    BY <2>1, <2>3
<1>5. CASE n - load > 256
  <2>1. SUFFICES ASSUME NEW m \in Nat, m = Stripes(n - load), m >= 1, 64 * m <= n - load - 1,
                        n - load - 1 < 64 * m + 64
                 PROVE  Updates(XXH3_update(s, in), s, t + n)
    <3>1. SUFFICES ASSUME NEW k \in Nat, k = n - load, k > 256,
                          NEW m \in Nat, m = (k - 1) \div 64
                   PROVE  m >= 1 /\ 64 * m <= k - 1 /\ k - 1 < 64 * m + 64
      <4>1. n - load \in Nat /\ (n - load - 1) \div 64 \in Nat
        BY <1>5
      <4> QED
        BY <1>5, <4>1 DEF Stripes
    <3> QED
      BY <3>1
  <2>2. SUFFICES ASSUME NEW i \in Nat, i = load + 64 * m, i < n, n - i <= 256,
                        NEW d \in Nat, d = c + m
                 PROVE  Updates(XXH3_update(s, in), s, t + n)
    BY <2>1
  <2> DEFINE v == Direct(u, in, load, m)
  <2>3. XXH3_update(s, in) = Refilled(v, in, i, n)
    <3>1. load <= n /\ n = Len(in) /\ load = LoadOf(s)
      BY <1>1, <1>2, <1>3
    <3> HIDE DEF in
    <3>2. XXH3_update(s, in)
          = Refilled(Direct(Loaded(s, in), in, load, Stripes(n - load)),
                     in, load + 64 * Stripes(n - load), n)
      BY <1>5, <3>1, UpdateIs
    <3> QED
      BY <2>1, <2>2, <3>2 DEF u
  <2>4. v \in StateOf3 /\ Keeps(v, s) /\ v.total = t /\ InBlock(v, d) /\ Leaves(v.buffer, n - i, d)
    BY <1>1, <2>1, <2>2, DirectIs
  <2> HIDE DEF v
  <2>5. t + i = 64 * d
    BY <1>2, <2>2
  <2>6. Updates(Refilled(v, in, i, n), s, t + n)
    BY <1>2, <2>2, <2>4, <2>5, UpdateRefills
  <2> QED
    BY <2>3, <2>6
<1> QED
  BY <1>2, <1>4, <1>5

LEMMA Update3 ==
    ASSUME NEW s, NEW t \in Nat, After3(s, t), NEW n \in Nat
    PROVE  Updates(XXH3_update(s, Win(t, n)), s, t + n)
BY UpdateFits, UpdateMore DEF After3

-----------------------------------------------------------------------------
(* The last stripe, which ends with the message.                           *)
LastUse(sec, t) == Use(Win(t - 64, 64), sec, sec.size - 64 - 7, 64)

(* The stripes before it that are mixed: all but the one that holds the    *)
(* last byte.                                                              *)
UpTo(sec, t, q, r) ==
    /\ r < PerBlock(sec)
    /\ 64 * (PerBlock(sec) * q + r) <= t - 1 /\ t - 1 < 64 * (PerBlock(sec) * q + r) + 64

IsLong(h, sec, t) ==
    \E q, r \in Nat : UpTo(sec, t, q, r) /\ h = Mixed(sec, q, r) \o <<LastUse(sec, t)>>

(* There is one way to cut a message into blocks and stripes.              *)
LEMMA LongUnique ==
    ASSUME NEW sec \in Secrets, NEW t \in Nat, NEW g, NEW h, IsLong(g, sec, t), IsLong(h, sec, t)
    PROVE  g = h
<1>1. ASSUME NEW M \in Nat, M >= 1, NEW q \in Nat, NEW r \in Nat, NEW x \in Nat, NEW y \in Nat,
             r < M, y < M, 64 * (M * q + r) <= t - 1, t - 1 < 64 * (M * q + r) + 64,
             64 * (M * x + y) <= t - 1, t - 1 < 64 * (M * x + y) + 64
      PROVE  q = x /\ r = y
  <2>1. SUFFICES ASSUME NEW c \in Nat, c = M * q + r, NEW d \in Nat, d = M * x + y
                 PROVE  q = x /\ r = y
    <3>1. M * q + r \in Nat /\ M * x + y \in Nat
      OBVIOUS
    <3> QED
      BY <3>1
  <2>2. c = d
    BY <1>1, <2>1
  <2>3. c \div M = q /\ c % M = r
    BY <1>1, <2>1, AnyDivisionUnique
  <2>4. d \div M = x /\ d % M = y
    BY <1>1, <2>1, AnyDivisionUnique
  <2> QED
    BY <2>2, <2>3, <2>4
<1>2. SUFFICES ASSUME NEW M \in Nat, M >= 1, M = PerBlock(sec)
               PROVE  g = h
  BY SecretsType
<1>3. PICK q \in Nat, r \in Nat : UpTo(sec, t, q, r) /\ g = Mixed(sec, q, r) \o <<LastUse(sec, t)>>
  BY DEF IsLong
<1>4. PICK x \in Nat, y \in Nat : UpTo(sec, t, x, y) /\ h = Mixed(sec, x, y) \o <<LastUse(sec, t)>>
  BY DEF IsLong
<1>5. q = x /\ r = y
  <2>1. /\ r < M /\ 64 * (M * q + r) <= t - 1 /\ t - 1 < 64 * (M * q + r) + 64
        /\ y < M /\ 64 * (M * x + y) <= t - 1 /\ t - 1 < 64 * (M * x + y) + 64
    BY <1>2, <1>3, <1>4 DEF UpTo
  <2> QED
    BY <1>1, <1>2, <1>3, <1>4, <2>1
<1> QED
  BY <1>3, <1>4, <1>5

LEMMA MessageHolds ==
    ASSUME NEW t \in Nat
    PROVE  Holds(Message(t), 0, t, 0)
<1>1. \A j \in 1 .. t : 0 + j \in 1 .. t /\ 0 + j = j
  OBVIOUS
<1> QED
  BY <1>1 DEF Holds, Message

(* One call.                                                               *)
LoopOf(in, n, sec, block, blocks) ==
    FlattenSeq([b \in 1 .. blocks |->
        accumulate(in, block * (b - 1), sec, 0, PerBlock(sec)) \o scramble(sec)])
    \o accumulate(in, block * blocks, sec, 0, (n - 1 - block * blocks) \div 64)
    \o <<Use(Bytes(in, n - 64, 64), sec, sec.size - 64 - 7, 64)>>

LEMMA LoopIs ==
    ASSUME NEW sec \in Secrets, NEW t \in Nat, t > 240
    PROVE  IsLong(hashLong_internal_loop(Message(t), t, sec), sec, t)
<1> DEFINE in == Message(t)
<1>1. SUFFICES ASSUME NEW M \in Nat, M = PerBlock(sec), M >= 1
               PROVE  IsLong(hashLong_internal_loop(in, t, sec), sec, t)
  BY SecretsType
<1>2. SUFFICES ASSUME NEW u \in Nat, u = t - 1, NEW B \in Nat, B = 64 * M
               PROVE  IsLong(hashLong_internal_loop(in, t, sec), sec, t)
  OBVIOUS
<1>3. SUFFICES ASSUME NEW q \in Nat, q = u \div B, NEW z \in Nat, Times(M, q, z),
                      NEW x \in Nat, x < B, u = 64 * z + x, B * q = 64 * z
               PROVE  IsLong(hashLong_internal_loop(in, t, sec), sec, t)
  <2>1. u \div B \in Nat /\ u % B \in Nat /\ u % B < B /\ u = B * (u \div B) + (u % B)
    <3>1. B >= 1
      BY <1>1, <1>2
    <3> QED
      BY <3>1, AnyDivision
  <2>2. SUFFICES ASSUME NEW q \in Nat, q = u \div B, NEW x \in Nat, x < B, u = B * q + x
                 PROVE  IsLong(hashLong_internal_loop(in, t, sec), sec, t)
    BY <2>1
  <2>3. M * q \in Nat /\ (64 * M) * q = 64 * (M * q)
    OBVIOUS
  <2> QED
    BY <1>2, <2>2, <2>3 DEF Times
<1>4. SUFFICES ASSUME NEW r \in Nat, r = x \div 64, 64 * r <= x, x < 64 * r + 64
               PROVE  IsLong(hashLong_internal_loop(in, t, sec), sec, t)
  <2>1. x \div 64 \in Nat /\ 64 * (x \div 64) <= x /\ x < 64 * (x \div 64) + 64
    OBVIOUS
  <2> QED
    BY <2>1
<1>5. r < M
  BY <1>2, <1>3, <1>4
<1>6. Holds(in, 0, t, 0)
  BY MessageHolds
<1> DEFINE blocks == FlattenSeq([b \in 1 .. q |->
                         accumulate(in, B * (b - 1), sec, 0, M) \o scramble(sec)])
<1>7. hashLong_internal_loop(in, t, sec)
      = blocks \o accumulate(in, B * q, sec, 0, r)
        \o <<Use(Bytes(in, t - 64, 64), sec, sec.size - 64 - 7, 64)>>
  <2>1. t - 1 - B * q = x
    BY <1>2, <1>3
  <2> HIDE DEF in
  <2>2. hashLong_internal_loop(in, t, sec)
        = LoopOf(in, t, sec, 64 * PerBlock(sec), (t - 1) \div (64 * PerBlock(sec)))
    BY DEF hashLong_internal_loop, LoopOf
  <2>3. 64 * PerBlock(sec) = B /\ t - 1 = u
    BY <1>1, <1>2
  <2>4. hashLong_internal_loop(in, t, sec) = LoopOf(in, t, sec, B, q)
    BY <1>3, <2>2, <2>3
  <2> QED
    BY <1>1, <1>4, <2>1, <2>4 DEF LoopOf
<1> HIDE DEF in
<1>8. blocks = Blocks(sec, 0, q)
  <2>1. blocks = WholeOf(sec, M, in, 0, 0, q)
    <3>1. ASSUME NEW k \in 1 .. q PROVE B * (k - 1) = 0 + 64 * (0 + M * (k - 1))
      <4>1. (64 * M) * (k - 1) = 64 * (M * (k - 1)) /\ M * (k - 1) \in Int
        OBVIOUS
      <4> QED
        BY <1>2, <4>1
    <3> QED
      BY <3>1 DEF WholeOf
  <2>2. ASSUME NEW o \in Nat, o = 0 PROVE WholeOf(sec, M, in, o, o, q) = Blocks(sec, o, q)
    <3>1. Holds(in, 0, t, o) /\ o + 64 * (o + z) <= t /\ o + o + 64 * o = 64 * o
      BY <1>2, <1>3, <1>6, <2>2
    <3>2. Times(M, o, o)
      <4>1. M * 0 = 0
        OBVIOUS
      <4> QED
        BY <2>2, <4>1 DEF Times
    <3> QED
      BY <1>1, <1>3, <3>1, <3>2, WholeBlocks
  <2>3. 0 \in Nat
    OBVIOUS
  <2> HIDE DEF blocks
  <2> QED
    BY <2>1, <2>2, <2>3
<1>9. accumulate(in, B * q, sec, 0, r) = Row(sec, z, 0, r)
  <2>1. ASSUME NEW o \in Nat, o = 64 * z, NEW s \in Nat, NEW k \in Nat, s = 8 * k,
               NEW e \in Int, e = 0
        PROVE  accumulate(in, o, sec, s, r) = Row(sec, z, k, r)
    <3>1. o + 64 * r <= t /\ e + o = 64 * z /\ Holds(in, 0, t, e)
      BY <1>2, <1>3, <1>4, <1>6, <2>1
    <3> QED
      BY <2>1, <3>1, AccumulateIs
  <2>2. 64 * z \in Nat /\ 0 \in Nat /\ 0 = 8 * 0 /\ 0 \in Int
    OBVIOUS
  <2>3. accumulate(in, 64 * z, sec, 0, r) = Row(sec, z, 0, r)
    BY <2>1, <2>2
  <2> QED
    BY <1>3, <2>3
<1>10. Bytes(in, t - 64, 64) = Win(t - 64, 64)
  <2>1. ASSUME NEW o \in Nat, o = t - 64, NEW e \in Int, e = 0 PROVE Bytes(in, o, 64) = Win(e + o, 64)
    <3>1. 64 \in Nat /\ o + 64 <= t /\ Holds(in, 0, t, e)
      BY <1>6, <2>1
    <3> QED
      BY <3>1, PartIs
  <2>2. t - 64 \in Nat /\ 0 \in Int /\ 0 + (t - 64) = t - 64
    OBVIOUS
  <2> QED
    BY <2>1, <2>2
<1> HIDE DEF blocks
<1>11. hashLong_internal_loop(in, t, sec) = Mixed(sec, q, r) \o <<LastUse(sec, t)>>
  <2>1. Mixed(sec, q, r) = Blocks(sec, 0, q) \o Row(sec, z, 0, r)
    BY <1>1, <1>3 DEF Mixed, Times
  <2> QED
    BY <1>7, <1>8, <1>9, <1>10, <2>1 DEF LastUse
<1>12. UpTo(sec, t, q, r)
  <2>1. 64 * (z + r) <= t - 1 /\ t - 1 < 64 * (z + r) + 64
    BY <1>2, <1>3, <1>4
  <2>2. PerBlock(sec) * q = z
    BY <1>1, <1>3 DEF Times
  <2> QED
    BY <1>1, <1>5, <2>1, <2>2 DEF UpTo
<1> QED
  BY <1>11, <1>12 DEF IsLong

(* The digest of a state that was given the same message: the last stripe  *)
(* is in the buffer ...                                                    *)
LEMMA DigestInside ==
    ASSUME NEW s, NEW t \in Nat, NEW c \in Nat, Given(s, t, c), s.buffered >= 64
    PROVE  IsLong(digest_long(s), Secret(s), t)
<1> DEFINE sec == Secret(s)
<1>1. sec \in Secrets /\ s \in StateOf3 /\ InBlock(s, c)
  BY SecretType DEF Given
<1> HIDE DEF sec
<1>2. SUFFICES ASSUME NEW b \in Nat, b = s.buffered, b >= 64, NEW o \in Nat, o = 64 * c,
                      t = o + b, Holds(s.buffer, 0, b, o)
               PROVE  IsLong(digest_long(s), sec, t)
  <2>1. s.buffered \in Nat /\ 64 * c \in Nat
    BY <1>1 DEF StateOf3
  <2> QED
    BY <2>1 DEF Given, sec
<1>3. SUFFICES ASSUME NEW n \in Nat, n = Stripes(b), 64 * n <= b - 1, b - 1 < 64 * n + 64
               PROVE  IsLong(digest_long(s), sec, t)
  <2>1. (b - 1) \div 64 \in Nat /\ 64 * ((b - 1) \div 64) <= b - 1
        /\ b - 1 < 64 * ((b - 1) \div 64) + 64
    <3>1. SUFFICES ASSUME NEW k \in Nat, k = b - 1
                   PROVE  k \div 64 \in Nat /\ 64 * (k \div 64) <= k /\ k < 64 * (k \div 64) + 64
      BY <1>2
    <3> QED
      OBVIOUS
  <2> QED
    BY <2>1 DEF Stripes
<1> DEFINE u == consumeStripes(s, s.buffer, 0, n)
<1>4. Advances(u, s, c + n)
  <2>1. ASSUME NEW z \in Nat, z = 0 PROVE Advances(consumeStripes(s, s.buffer, z, n), s, c + n)
    <3>1. z + 64 * n <= b /\ o + z = 64 * c
      BY <1>2, <1>3, <2>1
    <3> QED
      BY <1>1, <1>2, <3>1, ConsumeAdvances
  <2>2. 0 \in Nat
    OBVIOUS
  <2> QED
    BY <2>1, <2>2
<1>5. digest_long(s) = u.acc \o <<Use(Bytes(s.buffer, b - 64, 64), sec, sec.size - 64 - 7, 64)>>
  BY <1>2, <1>3 DEF digest_long, sec
<1> HIDE DEF u
<1>6. Bytes(s.buffer, b - 64, 64) = Win(t - 64, 64)
  <2>1. ASSUME NEW d \in Nat, d = b - 64 PROVE Bytes(s.buffer, d, 64) = Win(o + d, 64)
    <3>1. 64 \in Nat /\ d + 64 <= b
      BY <2>1
    <3> QED
      BY <1>2, <3>1, PartIs
  <2>2. b - 64 \in Nat /\ o + (b - 64) = t - 64
    BY <1>2
  <2> QED
    BY <2>1, <2>2
<1>7. PICK q \in Nat, r \in Nat : Took(u, sec, c + n, q, r)
  BY <1>4 DEF Advances, InBlock, Keeps, sec
<1>8. u.acc = Mixed(sec, q, r) /\ r < PerBlock(sec) /\ PerBlock(sec) * q + r = c + n
  BY <1>7 DEF Took
<1>9. 64 * (c + n) <= t - 1 /\ t - 1 < 64 * (c + n) + 64
  BY <1>2, <1>3
<1>10. UpTo(sec, t, q, r)
  BY <1>8, <1>9 DEF UpTo
<1> QED
  BY <1>5, <1>6, <1>7, <1>8, <1>10 DEF IsLong, LastUse

(* ... or begins in what was consumed before, whose end the buffer keeps.  *)
LEMMA DigestAcross ==
    ASSUME NEW s, NEW t \in Nat, NEW c \in Nat, Given(s, t, c), t > 240, ~ (s.buffered >= 64)
    PROVE  IsLong(digest_long(s), Secret(s), t)
<1> DEFINE sec == Secret(s)
<1>1. sec \in Secrets /\ s \in StateOf3 /\ InBlock(s, c)
  BY SecretType DEF Given
<1> HIDE DEF sec
<1>2. SUFFICES ASSUME NEW b \in Nat, b = s.buffered, b < 64, b > 0, NEW o \in Nat, o = 64 * c,
                      t = o + b, Holds(s.buffer, 0, b, o), Leaves(s.buffer, b, c)
               PROVE  IsLong(digest_long(s), sec, t)
  <2>1. s.buffered \in Nat /\ 64 * c \in Nat
    BY <1>1 DEF StateOf3
  <2>2. c > 0
    BY <2>1 DEF Given
  <2> QED
    BY <2>1, <2>2 DEF Given, sec
<1> DEFINE x == Bytes(s.buffer, 256 - (64 - b), 64 - b)
           y == Bytes(s.buffer, 0, b)
<1>3. digest_long(s) = s.acc \o <<Use(x \o y, sec, sec.size - 64 - 7, 64)>>
  BY <1>2 DEF digest_long, sec
<1>4. SUFFICES ASSUME NEW w \in Nat, w = 64 - b, NEW e \in Nat, e = t - 64
               PROVE  IsLong(digest_long(s), sec, t)
  BY <1>2
<1>5. x = Win(e, w)
  <2>1. ASSUME NEW j \in Nat, j >= 1, j <= w
        PROVE  192 + b + j \in DOMAIN s.buffer /\ s.buffer[192 + b + j] = e + j
    <3>1. 192 + b + j \in 193 .. 256 /\ 192 + b + j > b /\ 192 + b + j \in 1 .. 256
          /\ 64 * c - 256 + (192 + b + j) = e + j
      BY <1>2, <1>4, <2>1
    <3>2. DOMAIN s.buffer = 1 .. 256
      BY <1>1 DEF StateOf3, Buffers
    <3>3. s.buffer[192 + b + j] = 64 * c - 256 + (192 + b + j)
      BY <1>2, <3>1 DEF Leaves
    <3> QED
      BY <3>1, <3>2, <3>3
  <2>2. SUFFICES ASSUME NEW d \in Nat, d = 192 + b PROVE Bytes(s.buffer, d, w) = Win(e, w)
    <3>1. 256 - (64 - b) = 192 + b /\ 64 - b = w
      BY <1>4
    <3> QED
      BY <3>1
  <2>3. Holds(s.buffer, d, w, e)
    BY <2>1, <2>2 DEF Holds
  <2> QED
    BY <2>3, BytesAre
<1>6. y = Win(o, b)
  <2>1. 0 \in Int
    OBVIOUS
  <2> QED
    BY <1>2, <2>1, BytesAre
<1> HIDE DEF x, y
<1>7. x \o y = Win(e, 64)
  <2>1. x \in Seq(Int) /\ Len(x) = w
    BY <1>5, WinType
  <2>2. y \in Seq(Int) /\ Len(y) = b
    BY <1>6, WinType
  <2>3. Win(e, 64) \in Seq(Int) /\ Len(Win(e, 64)) = 64 /\ w + b = 64
    <3>1. ASSUME NEW a \in Int, NEW m \in Nat PROVE Win(a, m) \in Seq(Int) /\ Len(Win(a, m)) = m
      BY WinType
    <3>2. w + b = 64
      BY <1>4
    <3>3. 64 \in Nat /\ e \in Int
      OBVIOUS
    <3>4. Win(e, 64) \in Seq(Int) /\ Len(Win(e, 64)) = 64
      BY <3>1, <3>3, Zenon
    <3> QED
      BY <3>2, <3>4
  <2>4. ASSUME NEW k \in 1 .. w PROVE x[k] = Win(e, 64)[k]
    <3>1. k \in 1 .. 64
      BY <1>4
    <3> QED
      BY <1>5, <3>1 DEF Win
  <2>5. ASSUME NEW k \in 1 .. b PROVE y[k] = Win(e, 64)[w + k]
    <3>1. w + k \in 1 .. 64 /\ e + (w + k) = o + k
      BY <1>2, <1>4
    <3> QED
      BY <1>6, <3>1 DEF Win
  <2> DEFINE z == Win(e, 64)
  <2> HIDE DEF z
  <2>6. z \in Seq(Int) /\ Len(z) = Len(x) + Len(y)
    BY <2>1, <2>2, <2>3 DEF z
  <2>7. (\A k \in 1 .. Len(x) : x[k] = z[k]) /\ (\A k \in 1 .. Len(y) : y[k] = z[Len(x) + k])
    BY <2>1, <2>2, <2>4, <2>5 DEF z
  <2>8. x \in Seq(Int) /\ y \in Seq(Int)
    BY <2>1, <2>2
  <2>9. x \o y = z
    BY <2>6, <2>7, <2>8, ConcatIs
  <2> QED
    BY <2>9 DEF z
<1>8. PICK q \in Nat, r \in Nat : Took(s, sec, c, q, r)
  BY <1>1 DEF InBlock, sec
<1>9. s.acc = Mixed(sec, q, r) /\ r < PerBlock(sec) /\ PerBlock(sec) * q + r = c
  BY <1>8 DEF Took
<1>10. 64 * c <= t - 1 /\ t - 1 < 64 * c + 64
  BY <1>2
<1>11. UpTo(sec, t, q, r)
  BY <1>9, <1>10 DEF UpTo
<1> QED
  BY <1>3, <1>4, <1>7, <1>8, <1>9, <1>11 DEF IsLong, LastUse

LEMMA LongDigest ==
    ASSUME NEW s, NEW t \in Nat, After3(s, t), t > 240
    PROVE  digest_long(s) = hashLong_internal_loop(Message(t), t, Secret(s))
<1>1. Secret(s) \in Secrets
  BY SecretType DEF After3, Given
<1>2. IsLong(digest_long(s), Secret(s), t)
  BY DigestInside, DigestAcross DEF After3
<1>3. IsLong(hashLong_internal_loop(Message(t), t, Secret(s)), Secret(s), t)
  BY <1>1, LoopIs
<1> QED
  BY <1>1, <1>2, <1>3, LongUnique

-----------------------------------------------------------------------------
(* The short hashes of two inputs with the same first n bytes.             *)
Agree(b, c, n) == \A o, w \in Nat : o + w <= n => Bytes(b, o, w) = Bytes(c, o, w)

LEMMA AgreeIs ==
    ASSUME NEW n \in Nat, NEW b, Holds(b, 0, n, 0)
    PROVE  Agree(b, Message(n), n)
<1>1. ASSUME NEW o \in Nat, NEW w \in Nat, o + w <= n, NEW a, Holds(a, 0, n, 0)
      PROVE  Bytes(a, o, w) = Win(o, w)
  <2>1. ASSUME NEW z \in Int, z = 0 PROVE Bytes(a, o, w) = Win(z + o, w)
    <3>1. Holds(a, 0, n, z)
      BY <1>1, <2>1
    <3> QED
      BY <1>1, <3>1, PartIs
  <2>2. 0 \in Int /\ 0 + o = o
    OBVIOUS
  <2> QED
    BY <2>1, <2>2
<1>2. Holds(Message(n), 0, n, 0)
  BY MessageHolds
<1> QED
  BY <1>1, <1>2 DEF Agree

LEMMA Agree16 ==
    ASSUME NEW b, NEW c, NEW n, Agree(b, c, n), NEW o \in Nat, o + 16 <= n, NEW sec, NEW s
    PROVE  mix16B(b, o, sec, s) = mix16B(c, o, sec, s)
<1>1. 16 \in Nat
  OBVIOUS
<1>2. Bytes(b, o, 16) = Bytes(c, o, 16)
  BY <1>1 DEF Agree
<1> QED
  BY <1>2 DEF mix16B

LEMMA Agree32 ==
    ASSUME NEW b, NEW c, NEW n, Agree(b, c, n), NEW o \in Nat, o + 16 <= n,
           NEW p \in Nat, p + 16 <= n, NEW sec, NEW s
    PROVE  mix32B(b, o, p, sec, s) = mix32B(c, o, p, sec, s)
BY Agree16 DEF mix32B

LEMMA Agree0to16 ==
    ASSUME NEW b, NEW c, NEW n \in Nat, n <= 16, Agree(b, c, n), NEW sec
    PROVE  /\ len_0to16_64b(b, n, sec) = len_0to16_64b(c, n, sec)
           /\ len_0to16_128b(b, n, sec) = len_0to16_128b(c, n, sec)
<1>1. CASE n > 8
  <2>1. 0 \in Nat /\ 8 \in Nat /\ 0 + 8 <= n /\ n - 8 \in Nat /\ (n - 8) + 8 <= n
    BY <1>1
  <2>2. Bytes(b, 0, 8) = Bytes(c, 0, 8) /\ Bytes(b, n - 8, 8) = Bytes(c, n - 8, 8)
    BY <2>1 DEF Agree
  <2> QED
    BY <1>1, <2>2 DEF len_0to16_64b, len_0to16_128b
<1>2. CASE n \in 4 .. 8
  <2>1. 0 \in Nat /\ 4 \in Nat /\ 0 + 4 <= n /\ n - 4 \in Nat /\ (n - 4) + 4 <= n /\ ~ (n > 8)
    BY <1>2
  <2>2. Bytes(b, 0, 4) = Bytes(c, 0, 4) /\ Bytes(b, n - 4, 4) = Bytes(c, n - 4, 4)
    BY <2>1 DEF Agree
  <2> QED
    BY <1>2, <2>1, <2>2 DEF len_0to16_64b, len_0to16_128b
<1>3. CASE n \in 1 .. 3
  <2>1. /\ 0 \in Nat /\ 1 \in Nat /\ 0 + 1 <= n /\ n \div 2 \in Nat /\ (n \div 2) + 1 <= n
        /\ n - 1 \in Nat /\ (n - 1) + 1 <= n /\ ~ (n > 8) /\ n \notin 4 .. 8
    BY <1>3
  <2>2. /\ Bytes(b, 0, 1) = Bytes(c, 0, 1) /\ Bytes(b, n \div 2, 1) = Bytes(c, n \div 2, 1)
        /\ Bytes(b, n - 1, 1) = Bytes(c, n - 1, 1)
    BY <2>1 DEF Agree
  <2>3. OneToThree(b, n) = OneToThree(c, n)
    BY <2>2 DEF OneToThree
  <2> QED
    BY <1>3, <2>1, <2>3 DEF len_0to16_64b, len_0to16_128b
<1>4. CASE n = 0
  BY <1>4 DEF len_0to16_64b, len_0to16_128b
<1>5. n > 8 \/ n \in 4 .. 8 \/ n \in 1 .. 3 \/ n = 0
  OBVIOUS
<1> QED
  BY <1>1, <1>2, <1>3, <1>4, <1>5

LEMMA Agree17to128 ==
    ASSUME NEW b, NEW c, NEW n \in Nat, n > 16, Agree(b, c, n), NEW sec
    PROVE  len_17to128(b, n, sec) = len_17to128(c, n, sec)
<1>1. ASSUME NEW j \in Nat, Reaches(n, j)
      PROVE  mix32B(b, 16 * j, n - 16 * (j + 1), sec, 32 * j)
             = mix32B(c, 16 * j, n - 16 * (j + 1), sec, 32 * j)
  <2>1. /\ 16 * j \in Nat /\ 16 * j + 16 <= n
        /\ n - 16 * (j + 1) \in Nat /\ n - 16 * (j + 1) + 16 <= n
    BY <1>1 DEF Reaches
  <2> QED
    BY <2>1, Agree32
<1>2. 0 \in Nat /\ 1 \in Nat /\ 2 \in Nat /\ 3 \in Nat
  OBVIOUS
<1> DEFINE p(a, j) == IF Reaches(n, j) THEN mix32B(a, 16 * j, n - 16 * (j + 1), sec, 32 * j)
                      ELSE << >>
<1>3. /\ p(b, 0) = p(c, 0) /\ p(b, 1) = p(c, 1) /\ p(b, 2) = p(c, 2) /\ p(b, 3) = p(c, 3)
  BY <1>1, <1>2
<1>4. \A a : len_17to128(a, n, sec) = p(a, 3) \o p(a, 2) \o p(a, 1) \o p(a, 0)
  BY DEF len_17to128
<1> HIDE DEF p
<1> QED
  BY <1>3, <1>4

LEMMA Agree129to240 ==
    ASSUME NEW b, NEW c, NEW n \in Nat, n > 128, Agree(b, c, n), NEW sec
    PROVE  /\ len_129to240_64b(b, n, sec) = len_129to240_64b(c, n, sec)
           /\ len_129to240_128b(b, n, sec) = len_129to240_128b(c, n, sec)
<1>1. ASSUME NEW s, NEW o \in Nat, o + 16 <= n PROVE mix16B(b, o, sec, s) = mix16B(c, o, sec, s)
  BY <1>1, Agree16
<1>2. ASSUME NEW k \in 1 .. 8
      PROVE  mix16B(b, 16 * (k - 1), sec, 16 * (k - 1)) = mix16B(c, 16 * (k - 1), sec, 16 * (k - 1))
  <2>1. 16 * (k - 1) \in Nat /\ 16 * (k - 1) + 16 <= n
    OBVIOUS
  <2> QED
    BY <1>1, <2>1
<1>3. mix16B(b, n - 16, sec, 136 - 17) = mix16B(c, n - 16, sec, 136 - 17)
  <2>1. n - 16 \in Nat /\ (n - 16) + 16 <= n
    OBVIOUS
  <2> QED
    BY <1>1, <2>1
<1>4. ASSUME NEW k \in 1 .. n \div 16 - 8
      PROVE  mix16B(b, 16 * (k + 7), sec, 16 * (k - 1) + 3)
             = mix16B(c, 16 * (k + 7), sec, 16 * (k - 1) + 3)
  <2>1. 16 * (k + 7) \in Nat /\ 16 * (k + 7) + 16 <= n
    OBVIOUS
  <2> QED
    BY <1>1, <2>1
<1>5. len_129to240_64b(b, n, sec) = len_129to240_64b(c, n, sec)
  BY <1>2, <1>3, <1>4 DEF len_129to240_64b
<1>6. ASSUME NEW k \in 1 .. n \div 32, NEW s
      PROVE  mix32B(b, 32 * (k - 1), 32 * k - 16, sec, s) = mix32B(c, 32 * (k - 1), 32 * k - 16, sec, s)
  <2>1. /\ 32 * (k - 1) \in Nat /\ 32 * (k - 1) + 16 <= n
        /\ 32 * k - 16 \in Nat /\ 32 * k - 16 + 16 <= n
    OBVIOUS
  <2> QED
    BY <2>1, Agree32
<1>7. mix32B(b, n - 16, n - 32, sec, LastOffset) = mix32B(c, n - 16, n - 32, sec, LastOffset)
  <2>1. n - 16 \in Nat /\ (n - 16) + 16 <= n /\ n - 32 \in Nat /\ (n - 32) + 16 <= n
    OBVIOUS
  <2> QED
    BY <2>1, Agree32
<1>8. len_129to240_128b(b, n, sec) = len_129to240_128b(c, n, sec)
  BY <1>6, <1>7 DEF len_129to240_128b
<1> QED
  BY <1>5, <1>8

LEMMA ShortSame ==
    ASSUME NEW n \in Nat, NEW b, Holds(b, 0, n, 0), n <= 240, NEW sec, NEW seed, NEW bits
    PROVE  Short(b, n, sec, seed, bits) = Short(Message(n), n, sec, seed, bits)
<1> DEFINE c == Message(n)
<1>1. Agree(b, c, n)
  BY AgreeIs
<1> HIDE DEF c
<1>2. CASE n <= 16
  BY <1>1, <1>2, Agree0to16 DEF Short, c
<1>3. CASE n \in 17 .. 128
  <2>1. ~ (n <= 16) /\ n > 16
    BY <1>3
  <2> QED
    BY <1>1, <1>3, <2>1, Agree17to128 DEF Short, c
<1>4. CASE n > 128
  <2>1. ~ (n <= 16) /\ n \notin 17 .. 128
    BY <1>4
  <2> QED
    BY <1>1, <1>4, <2>1, Agree129to240 DEF Short, c
<1> QED
  BY <1>2, <1>3, <1>4

-----------------------------------------------------------------------------
(* How the state was reset, and that a custom secret is that of the seed.  *)
ResetAs(s, how) ==
    /\ s.ext.id = "NULL" /\ s.seed # "0" => s.custom = s.seed
    /\ \/ how = Unset
       \/ how = [kind |-> "default"] /\ s.ext = kSecret /\ ~ s.useSeed
       \/ how = [kind |-> "secret"] /\ s.ext = User /\ ~ s.useSeed
       \/ /\ how = [kind |-> "seed", seed |-> s.seed]
          /\ s.ext = NULL /\ s.useSeed /\ s.custom = s.seed
       \/ how = [kind |-> "both", seed |-> s.seed] /\ s.ext = User /\ s.useSeed

(* A message of up to 240 bytes is whole in the buffer.                    *)
LEMMA ShortInside ==
    ASSUME NEW s, NEW t \in Nat, After3(s, t), t <= 240
    PROVE  s.total = t /\ Holds(s.buffer, 0, t, 0)
<1>1. PICK c \in Nat : Given(s, t, c)
  BY DEF After3
<1>2. SUFFICES ASSUME NEW b \in Nat, b = s.buffered
               PROVE  s.total = t /\ Holds(s.buffer, 0, t, 0)
  BY <1>1 DEF Given, StateOf3
<1>3. c = 0
  BY <1>1 DEF Given
<1>4. t = b /\ Holds(s.buffer, 0, b, 64 * 0) /\ 64 * 0 = 0
  BY <1>1, <1>2, <1>3 DEF Given
<1> QED
  BY <1>1, <1>4 DEF Given

LEMMA Digest3 ==
    ASSUME NEW s, NEW t \in Nat, After3(s, t), NEW how, ResetAs(s, how), how # Unset, NEW bits
    PROVE  XXH3_digest(s, bits) = XXH3(Message(t), t, how, bits)
<1> DEFINE in == Message(t)
<1>1. s.total = t
  BY DEF After3, Given
<1>2. ASSUME t <= 240, NEW sec, NEW seed, NEW long, NEW long2
      PROVE  XXH3_internal(s.buffer, t, seed, sec, long, bits)
             = XXH3_internal(in, t, seed, sec, long2, bits)
  <2>1. Holds(s.buffer, 0, t, 0)
    BY <1>2, ShortInside
  <2>2. Short(s.buffer, t, sec, seed, bits) = Short(in, t, sec, seed, bits)
    BY <1>2, <2>1, ShortSame
  <2> HIDE DEF in
  <2> QED
    BY <1>2, <2>2 DEF XXH3_internal
<1>3. ASSUME t > 240, NEW sec, NEW seed
      PROVE  finalizeLong(digest_long(s), Secret(s), t, bits)
             = XXH3_internal(in, t, seed, sec, Secret(s), bits)
  <2>1. digest_long(s) = hashLong_internal_loop(in, t, Secret(s))
    BY <1>3, LongDigest
  <2> HIDE DEF in
  <2>2. ~ (t <= 240)
    BY <1>3
  <2> QED
    BY <2>1, <2>2 DEF XXH3_internal
<1> HIDE DEF in
<1>4. t > 240 => XXH3_digest(s, bits) = finalizeLong(digest_long(s), Secret(s), t, bits)
  BY <1>1 DEF XXH3_digest
<1>5. ~ (t > 240) /\ s.useSeed =>
          XXH3_digest(s, bits) = XXH3_internal(s.buffer, t, s.seed, kSecret, Custom(s.seed), bits)
  <2>1. XXH3(s.buffer, t, [kind |-> "seed", seed |-> s.seed], bits)
        = XXH3_internal(s.buffer, t, s.seed, kSecret, Custom(s.seed), bits)
    BY DEF XXH3
  <2> QED
    BY <1>1, <2>1 DEF XXH3_digest
<1>6. ~ (t > 240) /\ ~ s.useSeed =>
          XXH3_digest(s, bits) = XXH3_internal(s.buffer, t, "0", Secret(s), Secret(s), bits)
  BY <1>1 DEF XXH3_digest
<1>7. ASSUME ~ s.useSeed
      PROVE  XXH3_digest(s, bits) = XXH3_internal(in, t, "0", Secret(s), Secret(s), bits)
  <2>1. CASE t > 240
    <3>1. finalizeLong(digest_long(s), Secret(s), t, bits)
          = XXH3_internal(in, t, "0", Secret(s), Secret(s), bits)
      BY <1>3, <2>1
    <3> QED
      BY <1>4, <2>1, <3>1
  <2>2. CASE ~ (t > 240)
    <3>1. t <= 240
      BY <2>2
    <3>2. XXH3_internal(s.buffer, t, "0", Secret(s), Secret(s), bits)
          = XXH3_internal(in, t, "0", Secret(s), Secret(s), bits)
      BY <1>2, <3>1
    <3> QED
      BY <1>6, <1>7, <2>2, <3>2
  <2> QED
    BY <2>1, <2>2
<1>8. ASSUME s.useSeed
      PROVE  XXH3_digest(s, bits) = XXH3_internal(in, t, s.seed, kSecret, Secret(s), bits)
  <2>1. CASE t > 240
    <3>1. finalizeLong(digest_long(s), Secret(s), t, bits)
          = XXH3_internal(in, t, s.seed, kSecret, Secret(s), bits)
      BY <1>3, <2>1
    <3> QED
      BY <1>4, <2>1, <3>1
  <2>2. CASE ~ (t > 240)
    <3>1. t <= 240
      BY <2>2
    <3>2. XXH3_internal(s.buffer, t, s.seed, kSecret, Custom(s.seed), bits)
          = XXH3_internal(in, t, s.seed, kSecret, Secret(s), bits)
      BY <1>2, <3>1
    <3> QED
      BY <1>5, <1>8, <2>2, <3>2
  <2> QED
    BY <2>1, <2>2
<1>9. CASE how = [kind |-> "default"] /\ s.ext = kSecret /\ ~ s.useSeed
  <2>1. Secret(s) = kSecret
    BY <1>9 DEF Secret, kSecret
  <2>2. XXH3(in, t, how, bits) = XXH3_internal(in, t, "0", kSecret, kSecret, bits)
    BY <1>9 DEF XXH3
  <2> QED
    BY <1>7, <1>9, <2>1, <2>2 DEF in
<1>10. CASE how = [kind |-> "secret"] /\ s.ext = User /\ ~ s.useSeed
  <2>1. Secret(s) = User
    BY <1>10 DEF Secret, User
  <2>2. XXH3(in, t, how, bits) = XXH3_internal(in, t, "0", User, User, bits)
    BY <1>10 DEF XXH3
  <2> QED
    BY <1>7, <1>10, <2>1, <2>2 DEF in
<1>11. CASE /\ how = [kind |-> "seed", seed |-> s.seed]
            /\ s.ext = NULL /\ s.useSeed /\ s.custom = s.seed
  <2>1. Secret(s) = Custom(s.seed)
    BY <1>11 DEF Secret, NULL
  <2>2. XXH3(in, t, how, bits) = XXH3_internal(in, t, s.seed, kSecret, Custom(s.seed), bits)
    BY <1>11 DEF XXH3
  <2> QED
    BY <1>8, <1>11, <2>1, <2>2 DEF in
<1>12. CASE how = [kind |-> "both", seed |-> s.seed] /\ s.ext = User /\ s.useSeed
  <2>1. Secret(s) = User
    BY <1>12 DEF Secret, User
  <2>2. XXH3(in, t, how, bits) = XXH3_internal(in, t, s.seed, kSecret, User, bits)
    BY <1>12 DEF XXH3
  <2> QED
    BY <1>8, <1>12, <2>1, <2>2 DEF in
<1> QED
  BY <1>9, <1>10, <1>11, <1>12, Zenon DEF ResetAs

(* A reset begins a message of no bytes.                                   *)
LEMMA Reset3 ==
    ASSUME NEW seed \in Seed \cup {"0"}, NEW useSeed \in BOOLEAN, NEW ext \in {NULL, kSecret, User},
           NEW custom \in Seed \cup {"none"}
    PROVE  LET s == reset_internal(seed, useSeed, ext, custom) IN
           /\ After3(s, 0)
           /\ s.seed = seed /\ s.useSeed = useSeed /\ s.ext = ext /\ s.custom = custom
<1> DEFINE s == reset_internal(seed, useSeed, ext, custom)
           b == [k \in 1 .. 256 |-> Stale]
<1>1. b \in Buffers(256)
  BY DEF Buffers, Stale
<1>2. s = [acc |-> << >>, soFar |-> 0, buffer |-> b, buffered |-> 0, total |-> 0,
           seed |-> seed, useSeed |-> useSeed, ext |-> ext, custom |-> custom]
  BY DEF reset_internal
<1> HIDE DEF b, s
<1>3. << >> \in Seq(Uses) /\ 0 \in Nat
  OBVIOUS
<1>4. s \in StateOf3
  BY <1>1, <1>2, <1>3 DEF StateOf3
<1>5. /\ s.acc = << >> /\ s.soFar = 0 /\ s.buffered = 0 /\ s.total = 0
      /\ s.seed = seed /\ s.useSeed = useSeed /\ s.ext = ext /\ s.custom = custom
  BY <1>2
<1>6. Secret(s) \in Secrets
  BY <1>4, SecretType
<1>7. InBlock(s, 0)
  <2>1. Mixed(Secret(s), 0, 0) = << >>
    <3>1. Blocks(Secret(s), 0, 0) = << >> /\ Row(Secret(s), PerBlock(Secret(s)) * 0, 0, 0) = << >>
      BY BlocksNone, RowEmpty
    <3> QED
      BY <3>1 DEF Mixed
  <2>2. 0 < PerBlock(Secret(s)) /\ 0 = PerBlock(Secret(s)) * 0 + 0
    BY <1>6, SecretsType
  <2>3. Took(s, Secret(s), 0, 0, 0)
    BY <1>5, <2>1, <2>2 DEF Took
  <2> QED
    BY <1>3, <2>3 DEF InBlock
<1>8. Given(s, 0, 0)
  <2>1. Holds(s.buffer, 0, 0, 64 * 0) /\ 0 = 64 * 0 + 0 /\ 0 <= 256 /\ ~ (0 > 0)
    BY DEF Holds
  <2> QED
    BY <1>4, <1>5, <1>7, <2>1 DEF Given
<1>9. After3(s, 0)
  BY <1>3, <1>8 DEF After3
<1> QED
  BY <1>5, <1>9 DEF s

(* XXH3's state is what it is after the bytes of the message so far, and   *)
(* after the reset before them.                                            *)
Hashed ==
    /\ len \in Nat
    /\ After3(s3, len) /\ ResetAs(s3, mode)

LEMMA ResetHashed ==
    ASSUME NEW how, NEW seed \in Seed \cup {"0"}, NEW useSeed \in BOOLEAN,
           NEW ext \in {NULL, kSecret, User}, NEW custom \in Seed \cup {"none"},
           Reset(how, seed, useSeed, ext, custom),
           ext.id = "NULL" /\ seed # "0" => custom = seed,
           \/ how = Unset
           \/ how = [kind |-> "default"] /\ ext = kSecret /\ ~ useSeed
           \/ how = [kind |-> "secret"] /\ ext = User /\ ~ useSeed
           \/ how = [kind |-> "seed", seed |-> seed] /\ ext = NULL /\ useSeed /\ custom = seed
           \/ how = [kind |-> "both", seed |-> seed] /\ ext = User /\ useSeed
    PROVE  Hashed'
<1>1. s3' = reset_internal(seed, useSeed, ext, custom) /\ len' = 0 /\ mode' = how
  BY DEF Reset
<1>2. SUFFICES ASSUME NEW s, s = reset_internal(seed, useSeed, ext, custom)
               PROVE  After3(s, 0) /\ ResetAs(s, how)
  BY <1>1 DEF Hashed
<1>3. /\ After3(s, 0)
      /\ s.seed = seed /\ s.useSeed = useSeed /\ s.ext = ext /\ s.custom = custom
  BY <1>2, Reset3
<1>4. ResetAs(s, how)
  BY <1>3 DEF ResetAs
<1> QED
  BY <1>3, <1>4

LEMMA UpdateHashed ==
    ASSUME Hashed, NEW n \in Nat, Pieces(n)
    PROVE  Hashed'
<1>1. Updates(XXH3_update(s3, Win(len, n)), s3, len + n)
  BY Update3 DEF Hashed
<1>2. /\ s3' = XXH3_update(s3, Win(len, n)) /\ len' = len + n /\ mode' = mode
  BY DEF Pieces
<1>3. After3(s3', len') /\ Keeps(s3', s3)
  BY <1>1, <1>2 DEF Updates
<1>4. ResetAs(s3', mode')
  BY <1>2, <1>3 DEF Hashed, Keeps, ResetAs
<1>5. len' \in Nat
  BY <1>2 DEF Hashed
<1> QED
  BY <1>3, <1>4, <1>5 DEF Hashed

LEMMA HashedFields ==
    ASSUME Hashed
    PROVE  /\ s3.custom \in Seed \cup {"none"} /\ s3.seed \in Seed \cup {"0"}
           /\ s3.ext \in {NULL, kSecret, User}
           /\ s3.ext.id = "NULL" /\ s3.seed # "0" => s3.custom = s3.seed
BY DEF Hashed, After3, Given, StateOf3, ResetAs

THEOREM HashedInvariant == Spec => []Hashed
<1>1. Init => Hashed
  <2> SUFFICES ASSUME Init PROVE Hashed
    OBVIOUS
  <2>1. NULL \in {NULL, kSecret, User} /\ FALSE \in BOOLEAN /\ "0" \in Seed \cup {"0"}
        /\ "none" \in Seed \cup {"none"}
    OBVIOUS
  <2>2. SUFFICES ASSUME NEW s, s = reset_internal("0", FALSE, NULL, "none")
                 PROVE  After3(s, 0) /\ ResetAs(s, Unset)
    BY DEF Init, Hashed
  <2>3. ASSUME NEW z, NEW u, NEW e, NEW c, z = "0", u = FALSE, e = NULL, c = "none"
        PROVE  LET x == reset_internal(z, u, e, c) IN After3(x, 0) /\ x.seed = z
    <3>1. /\ z \in Seed \cup {"0"} /\ u \in BOOLEAN /\ e \in {NULL, kSecret, User}
          /\ c \in Seed \cup {"none"}
      BY <2>3
    <3> QED
      BY <3>1, Reset3
  <2>4. After3(s, 0) /\ s.seed = "0"
    BY <2>2, <2>3
  <2> QED
    BY <2>4 DEF ResetAs
<1>2. Hashed /\ [Next]_vars => Hashed'
  <2> SUFFICES ASSUME Hashed, [Next]_vars PROVE Hashed'
    OBVIOUS
  <2>0. /\ s3.custom \in Seed \cup {"none"} /\ s3.seed \in Seed \cup {"0"}
        /\ s3.ext \in {NULL, kSecret, User}
        /\ s3.ext.id = "NULL" /\ s3.seed # "0" => s3.custom = s3.seed
    BY HashedFields
  <2>1. CASE ResetDefault
    <3>1. kSecret.id # "NULL" /\ kSecret \in {NULL, kSecret, User} /\ "0" \in Seed \cup {"0"}
          /\ FALSE \in BOOLEAN
      BY DEF kSecret
    <3> QED
      BY <2>0, <2>1, <3>1, ResetHashed DEF ResetDefault
  <2>2. CASE ResetWithSecret
    <3>1. "0" \in Seed \cup {"0"} /\ FALSE \in BOOLEAN
          /\ User \in {NULL, kSecret, User} /\ NULL \in {NULL, kSecret, User}
      OBVIOUS
    <3>2. CASE Reset([kind |-> "secret"], "0", FALSE, User, s3.custom)
      BY <2>0, <3>1, <3>2, ResetHashed
    <3>3. CASE Reset(Unset, "0", FALSE, NULL, s3.custom)
      BY <2>0, <3>1, <3>3, ResetHashed
    <3> QED
      BY <2>2, <3>2, <3>3 DEF ResetWithSecret
  <2>3. CASE ResetWithSeed
    <3>1. PICK seed \in Seed :
            Reset([kind |-> "seed", seed |-> seed], seed, TRUE, NULL,
                  IF Renew(seed) THEN seed ELSE s3.custom)
      BY <2>3 DEF ResetWithSeed
    <3>2. (IF Renew(seed) THEN seed ELSE s3.custom) = seed
      <4>1. seed # "0"
        BY <3>1, XXHashAssumption
      <4> QED
        BY <2>0, <4>1 DEF Renew
    <3>3. TRUE \in BOOLEAN /\ seed \in Seed \cup {"0"} /\ seed \in Seed \cup {"none"}
          /\ NULL \in {NULL, kSecret, User}
      BY <3>1
    <3> QED
      BY <3>1, <3>2, <3>3, ResetHashed
  <2>4. CASE ResetWithSecretAndSeed
    <3>1. PICK seed \in Seed \cup {"0"} :
            Reset([kind |-> "both", seed |-> seed], seed, TRUE, User, s3.custom)
      BY <2>4 DEF ResetWithSecretAndSeed
    <3>2. TRUE \in BOOLEAN /\ User \in {NULL, kSecret, User} /\ User.id # "NULL"
      BY DEF User
    <3> QED
      BY <2>0, <3>1, <3>2, ResetHashed
  <2>5. CASE Update
    <3>1. PICK n \in Nat : Pieces(n)
      BY <2>5, UpdateIsPiece
    <3> QED
      BY <3>1, UpdateHashed
  <2>6. CASE UNCHANGED vars
    BY <2>6 DEF vars, Hashed
  <2> QED
    BY <2>1, <2>2, <2>3, <2>4, <2>5, <2>6 DEF Next
<1> QED
  BY <1>1, <1>2, PTL DEF Spec

(* The same for XXH3 of 64 and of 128 bits, however the state was reset    *)
(* and whatever it was used for before.                                    *)
THEOREM XXH3StreamsHolds == Spec => []XXH3Streams
<1>1. Hashed => XXH3Streams
  BY Digest3 DEF Hashed, XXH3Streams, XXH3_64bits, XXH3_128bits
<1> QED
  BY <1>1, HashedInvariant, PTL

(* The buffers of all three states, and XXH3's place in its block.         *)
THEOREM TypeOKHolds == Spec => []TypeOK
<1>1. Streamed /\ Hashed => TypeOK
  <2> SUFFICES ASSUME Streamed, Hashed PROVE TypeOK
    OBVIOUS
  <2>1. s32.buffered \in 0 .. 15
    <3>1. len % 16 \in 0 .. 15
      BY DEF Streamed
    <3> QED
      BY <3>1 DEF Streamed, After32, Streams
  <2>2. s64.buffered \in 0 .. 31
    <3>1. len % 32 \in 0 .. 31
      BY DEF Streamed
    <3> QED
      BY <3>1 DEF Streamed, After64, Streams
  <2>3. s32.total \in 0 .. Modulus - 1
    <3>1. ASSUME NEW M \in Nat, M >= 1, NEW t \in Nat PROVE t % M \in 0 .. M - 1
      <4>1. t % M \in Nat /\ t % M < M
        BY <3>1, AnyDivision
      <4> QED
        BY <4>1
    <3>2. Modulus \in Nat /\ Modulus >= 1
      BY XXHashAssumption
    <3>3. len % Modulus \in 0 .. Modulus - 1
      BY <3>1, <3>2 DEF Streamed
    <3> QED
      BY <3>3 DEF Streamed, After32
  <2>4. PICK c \in Nat : Given(s3, len, c)
    BY DEF Hashed, After3
  <2>5. s3 \in StateOf3 /\ s3.buffered <= 256 /\ InBlock(s3, c) /\ (c > 0 => s3.buffered > 0)
    BY <2>4 DEF Given
  <2>6. s3.buffered \in 0 .. 256 /\ s3.custom \in Seed \cup {"none"} /\ s3.soFar \in Nat
    <3>1. s3.buffered \in Nat /\ s3.custom \in Seed \cup {"none"} /\ s3.soFar \in Nat
      BY <2>5 DEF StateOf3
    <3> QED
      BY <2>5, <3>1
  <2>7. PICK q \in Nat, r \in Nat : Took(s3, Secret(s3), c, q, r)
    BY <2>5 DEF InBlock
  <2>8. /\ s3.acc = Mixed(Secret(s3), q, r) /\ s3.soFar = r /\ r < PerBlock(Secret(s3))
        /\ c = PerBlock(Secret(s3)) * q + r
    BY <2>7 DEF Took
  <2>9. PerBlock(Secret(s3)) \in Nat /\ PerBlock(Secret(s3)) >= 9
    BY <2>5, SecretType, SecretsType
  <2>10. s3.soFar \in 0 .. PerBlock(Secret(s3)) - 1
    BY <2>6, <2>7, <2>8, <2>9
  <2>11. s3.acc # << >> => s3.buffered > 0
    <3>1. CASE c > 0
      BY <2>5, <3>1
    <3>2. CASE c = 0
      <4>1. q = 0 /\ r = 0
        <5>1. ASSUME NEW M \in Nat, M >= 1, NEW x \in Nat, NEW y \in Nat, 0 = M * x + y
              PROVE  x = 0 /\ y = 0
          <6>1. 0 \div M = x /\ 0 % M = y
            BY <5>1, AnyDivisionUnique
          <6>2. 0 = M * 0 + 0
            OBVIOUS
          <6>3. 0 \div M = 0 /\ 0 % M = 0
            BY <5>1, <6>2, AnyDivisionUnique
          <6> QED
            BY <6>1, <6>3
        <5> QED
          BY <2>7, <2>8, <2>9, <3>2, <5>1
      <4>2. s3.acc = << >>
        <5>1. \A sec : Blocks(sec, 0, 0) = << >> /\ Row(sec, PerBlock(sec) * 0, 0, 0) = << >>
          BY BlocksNone, RowEmpty
        <5> QED
          BY <2>8, <4>1, <5>1 DEF Mixed
      <4> QED
        BY <4>2
    <3> QED
      BY <3>1, <3>2
  <2> QED
    BY <2>1, <2>2, <2>3, <2>6, <2>10, <2>11 DEF TypeOK
<1> QED
  BY <1>1, StreamedInvariant, HashedInvariant, PTL

-----------------------------------------------------------------------------
(* Uses whose secret has every byte they take.                             *)
Inside == {u \in Uses : u.off >= 0 /\ u.off + u.width <= u.sec.size}

LEMMA InsideUse ==
    ASSUME NEW w \in Seq(Int), NEW sec \in Secrets, NEW o \in Nat, NEW n \in Nat,
           o + n <= sec.size
    PROVE  Use(w, sec, o, n) \in Inside
<1>1. Use(w, sec, o, n) \in Uses
  BY UseType
<1>2. Use(w, sec, o, n).off = o /\ Use(w, sec, o, n).width = n /\ Use(w, sec, o, n).sec = sec
  BY DEF Use
<1> QED
  BY <1>1, <1>2 DEF Inside

(* What bytes they are is of no importance here.                           *)
IntBytes(in) == \A o \in Int, w \in Nat : Bytes(in, o, w) \in Seq(Int)

LEMMA MessageBytes ==
    ASSUME NEW n \in Nat
    PROVE  IntBytes(Message(n))
<1>1. \A k \in DOMAIN Message(n) : Message(n)[k] \in Int
  BY DEF Message
<1> QED
  BY <1>1, BytesType DEF IntBytes

LEMMA Inside16 ==
    ASSUME NEW in, IntBytes(in), NEW i \in Int, NEW sec \in Secrets, NEW s \in Nat,
           s + 16 <= sec.size
    PROVE  mix16B(in, i, sec, s) \in Inside
<1>1. 16 \in Nat
  OBVIOUS
<1>2. Bytes(in, i, 16) \in Seq(Int)
  BY <1>1 DEF IntBytes
<1> QED
  BY <1>1, <1>2, InsideUse DEF mix16B

LEMMA Inside32 ==
    ASSUME NEW in, IntBytes(in), NEW i \in Int, NEW j \in Int, NEW sec \in Secrets, NEW s \in Nat,
           s + 32 <= sec.size
    PROVE  mix32B(in, i, j, sec, s) \in Seq(Inside)
<1>1. sec.size \in Nat
  BY SecretsType
<1>2. s + 16 <= sec.size
  BY <1>1
<1>3. mix16B(in, i, sec, s) \in Inside
  BY <1>2, Inside16
<1>4. ASSUME NEW t \in Nat, t = s + 16 PROVE mix16B(in, j, sec, t) \in Inside
  <2>1. t + 16 <= sec.size
    BY <1>1, <1>4
  <2> QED
    BY <2>1, Inside16
<1>5. mix16B(in, j, sec, s + 16) \in Inside
  BY <1>4
<1> QED
  BY <1>3, <1>5 DEF mix32B

LEMMA Inside0to16 ==
    ASSUME NEW in, IntBytes(in), NEW n \in Nat, NEW sec \in Secrets
    PROVE  /\ len_0to16_64b(in, n, sec) \in Seq(Inside)
           /\ len_0to16_128b(in, n, sec) \in Seq(Inside)
<1>1. sec.size \in Nat /\ sec.size >= 136
  BY SecretsType
<1>2. ASSUME NEW w \in Seq(Int), NEW o \in Nat, NEW m \in Nat, o + m <= 136
      PROVE  <<Use(w, sec, o, m)>> \in Seq(Inside) /\ Use(w, sec, o, m) \in Inside
  <2>1. o + m <= sec.size
    BY <1>1, <1>2
  <2>2. Use(w, sec, o, m) \in Inside
    BY <2>1, InsideUse
  <2> QED
    BY <2>2
<1>3. ASSUME NEW o \in Int, NEW w \in Nat PROVE Bytes(in, o, w) \in Seq(Int)
  BY DEF IntBytes
<1>4. /\ Bytes(in, 0, 8) \in Seq(Int) /\ Bytes(in, n - 8, 8) \in Seq(Int)
      /\ Bytes(in, 0, 4) \in Seq(Int) /\ Bytes(in, n - 4, 4) \in Seq(Int)
      /\ Bytes(in, 0, 1) \in Seq(Int) /\ Bytes(in, n \div 2, 1) \in Seq(Int)
      /\ Bytes(in, n - 1, 1) \in Seq(Int) /\ << >> \in Seq(Int)
  <2>1. /\ 0 \in Int /\ n - 8 \in Int /\ n - 4 \in Int /\ n - 1 \in Int /\ n \div 2 \in Int
        /\ 8 \in Nat /\ 4 \in Nat /\ 1 \in Nat
    OBVIOUS
  <2>2. << >> \in Seq(Int)
    OBVIOUS
  <2> QED
    BY <1>3, <2>1, <2>2
<1> DEFINE w8 == Bytes(in, 0, 8)
           v8 == Bytes(in, n - 8, 8)
           w4 == Bytes(in, 0, 4) \o Bytes(in, n - 4, 4)
           w1 == OneToThree(in, n)
<1>5. /\ w8 \in Seq(Int) /\ v8 \in Seq(Int) /\ w4 \in Seq(Int) /\ w1 \in Seq(Int)
      /\ w8 \o v8 \in Seq(Int) /\ << >> \in Seq(Int)
  BY <1>4 DEF OneToThree
<1> HIDE DEF w8, v8, w4, w1
<1>6. len_0to16_64b(in, n, sec) \in Seq(Inside)
  <2>1. Use(w8, sec, 24, 16) \in Inside /\ <<Use(w8, sec, 24, 16)>> \in Seq(Inside)
    <3>1. 24 \in Nat /\ 16 \in Nat /\ 24 + 16 <= 136
      OBVIOUS
    <3> QED
      BY <1>2, <1>5, <3>1, Zenon
  <2>2. Use(v8, sec, 40, 16) \in Inside /\ <<Use(v8, sec, 40, 16)>> \in Seq(Inside)
    <3>1. 40 \in Nat /\ 16 \in Nat /\ 40 + 16 <= 136
      OBVIOUS
    <3> QED
      BY <1>2, <1>5, <3>1, Zenon
  <2>3. Use(w4, sec, 8, 16) \in Inside /\ <<Use(w4, sec, 8, 16)>> \in Seq(Inside)
    <3>1. 8 \in Nat /\ 16 \in Nat /\ 8 + 16 <= 136
      OBVIOUS
    <3> QED
      BY <1>2, <1>5, <3>1, Zenon
  <2>4. Use(w1, sec, 0, 8) \in Inside /\ <<Use(w1, sec, 0, 8)>> \in Seq(Inside)
    <3>1. 0 \in Nat /\ 8 \in Nat /\ 0 + 8 <= 136
      OBVIOUS
    <3> QED
      BY <1>2, <1>5, <3>1, Zenon
  <2>5. Use(<< >>, sec, 56, 16) \in Inside /\ <<Use(<< >>, sec, 56, 16)>> \in Seq(Inside)
    <3>1. 56 \in Nat /\ 16 \in Nat /\ 56 + 16 <= 136
      OBVIOUS
    <3> QED
      BY <1>2, <1>5, <3>1, Zenon
  <2> DEFINE u == Use(w8, sec, 24, 16)
             v == Use(v8, sec, 40, 16)
  <2>7. <<u, v>> \in Seq(Inside)
    <3>1. u \in Inside /\ v \in Inside
      BY <2>1, <2>2
    <3> HIDE DEF u, v
    <3> QED
      BY <3>1
  <2>6. \/ len_0to16_64b(in, n, sec) = <<u, v>>
        \/ len_0to16_64b(in, n, sec) = <<Use(w4, sec, 8, 16)>>
        \/ len_0to16_64b(in, n, sec) = <<Use(w1, sec, 0, 8)>>
        \/ len_0to16_64b(in, n, sec) = <<Use(<< >>, sec, 56, 16)>>
    BY DEF len_0to16_64b, w8, v8, w4, w1
  <2> HIDE DEF u, v
  <2> QED
    BY <2>3, <2>4, <2>5, <2>6, <2>7, Zenon
<1>7. len_0to16_128b(in, n, sec) \in Seq(Inside)
  <2>1. Use(w8 \o v8, sec, 32, 16) \in Inside /\ <<Use(w8 \o v8, sec, 32, 16)>> \in Seq(Inside)
    <3>1. 32 \in Nat /\ 16 \in Nat /\ 32 + 16 <= 136
      OBVIOUS
    <3> QED
      BY <1>2, <1>5, <3>1, Zenon
  <2>2. Use(v8, sec, 48, 16) \in Inside /\ <<Use(v8, sec, 48, 16)>> \in Seq(Inside)
    <3>1. 48 \in Nat /\ 16 \in Nat /\ 48 + 16 <= 136
      OBVIOUS
    <3> QED
      BY <1>2, <1>5, <3>1, Zenon
  <2>3. Use(w4, sec, 16, 16) \in Inside /\ <<Use(w4, sec, 16, 16)>> \in Seq(Inside)
    <3>1. 16 \in Nat /\ 16 \in Nat /\ 16 + 16 <= 136
      OBVIOUS
    <3> QED
      BY <1>2, <1>5, <3>1, Zenon
  <2>4. Use(w1, sec, 0, 16) \in Inside /\ <<Use(w1, sec, 0, 16)>> \in Seq(Inside)
    <3>1. 0 \in Nat /\ 16 \in Nat /\ 0 + 16 <= 136
      OBVIOUS
    <3> QED
      BY <1>2, <1>5, <3>1, Zenon
  <2>5. Use(<< >>, sec, 64, 32) \in Inside /\ <<Use(<< >>, sec, 64, 32)>> \in Seq(Inside)
    <3>1. 64 \in Nat /\ 32 \in Nat /\ 64 + 32 <= 136
      OBVIOUS
    <3> QED
      BY <1>2, <1>5, <3>1, Zenon
  <2> DEFINE u == Use(w8 \o v8, sec, 32, 16)
             v == Use(v8, sec, 48, 16)
  <2>7. <<u, v>> \in Seq(Inside)
    <3>1. u \in Inside /\ v \in Inside
      BY <2>1, <2>2
    <3> HIDE DEF u, v
    <3> QED
      BY <3>1
  <2>6. \/ len_0to16_128b(in, n, sec) = <<u, v>>
        \/ len_0to16_128b(in, n, sec) = <<Use(w4, sec, 16, 16)>>
        \/ len_0to16_128b(in, n, sec) = <<Use(w1, sec, 0, 16)>>
        \/ len_0to16_128b(in, n, sec) = <<Use(<< >>, sec, 64, 32)>>
    BY DEF len_0to16_128b, w8, v8, w4, w1
  <2> HIDE DEF u, v
  <2> QED
    BY <2>3, <2>4, <2>5, <2>6, <2>7, Zenon
<1> QED
  BY <1>6, <1>7

LEMMA Inside17to128 ==
    ASSUME NEW in, IntBytes(in), NEW n \in Nat, NEW sec \in Secrets
    PROVE  len_17to128(in, n, sec) \in Seq(Inside)
<1>1. sec.size \in Nat /\ sec.size >= 136
  BY SecretsType
<1> DEFINE p(j) == IF Reaches(n, j) THEN mix32B(in, 16 * j, n - 16 * (j + 1), sec, 32 * j)
                   ELSE << >>
<1>2. ASSUME NEW j \in Nat, j <= 3 PROVE p(j) \in Seq(Inside)
  <2>1. ASSUME NEW a \in Int, NEW b \in Int, NEW s \in Nat, s = 32 * j
        PROVE  mix32B(in, a, b, sec, s) \in Seq(Inside)
    <3>1. s + 32 <= sec.size
      BY <1>1, <1>2, <2>1
    <3> QED
      BY <3>1, Inside32
  <2>2. 16 * j \in Int /\ n - 16 * (j + 1) \in Int /\ 32 * j \in Nat
    OBVIOUS
  <2>3. mix32B(in, 16 * j, n - 16 * (j + 1), sec, 32 * j) \in Seq(Inside)
    BY <2>1, <2>2
  <2> QED
    BY <2>3
<1>3. p(0) \in Seq(Inside) /\ p(1) \in Seq(Inside) /\ p(2) \in Seq(Inside) /\ p(3) \in Seq(Inside)
  <2>1. 0 \in Nat /\ 1 \in Nat /\ 2 \in Nat /\ 3 \in Nat
    OBVIOUS
  <2> HIDE DEF p
  <2> QED
    BY <1>2, <2>1
<1>4. len_17to128(in, n, sec) = p(3) \o p(2) \o p(1) \o p(0)
  BY DEF len_17to128
<1> HIDE DEF p
<1> QED
  BY <1>3, <1>4

LEMMA InsideList ==
    ASSUME NEW n \in Nat, NEW f, f = [k \in 1 .. n |-> f[k]], \A k \in 1 .. n : f[k] \in Inside
    PROVE  f \in Seq(Inside)
<1>1. f \in [1 .. n -> Inside]
  OBVIOUS
<1> QED
  BY <1>1, FunctionSeq

LEMMA Inside129to240 ==
    ASSUME NEW in, IntBytes(in), NEW n \in Nat, n > 128, n <= 240, NEW sec \in Secrets
    PROVE  /\ len_129to240_64b(in, n, sec) \in Seq(Inside)
           /\ len_129to240_128b(in, n, sec) \in Seq(Inside)
<1>1. sec.size \in Nat /\ sec.size >= 136
  BY SecretsType
<1>2. ASSUME NEW i \in Int, NEW s \in Nat, s + 16 <= 136 PROVE mix16B(in, i, sec, s) \in Inside
  <2>1. s + 16 <= sec.size
    BY <1>1, <1>2
  <2> QED
    BY <2>1, Inside16
<1>3. ASSUME NEW i \in Int, NEW j \in Int, NEW s \in Nat, s + 32 <= 136
      PROVE  mix32B(in, i, j, sec, s) \in Seq(Inside)
  <2>1. s + 32 <= sec.size
    BY <1>1, <1>3
  <2> QED
    BY <2>1, Inside32
<1> DEFINE a == [k \in 1 .. 8 |-> mix16B(in, 16 * (k - 1), sec, 16 * (k - 1))]
           m == mix16B(in, n - 16, sec, 136 - 17)
           z == [k \in 1 .. n \div 16 - 8 |-> mix16B(in, 16 * (k + 7), sec, 16 * (k - 1) + 3)]
<1>4. a \in Seq(Inside)
  <2>1. ASSUME NEW k \in 1 .. 8 PROVE a[k] \in Inside
    <3>1. 16 * (k - 1) \in Int /\ 16 * (k - 1) \in Nat /\ 16 * (k - 1) + 16 <= 136
      OBVIOUS
    <3>2. mix16B(in, 16 * (k - 1), sec, 16 * (k - 1)) \in Inside
      BY <1>2, <3>1
    <3> QED
      BY <3>2
  <2>2. a = [k \in 1 .. 8 |-> a[k]] /\ 8 \in Nat
    OBVIOUS
  <2> HIDE DEF a
  <2> QED
    BY <2>1, <2>2, InsideList
<1>5. m \in Inside
  <2>1. ASSUME NEW s \in Nat, s = 136 - 17, NEW i \in Int, i = n - 16 PROVE m \in Inside
    <3>1. s + 16 <= 136
      BY <2>1
    <3>2. mix16B(in, i, sec, s) \in Inside
      BY <1>2, <3>1
    <3> QED
      BY <2>1, <3>2
  <2>2. 136 - 17 \in Nat /\ n - 16 \in Int
    OBVIOUS
  <2> HIDE DEF m
  <2> QED
    BY <2>1, <2>2
<1>6. z \in Seq(Inside)
  <2>1. SUFFICES ASSUME NEW d \in Nat, d = n \div 16 - 8, d <= 7
                 PROVE  z \in Seq(Inside)
    <3>1. n \div 16 - 8 \in Nat /\ n \div 16 - 8 <= 7
      OBVIOUS
    <3> QED
      BY <3>1
  <2>2. ASSUME NEW k \in 1 .. d PROVE z[k] \in Inside
    <3>1. 16 * (k + 7) \in Int /\ 16 * (k - 1) + 3 \in Nat /\ 16 * (k - 1) + 3 + 16 <= 136
      BY <2>1
    <3>2. mix16B(in, 16 * (k + 7), sec, 16 * (k - 1) + 3) \in Inside
      BY <1>2, <3>1
    <3> QED
      BY <2>1, <3>2
  <2>3. z = [k \in 1 .. d |-> z[k]]
    BY <2>1
  <2> HIDE DEF z
  <2> QED
    BY <2>2, <2>3, InsideList
<1>7. len_129to240_64b(in, n, sec) \in Seq(Inside)
  <2>1. len_129to240_64b(in, n, sec) = a \o <<m>> \o z
    BY DEF len_129to240_64b
  <2> HIDE DEF a, m, z
  <2> QED
    BY <1>4, <1>5, <1>6, <2>1
<1> DEFINE off(k) == IF k <= 4 THEN 32 * (k - 1) ELSE 3 + 32 * (k - 5)
           g == [k \in 1 .. n \div 32 |-> mix32B(in, 32 * (k - 1), 32 * k - 16, sec, off(k))]
           h == mix32B(in, n - 16, n - 32, sec, LastOffset)
<1>8. g \in Seq(Seq(Inside))
  <2>1. SUFFICES ASSUME NEW d \in Nat, d = n \div 32, d <= 7
                 PROVE  g \in Seq(Seq(Inside))
    <3>1. n \div 32 \in Nat /\ n \div 32 <= 7
      OBVIOUS
    <3> QED
      BY <3>1
  <2>2. ASSUME NEW k \in 1 .. d PROVE g[k] \in Seq(Inside)
    <3>1. 32 * (k - 1) \in Int /\ 32 * k - 16 \in Int /\ off(k) \in Nat /\ off(k) + 32 <= 136
      BY <2>1
    <3> HIDE DEF off
    <3>2. mix32B(in, 32 * (k - 1), 32 * k - 16, sec, off(k)) \in Seq(Inside)
      BY <1>3, <3>1
    <3> QED
      BY <2>1, <3>2
  <2>3. g \in [1 .. d -> Seq(Inside)]
    <3>1. g = [k \in 1 .. d |-> g[k]]
      BY <2>1
    <3> HIDE DEF g
    <3> QED
      BY <2>2, <3>1
  <2> HIDE DEF g
  <2> QED
    BY <2>3, FunctionSeq
<1>9. h \in Seq(Inside)
  <2>1. ASSUME NEW s \in Nat, s = LastOffset PROVE h \in Seq(Inside)
    <3>1. s + 32 <= 136 /\ n - 16 \in Int /\ n - 32 \in Int
      BY <2>1 DEF LastOffset
    <3>2. mix32B(in, n - 16, n - 32, sec, s) \in Seq(Inside)
      BY <1>3, <3>1
    <3> QED
      BY <2>1, <3>2
  <2>2. LastOffset \in Nat
    BY DEF LastOffset
  <2> HIDE DEF h
  <2> QED
    BY <2>1, <2>2
<1>10. len_129to240_128b(in, n, sec) \in Seq(Inside)
  <2>1. len_129to240_128b(in, n, sec) = FlattenSeq(g) \o h
    BY DEF len_129to240_128b
  <2> HIDE DEF g, h
  <2>2. FlattenSeq(g) \in Seq(Inside)
    BY <1>8, FlattenType
  <2> QED
    BY <1>9, <2>1, <2>2
<1> QED
  BY <1>7, <1>10

(* A row begins at the secret's place 0 and is at most as long as a block. *)
LEMMA RowInside ==
    ASSUME NEW sec \in Secrets, NEW c \in Nat, NEW n \in Nat, n <= PerBlock(sec)
    PROVE  Row(sec, c, 0, n) \in Seq(Inside)
<1>1. SUFFICES ASSUME NEW z \in Nat, z = sec.size, NEW M \in Nat, M = PerBlock(sec), 8 * M <= z - 64
               PROVE  Row(sec, c, 0, n) \in Seq(Inside)
  BY SecretsType
<1>2. ASSUME NEW j \in 1 .. n
      PROVE  Use(Win(64 * (c + j - 1), 64), sec, 8 * (0 + j - 1), 64) \in Inside
  <2>1. SUFFICES ASSUME NEW o \in Nat, o = 8 * (0 + j - 1), NEW i \in Int, i = 64 * (c + j - 1),
                        NEW w \in Nat, w = 64
                 PROVE  Use(Win(i, w), sec, o, w) \in Inside
    <3>1. 8 * (0 + j - 1) \in Nat /\ 64 * (c + j - 1) \in Int /\ 64 \in Nat
      OBVIOUS
    <3> QED
      BY <3>1
  <2>2. o + w <= sec.size
    BY <1>1, <2>1
  <2>3. Win(i, w) \in Seq(Int)
    BY WinType
  <2> QED
    BY <2>2, <2>3, InsideUse
<1>3. Row(sec, c, 0, n) \in [1 .. n -> Inside]
  BY <1>2 DEF Row
<1> QED
  BY <1>3, FunctionSeq

(* A use at the end of a secret, less d bytes.                             *)
LEMMA EndInside ==
    ASSUME NEW w \in Seq(Int), NEW sec \in Secrets, NEW d \in Nat, d <= 72
    PROVE  Use(w, sec, sec.size - 64 - d, 64) \in Inside
<1>1. SUFFICES ASSUME NEW z \in Nat, z = sec.size, z >= 136
               PROVE  Use(w, sec, z - 64 - d, 64) \in Inside
  BY SecretsType
<1>2. SUFFICES ASSUME NEW o \in Nat, o = z - 64 - d, NEW m \in Nat, m = 64
               PROVE  Use(w, sec, o, m) \in Inside
  <2>1. z - 64 - d \in Nat /\ 64 \in Nat
    BY <1>1
  <2> QED
    BY <2>1
<1>3. o + m <= sec.size
  BY <1>1, <1>2
<1> QED
  BY <1>3, InsideUse

LEMMA EndsInside ==
    ASSUME NEW sec \in Secrets
    PROVE  /\ scramble(sec) \in Seq(Inside)
           /\ <<Use(<< >>, sec, sec.size - 64 - 11, 64)>> \in Seq(Inside)
           /\ \A t \in Int : <<LastUse(sec, t)>> \in Seq(Inside)
<1>1. ASSUME NEW w \in Seq(Int), NEW d \in Nat, NEW o, o = sec.size - 64 - d, d <= 72
      PROVE  <<Use(w, sec, o, 64)>> \in Seq(Inside)
  <2> DEFINE u == Use(w, sec, o, 64)
  <2>1. u \in Inside
    BY <1>1, EndInside
  <2> HIDE DEF u
  <2>2. <<u>> \in Seq(Inside)
    BY <2>1
  <2> QED
    BY <2>2 DEF u
<1>2. 0 \in Nat /\ 7 \in Nat /\ 11 \in Nat /\ 0 <= 72 /\ 7 <= 72 /\ 11 <= 72 /\ << >> \in Seq(Int)
  OBVIOUS
<1>3. sec.size - 64 = sec.size - 64 - 0
  BY SecretsType
<1>4. scramble(sec) \in Seq(Inside)
  BY <1>1, <1>2, <1>3, Zenon DEF scramble
<1>5. <<Use(<< >>, sec, sec.size - 64 - 11, 64)>> \in Seq(Inside)
  BY <1>1, <1>2, Zenon
<1>6. ASSUME NEW t \in Int PROVE <<LastUse(sec, t)>> \in Seq(Inside)
  <2>1. t - 64 \in Int /\ 64 \in Nat
    OBVIOUS
  <2>2. Win(t - 64, 64) \in Seq(Int)
    BY <2>1, WinType
  <2> QED
    BY <1>1, <1>2, <2>2, Zenon DEF LastUse
<1> QED
  BY <1>4, <1>5, <1>6

LEMMA MixedInside ==
    ASSUME NEW sec \in Secrets, NEW q \in Nat, NEW r \in Nat, r <= PerBlock(sec)
    PROVE  Mixed(sec, q, r) \in Seq(Inside)
<1>1. SUFFICES ASSUME NEW M \in Nat, M = PerBlock(sec)
               PROVE  Mixed(sec, q, r) \in Seq(Inside)
  BY SecretsType
<1>2. ASSUME NEW b \in 1 .. q PROVE Block(sec, 0 + b) \in Seq(Inside)
  <2>1. SUFFICES ASSUME NEW e \in Nat, e = 0 + b
                 PROVE  Block(sec, e) \in Seq(Inside)
    BY <1>2
  <2>2. SUFFICES ASSUME NEW c \in Nat, c = M * (e - 1)
                 PROVE  Block(sec, e) \in Seq(Inside)
    <3>1. e - 1 \in Nat
      BY <2>1
    <3>2. ASSUME NEW x \in Nat PROVE M * x \in Nat
      OBVIOUS
    <3> QED
      BY <3>1, <3>2
  <2>3. M <= PerBlock(sec)
    BY <1>1
  <2>4. Row(sec, c, 0, M) \in Seq(Inside)
    BY <2>3, RowInside
  <2>5. Block(sec, e) = Row(sec, c, 0, M) \o scramble(sec)
    BY <1>1, <2>2 DEF Block
  <2> QED
    BY <2>4, <2>5, EndsInside
<1>3. BlockSeq(sec, 0, q) \in [1 .. q -> Seq(Inside)]
  BY <1>2 DEF BlockSeq
<1>4. Blocks(sec, 0, q) \in Seq(Inside)
  BY <1>3, FunctionSeq, FlattenType DEF Blocks
<1>5. Row(sec, PerBlock(sec) * q, 0, r) \in Seq(Inside)
  <2>1. SUFFICES ASSUME NEW c \in Nat, c = M * q
                 PROVE  Row(sec, c, 0, r) \in Seq(Inside)
    <3>1. M * q \in Nat
      OBVIOUS
    <3> QED
      BY <1>1, <3>1
  <2> QED
    BY RowInside
<1> QED
  BY <1>4, <1>5 DEF Mixed

LEMMA LongInside ==
    ASSUME NEW t \in Nat, t > 240, NEW sec \in Secrets, NEW bits
    PROVE  finalizeLong(hashLong_internal_loop(Message(t), t, sec), sec, t, bits).uses \in Seq(Inside)
<1> DEFINE h == hashLong_internal_loop(Message(t), t, sec)
           u == <<Use(<< >>, sec, 11, 64)>>
           v == <<Use(<< >>, sec, 11, 64), Use(<< >>, sec, sec.size - 64 - 11, 64)>>
           x == Use(<< >>, sec, 11, 64)
           y == Use(<< >>, sec, sec.size - 64 - 11, 64)
<1>1. h \in Seq(Inside)
  <2>1. IsLong(h, sec, t)
    BY LoopIs
  <2>2. PICK q \in Nat, r \in Nat : UpTo(sec, t, q, r) /\ h = Mixed(sec, q, r) \o <<LastUse(sec, t)>>
    BY <2>1 DEF IsLong
  <2>3. r <= PerBlock(sec)
    BY <2>2, SecretsType DEF UpTo
  <2>4. Mixed(sec, q, r) \in Seq(Inside) /\ <<LastUse(sec, t)>> \in Seq(Inside)
    BY <2>3, MixedInside, EndsInside
  <2> HIDE DEF h
  <2> QED
    BY <2>2, <2>4
<1>2. x \in Inside
  <2>1. ASSUME NEW o \in Nat, o = 11, NEW m \in Nat, m = 64, NEW w \in Seq(Int)
        PROVE  Use(w, sec, o, m) \in Inside
    <3>1. o + m <= sec.size
      BY <2>1, SecretsType
    <3> QED
      BY <3>1, InsideUse
  <2>2. 11 \in Nat /\ 64 \in Nat /\ << >> \in Seq(Int)
    OBVIOUS
  <2> QED
    BY <2>1, <2>2, Zenon
<1>3. y \in Inside
  <2>1. 11 \in Nat /\ 11 <= 72 /\ << >> \in Seq(Int)
    OBVIOUS
  <2> QED
    BY <2>1, EndInside, Zenon
<1> HIDE DEF h
<1>4. \/ finalizeLong(h, sec, t, bits).uses = h \o <<x>>
      \/ finalizeLong(h, sec, t, bits).uses = h \o <<x, y>>
  BY DEF finalizeLong
<1> HIDE DEF x, y
<1>5. h \o <<x>> \in Seq(Inside) /\ h \o <<x, y>> \in Seq(Inside)
  BY <1>1, <1>2, <1>3
<1> QED
  BY <1>4, <1>5 DEF h

LEMMA HashInside ==
    ASSUME NEW n \in Nat, NEW seed, NEW sec \in Secrets, NEW long \in Secrets, NEW bits
    PROVE  XXH3_internal(Message(n), n, seed, sec, long, bits).uses \in Seq(Inside)
<1> DEFINE in == Message(n)
           h == XXH3_internal(in, n, seed, sec, long, bits)
<1>0. IntBytes(in)
  BY MessageBytes
<1>1. CASE n > 240
  <2>1. h = finalizeLong(hashLong_internal_loop(in, n, long), long, n, bits)
    BY <1>1 DEF XXH3_internal
  <2> QED
    BY <1>1, <2>1, LongInside
<1>2. CASE n <= 240
  <2> HIDE DEF in
  <2>1. h.uses = Short(in, n, sec, seed, bits).uses
    BY <1>2 DEF XXH3_internal
  <2>2. Short(in, n, sec, seed, bits).uses \in Seq(Inside)
    <3>1. CASE n <= 16
      <4>1. \/ Short(in, n, sec, seed, bits).uses = len_0to16_64b(in, n, sec)
            \/ Short(in, n, sec, seed, bits).uses = len_0to16_128b(in, n, sec)
        BY <3>1 DEF Short
      <4> QED
        BY <1>0, <4>1, Inside0to16
    <3>2. CASE n \in 17 .. 128
      <4>1. Short(in, n, sec, seed, bits).uses = len_17to128(in, n, sec)
        BY <3>2 DEF Short
      <4> QED
        BY <1>0, <4>1, Inside17to128
    <3>3. CASE n > 128
      <4>1. \/ Short(in, n, sec, seed, bits).uses = len_129to240_64b(in, n, sec)
            \/ Short(in, n, sec, seed, bits).uses = len_129to240_128b(in, n, sec)
        BY <3>3 DEF Short
      <4> QED
        BY <1>0, <1>2, <3>3, <4>1, Inside129to240
    <3> QED
      BY <3>1, <3>2, <3>3
  <2> HIDE DEF h
  <2>3. h.uses \in Seq(Inside)
    BY <2>1, <2>2
  <2> QED
    BY <2>3 DEF h, in
<1> QED
  BY <1>1, <1>2

(* The secrets that a reset chooses.                                       *)
LEMMA KindOf ==
    ASSUME Hashed, mode # Unset
    PROVE  \E seed, sec, long :
               /\ sec \in Secrets /\ long \in Secrets
               /\ \A in, n, bits : XXH3(in, n, mode, bits) = XXH3_internal(in, n, seed, sec, long, bits)
<1>1. s3.seed \in Seed \cup {"0"}
  BY HashedFields
<1>2. kSecret \in Secrets /\ User \in Secrets /\ Custom(s3.seed) \in Secrets
  BY <1>1 DEF Secrets
<1>3. \/ mode = [kind |-> "default"] \/ mode = [kind |-> "secret"]
      \/ mode = [kind |-> "seed", seed |-> s3.seed] \/ mode = [kind |-> "both", seed |-> s3.seed]
  BY DEF Hashed, ResetAs
<1>4. CASE mode = [kind |-> "default"]
  <2>1. ASSUME NEW in, NEW n, NEW bits
        PROVE  XXH3(in, n, mode, bits) = XXH3_internal(in, n, "0", kSecret, kSecret, bits)
    BY <1>4 DEF XXH3
  <2> QED
    BY <1>2, <2>1
<1>5. CASE mode = [kind |-> "secret"]
  <2>1. ASSUME NEW in, NEW n, NEW bits
        PROVE  XXH3(in, n, mode, bits) = XXH3_internal(in, n, "0", User, User, bits)
    BY <1>5 DEF XXH3
  <2> QED
    BY <1>2, <2>1
<1>6. CASE mode = [kind |-> "seed", seed |-> s3.seed]
  <2>1. ASSUME NEW in, NEW n, NEW bits
        PROVE  XXH3(in, n, mode, bits)
               = XXH3_internal(in, n, s3.seed, kSecret, Custom(s3.seed), bits)
    BY <1>6 DEF XXH3
  <2> QED
    BY <1>2, <2>1
<1>7. CASE mode = [kind |-> "both", seed |-> s3.seed]
  <2>1. ASSUME NEW in, NEW n, NEW bits
        PROVE  XXH3(in, n, mode, bits) = XXH3_internal(in, n, s3.seed, kSecret, User, bits)
    BY <1>7 DEF XXH3
  <2> QED
    BY <1>2, <2>1
<1> QED
  BY <1>3, <1>4, <1>5, <1>6, <1>7

(* Every byte of a secret that XXH3 mixes in is one of the secret, for     *)
(* every length of the message and every size a secret may have.           *)
THEOREM SecretInsideHolds == Spec => []SecretInside
<1>1. Hashed => SecretInside
  <2>1. SUFFICES ASSUME Hashed, mode # Unset,
                        NEW bits \in {64, 128}, NEW h, h = XXH3(Message(len), len, mode, bits),
                        NEW k \in DOMAIN h.uses
                 PROVE  /\ h.uses[k].off >= 0
                        /\ h.uses[k].off + h.uses[k].width <= h.uses[k].sec.size
    BY DEF SecretInside, XXH3_64bits, XXH3_128bits
  <2>2. PICK seed, sec, long :
            /\ sec \in Secrets /\ long \in Secrets
            /\ \A in, n, b : XXH3(in, n, mode, b) = XXH3_internal(in, n, seed, sec, long, b)
    BY <2>1, KindOf
  <2>3. h = XXH3_internal(Message(len), len, seed, sec, long, bits)
    BY <2>1, <2>2, Zenon
  <2>4. len \in Nat
    BY <2>1 DEF Hashed
  <2>5. h.uses \in Seq(Inside)
    BY <2>2, <2>3, <2>4, HashInside
  <2>6. h.uses[k] \in Inside
    BY <2>1, <2>5
  <2> QED
    BY <2>6 DEF Inside
<1> QED
  BY <1>1, HashedInvariant, PTL

-----------------------------------------------------------------------------
(* The bytes that words and uses take.                                     *)
LEMMA ReadsConcat ==
    ASSUME NEW S, NEW a \in Seq(S), NEW b \in Seq(S)
    PROVE  Reads(a \o b) = Reads(a) \cup Reads(b)
<1> DEFINE c == a \o b
           m == Len(a)
           n == Len(b)
<1>1. m \in Nat /\ n \in Nat /\ DOMAIN a = 1 .. m /\ DOMAIN b = 1 .. n /\ DOMAIN c = 1 .. m + n
  OBVIOUS
<1>2. (\A k \in 1 .. m : c[k] = a[k]) /\ (\A k \in 1 .. n : c[m + k] = b[k])
  OBVIOUS
<1> HIDE DEF c, m, n
<1>3. ASSUME NEW x \in Reads(c) PROVE x \in Reads(a) \cup Reads(b)
  <2>1. PICK k \in 1 .. m + n : x \in ToSet(c[k])
    BY <1>1, <1>3 DEF Reads
  <2>2. CASE k <= m
    <3>1. k \in 1 .. m
      BY <1>1, <2>2
    <3>2. x \in ToSet(a[k])
      BY <1>2, <2>1, <3>1
    <3> QED
      BY <1>1, <3>1, <3>2 DEF Reads
  <2>3. CASE k > m
    <3>1. k - m \in 1 .. n /\ m + (k - m) = k
      BY <1>1, <2>3
    <3>2. x \in ToSet(b[k - m])
      BY <1>2, <2>1, <3>1
    <3> QED
      BY <1>1, <3>1, <3>2 DEF Reads
  <2> QED
    BY <1>1, <2>2, <2>3
<1>4. ASSUME NEW x \in Reads(a) PROVE x \in Reads(c)
  <2>1. PICK k \in 1 .. m : x \in ToSet(a[k])
    BY <1>1, <1>4 DEF Reads
  <2>2. k \in 1 .. m + n /\ x \in ToSet(c[k])
    BY <1>1, <1>2, <2>1
  <2> QED
    BY <1>1, <2>2 DEF Reads
<1>5. ASSUME NEW x \in Reads(b) PROVE x \in Reads(c)
  <2>1. PICK k \in 1 .. n : x \in ToSet(b[k])
    BY <1>1, <1>5 DEF Reads
  <2>2. m + k \in 1 .. m + n /\ x \in ToSet(c[m + k])
    BY <1>1, <1>2, <2>1
  <2> QED
    BY <1>1, <2>2 DEF Reads
<1>6. Reads(c) = Reads(a) \cup Reads(b)
  BY <1>3, <1>4, <1>5
<1> QED
  BY <1>6 DEF c

LEMMA WinSet ==
    ASSUME NEW o \in Int, NEW w \in Nat
    PROVE  ToSet(Win(o, w)) = o + 1 .. o + w
<1>1. ToSet(Win(o, w)) = {Win(o, w)[i] : i \in 1 .. w}
  BY WinType DEF ToSet
<1>2. ASSUME NEW x \in o + 1 .. o + w PROVE \E i \in 1 .. w : Win(o, w)[i] = x
  <2>1. x - o \in 1 .. w /\ o + (x - o) = x
    OBVIOUS
  <2> QED
    BY <2>1, WinType
<1>3. ASSUME NEW i \in 1 .. w PROVE Win(o, w)[i] \in o + 1 .. o + w
  <2>1. Win(o, w)[i] = o + i
    BY WinType
  <2> QED
    BY <2>1
<1> QED
  BY <1>1, <1>2, <1>3

(* The word of w bytes in which byte y of n words is.                      *)
Widths == {1, 4, 8, 16, 32, 64}

LEMMA WordOf ==
    ASSUME NEW w \in Widths, NEW n \in Nat, NEW y \in 1 .. w * n
    PROVE  \E k \in 1 .. n : y \in w * (k - 1) + 1 .. w * (k - 1) + w
<1>1. ASSUME NEW k \in Int, 1 <= k, k <= n, w * (k - 1) < y, y <= w * (k - 1) + w
      PROVE  \E j \in 1 .. n : y \in w * (j - 1) + 1 .. w * (j - 1) + w
  <2>1. k \in 1 .. n /\ w \in Int
    BY <1>1 DEF Widths
  <2>2. SUFFICES ASSUME NEW z \in Int, z = w * (k - 1)
                 PROVE  y \in z + 1 .. z + w
    <3>1. w * (k - 1) \in Int
      BY <2>1
    <3> QED
      BY <2>1, <3>1
  <2>3. y \in Int
    BY <2>1
  <2> QED
    BY <1>1, <2>1, <2>2, <2>3
<1>2. CASE w = 1
  <2>1. (y - 1) \div 1 + 1 \in Int /\ 1 <= (y - 1) \div 1 + 1 /\ (y - 1) \div 1 + 1 <= n
        /\ w * (((y - 1) \div 1 + 1) - 1) < y /\ y <= w * (((y - 1) \div 1 + 1) - 1) + w
    BY <1>2
  <2> QED
    BY <1>1, <2>1
<1>3. CASE w = 4
  <2>1. (y - 1) \div 4 + 1 \in Int /\ 1 <= (y - 1) \div 4 + 1 /\ (y - 1) \div 4 + 1 <= n
        /\ w * (((y - 1) \div 4 + 1) - 1) < y /\ y <= w * (((y - 1) \div 4 + 1) - 1) + w
    BY <1>3
  <2> QED
    BY <1>1, <2>1
<1>4. CASE w = 8
  <2>1. (y - 1) \div 8 + 1 \in Int /\ 1 <= (y - 1) \div 8 + 1 /\ (y - 1) \div 8 + 1 <= n
        /\ w * (((y - 1) \div 8 + 1) - 1) < y /\ y <= w * (((y - 1) \div 8 + 1) - 1) + w
    BY <1>4
  <2> QED
    BY <1>1, <2>1
<1>5. CASE w = 16
  <2>1. (y - 1) \div 16 + 1 \in Int /\ 1 <= (y - 1) \div 16 + 1 /\ (y - 1) \div 16 + 1 <= n
        /\ w * (((y - 1) \div 16 + 1) - 1) < y /\ y <= w * (((y - 1) \div 16 + 1) - 1) + w
    BY <1>5
  <2> QED
    BY <1>1, <2>1
<1>6. CASE w = 32
  <2>1. (y - 1) \div 32 + 1 \in Int /\ 1 <= (y - 1) \div 32 + 1 /\ (y - 1) \div 32 + 1 <= n
        /\ w * (((y - 1) \div 32 + 1) - 1) < y /\ y <= w * (((y - 1) \div 32 + 1) - 1) + w
    BY <1>6
  <2> QED
    BY <1>1, <2>1
<1>7. CASE w = 64
  <2>1. (y - 1) \div 64 + 1 \in Int /\ 1 <= (y - 1) \div 64 + 1 /\ (y - 1) \div 64 + 1 <= n
        /\ w * (((y - 1) \div 64 + 1) - 1) < y /\ y <= w * (((y - 1) \div 64 + 1) - 1) + w
    BY <1>7
  <2> QED
    BY <1>1, <2>1
<1> QED
  BY <1>2, <1>3, <1>4, <1>5, <1>6, <1>7 DEF Widths

LEMMA InWords ==
    ASSUME NEW w \in Widths, NEW n \in Nat, NEW k \in 1 .. n
    PROVE  /\ w \in Nat /\ w * (k - 1) \in Nat /\ w * n \in Nat
           /\ w * (k - 1) + w <= w * n
<1>1. CASE w = 1
  BY <1>1
<1>2. CASE w = 4
  BY <1>2
<1>3. CASE w = 8
  BY <1>3
<1>4. CASE w = 16
  BY <1>4
<1>5. CASE w = 32
  BY <1>5
<1>6. CASE w = 64
  BY <1>6
<1> QED
  BY <1>1, <1>2, <1>3, <1>4, <1>5, <1>6 DEF Widths

(* n words of w bytes, one after the other from offset c on.               *)
Strip(ws, c, w, n) == DOMAIN ws = 1 .. n /\ \A k \in 1 .. n : ws[k] = Win(c + w * (k - 1), w)

LEMMA StripReads ==
    ASSUME NEW w \in Widths, NEW n \in Nat, NEW c \in Int, NEW ws, Strip(ws, c, w, n)
    PROVE  Reads(ws) = c + 1 .. c + w * n
<1>0. w \in Nat /\ w * n \in Nat
  <2>1. w \in Nat
    BY DEF Widths
  <2> QED
    BY <2>1
<1>1. ASSUME NEW k \in 1 .. n
      PROVE  /\ w * (k - 1) \in Nat /\ w * (k - 1) + w <= w * n
             /\ ToSet(ws[k]) = c + w * (k - 1) + 1 .. c + w * (k - 1) + w
  <2>1. w * (k - 1) \in Nat /\ w * (k - 1) + w <= w * n
    BY InWords
  <2>2. SUFFICES ASSUME NEW z \in Int, z = c + w * (k - 1)
                 PROVE  ToSet(ws[k]) = z + 1 .. z + w
    BY <2>1
  <2>3. ws[k] = Win(z, w)
    BY <2>2 DEF Strip
  <2> QED
    BY <1>0, <2>3, WinSet
<1>2. Reads(ws) = UNION {ToSet(ws[k]) : k \in 1 .. n}
  BY DEF Reads, Strip
<1>3. ASSUME NEW x \in Reads(ws) PROVE x \in c + 1 .. c + w * n
  <2>1. PICK k \in 1 .. n : x \in ToSet(ws[k])
    BY <1>2, <1>3
  <2>2. SUFFICES ASSUME NEW z \in Nat, z = w * (k - 1), NEW y \in Nat, y = w * n, z + w <= y,
                        x \in c + z + 1 .. c + z + w
                 PROVE  x \in c + 1 .. c + y
    BY <1>0, <1>1, <2>1
  <2> QED
    BY <1>0, <2>2
<1>4. ASSUME NEW x \in c + 1 .. c + w * n PROVE x \in Reads(ws)
  <2>1. x - c \in 1 .. w * n
    BY <1>0
  <2>2. PICK k \in 1 .. n : x - c \in w * (k - 1) + 1 .. w * (k - 1) + w
    <3>1. SUFFICES ASSUME NEW y \in 1 .. w * n, y = x - c
                   PROVE  \E k \in 1 .. n : y \in w * (k - 1) + 1 .. w * (k - 1) + w
      BY <2>1
    <3> QED
      BY WordOf
  <2>3. x \in c + w * (k - 1) + 1 .. c + w * (k - 1) + w
    <3>1. SUFFICES ASSUME NEW z \in Nat, z = w * (k - 1), x - c \in z + 1 .. z + w
                   PROVE  x \in c + z + 1 .. c + z + w
      BY <1>1, <2>2
    <3>2. x \in Int
      BY <1>0
    <3> QED
      BY <1>0, <3>1, <3>2
  <2>4. x \in ToSet(ws[k])
    BY <1>1, <2>3
  <2> QED
    BY <1>2, <2>4
<1> QED
  BY <1>3, <1>4

Strips(c, w, n) == [k \in 1 .. n |-> Win(c + w * (k - 1), w)]

LEMMA StripsRead ==
    ASSUME NEW w \in Widths, NEW n \in Nat, NEW c \in Int
    PROVE  /\ Strips(c, w, n) \in Seq(Seq(Int))
           /\ Reads(Strips(c, w, n)) = c + 1 .. c + w * n
<1>1. ASSUME NEW k \in 1 .. n PROVE Win(c + w * (k - 1), w) \in Seq(Int)
  <2>1. w \in Nat /\ w * (k - 1) \in Nat
    BY InWords
  <2>2. c + w * (k - 1) \in Int
    BY <2>1
  <2> QED
    BY <2>1, <2>2, WinType
<1>2. Strips(c, w, n) \in [1 .. n -> Seq(Int)]
  BY <1>1 DEF Strips
<1>3. Strip(Strips(c, w, n), c, w, n)
  BY DEF Strip, Strips
<1> QED
  BY <1>2, <1>3, FunctionSeq, StripReads

LEMMA Finalize32Reads ==
    ASSUME NEW c \in Int, NEW r \in Nat
    PROVE  /\ XXH32_finalize(Win(c, r), r) \in Seq(Seq(Int))
           /\ Reads(XXH32_finalize(Win(c, r), r)) = c + 1 .. c + r
<1> DEFINE in == Win(c, r)
           a == [k \in 1 .. r \div 4 |-> Bytes(in, 4 * (k - 1), 4)]
           b == [k \in 1 .. r % 4 |-> Bytes(in, r - (r % 4) + k - 1, 1)]
<1>1. SUFFICES ASSUME NEW q \in Nat, q = r \div 4, NEW m \in Nat, m = r % 4, r = 4 * q + m
               PROVE  /\ XXH32_finalize(Win(c, r), r) \in Seq(Seq(Int))
                      /\ Reads(XXH32_finalize(Win(c, r), r)) = c + 1 .. c + r
  <2>1. r \div 4 \in Nat /\ r % 4 \in Nat /\ r = 4 * (r \div 4) + (r % 4)
    OBVIOUS
  <2> QED
    BY <2>1
<1>2. a = Strips(c, 4, q)
  <2>1. ASSUME NEW k \in 1 .. q PROVE Bytes(in, 4 * (k - 1), 4) = Win(c + 4 * (k - 1), 4)
    <3>1. 4 * (k - 1) \in Nat /\ 4 * (k - 1) + 4 <= r /\ 4 \in Nat
      BY <1>1
    <3> QED
      BY <3>1, WinBytes
  <2> HIDE DEF in
  <2> QED
    BY <1>1, <2>1 DEF Strips
<1>3. b = Strips(c + 4 * q, 1, m)
  <2>1. ASSUME NEW k \in 1 .. m
        PROVE  Bytes(in, r - (r % 4) + k - 1, 1) = Win((c + 4 * q) + 1 * (k - 1), 1)
    <3>1. ASSUME NEW o \in Nat, NEW w \in Nat, o + w <= r PROVE Bytes(in, o, w) = Win(c + o, w)
      BY <3>1, WinBytes
    <3>2. ASSUME NEW o, o = r - (r % 4) + k - 1, NEW w, w = 1
          PROVE  o \in Nat /\ w \in Nat /\ o + w <= r /\ c + o = (c + 4 * q) + 1 * (k - 1)
      BY <1>1, <3>2
    <3> HIDE DEF in
    <3> QED
      BY <3>1, <3>2
  <2> HIDE DEF in
  <2> QED
    BY <1>1, <2>1 DEF Strips
<1>4. a \in Seq(Seq(Int)) /\ Reads(a) = c + 1 .. c + 4 * q
  <2>1. 4 \in Widths
    BY DEF Widths
  <2> HIDE DEF a
  <2> QED
    BY <1>2, <2>1, StripsRead
<1>5. b \in Seq(Seq(Int)) /\ Reads(b) = c + 4 * q + 1 .. c + 4 * q + m
  <2>1. 1 \in Widths /\ 1 * m = m
    BY DEF Widths
  <2>2. SUFFICES ASSUME NEW e \in Int, e = c + 4 * q
                 PROVE  b \in Seq(Seq(Int)) /\ Reads(b) = e + 1 .. e + m
    <3>1. c + 4 * q \in Int
      OBVIOUS
    <3> HIDE DEF b
    <3> QED
      BY <3>1
  <2> HIDE DEF b
  <2>3. b = Strips(e, 1, m)
    BY <1>3, <2>2
  <2> QED
    BY <2>1, <2>3, StripsRead
<1>6. XXH32_finalize(in, r) = a \o b
  BY DEF XXH32_finalize
<1> HIDE DEF a, b
<1>7. XXH32_finalize(in, r) \in Seq(Seq(Int)) /\ Reads(XXH32_finalize(in, r)) = Reads(a) \cup Reads(b)
  BY <1>4, <1>5, <1>6, ReadsConcat
<1>8. (c + 1 .. c + 4 * q) \cup (c + 4 * q + 1 .. c + 4 * q + m) = c + 1 .. c + r
  BY <1>1
<1> QED
  BY <1>4, <1>5, <1>7, <1>8

LEMMA Finalize64Reads ==
    ASSUME NEW c \in Int, NEW r \in Nat
    PROVE  /\ XXH64_finalize(Win(c, r), r) \in Seq(Seq(Int))
           /\ Reads(XXH64_finalize(Win(c, r), r)) = c + 1 .. c + r
<1> DEFINE in == Win(c, r)
           a == [k \in 1 .. r \div 8 |-> Bytes(in, 8 * (k - 1), 8)]
           b == XXH32_finalize(Bytes(in, r - (r % 8), r % 8), r % 8)
<1>1. SUFFICES ASSUME NEW q \in Nat, q = r \div 8, NEW m \in Nat, m = r % 8, r = 8 * q + m
               PROVE  /\ XXH64_finalize(Win(c, r), r) \in Seq(Seq(Int))
                      /\ Reads(XXH64_finalize(Win(c, r), r)) = c + 1 .. c + r
  <2>1. r \div 8 \in Nat /\ r % 8 \in Nat /\ r = 8 * (r \div 8) + (r % 8)
    OBVIOUS
  <2> QED
    BY <2>1
<1>2. a = Strips(c, 8, q)
  <2>1. ASSUME NEW k \in 1 .. q PROVE Bytes(in, 8 * (k - 1), 8) = Win(c + 8 * (k - 1), 8)
    <3>1. 8 * (k - 1) \in Nat /\ 8 * (k - 1) + 8 <= r /\ 8 \in Nat
      BY <1>1
    <3> QED
      BY <3>1, WinBytes
  <2> HIDE DEF in
  <2> QED
    BY <1>1, <2>1 DEF Strips
<1>3. a \in Seq(Seq(Int)) /\ Reads(a) = c + 1 .. c + 8 * q
  <2>1. 8 \in Widths
    BY DEF Widths
  <2> HIDE DEF a
  <2> QED
    BY <1>2, <2>1, StripsRead
<1>4. b \in Seq(Seq(Int)) /\ Reads(b) = c + 8 * q + 1 .. c + 8 * q + m
  <2>1. SUFFICES ASSUME NEW o \in Nat, o = r - m, NEW e \in Int, e = c + o
                 PROVE  b \in Seq(Seq(Int)) /\ Reads(b) = e + 1 .. e + m
    <3>1. r - m \in Nat /\ c + (r - m) = c + 8 * q
      BY <1>1
    <3> HIDE DEF b
    <3> QED
      BY <3>1
  <2>2. Bytes(in, o, m) = Win(e, m)
    <3>1. o + m <= r
      BY <2>1
    <3> QED
      BY <2>1, <3>1, WinBytes
  <2>3. b = XXH32_finalize(Win(e, m), m)
    BY <1>1, <2>1, <2>2
  <2> HIDE DEF b
  <2> QED
    BY <2>3, Finalize32Reads
<1>5. XXH64_finalize(in, r) = a \o b
  BY DEF XXH64_finalize
<1> HIDE DEF a, b
<1>6. XXH64_finalize(in, r) \in Seq(Seq(Int)) /\ Reads(XXH64_finalize(in, r)) = Reads(a) \cup Reads(b)
  BY <1>3, <1>4, <1>5, ReadsConcat
<1>7. (c + 1 .. c + 8 * q) \cup (c + 8 * q + 1 .. c + 8 * q + m) = c + 1 .. c + r
  BY <1>1
<1> QED
  BY <1>3, <1>4, <1>6, <1>7

LEMMA LanesRead ==
    ASSUME NEW N \in Nat, N \in {16, 32}, NEW n \in Nat
    PROVE  Reads(Lanes(N, n)) = 1 .. N * n
<1>1. N \in Widths
  BY DEF Widths
<1>2. Strip(Lanes(N, n), 0, N, n)
  <2>1. ASSUME NEW k \in 1 .. n PROVE N * (k - 1) = 0 + N * (k - 1)
    OBVIOUS
  <2> QED
    BY <2>1 DEF Strip, Lanes
<1>3. 0 \in Int /\ 0 + 1 = 1 /\ 0 + N * n = N * n
  OBVIOUS
<1>4. Reads(Lanes(N, n)) = 0 + 1 .. 0 + N * n
  BY <1>1, <1>2, <1>3, StripReads, Zenon
<1> QED
  BY <1>3, <1>4

LEMMA EveryByteCounts32 ==
    ASSUME NEW t \in Nat
    PROVE  Reads(XXH32(Message(t)).acc \o XXH32(Message(t)).tail) = 1 .. t
<1>1. SUFFICES ASSUME NEW q \in Nat, q = t \div 16, NEW m \in Nat, m = t % 16, t = 16 * q + m,
                      NEW c \in Int, c = t - m
               PROVE  Reads(XXH32(Message(t)).acc \o XXH32(Message(t)).tail) = 1 .. t
  <2>1. t \div 16 \in Nat /\ t % 16 \in Nat /\ t = 16 * (t \div 16) + (t % 16)
    OBVIOUS
  <2> QED
    BY <2>1
<1>2. /\ XXH32(Message(t)).acc = Lanes(16, q)
      /\ XXH32(Message(t)).tail = XXH32_finalize(Win(c, m), m)
  <2>1. 16 \in Nat /\ 16 \in {16, 32}
    OBVIOUS
  <2> QED
    BY <1>1, <2>1, AllAtOnce DEF XXH32, Sum
<1>3. Lanes(16, q) \in Seq(Seq(Int)) /\ Reads(Lanes(16, q)) = 1 .. 16 * q
  BY LanesType, LanesRead
<1>4. (1 .. 16 * q) \cup (c + 1 .. c + m) = 1 .. t
  BY <1>1
<1> DEFINE f == XXH32_finalize(Win(c, m), m)
           a == Lanes(16, q)
<1>5. f \in Seq(Seq(Int)) /\ Reads(f) = c + 1 .. c + m
  BY Finalize32Reads
<1> HIDE DEF f, a
<1>6. a \in Seq(Seq(Int)) /\ Reads(a \o f) = Reads(a) \cup Reads(f)
  BY <1>3, <1>5, ReadsConcat DEF a
<1> QED
  BY <1>2, <1>3, <1>4, <1>5, <1>6 DEF f, a

LEMMA EveryByteCounts64 ==
    ASSUME NEW t \in Nat
    PROVE  Reads(XXH64(Message(t)).acc \o XXH64(Message(t)).tail) = 1 .. t
<1>1. SUFFICES ASSUME NEW q \in Nat, q = t \div 32, NEW m \in Nat, m = t % 32, t = 32 * q + m,
                      NEW c \in Int, c = t - m
               PROVE  Reads(XXH64(Message(t)).acc \o XXH64(Message(t)).tail) = 1 .. t
  <2>1. t \div 32 \in Nat /\ t % 32 \in Nat /\ t = 32 * (t \div 32) + (t % 32)
    OBVIOUS
  <2> QED
    BY <2>1
<1>2. /\ XXH64(Message(t)).acc = Lanes(32, q)
      /\ XXH64(Message(t)).tail = XXH64_finalize(Win(c, m), m)
  <2>1. 32 \in Nat /\ 32 \in {16, 32}
    OBVIOUS
  <2> QED
    BY <1>1, <2>1, AllAtOnce DEF XXH64, Sum
<1>3. Lanes(32, q) \in Seq(Seq(Int)) /\ Reads(Lanes(32, q)) = 1 .. 32 * q
  BY LanesType, LanesRead
<1>4. (1 .. 32 * q) \cup (c + 1 .. c + m) = 1 .. t
  BY <1>1
<1> DEFINE f == XXH64_finalize(Win(c, m), m)
           a == Lanes(32, q)
<1>5. f \in Seq(Seq(Int)) /\ Reads(f) = c + 1 .. c + m
  BY Finalize64Reads
<1> HIDE DEF f, a
<1>6. a \in Seq(Seq(Int)) /\ Reads(a \o f) = Reads(a) \cup Reads(f)
  BY <1>3, <1>5, ReadsConcat DEF a
<1> QED
  BY <1>2, <1>3, <1>4, <1>5, <1>6 DEF f, a

Ins(us) == [k \in DOMAIN us |-> us[k].in]
ReadBy(us) == Reads(Ins(us))

LEMMA ReadByConcat ==
    ASSUME NEW S, NEW a \in Seq(S), NEW b \in Seq(S)
    PROVE  ReadBy(a \o b) = ReadBy(a) \cup ReadBy(b)
<1> DEFINE T == {u.in : u \in S}
           c == a \o b
           m == Len(a)
           n == Len(b)
<1>1. m \in Nat /\ n \in Nat /\ DOMAIN a = 1 .. m /\ DOMAIN b = 1 .. n /\ DOMAIN c = 1 .. m + n
  OBVIOUS
<1>2. (\A k \in 1 .. m : a[k] \in S) /\ (\A k \in 1 .. n : b[k] \in S)
  OBVIOUS
<1>3. (\A k \in 1 .. m : c[k] = a[k]) /\ (\A k \in m + 1 .. m + n : c[k] = b[k - m])
  OBVIOUS
<1> HIDE DEF c, m, n
<1>4. Ins(a) \in [1 .. m -> T] /\ Ins(b) \in [1 .. n -> T]
  BY <1>1, <1>2 DEF Ins
<1>5. Ins(a) \in Seq(T) /\ Len(Ins(a)) = m /\ Ins(b) \in Seq(T) /\ Len(Ins(b)) = n
  BY <1>1, <1>4, FunctionSeq
<1>6. /\ \A k \in 1 .. m : Ins(c)[k] = Ins(a)[k]
      /\ \A k \in m + 1 .. m + n : Ins(c)[k] = Ins(b)[k - m]
      /\ Ins(c) \in [1 .. m + n -> T]
  <2>1. ASSUME NEW k \in 1 .. m PROVE Ins(c)[k] = Ins(a)[k] /\ Ins(c)[k] \in T
    <3>1. k \in 1 .. m + n
      BY <1>1
    <3> QED
      BY <1>1, <1>2, <1>3, <3>1 DEF Ins
  <2>2. ASSUME NEW k \in m + 1 .. m + n PROVE Ins(c)[k] = Ins(b)[k - m] /\ Ins(c)[k] \in T
    <3>1. k \in 1 .. m + n /\ k - m \in 1 .. n
      BY <1>1
    <3> QED
      BY <1>1, <1>2, <1>3, <3>1 DEF Ins
  <2>3. ASSUME NEW k \in 1 .. m + n PROVE Ins(c)[k] \in T
    <3>1. k \in 1 .. m \/ k \in m + 1 .. m + n
      BY <1>1
    <3> QED
      BY <2>1, <2>2, <3>1
  <2>4. Ins(c) = [k \in 1 .. m + n |-> Ins(c)[k]]
    BY <1>1 DEF Ins
  <2> HIDE DEF T
  <2> QED
    BY <2>1, <2>2, <2>3, <2>4
<1>7. Ins(c) = Ins(a) \o Ins(b)
  <2> DEFINE x == Ins(a)
             y == Ins(b)
             z == Ins(c)
  <2> HIDE DEF T, x, y, z
  <2>1. x \in Seq(T) /\ y \in Seq(T) /\ Len(x) = m /\ Len(y) = n
    BY <1>5 DEF x, y
  <2>2. z \in Seq(T) /\ Len(z) = m + n
    <3>1. z \in [1 .. m + n -> T] /\ m + n \in Nat
      BY <1>1, <1>6 DEF z
    <3> QED
      BY <3>1, FunctionSeq
  <2>3. ASSUME NEW k \in 1 .. m PROVE x[k] = z[k]
    BY <1>6 DEF x, z
  <2>4. ASSUME NEW k \in 1 .. n PROVE y[k] = z[m + k]
    <3>1. m + k \in m + 1 .. m + n /\ (m + k) - m = k
      BY <1>1
    <3> QED
      BY <1>6, <3>1 DEF y, z
  <2>5. x \o y = z
    BY <2>1, <2>2, <2>3, <2>4, ConcatIs
  <2> QED
    BY <2>5 DEF x, y, z
<1> HIDE DEF T
<1> QED
  BY <1>5, <1>7, ReadsConcat DEF ReadBy, c

LEMMA ReadByFew ==
    ASSUME NEW u, NEW v
    PROVE  /\ ReadBy(<<u>>) = ToSet(u.in)
           /\ ReadBy(<<u, v>>) = ToSet(u.in) \cup ToSet(v.in)
           /\ ReadBy(<< >>) = {}
<1>1. ReadBy(<<u>>) = ToSet(u.in)
  <2>1. DOMAIN <<u>> = {1} /\ <<u>>[1] = u
    OBVIOUS
  <2> QED
    BY <2>1 DEF ReadBy, Ins, Reads
<1>2. ReadBy(<<u, v>>) = ToSet(u.in) \cup ToSet(v.in)
  <2>1. DOMAIN <<u, v>> = {1, 2} /\ <<u, v>>[1] = u /\ <<u, v>>[2] = v
    OBVIOUS
  <2> QED
    BY <2>1 DEF ReadBy, Ins, Reads
<1>3. ReadBy(<< >>) = {}
  BY DEF ReadBy, Ins, Reads
<1> QED
  BY <1>1, <1>2, <1>3

LEMMA SetConcat ==
    ASSUME NEW a \in Seq(Int), NEW b \in Seq(Int)
    PROVE  ToSet(a \o b) = ToSet(a) \cup ToSet(b)
<1> DEFINE m == Len(a)
           n == Len(b)
           c == a \o b
<1>1. m \in Nat /\ n \in Nat /\ DOMAIN a = 1 .. m /\ DOMAIN b = 1 .. n /\ DOMAIN c = 1 .. m + n
  OBVIOUS
<1>2. (\A k \in 1 .. m : c[k] = a[k]) /\ (\A k \in 1 .. n : c[m + k] = b[k])
  OBVIOUS
<1>3. \A k \in m + 1 .. m + n : k - m \in 1 .. n /\ c[k] = b[k - m]
  OBVIOUS
<1> HIDE DEF c, m, n
<1>4. ASSUME NEW x \in ToSet(c) PROVE x \in ToSet(a) \cup ToSet(b)
  <2>1. PICK k \in 1 .. m + n : x = c[k]
    BY <1>1, <1>4 DEF ToSet
  <2>2. k \in 1 .. m \/ k \in m + 1 .. m + n
    BY <1>1
  <2> QED
    BY <1>1, <1>2, <1>3, <2>1, <2>2 DEF ToSet
<1>5. ASSUME NEW x \in ToSet(a) PROVE x \in ToSet(c)
  <2>1. PICK k \in 1 .. m : x = a[k]
    BY <1>1, <1>5 DEF ToSet
  <2>2. k \in 1 .. m + n /\ c[k] = x
    BY <1>1, <1>2, <2>1
  <2> QED
    BY <1>1, <2>2 DEF ToSet
<1>6. ASSUME NEW x \in ToSet(b) PROVE x \in ToSet(c)
  <2>1. PICK k \in 1 .. n : x = b[k]
    BY <1>1, <1>6 DEF ToSet
  <2>2. m + k \in 1 .. m + n /\ c[m + k] = x
    BY <1>1, <1>2, <2>1
  <2> QED
    BY <1>1, <2>2 DEF ToSet
<1> QED
  BY <1>4, <1>5, <1>6 DEF c

LEMMA MessagePart ==
    ASSUME NEW n \in Nat, NEW o \in Nat, NEW w \in Nat, o + w <= n
    PROVE  Bytes(Message(n), o, w) = Win(o, w) /\ ToSet(Bytes(Message(n), o, w)) = o + 1 .. o + w
<1>1. Bytes(Message(n), o, w) = Win(o, w)
  <2>1. ASSUME NEW z \in Int, z = 0 PROVE Bytes(Win(z, n), o, w) = Win(z + o, w)
    BY WinBytes
  <2>2. 0 \in Int /\ 0 + o = o
    OBVIOUS
  <2> QED
    BY <2>1, <2>2, MessageIs
<1> QED
  BY <1>1, WinSet

LEMMA Reads16 ==
    ASSUME NEW n \in Nat, NEW i \in Nat, i + 16 <= n, NEW sec, NEW s
    PROVE  /\ mix16B(Message(n), i, sec, s).in = Win(i, 16)
           /\ ToSet(mix16B(Message(n), i, sec, s).in) = i + 1 .. i + 16
<1>1. mix16B(Message(n), i, sec, s).in = Bytes(Message(n), i, 16)
  BY DEF mix16B, Use
<1>2. ASSUME NEW w \in Nat, w = 16
      PROVE  Bytes(Message(n), i, w) = Win(i, w) /\ ToSet(Bytes(Message(n), i, w)) = i + 1 .. i + w
  <2>1. i + w <= n
    BY <1>2
  <2> QED
    BY <2>1, MessagePart
<1>3. 16 \in Nat
  OBVIOUS
<1>4. Bytes(Message(n), i, 16) = Win(i, 16) /\ ToSet(Bytes(Message(n), i, 16)) = i + 1 .. i + 16
  BY <1>2, <1>3, Zenon
<1> QED
  BY <1>1, <1>4

LEMMA Reads32 ==
    ASSUME NEW n \in Nat, NEW i \in Nat, i + 16 <= n, NEW j \in Nat, j + 16 <= n, NEW sec, NEW s
    PROVE  ReadBy(mix32B(Message(n), i, j, sec, s)) = (i + 1 .. i + 16) \cup (j + 1 .. j + 16)
<1>1. ReadBy(mix32B(Message(n), i, j, sec, s))
      = ToSet(mix16B(Message(n), i, sec, s).in) \cup ToSet(mix16B(Message(n), j, sec, s + 16).in)
  BY ReadByFew DEF mix32B
<1> QED
  BY <1>1, Reads16

LEMMA Reads0to16 ==
    ASSUME NEW n \in Nat, n <= 16, NEW sec
    PROVE  /\ ReadBy(len_0to16_64b(Message(n), n, sec)) = 1 .. n
           /\ ReadBy(len_0to16_128b(Message(n), n, sec)) = 1 .. n
<1> DEFINE in == Message(n)
           x == len_0to16_64b(in, n, sec)
           y == len_0to16_128b(in, n, sec)
<1>1. ASSUME NEW o \in Nat, NEW w \in Nat, o + w <= n
      PROVE  Bytes(in, o, w) \in Seq(Int) /\ ToSet(Bytes(in, o, w)) = o + 1 .. o + w
  BY <1>1, MessagePart, WinType
<1>2. ASSUME NEW u, NEW s, NEW w PROVE ReadBy(<<Use(u, sec, s, w)>>) = ToSet(u)
  <2>1. Use(u, sec, s, w).in = u
    BY DEF Use
  <2>2. ReadBy(<<Use(u, sec, s, w)>>) = ToSet(Use(u, sec, s, w).in)
    BY ReadByFew, Zenon
  <2> QED
    BY <2>1, <2>2
<1>3. ASSUME NEW u, NEW s, NEW w, NEW v, NEW r, NEW z
      PROVE  ReadBy(<<Use(u, sec, s, w), Use(v, sec, r, z)>>) = ToSet(u) \cup ToSet(v)
  <2>1. Use(u, sec, s, w).in = u /\ Use(v, sec, r, z).in = v
    BY DEF Use
  <2>2. ReadBy(<<Use(u, sec, s, w), Use(v, sec, r, z)>>)
        = ToSet(Use(u, sec, s, w).in) \cup ToSet(Use(v, sec, r, z).in)
    BY ReadByFew, Zenon
  <2> QED
    BY <2>1, <2>2
<1> HIDE DEF in
<1>4. CASE n > 8
  <2> DEFINE a == Bytes(in, 0, 8)
             b == Bytes(in, n - 8, 8)
  <2>1. /\ 0 \in Nat /\ 8 \in Nat /\ n - 8 \in Nat /\ 0 + 8 <= n /\ (n - 8) + 8 <= n
    BY <1>4
  <2>2. /\ a \in Seq(Int) /\ ToSet(a) = 0 + 1 .. 0 + 8
        /\ b \in Seq(Int) /\ ToSet(b) = (n - 8) + 1 .. (n - 8) + 8
    BY <1>1, <2>1, Zenon
  <2>3. x = <<Use(a, sec, 24, 16), Use(b, sec, 40, 16)>>
    BY <1>4 DEF len_0to16_64b
  <2>4. y = <<Use(a \o b, sec, 32, 16), Use(b, sec, 48, 16)>>
    BY <1>4 DEF len_0to16_128b
  <2> HIDE DEF x, y, a, b
  <2>5. ReadBy(x) = ToSet(a) \cup ToSet(b)
    BY <1>3, <2>3
  <2>6. ReadBy(y) = (ToSet(a) \cup ToSet(b)) \cup ToSet(b)
    <3>1. ReadBy(y) = ToSet(a \o b) \cup ToSet(b)
      BY <1>3, <2>4
    <3> QED
      BY <2>2, <3>1, SetConcat
  <2>7. (0 + 1 .. 0 + 8) \cup ((n - 8) + 1 .. (n - 8) + 8) = 1 .. n
    BY <1>4
  <2>8. ReadBy(x) = 1 .. n /\ ReadBy(y) = 1 .. n
    BY <2>2, <2>5, <2>6, <2>7
  <2> QED
    BY <2>8 DEF x, y, in
<1>5. CASE n \in 4 .. 8
  <2> DEFINE a == Bytes(in, 0, 4)
             b == Bytes(in, n - 4, 4)
  <2>1. /\ 0 \in Nat /\ 4 \in Nat /\ n - 4 \in Nat /\ 0 + 4 <= n /\ (n - 4) + 4 <= n
    BY <1>5
  <2>2. /\ a \in Seq(Int) /\ ToSet(a) = 0 + 1 .. 0 + 4
        /\ b \in Seq(Int) /\ ToSet(b) = (n - 4) + 1 .. (n - 4) + 4
    BY <1>1, <2>1, Zenon
  <2>3. x = <<Use(a \o b, sec, 8, 16)>>
    BY <1>5 DEF len_0to16_64b
  <2>4. y = <<Use(a \o b, sec, 16, 16)>>
    BY <1>5 DEF len_0to16_128b
  <2> HIDE DEF x, y, a, b
  <2>5. ReadBy(x) = ToSet(a) \cup ToSet(b) /\ ReadBy(y) = ToSet(a) \cup ToSet(b)
    <3>1. ReadBy(x) = ToSet(a \o b) /\ ReadBy(y) = ToSet(a \o b)
      BY <1>2, <2>3, <2>4
    <3> QED
      BY <2>2, <3>1, SetConcat
  <2>6. (0 + 1 .. 0 + 4) \cup ((n - 4) + 1 .. (n - 4) + 4) = 1 .. n
    BY <1>5
  <2>7. ReadBy(x) = 1 .. n /\ ReadBy(y) = 1 .. n
    BY <2>2, <2>5, <2>6
  <2> QED
    BY <2>7 DEF x, y, in
<1>6. CASE n \in 1 .. 3
  <2> DEFINE a == Bytes(in, 0, 1)
             b == Bytes(in, n \div 2, 1)
             c == Bytes(in, n - 1, 1)
  <2>1. /\ 0 \in Nat /\ 1 \in Nat /\ n - 1 \in Nat /\ n \div 2 \in Nat
        /\ 0 + 1 <= n /\ (n \div 2) + 1 <= n /\ (n - 1) + 1 <= n
    BY <1>6
  <2>2. /\ a \in Seq(Int) /\ ToSet(a) = 0 + 1 .. 0 + 1
        /\ b \in Seq(Int) /\ ToSet(b) = (n \div 2) + 1 .. (n \div 2) + 1
        /\ c \in Seq(Int) /\ ToSet(c) = (n - 1) + 1 .. (n - 1) + 1
    BY <1>1, <2>1, Zenon
  <2>3. x = <<Use((a \o b) \o c, sec, 0, 8)>>
    BY <1>6 DEF len_0to16_64b, OneToThree
  <2>4. y = <<Use((a \o b) \o c, sec, 0, 16)>>
    BY <1>6 DEF len_0to16_128b, OneToThree
  <2> HIDE DEF x, y, a, b, c
  <2>5. ToSet((a \o b) \o c) = (ToSet(a) \cup ToSet(b)) \cup ToSet(c)
    <3>1. a \o b \in Seq(Int)
      BY <2>2
    <3> QED
      BY <2>2, <3>1, SetConcat
  <2>6. /\ ReadBy(x) = (ToSet(a) \cup ToSet(b)) \cup ToSet(c)
        /\ ReadBy(y) = (ToSet(a) \cup ToSet(b)) \cup ToSet(c)
    BY <1>2, <2>3, <2>4, <2>5
  <2>7. ((0 + 1 .. 0 + 1) \cup ((n \div 2) + 1 .. (n \div 2) + 1)) \cup ((n - 1) + 1 .. (n - 1) + 1)
        = 1 .. n
    BY <1>6
  <2>8. ReadBy(x) = 1 .. n /\ ReadBy(y) = 1 .. n
    BY <2>2, <2>6, <2>7
  <2> QED
    BY <2>8 DEF x, y, in
<1>7. CASE n = 0
  <2>1. x = <<Use(<< >>, sec, 56, 16)>>
    BY <1>7 DEF len_0to16_64b
  <2>2. y = <<Use(<< >>, sec, 64, 32)>>
    BY <1>7 DEF len_0to16_128b
  <2> HIDE DEF x, y
  <2>3. ToSet(<< >>) = {} /\ 1 .. n = {}
    BY <1>7 DEF ToSet
  <2>4. ReadBy(x) = 1 .. n /\ ReadBy(y) = 1 .. n
    BY <1>2, <2>1, <2>2, <2>3
  <2> QED
    BY <2>4 DEF x, y, in
<1>8. n > 8 \/ n \in 4 .. 8 \/ n \in 1 .. 3 \/ n = 0
  OBVIOUS
<1> QED
  BY <1>4, <1>5, <1>6, <1>7, <1>8

(* The words of pair j from both ends.                                     *)
Both(n, j) == (16 * j + 1 .. 16 * j + 16) \cup (n - 16 * (j + 1) + 1 .. n - 16 * j)

LEMMA Reads17to128 ==
    ASSUME NEW n \in Nat, n > 16, n <= 128, NEW sec \in Secrets
    PROVE  ReadBy(len_17to128(Message(n), n, sec)) = 1 .. n
<1> DEFINE in == Message(n)
           p(j) == IF Reaches(n, j) THEN mix32B(in, 16 * j, n - 16 * (j + 1), sec, 32 * j)
                   ELSE << >>
           S == {mix16B(in, i, sec, s) : i, s \in Int}
<1>1. ASSUME NEW j \in Nat, j <= 3
      PROVE  /\ p(j) \in Seq(S)
             /\ ReadBy(p(j)) = IF n > 32 * j THEN Both(n, j) ELSE {}
  <2>1. p(j) \in Seq(S)
    <3>1. 16 * j \in Int /\ n - 16 * (j + 1) \in Int /\ 32 * j \in Int /\ 32 * j + 16 \in Int
      OBVIOUS
    <3>2. mix16B(in, 16 * j, sec, 32 * j) \in S /\ mix16B(in, n - 16 * (j + 1), sec, 32 * j + 16) \in S
      BY <3>1
    <3> HIDE DEF S, in
    <3> QED
      BY <3>2 DEF mix32B
  <2>2. CASE n > 32 * j
    <3>1. /\ 16 * j \in Nat /\ 16 * j + 16 <= n
          /\ n - 16 * (j + 1) \in Nat /\ n - 16 * (j + 1) + 16 <= n
          /\ n - 16 * (j + 1) + 16 = n - 16 * j
      BY <1>1, <2>2
    <3>2. p(j) = mix32B(in, 16 * j, n - 16 * (j + 1), sec, 32 * j)
      BY <2>2 DEF Reaches
    <3> HIDE DEF p
    <3> QED
      BY <2>1, <2>2, <3>1, <3>2, Reads32 DEF Both, p
  <2>3. CASE ~ (n > 32 * j)
    <3>1. p(j) = << >>
      BY <2>3 DEF Reaches
    <3>2. ReadBy(<< >>) = {}
      BY ReadByFew
    <3> QED
      BY <2>1, <2>3, <3>1, <3>2
  <2> QED
    BY <2>2, <2>3
<1>2. /\ p(0) \in Seq(S) /\ ReadBy(p(0)) = IF n > 32 * 0 THEN Both(n, 0) ELSE {}
      /\ p(1) \in Seq(S) /\ ReadBy(p(1)) = IF n > 32 * 1 THEN Both(n, 1) ELSE {}
      /\ p(2) \in Seq(S) /\ ReadBy(p(2)) = IF n > 32 * 2 THEN Both(n, 2) ELSE {}
      /\ p(3) \in Seq(S) /\ ReadBy(p(3)) = IF n > 32 * 3 THEN Both(n, 3) ELSE {}
  <2>1. 0 \in Nat /\ 1 \in Nat /\ 2 \in Nat /\ 3 \in Nat /\ 0 <= 3 /\ 1 <= 3 /\ 2 <= 3 /\ 3 <= 3
    OBVIOUS
  <2> HIDE DEF p, S
  <2> QED
    BY <1>1, <2>1, Zenon
<1> DEFINE d == p(3) \o p(2)
           e == d \o p(1)
<1>3. len_17to128(in, n, sec) = e \o p(0)
  BY DEF len_17to128
<1> HIDE DEF p, S, in
<1>4. d \in Seq(S) /\ ReadBy(d) = ReadBy(p(3)) \cup ReadBy(p(2))
  BY <1>2, ReadByConcat
<1> HIDE DEF d
<1>5. e \in Seq(S) /\ ReadBy(e) = ReadBy(d) \cup ReadBy(p(1))
  BY <1>2, <1>4, ReadByConcat
<1> HIDE DEF e
<1>7. ReadBy(len_17to128(in, n, sec)) = ReadBy(e) \cup ReadBy(p(0))
  BY <1>2, <1>3, <1>5, ReadByConcat
<1>6. /\ (IF n > 32 * 3 THEN Both(n, 3) ELSE {}) \cup (IF n > 32 * 2 THEN Both(n, 2) ELSE {})
           \cup (IF n > 32 * 1 THEN Both(n, 1) ELSE {}) \cup (IF n > 32 * 0 THEN Both(n, 0) ELSE {})
         = 1 .. n
  BY DEF Both
<1> QED
  BY <1>2, <1>4, <1>5, <1>6, <1>7 DEF in

LEMMA UsesRead ==
    ASSUME NEW w \in Widths, NEW n \in Nat, NEW c \in Int, NEW us, DOMAIN us = 1 .. n,
           \A k \in 1 .. n : us[k].in = Win(c + w * (k - 1), w)
    PROVE  ReadBy(us) = c + 1 .. c + w * n
<1>1. Strip(Ins(us), c, w, n)
  BY DEF Strip, Ins
<1> QED
  BY <1>1, StripReads DEF ReadBy

LEMMA FlattenReads ==
    ASSUME NEW S, NEW s \in Seq(Seq(S)), NEW n \in Nat, n = Len(s)
    PROVE  ReadBy(FlattenSeq(s)) = UNION {ReadBy(s[k]) : k \in 1 .. n}
<1>1. PICK f : Concats(S, s, f)
  BY ConcatsExist
<1>2. /\ \A k \in 0 .. n : f[k] \in Seq(S)
      /\ f[0] = << >> /\ \A k \in 1 .. n : f[k] = f[k - 1] \o s[k] /\ s[k] \in Seq(S)
  <2>1. \A k \in 1 .. n : s[k] \in Seq(S)
    OBVIOUS
  <2> QED
    BY <1>1, <2>1 DEF Concats, Concatenates
<1> DEFINE U(k) == UNION {ReadBy(s[j]) : j \in 1 .. k}
           T == {k \in 0 .. n : ReadBy(f[k]) = U(k)}
<1>3. 0 \in T
  <2>1. ReadBy(f[0]) = {}
    BY <1>2, ReadByFew
  <2>2. U(0) = {} /\ 0 \in 0 .. n
    OBVIOUS
  <2> QED
    BY <2>1, <2>2
<1>4. ASSUME NEW k \in 0 .. n - 1, k \in T PROVE k + 1 \in T
  <2>1. k + 1 \in 1 .. n /\ k + 1 \in 0 .. n /\ k \in 0 .. n /\ (k + 1) - 1 = k
    OBVIOUS
  <2>2. f[k + 1] = f[k] \o s[k + 1]
    BY <1>2, <2>1
  <2>3. ReadBy(f[k + 1]) = ReadBy(f[k]) \cup ReadBy(s[k + 1])
    <3>1. f[k] \in Seq(S) /\ s[k + 1] \in Seq(S)
      BY <1>2, <2>1
    <3> QED
      BY <2>2, <3>1, ReadByConcat
  <2>4. U(k + 1) = U(k) \cup ReadBy(s[k + 1])
    <3>1. \A j \in 1 .. k + 1 : j \in 1 .. k \/ j = k + 1
      OBVIOUS
    <3>2. 1 .. k \subseteq 1 .. k + 1 /\ k + 1 \in 1 .. k + 1
      OBVIOUS
    <3> QED
      BY <3>1, <3>2
  <2>5. ReadBy(f[k]) = U(k)
    BY <1>4
  <2> HIDE DEF U
  <2> QED
    BY <2>1, <2>3, <2>4, <2>5
<1> HIDE DEF T
<1>5. \A k \in 0 .. n : k \in T
  BY <1>3, <1>4, Induct
<1>6. n \in T
  BY <1>5
<1>7. FlattenSeq(s) = f[n]
  BY <1>1, FlattenIs
<1> QED
  BY <1>6, <1>7 DEF T

LEMMA Reads129to240 ==
    ASSUME NEW n \in Nat, n > 128, n <= 240, NEW sec
    PROVE  /\ ReadBy(len_129to240_64b(Message(n), n, sec)) = 1 .. n
           /\ ReadBy(len_129to240_128b(Message(n), n, sec)) = 1 .. n
<1> DEFINE in == Message(n)
           S == {mix16B(in, i, sec, s) : i, s \in Int}
<1>0. 16 \in Widths /\ 32 \in Widths
  BY DEF Widths
<1>1. ASSUME NEW i \in Nat, i + 16 <= n, NEW s \in Int
      PROVE  mix16B(in, i, sec, s) \in S /\ mix16B(in, i, sec, s).in = Win(i, 16)
  <2>1. mix16B(in, i, sec, s) \in S
    OBVIOUS
  <2> QED
    BY <1>1, <2>1, Reads16
<1> DEFINE a == [k \in 1 .. 8 |-> mix16B(in, 16 * (k - 1), sec, 16 * (k - 1))]
           m == mix16B(in, n - 16, sec, 136 - 17)
           z == [k \in 1 .. n \div 16 - 8 |-> mix16B(in, 16 * (k + 7), sec, 16 * (k - 1) + 3)]
<1>2. a \in Seq(S) /\ ReadBy(a) = 0 + 1 .. 0 + 16 * 8
  <2>1. ASSUME NEW k \in 1 .. 8 PROVE a[k] \in S /\ a[k].in = Win(0 + 16 * (k - 1), 16)
    <3>1. 16 * (k - 1) \in Nat /\ 16 * (k - 1) + 16 <= n /\ 0 + 16 * (k - 1) = 16 * (k - 1)
          /\ 16 * (k - 1) \in Int
      OBVIOUS
    <3>2. a[k] = mix16B(in, 16 * (k - 1), sec, 16 * (k - 1))
      OBVIOUS
    <3> HIDE DEF S, a, in
    <3> QED
      BY <1>1, <3>1, <3>2
  <2>2. a = [k \in 1 .. 8 |-> a[k]] /\ DOMAIN a = 1 .. 8 /\ 8 \in Nat /\ 0 \in Int
    OBVIOUS
  <2> HIDE DEF S, a, in
  <2>3. a \in [1 .. 8 -> S]
    BY <2>1, <2>2
  <2>4. a \in Seq(S)
    BY <2>2, <2>3, FunctionSeq
  <2>5. ReadBy(a) = 0 + 1 .. 0 + 16 * 8
    <3>1. \A k \in 1 .. 8 : a[k].in = Win(0 + 16 * (k - 1), 16)
      BY <2>1
    <3> QED
      BY <1>0, <2>2, <3>1, UsesRead, Zenon
  <2> QED
    BY <2>4, <2>5
<1>3. m \in S /\ ReadBy(<<m>>) = n - 16 + 1 .. n - 16 + 16
  <2>1. n - 16 \in Nat /\ (n - 16) + 16 <= n /\ 136 - 17 \in Int
    OBVIOUS
  <2>2. m \in S
    BY <2>1
  <2> HIDE DEF S
  <2>3. ToSet(m.in) = n - 16 + 1 .. n - 16 + 16
    BY <2>1, Reads16
  <2> HIDE DEF m
  <2> QED
    BY <2>2, <2>3, ReadByFew
<1>4. SUFFICES ASSUME NEW d \in Nat, d = n \div 16 - 8, 16 * d + 128 <= n, n <= 16 * d + 128 + 15
               PROVE  /\ ReadBy(len_129to240_64b(in, n, sec)) = 1 .. n
                      /\ ReadBy(len_129to240_128b(in, n, sec)) = 1 .. n
  <2>1. n \div 16 - 8 \in Nat /\ 16 * (n \div 16 - 8) + 128 <= n
        /\ n <= 16 * (n \div 16 - 8) + 128 + 15
    OBVIOUS
  <2> HIDE DEF in
  <2> QED
    BY <2>1 DEF in
<1>5. z \in Seq(S) /\ ReadBy(z) = 128 + 1 .. 128 + 16 * d
  <2>1. ASSUME NEW k \in 1 .. d PROVE z[k] \in S /\ z[k].in = Win(128 + 16 * (k - 1), 16)
    <3>1. 16 * (k + 7) \in Nat /\ 16 * (k + 7) + 16 <= n /\ 128 + 16 * (k - 1) = 16 * (k + 7)
          /\ 16 * (k - 1) + 3 \in Int
      BY <1>4
    <3>2. z[k] = mix16B(in, 16 * (k + 7), sec, 16 * (k - 1) + 3)
      BY <1>4
    <3> HIDE DEF S, z, in
    <3> QED
      BY <1>1, <3>1, <3>2
  <2>2. z = [k \in 1 .. d |-> z[k]] /\ DOMAIN z = 1 .. d /\ 128 \in Int
    BY <1>4
  <2> HIDE DEF S, z, in
  <2>3. z \in [1 .. d -> S]
    BY <2>1, <2>2
  <2>4. z \in Seq(S)
    BY <2>3, FunctionSeq
  <2>5. ReadBy(z) = 128 + 1 .. 128 + 16 * d
    <3>1. \A k \in 1 .. d : z[k].in = Win(128 + 16 * (k - 1), 16)
      BY <2>1
    <3> QED
      BY <1>0, <2>2, <3>1, UsesRead, ZenonT(30)
  <2> QED
    BY <2>4, <2>5
<1>6. ReadBy(len_129to240_64b(in, n, sec)) = 1 .. n
  <2>1. len_129to240_64b(in, n, sec) = (a \o <<m>>) \o z
    BY DEF len_129to240_64b
  <2> HIDE DEF a, m, z, S, in
  <2> DEFINE b == <<m>>
             e == a \o b
  <2>2. b \in Seq(S)
    BY <1>3
  <2>6. len_129to240_64b(in, n, sec) = e \o z
    BY <2>1
  <2>7. ReadBy(b) = n - 16 + 1 .. n - 16 + 16
    BY <1>3
  <2> HIDE DEF b
  <2>3. e \in Seq(S) /\ ReadBy(e) = ReadBy(a) \cup ReadBy(b)
    BY <1>2, <2>2, ReadByConcat
  <2> HIDE DEF e
  <2>4. ReadBy(len_129to240_64b(in, n, sec)) = ReadBy(e) \cup ReadBy(z)
    BY <1>5, <2>3, <2>6, ReadByConcat
  <2>5. ((0 + 1 .. 0 + 16 * 8) \cup (n - 16 + 1 .. n - 16 + 16)) \cup (128 + 1 .. 128 + 16 * d) = 1 .. n
    BY <1>4
  <2> QED
    BY <1>2, <1>5, <2>3, <2>4, <2>5, <2>7
<1> DEFINE off(k) == IF k <= 4 THEN 32 * (k - 1) ELSE 3 + 32 * (k - 5)
           g == [k \in 1 .. n \div 32 |-> mix32B(in, 32 * (k - 1), 32 * k - 16, sec, off(k))]
           h == mix32B(in, n - 16, n - 32, sec, LastOffset)
<1>7. SUFFICES ASSUME NEW x \in Nat, x = n \div 32, 32 * x <= n, n <= 32 * x + 31
               PROVE  ReadBy(len_129to240_128b(in, n, sec)) = 1 .. n
  <2>1. n \div 32 \in Nat /\ 32 * (n \div 32) <= n /\ n <= 32 * (n \div 32) + 31
    OBVIOUS
  <2> HIDE DEF in
  <2> QED
    BY <1>6, <2>1
<1>8. ASSUME NEW i \in Nat, i + 16 <= n, NEW j \in Nat, j + 16 <= n, NEW s \in Int
      PROVE  /\ mix32B(in, i, j, sec, s) \in Seq(S)
             /\ ReadBy(mix32B(in, i, j, sec, s)) = (i + 1 .. i + 16) \cup (j + 1 .. j + 16)
  <2>1. mix16B(in, i, sec, s) \in S /\ mix16B(in, j, sec, s + 16) \in S
    <3>1. s + 16 \in Int
      OBVIOUS
    <3> HIDE DEF S, in
    <3> QED
      BY <1>1, <1>8, <3>1
  <2>2. mix32B(in, i, j, sec, s) \in Seq(S)
    <3> HIDE DEF S, in
    <3> QED
      BY <2>1 DEF mix32B
  <2> QED
    BY <1>8, <2>2, Reads32
<1>9. ASSUME NEW k \in 1 .. x
      PROVE  g[k] \in Seq(S) /\ ReadBy(g[k]) = 32 * (k - 1) + 1 .. 32 * (k - 1) + 32
  <2>1. /\ 32 * (k - 1) \in Nat /\ 32 * (k - 1) + 16 <= n
        /\ 32 * k - 16 \in Nat /\ 32 * k - 16 + 16 <= n /\ off(k) \in Int
    BY <1>7
  <2>2. g[k] = mix32B(in, 32 * (k - 1), 32 * k - 16, sec, off(k))
    BY <1>7
  <2>3. (32 * (k - 1) + 1 .. 32 * (k - 1) + 16) \cup (32 * k - 16 + 1 .. 32 * k - 16 + 16)
        = 32 * (k - 1) + 1 .. 32 * (k - 1) + 32
    OBVIOUS
  <2> HIDE DEF g, S, in, off
  <2>4. /\ mix32B(in, 32 * (k - 1), 32 * k - 16, sec, off(k)) \in Seq(S)
        /\ ReadBy(mix32B(in, 32 * (k - 1), 32 * k - 16, sec, off(k)))
           = (32 * (k - 1) + 1 .. 32 * (k - 1) + 16) \cup (32 * k - 16 + 1 .. 32 * k - 16 + 16)
    BY <1>8, <2>1, Zenon
  <2> QED
    BY <2>2, <2>3, <2>4
<1>10. g \in Seq(Seq(S)) /\ Len(g) = x
  <2>1. g = [k \in 1 .. x |-> g[k]]
    BY <1>7
  <2> HIDE DEF g, S
  <2>2. g \in [1 .. x -> Seq(S)]
    BY <1>9, <2>1
  <2> QED
    BY <2>2, FunctionSeq
<1>11. ReadBy(FlattenSeq(g)) = 1 .. 32 * x
  <2> HIDE DEF g, S, in
  <2>1. ReadBy(FlattenSeq(g)) = UNION {ReadBy(g[k]) : k \in 1 .. x}
    BY <1>10, FlattenReads
  <2>2. ASSUME NEW k \in 1 .. x PROVE ReadBy(g[k]) \subseteq 1 .. 32 * x
    BY <1>9
  <2>3. ASSUME NEW y \in 1 .. 32 * x PROVE \E k \in 1 .. x : y \in ReadBy(g[k])
    <3>1. PICK k \in 1 .. x : y \in 32 * (k - 1) + 1 .. 32 * (k - 1) + 32
      BY <1>0, WordOf
    <3> QED
      BY <1>9, <3>1
  <2> QED
    BY <2>1, <2>2, <2>3
<1>12. h \in Seq(S) /\ ReadBy(h) = (n - 16 + 1 .. n - 16 + 16) \cup (n - 32 + 1 .. n - 32 + 16)
  <2>1. /\ n - 16 \in Nat /\ n - 16 + 16 <= n /\ n - 32 \in Nat /\ n - 32 + 16 <= n
        /\ LastOffset \in Int
    BY DEF LastOffset
  <2> HIDE DEF S, in
  <2> QED
    BY <1>8, <2>1
<1>13. ReadBy(len_129to240_128b(in, n, sec)) = 1 .. n
  <2>1. len_129to240_128b(in, n, sec) = FlattenSeq(g) \o h
    BY DEF len_129to240_128b
  <2> HIDE DEF g, h, S, in
  <2>2. FlattenSeq(g) \in Seq(S)
    BY <1>10, FlattenType
  <2>3. ReadBy(len_129to240_128b(in, n, sec)) = ReadBy(FlattenSeq(g)) \cup ReadBy(h)
    BY <1>12, <2>1, <2>2, ReadByConcat
  <2>4. (1 .. 32 * x) \cup ((n - 16 + 1 .. n - 16 + 16) \cup (n - 32 + 1 .. n - 32 + 16)) = 1 .. n
    BY <1>7
  <2> QED
    BY <1>11, <1>12, <2>3, <2>4
<1> QED
  BY <1>13

LEMMA RowReads ==
    ASSUME NEW sec \in Secrets, NEW c \in Nat, NEW n \in Nat
    PROVE  ReadBy(Row(sec, c, 0, n)) = 64 * c + 1 .. 64 * c + 64 * n
<1>1. SUFFICES ASSUME NEW d \in Int, d = 64 * c
               PROVE  ReadBy(Row(sec, c, 0, n)) = d + 1 .. d + 64 * n
  OBVIOUS
<1>2. DOMAIN Row(sec, c, 0, n) = 1 .. n
  BY DEF Row
<1>3. ASSUME NEW j \in 1 .. n PROVE Row(sec, c, 0, n)[j].in = Win(d + 64 * (j - 1), 64)
  <2>1. d + 64 * (j - 1) = 64 * (c + j - 1)
    BY <1>1
  <2> QED
    BY <2>1 DEF Row, Use
<1>4. \A j \in 1 .. n : Row(sec, c, 0, n)[j].in = Win(d + 64 * (j - 1), 64)
  BY <1>3
<1>5. 64 \in Widths
  BY DEF Widths
<1> QED
  BY <1>2, <1>4, <1>5, UsesRead, ZenonT(30)

LEMMA ScrambleReads ==
    ASSUME NEW sec
    PROVE  ReadBy(scramble(sec)) = {}
<1> DEFINE u == Use(<< >>, sec, sec.size - 64, 64)
<1>1. ToSet(u.in) = {}
  BY DEF Use, ToSet
<1>2. scramble(sec) = <<u>>
  BY DEF scramble
<1> HIDE DEF u
<1> QED
  BY <1>1, <1>2, ReadByFew

LEMMA BlocksRead ==
    ASSUME NEW sec \in Secrets, NEW M \in Nat, M = PerBlock(sec), NEW q \in Nat
    PROVE  ReadBy(Blocks(sec, 0, q)) = 1 .. 64 * (M * q)
<1> DEFINE T == {k \in 0 .. q : ReadBy(Blocks(sec, 0, k)) = 1 .. 64 * (M * k)}
<1>1. 0 \in T
  <2>1. ReadBy(Blocks(sec, 0, 0)) = {}
    BY BlocksNone, ReadByFew
  <2>2. 1 .. 64 * (M * 0) = {} /\ 0 \in 0 .. q
    <3>1. M * 0 = 0
      OBVIOUS
    <3> QED
      BY <3>1
  <2> QED
    BY <2>1, <2>2
<1>2. ASSUME NEW k \in 0 .. q - 1, k \in T PROVE k + 1 \in T
  <2>1. SUFFICES ASSUME NEW n \in Nat, n = k, n + 1 \in 0 .. q
                 PROVE  n + 1 \in T
    OBVIOUS
  <2>2. ReadBy(Blocks(sec, 0, n)) = 1 .. 64 * (M * n)
    BY <1>2, <2>1
  <2>3. Blocks(sec, 0, n + 1) = Blocks(sec, 0, n) \o Block(sec, 0 + n + 1)
    <3>1. 0 \in Nat
      OBVIOUS
    <3> QED
      BY <3>1, BlocksNext, Zenon
  <2>4. 0 + n + 1 = n + 1 /\ n + 1 \in Nat /\ n + 1 >= 1 /\ (n + 1) - 1 = n
    OBVIOUS
  <2>5. Block(sec, n + 1) \in Seq(Uses) /\ Blocks(sec, 0, n) \in Seq(Uses)
    <3>1. 0 \in Nat
      OBVIOUS
    <3> QED
      BY <2>4, <3>1, BlockType, BlocksType, Zenon
  <2>6. ReadBy(Block(sec, n + 1)) = 64 * (M * n) + 1 .. 64 * (M * n) + 64 * M
    <3>1. SUFFICES ASSUME NEW c \in Nat, c = M * n
                   PROVE  ReadBy(Block(sec, n + 1)) = 64 * c + 1 .. 64 * c + 64 * M
      <4>1. M * n \in Nat
        OBVIOUS
      <4> QED
        BY <4>1
    <3>2. Block(sec, n + 1) = Row(sec, c, 0, M) \o scramble(sec)
      BY <2>4, <3>1 DEF Block
    <3>3. 0 \in Nat
      OBVIOUS
    <3>4. Row(sec, c, 0, M) \in Seq(Uses)
      BY <3>3, RowType, Zenon
    <3> DEFINE a == Row(sec, c, 0, M)
               b == scramble(sec)
    <3>5. a \in Seq(Uses) /\ ReadBy(a) = 64 * c + 1 .. 64 * c + 64 * M
      BY <3>4, RowReads
    <3>6. b \in Seq(Uses) /\ ReadBy(b) = {}
      BY ScrambleType, ScrambleReads
    <3>7. Block(sec, n + 1) = a \o b
      BY <3>2
    <3> HIDE DEF a, b
    <3>8. ReadBy(a \o b) = ReadBy(a) \cup ReadBy(b)
      <4>1. a \in Seq(Uses) /\ b \in Seq(Uses)
        BY <3>5, <3>6
      <4> QED
        BY <4>1, ReadByConcat
    <3> QED
      BY <3>5, <3>6, <3>7, <3>8
  <2>7. ReadBy(Blocks(sec, 0, n + 1)) = ReadBy(Blocks(sec, 0, n)) \cup ReadBy(Block(sec, n + 1))
    <3> DEFINE a == Blocks(sec, 0, n)
               b == Block(sec, n + 1)
    <3>1. Blocks(sec, 0, n + 1) = a \o b
      BY <2>3, <2>4
    <3> HIDE DEF a, b
    <3>2. a \in Seq(Uses) /\ b \in Seq(Uses)
      BY <2>5 DEF a, b
    <3>3. ReadBy(a \o b) = ReadBy(a) \cup ReadBy(b)
      BY <3>2, ReadByConcat
    <3> QED
      BY <3>1, <3>3 DEF a, b
  <2>8. (1 .. 64 * (M * n)) \cup (64 * (M * n) + 1 .. 64 * (M * n) + 64 * M) = 1 .. 64 * (M * (n + 1))
    <3>1. M * (n + 1) = M * n + M /\ M * n \in Nat
      OBVIOUS
    <3>2. SUFFICES ASSUME NEW c \in Nat, c = M * n, M * (n + 1) = c + M
                   PROVE  (1 .. 64 * c) \cup (64 * c + 1 .. 64 * c + 64 * M) = 1 .. 64 * (c + M)
      BY <3>1
    <3> QED
      OBVIOUS
  <2>9. ReadBy(Blocks(sec, 0, n + 1)) = 1 .. 64 * (M * (n + 1))
    BY <2>2, <2>6, <2>7, <2>8
  <2> QED
    BY <2>1, <2>9
<1> HIDE DEF T
<1>3. \A k \in 0 .. q : k \in T
  BY <1>1, <1>2, Induct
<1>4. q \in T
  BY <1>3
<1> QED
  BY <1>4 DEF T

LEMMA LongReads ==
    ASSUME NEW t \in Nat, t > 240, NEW sec \in Secrets, NEW bits
    PROVE  ReadBy(finalizeLong(hashLong_internal_loop(Message(t), t, sec), sec, t, bits).uses) = 1 .. t
<1> DEFINE h == hashLong_internal_loop(Message(t), t, sec)
<1>1. SUFFICES ASSUME NEW M \in Nat, M = PerBlock(sec)
               PROVE  ReadBy(finalizeLong(h, sec, t, bits).uses) = 1 .. t
  BY SecretsType
<1>2. PICK q \in Nat, r \in Nat : UpTo(sec, t, q, r) /\ h = Mixed(sec, q, r) \o <<LastUse(sec, t)>>
  BY LoopIs DEF IsLong
<1>3. SUFFICES ASSUME NEW c \in Nat, c = M * q, 64 * (c + r) <= t - 1, t - 1 < 64 * (c + r) + 64
               PROVE  ReadBy(finalizeLong(h, sec, t, bits).uses) = 1 .. t
  <2>1. M * q \in Nat
    OBVIOUS
  <2>2. 64 * (M * q + r) <= t - 1 /\ t - 1 < 64 * (M * q + r) + 64
    BY <1>1, <1>2 DEF UpTo
  <2> HIDE DEF h
  <2> QED
    BY <2>1, <2>2
<1> HIDE DEF h
<1> DEFINE a == Blocks(sec, 0, q)
           b == Row(sec, c, 0, r)
           m == Mixed(sec, q, r)
           l == LastUse(sec, t)
<1>4. m = a \o b
  BY <1>1, <1>3 DEF Mixed
<1>5. a \in Seq(Uses) /\ b \in Seq(Uses) /\ m \in Seq(Uses)
  <2>1. 0 \in Nat
    OBVIOUS
  <2> QED
    BY <2>1, BlocksType, RowType, MixedType, Zenon
<1>6. ReadBy(a) = 1 .. 64 * c
  BY <1>1, <1>3, BlocksRead
<1>7. ReadBy(b) = 64 * c + 1 .. 64 * c + 64 * r
  BY RowReads
<1>8. l \in Uses /\ ToSet(l.in) = t - 64 + 1 .. t - 64 + 64
  <2>1. SUFFICES ASSUME NEW o \in Int, o = t - 64, NEW w \in Nat, w = 64
                 PROVE  l \in Uses /\ ToSet(l.in) = o + 1 .. o + w
    <3>1. t - 64 \in Int /\ 64 \in Nat
      OBVIOUS
    <3> HIDE DEF l
    <3> QED
      BY <3>1
  <2>2. Win(o, w) \in Seq(Int) /\ ToSet(Win(o, w)) = o + 1 .. o + w
    BY WinType, WinSet
  <2>3. l = Use(Win(o, w), sec, sec.size - 64 - 7, 64)
    BY <2>1 DEF LastUse
  <2>4. l.in = Win(o, w)
    BY <2>3 DEF Use
  <2>5. sec.size - 64 - 7 \in Int /\ 64 \in Int
    BY SecretsType
  <2>6. l \in Uses
    BY <2>2, <2>3, <2>5, UseType
  <2> QED
    BY <2>2, <2>4, <2>6
<1> HIDE DEF a, b, m, l
<1> DEFINE k == <<l>>
<1>9. k \in Seq(Uses) /\ ReadBy(k) = t - 64 + 1 .. t - 64 + 64
  <2>1. k \in Seq(Uses)
    BY <1>8
  <2>2. ReadBy(k) = ToSet(l.in)
    BY ReadByFew, Zenon
  <2> HIDE DEF k
  <2> QED
    BY <1>8, <2>1, <2>2
<1>10. h = m \o k
  BY <1>2 DEF m, l
<1> HIDE DEF k
<1>11. h \in Seq(Uses) /\ ReadBy(h) = ReadBy(m) \cup ReadBy(k)
  BY <1>5, <1>9, <1>10, ReadByConcat
<1>12. ReadBy(m) = ReadBy(a) \cup ReadBy(b)
  BY <1>4, <1>5, ReadByConcat
<1>13. ((1 .. 64 * c) \cup (64 * c + 1 .. 64 * c + 64 * r)) \cup (t - 64 + 1 .. t - 64 + 64) = 1 .. t
  BY <1>3
<1>14. ReadBy(h) = 1 .. t
  BY <1>6, <1>7, <1>9, <1>11, <1>12, <1>13
<1> DEFINE x == Use(<< >>, sec, 11, 64)
           y == Use(<< >>, sec, sec.size - 64 - 11, 64)
           one == <<x>>
           two == <<x, y>>
<1>15. x \in Uses /\ y \in Uses
  <2>1. << >> \in Seq(Int) /\ 11 \in Int /\ 64 \in Int /\ sec.size - 64 - 11 \in Int
    BY SecretsType
  <2> QED
    BY <2>1, UseType
<1>16. ToSet(x.in) = {} /\ ToSet(y.in) = {}
  BY DEF Use, ToSet
<1>17. \/ finalizeLong(h, sec, t, bits).uses = h \o one
       \/ finalizeLong(h, sec, t, bits).uses = h \o two
  BY DEF finalizeLong
<1> HIDE DEF x, y
<1>18. one \in Seq(Uses) /\ ReadBy(one) = {} /\ two \in Seq(Uses) /\ ReadBy(two) = {}
  BY <1>15, <1>16, ReadByFew
<1> HIDE DEF one, two
<1>19. ReadBy(h \o one) = ReadBy(h) /\ ReadBy(h \o two) = ReadBy(h)
  BY <1>11, <1>18, ReadByConcat
<1> QED
  BY <1>14, <1>17, <1>19

LEMMA HashReads ==
    ASSUME NEW n \in Nat, NEW seed, NEW sec \in Secrets, NEW long \in Secrets, NEW bits
    PROVE  ReadBy(XXH3_internal(Message(n), n, seed, sec, long, bits).uses) = 1 .. n
<1> DEFINE in == Message(n)
           h == XXH3_internal(in, n, seed, sec, long, bits)
<1>1. CASE n > 240
  <2>1. h = finalizeLong(hashLong_internal_loop(in, n, long), long, n, bits)
    BY <1>1 DEF XXH3_internal
  <2> QED
    BY <1>1, <2>1, LongReads
<1>2. CASE n <= 240
  <2> HIDE DEF in
  <2>1. h.uses = Short(in, n, sec, seed, bits).uses
    BY <1>2 DEF XXH3_internal
  <2>2. ReadBy(Short(in, n, sec, seed, bits).uses) = 1 .. n
    <3>1. CASE n <= 16
      <4>1. \/ Short(in, n, sec, seed, bits).uses = len_0to16_64b(in, n, sec)
            \/ Short(in, n, sec, seed, bits).uses = len_0to16_128b(in, n, sec)
        BY <3>1 DEF Short
      <4> QED
        BY <3>1, <4>1, Reads0to16 DEF in
    <3>2. CASE n \in 17 .. 128
      <4>1. Short(in, n, sec, seed, bits).uses = len_17to128(in, n, sec)
        BY <3>2 DEF Short
      <4> QED
        BY <3>2, <4>1, Reads17to128 DEF in
    <3>3. CASE n > 128
      <4>1. \/ Short(in, n, sec, seed, bits).uses = len_129to240_64b(in, n, sec)
            \/ Short(in, n, sec, seed, bits).uses = len_129to240_128b(in, n, sec)
        BY <3>3 DEF Short
      <4> QED
        BY <1>2, <3>3, <4>1, Reads129to240 DEF in
    <3> QED
      BY <3>1, <3>2, <3>3
  <2> HIDE DEF h
  <2>3. ReadBy(h.uses) = 1 .. n
    BY <2>1, <2>2
  <2> QED
    BY <2>3 DEF h, in
<1> QED
  BY <1>1, <1>2

(* A message of any length is read by each of its four hashes from its     *)
(* first byte to its last and no further.                                  *)
THEOREM EveryByteCountsHolds == Spec => []EveryByteCounts
<1>1. Hashed => EveryByteCounts
  <2>1. SUFFICES ASSUME Hashed PROVE EveryByteCounts
    OBVIOUS
  <2>2. len \in Nat
    BY <2>1 DEF Hashed
  <2>3. ASSUME NEW h \in {XXH32(Message(len)), XXH64(Message(len))}
        PROVE  Reads(h.acc \o h.tail) = 1 .. len
    BY <2>2, <2>3, EveryByteCounts32, EveryByteCounts64
  <2>4. ASSUME mode # Unset, NEW bits
        PROVE  Reads(InputsOf(XXH3(Message(len), len, mode, bits))) = 1 .. len
    <3>1. PICK seed, sec, long :
              /\ sec \in Secrets /\ long \in Secrets
              /\ \A in, n, b : XXH3(in, n, mode, b) = XXH3_internal(in, n, seed, sec, long, b)
      BY <2>1, <2>4, KindOf
    <3>2. XXH3(Message(len), len, mode, bits)
          = XXH3_internal(Message(len), len, seed, sec, long, bits)
      BY <3>1, Zenon
    <3>3. ReadBy(XXH3(Message(len), len, mode, bits).uses) = 1 .. len
      BY <2>2, <3>1, <3>2, HashReads
    <3> QED
      BY <3>3 DEF ReadBy, Ins, InputsOf
  <2> QED
    BY <2>3, <2>4 DEF EveryByteCounts, XXH3_64bits, XXH3_128bits
<1> QED
  BY <1>1, HashedInvariant, PTL
=============================================================================

------------------------------- MODULE XXHash -------------------------------
(***************************************************************************)
(* src/include/xxhash.h, the hash of log headers: XXH32, XXH64, and XXH3   *)
(* with 64 and 128 bits, of a message in one call and of the same message  *)
(* given piece by piece to a state that is reset and used again.           *)
(*                                                                         *)
(* A hash is the list of what its function mixes in: which bytes, with     *)
(* which part of which secret, in which order.  The arithmetic is left     *)
(* out, so two hashes are equal when the code computes the same formula.   *)
(* Byte i of the message is i; a byte of a buffer that is not of the       *)
(* message is Stale.  XXH3 is modelled after its scalar code.              *)
(***************************************************************************)
EXTENDS Integers, SequencesExt

CONSTANTS
    Modulus,     \* what XXH32's 32-bit total length wraps at; 2^32 in the code
    Seed,        \* the seeds other than 0
    UserSize,    \* the size of a caller's secret
    First,       \* the lengths of the first piece of a message
    Lens,        \* the lengths of the pieces after it
    MaxPieces, MaxResets    \* bounds

ASSUME XXHashAssumption ==
    /\ Modulus \in Nat /\ Modulus >= 32
    /\ UserSize \in Nat /\ UserSize >= 136     \* XXH3_SECRET_SIZE_MIN
    /\ "0" \notin Seed
    /\ First \cup Lens \subseteq Nat

VARIABLES
    s32, s64, s3,   \* XXH32_state_t, XXH64_state_t, XXH3_state_t
    len,            \* the length of the message so far
    mode,           \* how XXH3 was reset
    pieces, resets  \* how far the bounds are used

vars == <<s32, s64, s3, len, mode, pieces, resets>>

Stale == 0
Outside == -1     \* what lies beyond the input

Message(n) == [i \in 1 .. n |-> i]

(* w bytes of b from offset off.                                           *)
Bytes(b, off, w) ==
    [k \in 1 .. w |-> IF off + k \in DOMAIN b THEN b[off + k] ELSE Outside]

(* memcpy of bs to b + off.                                                *)
Copied(b, off, bs) ==
    [k \in DOMAIN b |-> IF k - off \in DOMAIN bs THEN bs[k - off] ELSE b[k]]

From(b, off) == Bytes(b, off, Len(b) - off)

-----------------------------------------------------------------------------
(* XXH32 and XXH64 with stripes of N bytes: 16 and 32.                     *)
consumeLong(acc, in, N) ==
    acc \o [k \in 1 .. Len(in) \div N |-> Bytes(in, N * (k - 1), N)]

(* The words in which XXH32_finalize takes the rest: fours, then bytes.    *)
XXH32_finalize(in, n) ==
    [k \in 1 .. n \div 4 |-> Bytes(in, 4 * (k - 1), 4)]
    \o [k \in 1 .. n % 4 |-> Bytes(in, n - (n % 4) + k - 1, 1)]

(* Eights, one four, then bytes.                                           *)
XXH64_finalize(in, n) ==
    [k \in 1 .. n \div 8 |-> Bytes(in, 8 * (k - 1), 8)]
    \o XXH32_finalize(Bytes(in, n - (n % 8), n % 8), n % 8)

(* The accumulators are merged, or the third stands for the seed.          *)
Sum(merged, acc, n, tail) == [merged |-> merged, acc |-> acc, len |-> n, tail |-> tail]

XXH32(in) ==
    LET n == Len(in) IN
    Sum(n >= 16, consumeLong(<< >>, in, 16), n % Modulus,
        XXH32_finalize(Bytes(in, n - (n % 16), n % 16), n % 16))

XXH64(in) ==
    LET n == Len(in) IN
    Sum(n >= 32, consumeLong(<< >>, in, 32), n,
        XXH64_finalize(Bytes(in, n - (n % 32), n % 32), n % 32))

ResetState(N) ==
    [acc |-> << >>, total |-> 0, large |-> FALSE, buffer |-> [k \in 1 .. N |-> Stale],
     buffered |-> 0]

(* Mutant of Fits: the buffer may be filled, as in XXH3.                   *)
FitsFull(s, n, N) == n <= N - s.buffered

Fits(s, n, N) == n < N - s.buffered

(* The buffer is filled, or completed, consumed and left with the rest.    *)
Fed(s, in, N) ==
    LET load  == IF s.buffered > 0 THEN N - s.buffered ELSE 0
        whole == Copied(s.buffer, s.buffered, Bytes(in, 0, load))
        rest  == From(in, load)
        left  == From(rest, Len(rest) - (Len(rest) % N))
    IN
    IF Fits(s, Len(in), N)
    THEN [s EXCEPT !.buffer = Copied(@, s.buffered, in), !.buffered = @ + Len(in)]
    ELSE [s EXCEPT !.acc = consumeLong(IF s.buffered > 0 THEN consumeLong(@, whole, N) ELSE @,
                                       rest, N),
                   !.buffer = Copied(IF s.buffered > 0 THEN whole ELSE @, 0, left),
                   !.buffered = Len(left)]

(* Mutant of LargeLen: forgotten when the total length wraps.              *)
LargeLenNow(s, n) == n >= 16 \/ (s.total + n) % Modulus >= 16

LargeLen(s, n) == s.large \/ n >= 16 \/ (s.total + n) % Modulus >= 16

XXH32_update(s, in) ==
    [Fed(s, in, 16) EXCEPT !.total = (@ + Len(in)) % Modulus,
                           !.large = LargeLen(s, Len(in))]

XXH64_update(s, in) == [Fed(s, in, 32) EXCEPT !.total = @ + Len(in)]

XXH32_digest(s) == Sum(s.large, s.acc, s.total, XXH32_finalize(s.buffer, s.buffered))
XXH64_digest(s) == Sum(s.total >= 32, s.acc, s.total, XXH64_finalize(s.buffer, s.total % 32))

-----------------------------------------------------------------------------
(* XXH3: a use is some bytes mixed with w bytes of a secret from offset s. *)
Use(in, sec, s, w) == [in |-> in, sec |-> sec, off |-> s, width |-> w]
mix16B(in, i, sec, s) == Use(Bytes(in, i, 16), sec, s, 16)

(* input_1, input_2 and the secret of XXH128_mix32B, which mixes both      *)
(* inputs into both halves.                                                *)
mix32B(in, i, j, sec, s) == <<mix16B(in, i, sec, s), mix16B(in, j, sec, s + 16)>>

OneToThree(in, n) == Bytes(in, 0, 1) \o Bytes(in, n \div 2, 1) \o Bytes(in, n - 1, 1)

len_0to16_64b(in, n, sec) ==
    CASE n > 8  -> <<Use(Bytes(in, 0, 8), sec, 24, 16), Use(Bytes(in, n - 8, 8), sec, 40, 16)>>
      [] n \in 4 .. 8 -> <<Use(Bytes(in, 0, 4) \o Bytes(in, n - 4, 4), sec, 8, 16)>>
      [] n \in 1 .. 3 -> <<Use(OneToThree(in, n), sec, 0, 8)>>
      [] OTHER  -> <<Use(<< >>, sec, 56, 16)>>

len_0to16_128b(in, n, sec) ==
    CASE n > 8  -> <<Use(Bytes(in, 0, 8) \o Bytes(in, n - 8, 8), sec, 32, 16),
                     Use(Bytes(in, n - 8, 8), sec, 48, 16)>>
      [] n \in 4 .. 8 -> <<Use(Bytes(in, 0, 4) \o Bytes(in, n - 4, 4), sec, 16, 16)>>
      [] n \in 1 .. 3 -> <<Use(OneToThree(in, n), sec, 0, 16)>>
      [] OTHER  -> <<Use(<< >>, sec, 64, 32)>>

(* Mutant of Reaches: one byte too late.                                   *)
ReachesLate(n, j) == n > 32 * j + 1

(* Is the j-th pair of words from both ends part of the input?             *)
Reaches(n, j) == n > 32 * j

len_17to128(in, n, sec) ==
    LET pair(j) == IF Reaches(n, j) THEN mix32B(in, 16 * j, n - 16 * (j + 1), sec, 32 * j)
                   ELSE << >>
    IN  pair(3) \o pair(2) \o pair(1) \o pair(0)

len_129to240_64b(in, n, sec) ==
    [k \in 1 .. 8 |-> mix16B(in, 16 * (k - 1), sec, 16 * (k - 1))]
    \o <<mix16B(in, n - 16, sec, 136 - 17)>>
    \o [k \in 1 .. n \div 16 - 8 |-> mix16B(in, 16 * (k + 7), sec, 16 * (k - 1) + 3)]

(* Mutant of LastOffset: the last words take the end of the secret.        *)
LastOffsetEnd == 136 - 16

LastOffset == 136 - 17 - 16

len_129to240_128b(in, n, sec) ==
    FlattenSeq([k \in 1 .. n \div 32 |->
        mix32B(in, 32 * (k - 1), 32 * k - 16, sec,
               IF k <= 4 THEN 32 * (k - 1) ELSE 3 + 32 * (k - 5))])
    \o mix32B(in, n - 16, n - 32, sec, LastOffset)

Short(in, n, sec, seed, bits) ==
    [len |-> n, seed |-> seed, uses |->
        CASE n <= 16  -> IF bits = 64 THEN len_0to16_64b(in, n, sec)
                                      ELSE len_0to16_128b(in, n, sec)
          [] n \in 17 .. 128 -> len_17to128(in, n, sec)
          [] OTHER    -> IF bits = 64 THEN len_129to240_64b(in, n, sec)
                                      ELSE len_129to240_128b(in, n, sec)]

(* The stripes from offset i, each with the secret 8 bytes further on.     *)
accumulate(in, i, sec, s, n) ==
    [k \in 1 .. n |-> Use(Bytes(in, i + 64 * (k - 1), 64), sec, s + 8 * (k - 1), 64)]

scramble(sec) == <<Use(<< >>, sec, sec.size - 64, 64)>>
PerBlock(sec) == (sec.size - 64) \div 8

(* mergeAccs over the accumulators, once for each half of the hash.        *)
finalizeLong(acc, sec, n, bits) ==
    [len |-> n, seed |-> "0", uses |-> acc \o
        (IF bits = 64 THEN <<Use(<< >>, sec, 11, 64)>>
         ELSE <<Use(<< >>, sec, 11, 64), Use(<< >>, sec, sec.size - 64 - 11, 64)>>)]

hashLong_internal_loop(in, n, sec) ==
    LET block  == 64 * PerBlock(sec)
        blocks == (n - 1) \div block
    IN  FlattenSeq([b \in 1 .. blocks |->
            accumulate(in, block * (b - 1), sec, 0, PerBlock(sec)) \o scramble(sec)])
        \o accumulate(in, block * blocks, sec, 0, (n - 1 - block * blocks) \div 64)
        \o <<Use(Bytes(in, n - 64, 64), sec, sec.size - 64 - 7, 64)>>

kSecret == [id |-> "kSecret", size |-> 192]
Custom(seed) == [id |-> seed, size |-> 192]      \* XXH3_initCustomSecret
User == [id |-> "user", size |-> UserSize]
NULL == [id |-> "NULL", size |-> 192]

(* XXH3_64bits and XXH3_128bits, without and with a secret, a seed, both.  *)
XXH3_internal(in, n, seed, sec, long, bits) ==
    IF n <= 240 THEN Short(in, n, sec, seed, bits)
    ELSE finalizeLong(hashLong_internal_loop(in, n, long), long, n, bits)

XXH3(in, n, how, bits) ==
    CASE how.kind = "default" -> XXH3_internal(in, n, "0", kSecret, kSecret, bits)
      [] how.kind = "secret"  -> XXH3_internal(in, n, "0", User, User, bits)
      [] how.kind = "seed"    -> XXH3_internal(in, n, how.seed, kSecret, Custom(how.seed), bits)
      [] how.kind = "both"    -> XXH3_internal(in, n, how.seed, kSecret, User, bits)

XXH3_64bits(in, n, how)  == XXH3(in, n, how, 64)
XXH3_128bits(in, n, how) == XXH3(in, n, how, 128)

-----------------------------------------------------------------------------
(* XXH3_reset_internal; neither the buffer nor the custom secret is        *)
(* cleared, but the bytes in the buffer are no longer of the message.      *)
reset_internal(seed, useSeed, ext, custom) ==
    [acc |-> << >>, soFar |-> 0, buffer |-> [k \in 1 .. 256 |-> Stale], buffered |-> 0,
     total |-> 0, seed |-> seed, useSeed |-> useSeed, ext |-> ext, custom |-> custom]

Secret(s) == IF s.ext.id = "NULL" THEN Custom(s.custom) ELSE s.ext

(* A block that was begun is completed and scrambled, then whole blocks,   *)
(* then a part of one.                                                     *)
consumeStripes(s, in, i, n) ==
    LET sec   == Secret(s)
        per   == PerBlock(sec)
        begun == per - s.soFar
        full  == (n - begun) \div per
        after == n - begun - per * full
    IN
    IF n < begun
    THEN [s EXCEPT !.acc = @ \o accumulate(in, i, sec, 8 * s.soFar, n), !.soFar = @ + n]
    ELSE [s EXCEPT !.acc = @ \o accumulate(in, i, sec, 8 * s.soFar, begun) \o scramble(sec)
            \o FlattenSeq([b \in 1 .. full |->
                 accumulate(in, i + 64 * (begun + per * (b - 1)), sec, 0, per)
                 \o scramble(sec)])
            \o accumulate(in, i + 64 * (begun + per * full), sec, 0, after),
                   !.soFar = after]

(* Mutant of Stripes: the last one, if it is whole, is consumed too.       *)
StripesAll(n) == n \div 64

(* All stripes of n bytes but the last, which is left at least one byte.   *)
Stripes(n) == (n - 1) \div 64

(* Mutant of Remember: what the buffer holds is left as it is.             *)
RememberNot(b, in, i) == b

(* The last stripe consumed stays at the end of the buffer.                *)
Remember(b, in, i) == Copied(b, 192, Bytes(in, i - 64, 64))

(* What completes a buffer that holds something.                           *)
LoadOf(s) == IF s.buffered > 0 THEN 256 - s.buffered ELSE 0

(* It is completed, and consumed.                                          *)
Loaded(s, in) ==
    IF s.buffered > 0
    THEN LET whole == Copied(s.buffer, s.buffered, Bytes(in, 0, LoadOf(s))) IN
         [consumeStripes(s, whole, 0, 4) EXCEPT !.buffer = whole]
    ELSE s

(* n stripes are consumed where they are.                                  *)
Direct(s, in, i, n) ==
    [consumeStripes(s, in, i, n) EXCEPT !.buffer = Remember(@, in, i + 64 * n)]

(* XXH3_update: more than fits is consumed, but for at least one byte.     *)
XXH3_update(s, in) ==
    LET n      == Len(in)
        load   == LoadOf(s)
        direct == n - load > 256
        i      == IF direct THEN load + 64 * Stripes(n - load) ELSE load
        s1     == IF direct THEN Direct(Loaded(s, in), in, load, Stripes(n - load))
                            ELSE Loaded(s, in)
    IN
    IF n <= 256 - s.buffered
    THEN [s EXCEPT !.buffer = Copied(@, s.buffered, in), !.buffered = @ + n, !.total = @ + n]
    ELSE [s1 EXCEPT !.buffer = Copied(@, 0, From(in, i)), !.buffered = n - i, !.total = @ + n]

(* The last stripe ends with the message, and begins, when the buffer has  *)
(* less than a stripe, in what was consumed before.                        *)
digest_long(s) ==
    LET sec == Secret(s)
        n   == Stripes(s.buffered)
    IN
    IF s.buffered >= 64
    THEN consumeStripes(s, s.buffer, 0, n).acc
         \o <<Use(Bytes(s.buffer, s.buffered - 64, 64), sec, sec.size - 64 - 7, 64)>>
    ELSE s.acc \o <<Use(Bytes(s.buffer, 256 - (64 - s.buffered), 64 - s.buffered)
                        \o Bytes(s.buffer, 0, s.buffered), sec, sec.size - 64 - 7, 64)>>

XXH3_digest(s, bits) ==
    IF s.total > 240 THEN finalizeLong(digest_long(s), Secret(s), s.total, bits)
    ELSE IF s.useSeed THEN XXH3(s.buffer, s.total, [kind |-> "seed", seed |-> s.seed], bits)
    ELSE XXH3_internal(s.buffer, s.total, "0", Secret(s), Secret(s), bits)

-----------------------------------------------------------------------------
Unset == [kind |-> "none"]

Init ==
    /\ s32 = ResetState(16) /\ s64 = ResetState(32)
    /\ s3 = reset_internal("0", FALSE, NULL, "none")
    /\ len = 0 /\ mode = Unset
    /\ pieces = 0 /\ resets = 0

(* A reset of all three states begins a new message.                       *)
Reset(how, seed, useSeed, ext, custom) ==
    /\ resets < MaxResets /\ resets' = resets + 1
    /\ s32' = ResetState(16) /\ s64' = ResetState(32)
    /\ s3' = reset_internal(seed, useSeed, ext, custom)
    /\ mode' = how
    /\ len' = 0 /\ pieces' = 0

ResetDefault == Reset([kind |-> "default"], "0", FALSE, kSecret, s3.custom)

(* XXH3_64bits_reset_withSecret; without one it returns an error, but only *)
(* when the state has changed.                                             *)
ResetWithSecret ==
    \/ Reset([kind |-> "secret"], "0", FALSE, User, s3.custom)
    \/ Reset(Unset, "0", FALSE, NULL, s3.custom)

(* Is the custom secret in the state not that of the seed?                 *)
Renew(seed) == seed # s3.seed \/ s3.ext.id # "NULL"

(* XXH3_64bits_reset_withSeed: the custom secret is made from the seed,    *)
(* unless the state has it.                                                *)
ResetWithSeed ==
    \E seed \in Seed :
        Reset([kind |-> "seed", seed |-> seed], seed, TRUE, NULL,
              IF Renew(seed) THEN seed ELSE s3.custom)

(* XXH3_64bits_reset_withSecretandSeed: also with 0, which counts as a seed.*)
ResetWithSecretAndSeed ==
    \E seed \in Seed \cup {"0"} :
        Reset([kind |-> "both", seed |-> seed], seed, TRUE, User, s3.custom)

(* The next piece of the message.                                          *)
Update ==
    /\ mode # Unset
    /\ pieces < MaxPieces /\ pieces' = pieces + 1
    /\ \E n \in IF pieces = 0 THEN First ELSE Lens :
        LET in == [k \in 1 .. n |-> len + k] IN
        /\ s32' = XXH32_update(s32, in)
        /\ s64' = XXH64_update(s64, in)
        /\ s3' = XXH3_update(s3, in)
        /\ len' = len + n
    /\ UNCHANGED <<mode, resets>>

Next ==
    \/ ResetDefault \/ ResetWithSecret \/ ResetWithSeed \/ ResetWithSecretAndSeed
    \/ Update

Spec == Init /\ [][Next]_vars

-----------------------------------------------------------------------------
(* The buffers hold less than they can, XXH3's at most as much, and once   *)
(* something was consumed never nothing.                                   *)
TypeOK ==
    /\ s32.buffered \in 0 .. 15 /\ s32.total \in 0 .. Modulus - 1
    /\ s64.buffered \in 0 .. 31
    /\ s3.buffered \in 0 .. 256 /\ (s3.acc # << >> => s3.buffered > 0)
    /\ s3.soFar \in 0 .. PerBlock(Secret(s3)) - 1
    /\ s3.custom \in Seed \cup {"none"}

(* A message hashes to the same value in one call and in pieces, wherever  *)
(* it is cut and whatever the state was used for before: the total length  *)
(* of XXH32 may wrap ...                                                   *)
XXH32Streams == XXH32_digest(s32) = XXH32(Message(len))

(* ... XXH64 takes the rest's length from the total ...                    *)
XXH64Streams == XXH64_digest(s64) = XXH64(Message(len))

(* ... and XXH3 mixes a last stripe that may begin in a piece that was     *)
(* consumed, with a secret that may be left from an earlier reset.         *)
XXH3Streams ==
    mode # Unset =>
        /\ XXH3_digest(s3, 64) = XXH3_64bits(Message(len), len, mode)
        /\ XXH3_digest(s3, 128) = XXH3_128bits(Message(len), len, mode)

Reads(words) == UNION {ToSet(words[k]) : k \in DOMAIN words}
InputsOf(h) == [k \in DOMAIN h.uses |-> h.uses[k].in]

(* No byte of a message is left out of its hash and none beyond it is      *)
(* read, whatever its length: each class of lengths has a function of its  *)
(* own that reads from both ends.                                          *)
EveryByteCounts ==
    /\ \A h \in {XXH32(Message(len)), XXH64(Message(len))} :
        Reads(h.acc \o h.tail) = 1 .. len
    /\ mode # Unset =>
        \A h \in {XXH3_64bits(Message(len), len, mode), XXH3_128bits(Message(len), len, mode)} :
            Reads(InputsOf(h)) = 1 .. len

(* A secret of the smallest size that is allowed has every byte that is    *)
(* mixed in.                                                               *)
SecretInside ==
    mode # Unset =>
        \A h \in {XXH3_64bits(Message(len), len, mode), XXH3_128bits(Message(len), len, mode)} :
            \A k \in DOMAIN h.uses :
                h.uses[k].off >= 0 /\ h.uses[k].off + h.uses[k].width <= h.uses[k].sec.size
=============================================================================

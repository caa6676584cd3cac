\* Messages of 37 lengths up to 257 in one piece, around the limits of every class of lengths,
\* and of up to 1457 bytes in up to three pieces; a total length that wraps at 64; the smallest
\* secret that is allowed; a state that is reset up to three times.
CONSTANTS
    Modulus = 64
    Seed = {"7", "9"}
    UserSize = 136
    First = {0, 1, 2, 3, 4, 5, 7, 8, 9, 10, 15, 16, 17, 31, 32, 33, 63, 64, 65, 95, 96, 97, 127, 128, 129, 159, 160, 161, 191, 192, 193, 239, 240, 241, 255, 256, 257}
    Lens = {1, 63, 193, 600}
    MaxPieces = 3
    MaxResets = 3
SPECIFICATION Spec
INVARIANTS TypeOK XXH32Streams XXH64Streams XXH3Streams EveryByteCounts SecretInside
CHECK_DEADLOCK FALSE

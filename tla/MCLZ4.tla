------------------------------- MODULE MCLZ4 --------------------------------
(* Calls of LZ4 for TLC: inputs made of fresh bytes and repetitions of what *)
(* came before, at the lengths and distances where the code changes paths.  *)
EXTENDS LZ4

\* l fresh bytes, m bytes that repeat those o back, and the same again, then
\* t fresh bytes.
Input(l, o, m, k, p, n, t) ==
  LET size == l + m + k + n + t
      value[i \in 0 .. (size - 1)] ==
        CASE i \in l .. (l + m - 1) -> value[i - o]
          [] i \in (l + m + k) .. (l + m + k + n - 1) -> value[i - p]
          [] OTHER -> i % 256
  IN  value

MCHash(bytes) == (bytes[1] + bytes[4]) % 7

Call(s, d, c) == [src |-> s, dstCapacity |-> d, capacity |-> c]

\* Small distances, and lengths around 14, 18 and the ends of the buffers.
Near == {Input(l, o, m, k, o, n, t) : l \in {9, 17}, o \in 1 .. 9, m \in {0, 5, 8, 20},
                                      k \in {0, 1, 15}, n \in {0, 4, 21}, t \in {5, 6, 12}}

\* Distances around U16_RANGE, in inputs around LZ4_64Klimit.
Far == {Input(l, o, m, 0, 1, 0, t) : l \in 26 .. 28, o \in 20 .. 26, m \in {4, 6}, t \in 1 .. 12}

\* Lengths beyond one byte, and inputs without a match.
Long == {Input(9, 3, m, 20, 8, 30, 20) : m \in {18, 273, 274, 290, 1100}}
        \union {Input(l, 1, 0, 0, 1, 0, 0) : l \in (0 .. 16) \union {40, 268, 269, 270, 271}}
        \union {Input(l, 17, 60, 2, 5, 40, 300) : l \in {20, 269, 270}}

\* A match that ends where strides must not be used any more.
Ending == {Input(14, 9, 32, k, p, n, t) : k \in 9 .. 12, p \in 8 .. 10, n \in 5 .. 7,
                                           t \in {8, 10, 12}}

\* The room for the block: enough, the size of the chunk as this program
\* gives, and everything around what the block needs.
Tight == {Input(20, 4, 30, 17, 9, 8, 9), Input(9, 1, 30, 0, 1, 0, 290), Input(13, 2, 8, 3, 2, 8, 7)}

MCCalls ==
  {Call(s, LZ4_compressBound(Size(s)), Size(s)) : s \in Near \union Far \union Long \union Ending}
  \union {Call(s, Size(s), Size(s)) : s \in Far \union Long}
  \union UNION {{Call(s, d, Size(s)) : d \in (0 .. 90) \union (300 .. 370)} : s \in Tight}
  \union UNION {{Call(s, LZ4_compressBound(Size(s)), Size(s) + x) :
                   x \in (-12 .. 20) \union {64, 100}} : s \in Tight}
=============================================================================

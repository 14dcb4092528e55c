-------------------------- MODULE MCShabalStream --------------------------
(* Two messages; the pieces of the program (4 to 24 words) in every order,   *)
(* and the shortest and longest that a SIMD library may be given.            *)
EXTENDS ShabalStream

SomeMessage(seed) ==
  [i \in 1 .. 72 |-> <<(i * 4099 + seed) % HALF, (i * 12907 + 77 * seed) % HALF>>]
MCMessages == {SomeMessage(3), SomeMessage(50)}

SimdPieces == {16, 20, 24, 31}
MCPieces == [sph |-> {4, 8, 10, 16, 24}, sse2 |-> SimdPieces, simd128 |-> SimdPieces,
             simd256 |-> SimdPieces, simd512 |-> SimdPieces]
MCMaxWords == [sph |-> 40, sse2 |-> 31, simd128 |-> 31, simd256 |-> 31, simd512 |-> 31]
=============================================================================

--------------------------- MODULE MShabal128Sse2 ---------------------------
(* The functions of mshabal_128_sse2.c: Shabal-256 on 4 messages at once.    *)
EXTENDS MShabal

simd128_sse2_mshabal_compress(sc, data) == Compress(4, sc, data)

simd128_sse2_mshabal_init(out_size) ==
  InitContext(4, simd128_sse2_mshabal_compress, out_size)

simd128_sse2_mshabal(sc, data, len) ==
  Update(4, simd128_sse2_mshabal_compress, sc, data, len)

-----------------------------------------------------------------------------
simd128_sse2_round_1(r, M) == Round(r, M)
simd128_sse2_rounds_2_5(r, M) == FourRounds(r, M)

\* the digests are taken from the registers, and W is set to 1 and 0 at the end
simd128_sse2_mshabal_openclose_fast(sc, u1, u2) ==
  LET end == FinalRegisters(4, simd128_sse2_round_1, simd128_sse2_rounds_2_5,
                            sc, u1, u2)
  IN  [l \in Lane(4) |-> [z \in 0 .. 1 |-> end[l].C[8 + z]]]

-----------------------------------------------------------------------------
\* one turn of the loop of procscoop_sse_fast: the inputs and the digests
sse_inputs(arg, v) == <<Inputs1(4, arg, v), Inputs2(4, arg, v)>>
sse_digests(sc, arg, v) ==
  LET u == sse_inputs(arg, v)
  IN  simd128_sse2_mshabal_openclose_fast(sc, u[1], u[2])
sse_posn(res) == BestLane(4, res)
=============================================================================

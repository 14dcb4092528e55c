----------------------------- MODULE MShabal128 -----------------------------
(* The functions of mshabal_128.c: Shabal-256 on 4 messages at once.         *)
EXTENDS MShabal

simd128_mshabal_compress(sc, data) == Compress(4, sc, data)

simd128_mshabal_init(out_size) ==
  InitContext(4, simd128_mshabal_compress, out_size)

simd128_mshabal(sc, data, len) ==
  Update(4, simd128_mshabal_compress, sc, data, len)

simd128_mshabal_close(sc) ==
  CloseContext(4, simd128_mshabal_compress, sc)

-----------------------------------------------------------------------------
simd128_round_1(r, M) == Round(r, M)
simd128_rounds_2_5(r, M) == FourRounds(r, M)

simd128_mshabal_compress_fast(sc, u1, u2) ==
  CompressFast(4, simd128_round_1, simd128_rounds_2_5, sc, u1, u2)

simd128_mshabal_openclose_fast(sc, u1, u2) ==
  Extract(4, simd128_mshabal_compress_fast(sc, u1, u2), 2)

-----------------------------------------------------------------------------
\* one turn of the loop of procscoop_avx_fast: the inputs and the digests
avx_inputs(arg, v) == <<Inputs1(4, arg, v), Inputs2(4, arg, v)>>
avx_digests(sc, arg, v) ==
  LET u == avx_inputs(arg, v)
  IN  simd128_mshabal_openclose_fast(sc, u[1], u[2])
avx_posn(res) == BestLane(4, res)
=============================================================================

----------------------------- MODULE MShabal512 -----------------------------
(* The functions of mshabal_512.c: Shabal-256 on 16 messages at once.        *)
EXTENDS MShabal

simd512_mshabal_compress(sc, data) == Compress(16, sc, data)

simd512_mshabal_init(out_size) ==
  InitContext(16, simd512_mshabal_compress, out_size)

simd512_mshabal(sc, data, len) ==
  Update(16, simd512_mshabal_compress, sc, data, len)

simd512_mshabal_close(sc) ==
  CloseContext(16, simd512_mshabal_compress, sc)

-----------------------------------------------------------------------------
simd512_round_1(r, M) == Round(r, M)
simd512_rounds_2_5(r, M) == FourRounds(r, M)

simd512_mshabal_compress_fast(sc, u1, u2) ==
  CompressFast(16, simd512_round_1, simd512_rounds_2_5, sc, u1, u2)

simd512_mshabal_openclose_fast(sc, u1, u2) ==
  Extract(16, simd512_mshabal_compress_fast(sc, u1, u2), 2)

-----------------------------------------------------------------------------
\* one turn of the loop of procscoop_avx512_fast: the inputs and the digests
avx512_inputs(arg, v) == <<Inputs1(16, arg, v), Inputs2(16, arg, v)>>
avx512_digests(sc, arg, v) ==
  LET u == avx512_inputs(arg, v)
  IN  simd512_mshabal_openclose_fast(sc, u[1], u[2])
avx512_posn(res) == BestLane(16, res)
=============================================================================

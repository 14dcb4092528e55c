----------------------------- MODULE MShabal256 -----------------------------
(* The functions of mshabal_256.c: Shabal-256 on 8 messages at once.         *)
EXTENDS MShabal

simd256_mshabal_compress(sc, data) == Compress(8, sc, data)

simd256_mshabal_init(out_size) ==
  InitContext(8, simd256_mshabal_compress, out_size)

simd256_mshabal(sc, data, len) ==
  Update(8, simd256_mshabal_compress, sc, data, len)

simd256_mshabal_close(sc) ==
  CloseContext(8, simd256_mshabal_compress, sc)

-----------------------------------------------------------------------------
simd256_round_1(r, M) == Round(r, M)
simd256_rounds_2_5(r, M) == FourRounds(r, M)

simd256_mshabal_compress_fast(sc, u1, u2) ==
  CompressFast(8, simd256_round_1, simd256_rounds_2_5, sc, u1, u2)

simd256_mshabal_openclose_fast(sc, u1, u2) ==
  Extract(8, simd256_mshabal_compress_fast(sc, u1, u2), 2)

-----------------------------------------------------------------------------
\* one turn of the loop of procscoop_avx2_fast: the inputs and the digests
avx2_inputs(arg, v) == <<Inputs1(8, arg, v), Inputs2(8, arg, v)>>
avx2_digests(sc, arg, v) ==
  LET u == avx2_inputs(arg, v)
  IN  simd256_mshabal_openclose_fast(sc, u[1], u[2])
avx2_posn(res) == BestLane(8, res)
=============================================================================

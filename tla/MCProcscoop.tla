---------------------------- MODULE MCProcscoop ----------------------------
(* Blocks with arbitrary words, under two signatures and two targets: one    *)
(* of 16 nonces, which fills the lanes of every function, and one of 10,     *)
(* which fills none but the scalar code's; behind it lie words that make     *)
(* better digests than its own.                                              *)
EXTENDS Procscoop

MCCpus == {{}, {"SSE"}, {"SSE", "AVX"}, {"SSE", "AVX", "AVX2"},
           {"SSE", "AVX", "AVX2", "AVX512"}}

SomeWord(n, j) == <<(n * 4099 + j * 7577 + 911) % HALF, (n * 12907 + j * 331 + 77) % HALF>>
SomeBlock(seed) == [n \in 0 .. 31 |-> [j \in Block |-> SomeWord(n + seed, j)]]
SomeSignature(seed) == [j \in 0 .. 7 |-> SomeWord(seed, j)]

Job(seed, csl, basetarget, target) ==
  [signature |-> SomeSignature(seed), cache |-> SomeBlock(seed),
   cache_size_local |-> csl, nonce |-> 1000, basetarget |-> basetarget,
   target_dl |-> target]

AnyDl == <<65535, 65535, 65535, 65535>>
NoDl == <<0, 0, 0, 0>>

MCJobs == {Job(3, 16, 1, AnyDl), Job(3, 10, 1, AnyDl), Job(50, 16, 32767, AnyDl),
           Job(50, 10, 70, NoDl)}
=============================================================================

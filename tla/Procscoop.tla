----------------------------- MODULE Procscoop -----------------------------
(* The choice of a hash function by create_shabal_ctx, and the hashing of    *)
(* one block of scoops by the function chosen: procscoop_sph, one nonce at a *)
(* time, or procscoop_sse, _avx, _avx2 and _avx512_fast, 4, 4, 8 and 16.     *)
EXTENDS MShabal128Sse2, MShabal128, MShabal256, MShabal512, FiniteSets

CONSTANTS
  Cpus,     \* the sets of instruction sets that cpu_init may find
  Insets,   \* the values of the option inset
  Jobs      \* the arguments (hash_arg_t) of a call

ASSUME CpusAssumption == Cpus \subseteq SUBSET {"SSE", "AVX", "AVX2", "AVX512"}
ASSUME InsetsAssumption ==
  Insets \subseteq {"", "SSE", "AVX", "AVX2", "AVX512", "DEFAULT"}

\* the places of a cache that turns of up to 16 nonces look at
Covered(size) == 16 * ((size + 15) \div 16)

\* an argument: the scoops of the nonces of a block, each one a block of
\* Shabal, and a target of eight bytes. Behind the block lies what an earlier
\* block left there or whatever follows the allocation: any words.
HashArg(job) ==
  /\ job \in [signature : [0 .. 7 -> Word], cache : {job.cache},
             cache_size_local : Nat, nonce : Nat, basetarget : Nat \ {0},
             target_dl : [1 .. 4 -> Half]]
  /\ \A n \in 0 .. Covered(job.cache_size_local) - 1 : job.cache[n] \in MessageBlock
ASSUME JobsAssumption == \A job \in Jobs : HashArg(job)

VARIABLES
  th_hash,    \* the hash function chosen, or "none"
  fast,       \* global_128_fast, global_256_fast and global_512_fast
  global_32,  \* the context of the scalar code
  at,         \* what create_shabal_ctx does next, or "returned"
  chosen,     \* the function it is about to choose, or "none"
  forced,     \* its inset is DEFAULT
  fn,         \* the function that runs, or "none"
  arg,        \* its argument
  v,          \* its loop counter
  res,        \* the digests of the last turn, the first two words of each lane
  sent        \* the reports of this call

contexts == <<th_hash, fast, global_32>>
loading == <<at, chosen, forced>>
call == <<fn, arg, v, res, sent>>
vars == <<contexts, loading, call>>

Functions == {"sph", "sse", "avx", "avx2", "avx512"}
NoJob == "no job"

\* the nonces hashed by one turn of the loop, and the context it copies
Lanes == [sph |-> 1, sse |-> 4, avx |-> 4, avx2 |-> 8, avx512 |-> 16]
ContextOf == [sse |-> 128, avx |-> 128, avx2 |-> 256, avx512 |-> 512]

\* the globals before their init
Unset(w) == [state |-> [k \in StateWords(w \div 32) |-> Zero], Wlow |-> Zero,
             Whigh |-> Zero, out_size |-> 0]

ZeroBlock == [i \in Block |-> Zero]
Unset32 ==
  [state |-> [A |-> [i \in 0 .. 11 |-> Zero], B |-> ZeroBlock, C |-> ZeroBlock,
              Wlow |-> Zero, Whigh |-> Zero],
   buf |-> ZeroBlock, ptr |-> 0]

Init ==
  /\ th_hash = "none"
  /\ fast = [w \in {128, 256, 512} |-> Unset(w)] /\ global_32 = Unset32
  /\ at = "returned" /\ chosen = "none" /\ forced = FALSE
  /\ fn = "none" /\ arg = NoJob /\ v = 0 /\ res = <<>> /\ sent = <<>>

-----------------------------------------------------------------------------
(* create_shabal_ctx. The configuration may be loaded again at any time, and *)
(* calls may run between the steps of a load. The blocks of the instruction  *)
(* sets come in the order of the code; once th_hash is set the others are    *)
(* passed over.                                                              *)

Offered(set, cpu, inset) == th_hash = "none" /\ set \in cpu /\ inset \in {"", set}

\* the context of a function is set up before the function is chosen
SetUp512(cpu, inset) ==
  /\ Offered("AVX512", cpu, inset)
  /\ fast' = [fast EXCEPT ![512] = FastContext(simd512_mshabal_init(256))]
  /\ at' = "choose" /\ chosen' = "avx512"
SetUp256(cpu, inset) ==
  /\ ~Offered("AVX512", cpu, inset) /\ Offered("AVX2", cpu, inset)
  /\ fast' = [fast EXCEPT ![256] = FastContext(simd256_mshabal_init(256))]
  /\ at' = "choose" /\ chosen' = "avx2"
SetUp128(cpu, inset) ==
  /\ \A set \in {"AVX512", "AVX2"} : ~Offered(set, cpu, inset)
  /\ Offered("AVX", cpu, inset)
  /\ fast' = [fast EXCEPT ![128] = FastContext(simd128_mshabal_init(256))]
  /\ at' = "choose" /\ chosen' = "avx"
SetUpSse(cpu, inset) ==
  /\ \A set \in {"AVX512", "AVX2", "AVX"} : ~Offered(set, cpu, inset)
  /\ Offered("SSE", cpu, inset)
  /\ fast' = [fast EXCEPT ![128] = FastContext(simd128_sse2_mshabal_init(256))]
  /\ at' = "choose" /\ chosen' = "sse"
SetUpNone(cpu, inset) ==
  /\ \A set \in {"AVX512", "AVX2", "AVX", "SSE"} : ~Offered(set, cpu, inset)
  /\ at' = "init 32" /\ UNCHANGED <<fast, chosen>>

create_shabal_ctx ==
  /\ at = "returned"
  /\ \E cpu \in Cpus, inset \in Insets :
       /\ \/ SetUp512(cpu, inset) \/ SetUp256(cpu, inset)
          \/ SetUp128(cpu, inset) \/ SetUpSse(cpu, inset)
          \/ SetUpNone(cpu, inset)
       /\ forced' = (inset = "DEFAULT")
  /\ UNCHANGED <<th_hash, global_32, call>>

\* th_hash = procscoop_avx512_fast and the like
Choose ==
  /\ at = "choose"
  /\ th_hash' = chosen /\ chosen' = "none" /\ at' = "init 32"
  /\ UNCHANGED <<fast, global_32, forced, call>>

\* sph_shabal256_init (&global_32), by every load and also under a running
\* call, which copies the same words before and after
Init32 ==
  /\ at = "init 32"
  /\ global_32' = sph_shabal256_init(global_32) /\ at' = "default"
  /\ UNCHANGED <<th_hash, fast, chosen, forced, call>>

\* nothing chosen, now or before, or forced
ChooseSph ==
  /\ at = "default"
  /\ th_hash' = IF th_hash = "none" \/ forced THEN "sph" ELSE th_hash
  /\ at' = "returned" /\ forced' = FALSE
  /\ UNCHANGED <<fast, global_32, chosen, call>>

-----------------------------------------------------------------------------
(* One call of a hash function *)

\* (*th_hash) (&arg): the pointer is read once, when the call is made
Start ==
  /\ fn = "none" /\ th_hash # "none"
  /\ fn' = th_hash /\ arg' \in Jobs
  /\ v' = 0 /\ res' = <<>> /\ sent' = <<>>
  /\ UNCHANGED <<contexts, loading>>

\* Faulty variant: the nonce of the first lane is reported.
JudgeFirstNonce(posn) ==
  LET best == Wertung(res'[posn])
      dl == Div(best, arg.basetarget)
  IN  IF Less(dl, arg.target_dl)
      THEN /\ sent' = Append(sent, [nonce |-> arg.nonce + v, best |-> best])
           /\ arg' = [arg EXCEPT !.target_dl = dl]
      ELSE UNCHANGED <<sent, arg>>

\* the end of every turn: report the best digest of the lanes and let the
\* target shrink
Judge(posn) ==
  LET best == Wertung(res'[posn])
      dl == Div(best, arg.basetarget)
  IN  IF Less(dl, arg.target_dl)
      THEN /\ sent' = Append(sent, [nonce |-> arg.nonce + v + posn, best |-> best])
           /\ arg' = [arg EXCEPT !.target_dl = dl]
      ELSE UNCHANGED <<sent, arg>>

InLoop(f) == fn = f /\ v < arg.cache_size_local
Advance(f) == v' = v + Lanes[f] /\ UNCHANGED <<fn, contexts, loading>>

\* sph_shabal256 over the 24 words of sig, with a copy of global_32
SphMessage == [i \in 1 .. 24 |-> IF i <= 8 THEN arg.signature[i - 1]
                                 ELSE arg.cache[v][i - 9]]
procscoop_sph ==
  /\ InLoop("sph")
  /\ res' = [l \in {0} |->
              [z \in 0 .. 1 |-> shabal_close(sph_shabal256(global_32, SphMessage)).dst[z]]]
  /\ Judge(0) /\ Advance("sph")
procscoop_sse_fast ==
  /\ InLoop("sse")
  /\ res' = sse_digests(fast[128], arg, v)
  /\ Judge(sse_posn(res')) /\ Advance("sse")
procscoop_avx_fast ==
  /\ InLoop("avx")
  /\ res' = avx_digests(fast[128], arg, v)
  /\ Judge(avx_posn(res')) /\ Advance("avx")
procscoop_avx2_fast ==
  /\ InLoop("avx2")
  /\ res' = avx2_digests(fast[256], arg, v)
  /\ Judge(avx2_posn(res')) /\ Advance("avx2")
procscoop_avx512_fast ==
  /\ InLoop("avx512")
  /\ res' = avx512_digests(fast[512], arg, v)
  /\ Judge(avx512_posn(res')) /\ Advance("avx512")

Return ==
  /\ fn # "none" /\ v >= arg.cache_size_local
  /\ fn' = "none" /\ arg' = NoJob /\ v' = 0 /\ res' = <<>> /\ sent' = <<>>
  /\ UNCHANGED <<contexts, loading>>

Next ==
  \/ create_shabal_ctx \/ Choose \/ Init32 \/ ChooseSph
  \/ Start
  \/ procscoop_sph \/ procscoop_sse_fast \/ procscoop_avx_fast
  \/ procscoop_avx2_fast \/ procscoop_avx512_fast
  \/ Return

Spec == Init /\ [][Next]_vars

-----------------------------------------------------------------------------
(* Properties *)

Digest == [0 .. 1 -> Word]
\* The scalar digest of nonce n of the memory block, the reference.
Reference(n) ==
  LET d == sph_shabal_openclose_fast(arg.cache[n], arg.signature)
  IN  [z \in 0 .. 1 |-> d[z + 1]]

\* The context that a call copies holds in every lane the state that Shabal
\* prescribes, for the function chosen now and for the one that still runs:
\* it was set up before the function was chosen, the first call comes after
\* that, and no later load spoils it, also not the one that sets up global_32
\* again or forces another function in between (create_shabal_ctx).
ContextReady ==
  \A f \in {th_hash, fn} \ {"none"} :
    IF f = "sph" THEN global_32.state = InitialState /\ global_32.ptr = 0
    ELSE LET sc == fast[ContextOf[f]]
         IN  /\ sc.out_size = 256
             /\ \A l \in Lane(Lanes[f]) : LoadState(Lanes[f], sc, l) = InitialState

\* Whatever the instruction set, every lane of a turn carries the digest of
\* what the cache holds at its own place, behind the end of the block too: the
\* SIMD code and the streaming scalar code compute the same function as the
\* scalar one-shot code (the transposed inputs, the rounds, the place of the
\* digest).
DigestsAgree ==
  v > 0 => \A l \in DOMAIN res : res[l] = Reference(v - Lanes[fn] + l)

\* A report names a nonce whose place in the cache has been hashed and carries
\* the digest of what the cache holds there. It names a nonce of the block
\* unless the block ends in the middle of a turn; then the places behind it
\* compete like its own (th_read only meant to warn of such a block).
ReportsTrue ==
  \A i \in DOMAIN sent :
    LET n == sent[i].nonce - arg.nonce
    IN  /\ n \in 0 .. v - 1 /\ sent[i].best = Wertung(Reference(n))
        /\ arg.cache_size_local % Lanes[fn] = 0 => n < arg.cache_size_local

\* When a call returns, no nonce of the block has a deadline below the target
\* it leaves behind, and if the target shrank, the last report has the
\* deadline it shrank to: a better nonce of the block is never passed over,
\* whether or not the block fills the lanes of its last turn.
BestReported ==
  fn # "none" /\ v >= arg.cache_size_local =>
    /\ \A n \in 0 .. arg.cache_size_local - 1 :
         ~Less(Div(Wertung(Reference(n)), arg.basetarget), arg.target_dl)
    /\ sent # <<>> =>
         Div(sent[Len(sent)].best, arg.basetarget) = arg.target_dl
=============================================================================

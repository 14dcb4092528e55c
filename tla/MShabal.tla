------------------------------ MODULE MShabal ------------------------------
(* Shabal-256 on several messages at once, one in every 32-bit lane of the   *)
(* SIMD registers. The four files mshabal_128_sse2.c, mshabal_128.c,         *)
(* mshabal_256.c and mshabal_512.c are this algorithm with 4, 4, 8 and 16    *)
(* lanes; MShabal128Sse2, MShabal128, MShabal256 and MShabal512 name their   *)
(* functions.                                                                *)
(*                                                                           *)
(* F is the number of lanes. A register is stored as F consecutive words of  *)
(* state, so word F * j + l is register j of lane l: A is registers 0 to 11, *)
(* B 12 to 27, C 28 to 43. The blocks u1 and u2 are laid out in the same way.*)
EXTENDS Shabal

Register == 0 .. 43
Lane(F) == 0 .. F - 1
StateWords(F) == 0 .. 44 * F - 1
RegisterOf(F, k) == k \div F
LaneOf(F, k) == k % F

-----------------------------------------------------------------------------
(* Between memory and registers *)

\* the registers of lane l
LoadState(F, sc, l) ==
  [A |-> [j \in 0 .. 11 |-> sc.state[F * j + l]],
   B |-> [j \in Block |-> sc.state[F * (j + 12) + l]],
   C |-> [j \in Block |-> sc.state[F * (j + 28) + l]],
   Wlow |-> sc.Wlow, Whigh |-> sc.Whigh]

RegisterWord(r, j) ==
  IF j < 12 THEN r.A[j] ELSE IF j < 28 THEN r.B[j - 12] ELSE r.C[j - 28]

\* the memory m[1] after the registers js of every lane, m[2], have been stored
Store(F, js) ==
  [m \in [StateWords(F) -> Word] \X [Lane(F) -> State] |->
    [k \in StateWords(F) |->
      IF RegisterOf(F, k) \in js THEN RegisterWord(m[2][LaneOf(F, k)], RegisterOf(F, k))
      ELSE m[1][k]]]

\* M(j) of lane l in a block that lies in memory by registers
BlockOf(F, u, l) == [j \in Block |-> u[F * j + l]]

-----------------------------------------------------------------------------
(* One round *)

\* the additions and the XOR before, the permutation, 48 PP and 36 additions
Permutation(r, M) == ApplyP(XorW(InputBlockAdd(r, M)), M)

SwapAndSub(r, M) == [r EXCEPT !.B = [j \in Block |-> Sub(r.C[j], M[j])], !.C = r.B]

\* if (sc->Wlow-- == 0) sc->Whigh--; r is a state or a context
DecrW(r) ==
  [r EXCEPT !.Wlow = Sub(@, Small(1)),
            !.Whigh = IF r.Wlow = Zero THEN Sub(@, Small(1)) ELSE @]

\* the counter W belongs to all lanes; every lane works with a copy
Round(r, M) == IncrW(SwapAndSub(Permutation(r, M), M))

-----------------------------------------------------------------------------
(* The general functions. data[l] is the memory, word by word, that the      *)
(* pointer of lane l points at. The compression of each file is a parameter, *)
(* as its functions call their own.                                          *)

AtPointer(mem) == [j \in Block |-> mem[j]]
Compress(F, sc, data) ==
  IncrW([sc EXCEPT !.state =
    Store(F, Register)[<<@, [l \in Lane(F) |->
                               Round(LoadState(F, sc, l), AtPointer(data[l]))]>>]])

\* the prefix blocks hold the numbers from out_size on
PrefixBlock(n) == [j \in Block |-> Small(n + j)]
\* Faulty variant: the buffer of the last lane is left out.
PrefixLeftOut(F, n) ==
  [l \in Lane(F) |-> IF l = F - 1 THEN [j \in Block |-> Zero] ELSE PrefixBlock(n)]
Prefix(F, n) == [l \in Lane(F) |-> PrefixBlock(n)]

\* what the prefix blocks make of a lane full of zeros is the state that
\* sph_shabal.c has precomputed; an equation without parameters
BlankLane ==
  [A |-> [j \in 0 .. 11 |-> Zero], B |-> [j \in Block |-> Zero],
   C |-> [j \in Block |-> Zero], Wlow |-> Ones, Whigh |-> Ones]
ASSUME PrefixAssumption ==
  Round(Round(BlankLane, PrefixBlock(256)), PrefixBlock(272)) = InitialState

InitContext(F, compress(_, _), out_size) ==
  LET blank == [state |-> [k \in StateWords(F) |-> Zero], Wlow |-> Ones,
                Whigh |-> Ones, buf |-> Prefix(F, 0), xbuf |-> Prefix(F, 0),
                ptr |-> 0, out_size |-> out_size]
      prefixed(sc, n) == compress([sc EXCEPT !.buf = Prefix(F, n)], Prefix(F, n))
  IN  prefixed(prefixed(blank, out_size), out_size + 16)

\* the memory n words further on
Past(F, data, n) ==
  [l \in Lane(F) |-> [j \in {i \in DOMAIN data[l] : i + n \in DOMAIN data[l]} |->
                    data[l][j + n]]]

\* memcpy(sc->buf + ptr, data, n) in every lane
Filled(F, sc, data, n) ==
  [l \in Lane(F) |-> [j \in Block |->
     IF j \in sc.ptr .. sc.ptr + n - 1 THEN data[l][j - sc.ptr] ELSE sc.buf[l][j]]]

\* num = 1: apart from the buffer exactly one block is compressed, whatever
\* len says, and xbuf is left pointing behind it
Update(F, compress(_, _), sc, data, len) ==
  LET clen == 16 - sc.ptr
      taken == IF sc.ptr = 0 THEN 0 ELSE clen
      topped == [sc EXCEPT !.buf = Filled(F, sc, data, clen)]
      ready == IF sc.ptr = 0 THEN sc ELSE compress(topped, topped.buf)
  IN  IF sc.ptr # 0 /\ clen > len
      THEN [sc EXCEPT !.buf = Filled(F, sc, data, len), !.ptr = sc.ptr + len]
      ELSE [compress(ready, Past(F, data, taken)) EXCEPT
              !.xbuf = Past(F, data, taken + 16), !.ptr = (len - taken) % 16]

\* the words from register 28 + (16 - out_size / 32) on, for every lane
Extract(F, sc, n) ==
  [l \in Lane(F) |-> [z \in 0 .. n - 1 |->
     sc.state[F * (28 + (16 - (sc.out_size \div 32)) + z) + l]]]

\* the final block is what xbuf points at; W stands still
CloseContext(F, compress(_, _), sc) ==
  LET still(c) == DecrW(compress(c, c.xbuf))
      end == still(still(still(still(sc))))
  IN  [sc |-> end, dst |-> Extract(F, end, sc.out_size \div 32)]

-----------------------------------------------------------------------------
(* The two blocks of a scoop in one call, on a context that keeps only what  *)
(* this needs. Round 1 and rounds 2 to 5 are written out in every file.      *)

FastContext(sc) ==
  [state |-> sc.state, Wlow |-> sc.Wlow, Whigh |-> sc.Whigh, out_size |-> sc.out_size]

StillRound(r, M) == DecrW(Round(r, M))
\* Faulty variant: a round is missing.
ThreeRounds(r, M) == StillRound(StillRound(StillRound(r, M), M), M)
FourRounds(r, M) == StillRound(StillRound(StillRound(StillRound(r, M), M), M), M)

\* the registers of every lane at the end
FinalRegisters(F, first(_, _), last(_, _), sc, u1, u2) ==
  [l \in Lane(F) |->
    last(first(LoadState(F, sc, l), BlockOf(F, u1, l)), BlockOf(F, u2, l))]

\* only the registers C[8] and C[9] go back to memory; W has gone up by one
CompressFast(F, first(_, _), last(_, _), sc, u1, u2) ==
  IncrW([sc EXCEPT !.state =
          Store(F, {36, 37})[<<@, FinalRegisters(F, first, last, sc, u1, u2)>>]])

-----------------------------------------------------------------------------
(* One turn of the loop of a procscoop function, on the nonces v to          *)
(* v + F - 1 of the block.                                                   *)

Inputs1(F, arg, v) ==
  [k \in 0 .. 16 * F - 1 |->
    LET j == RegisterOf(F, k)
    IN  IF j < 8 THEN arg.signature[j] ELSE arg.cache[v + LaneOf(F, k)][j - 8]]

Inputs2(F, arg, v) ==
  [k \in 0 .. 16 * F - 1 |->
    LET j == RegisterOf(F, k)
    IN  IF j < 8 THEN arg.cache[v + LaneOf(F, k)][j + 8]
        ELSE IF j = 8 THEN EndMark ELSE Zero]

\* two words read as an unsigned long long
Wertung(res) == Wide(res[1], res[0])

\* Faulty variant: every lane is compared with the first.
BestAgainstFirst(F, res) ==
  LET posn[l \in Lane(F)] ==
        IF l > 0 /\ Less(Wertung(res[l]), Wertung(res[0])) THEN l
        ELSE IF l = 0 THEN 0 ELSE posn[l - 1]
  IN  posn[F - 1]

\* the comparisons of every lane with the best of those before it
BestLane(F, res) ==
  LET posn[l \in Lane(F)] ==
        IF l = 0 THEN 0
        ELSE LET best == posn[l - 1]
             IN  IF Less(Wertung(res[l]), Wertung(res[best])) THEN l ELSE best
  IN  posn[F - 1]
=============================================================================

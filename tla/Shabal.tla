------------------------------- MODULE Shabal -------------------------------
(* The scalar Shabal-256 of sph_shabal.c: the permutation, the streaming     *)
(* interface (init, sph_shabal256, close) and the one-shot open-and-close.   *)
(* Data are sequences and functions of 32-bit words: every length the        *)
(* program hashes is a multiple of four bytes.                               *)
EXTENDS Word32

Block == 0 .. 15                    \* indices of B, C and of a message block

-----------------------------------------------------------------------------
(* The permutation. A state is a record of the words A, B, C and of the      *)
(* block counter Wlow, Whigh.                                                *)

MessageBlock == [Block -> Word]
State == [A : [0 .. 11 -> Word], B : MessageBlock, C : MessageBlock,
          Wlow : Word, Whigh : Word]

\* one PERM_ELT; k counts the 48 of them in the order of PERM_STEP_0 to _2
PermElt(s, M, k) ==
  LET a0 == k % 12
      b0 == k % 16
      B(d) == s.B[(k + d) % 16]
      mix == Times(Xor(Xor(s.A[a0], Times(Rotl(s.A[(k + 11) % 12], 15), 5)),
                       s.C[(8 - k) % 16]), 3)
      a == Xor(Xor(Xor(mix, B(13)), AndNot(B(9), B(6))), M[b0])
  IN  [s EXCEPT !.A[a0] = a, !.B[b0] = Not(Xor(Rotl(@, 1), a))]

\* PERM_STEP_0; PERM_STEP_1; PERM_STEP_2, on a state x[1] and a block x[2]
Perm == [x \in State \X MessageBlock |->
  LET after[k \in 0 .. 48] ==
        IF k = 0 THEN x[1]
        ELSE LET before == after[k - 1] IN PermElt(before, x[2], k - 1)
  IN  after[48]]

\* the 36 additions that end APPLY_P: every A[i] gets three words of C
AddC(s) ==
  [s EXCEPT !.A = [i \in 0 .. 11 |->
    Add(Add(Add(s.A[i], s.C[(i + 11) % 16]), s.C[(i + 15) % 16]),
        s.C[(i + 3) % 16])]]

ApplyP(s, M) ==
  AddC(Perm[<<[s EXCEPT !.B = [i \in Block |-> Rotl(s.B[i], 17)]], M>>])

-----------------------------------------------------------------------------
(* The mode of operation: the macros around APPLY_P. *)

InputBlockAdd(s, M) == [s EXCEPT !.B = [i \in Block |-> Add(s.B[i], M[i])]]
InputBlockSub(s, M) == [s EXCEPT !.C = [i \in Block |-> Sub(s.C[i], M[i])]]
XorW(s) == [s EXCEPT !.A[0] = Xor(@, s.Wlow), !.A[1] = Xor(@, s.Whigh)]
SwapBC(s) == [s EXCEPT !.B = s.C, !.C = s.B]
IncrW(s) ==
  [s EXCEPT !.Wlow = Add(@, Small(1)),
            !.Whigh = IF Add(s.Wlow, Small(1)) = Zero THEN Add(@, Small(1)) ELSE @]

\* what sph_shabal256 does with a full block
Absorb(s, M) ==
  IncrW(SwapBC(InputBlockSub(ApplyP(XorW(InputBlockAdd(s, M)), M), M)))

\* the last block: one round with the block added, then three rounds without
FinalRound(s, M) == ApplyP(XorW(SwapBC(s)), M)
Finalize(s, M) ==
  FinalRound(FinalRound(FinalRound(ApplyP(XorW(InputBlockAdd(s, M)), M), M), M), M)

-----------------------------------------------------------------------------
(* The precomputed initial state. *)

A_init_256 == [i \in 0 .. 11 |->
  << <<21240, 17746>>, <<58699, 31129>>, <<11662, 58348>>, <<47460, 20881>>,
     <<57351, 35718>>, <<47996, 17609>>, <<53941, 49610>>, <<45266, 60300>>,
     <<5326, 23109>>,  <<8879, 20700>>,  <<61437, 48235>>, <<60193, 46922>>
  >>[i + 1]]
B_init_256 == [i \in Block |->
  << <<46421, 50926>>, <<15985, 1430>>,  <<42794, 25903>>, <<37633, 20831>>,
     <<55848, 49658>>, <<26991, 55400>>, <<40118, 49010>>, <<2814, 16386>>,
     <<42720, 13845>>, <<20792, 49620>>, <<48673, 25350>>, <<45963, 34960>>,
     <<16040, 47467>>, <<12953, 44260>>, <<12434, 19924>>, <<21963, 13477>>
  >>[i + 1]]
C_init_256 == [i \in Block |->
  << <<46085, 61489>>, <<50211, 16058>>, <<45939, 14713>>, <<49373, 40277>>,
     <<50460, 10414>>, <<41767, 47329>>, <<22213, 24935>>, <<60769, 17459>>,
     <<34997, 40288>>, <<24802, 52922>>, <<30091, 19339>>, <<33768, 10879>>,
     <<48278, 34856>>, <<59104, 3063>>,  <<47747, 40533>>, <<39753, 7264>>
  >>[i + 1]]

-----------------------------------------------------------------------------
(* The streaming interface. A context is a state, the words that wait in buf *)
(* and their number ptr.                                                     *)

InitialState == [A |-> A_init_256, B |-> B_init_256, C |-> C_init_256,
                 Wlow |-> Small(1), Whigh |-> Zero]

\* buf is left as it was
sph_shabal256_init(sc) == [sc EXCEPT !.state = InitialState, !.ptr = 0]

\* memcpy(buf + ptr, data + from, n)
CopyIn(sc, data, from, n) ==
  [sc EXCEPT !.buf = [i \in Block |->
                       IF i \in sc.ptr .. sc.ptr + n - 1
                       THEN data[from + i - sc.ptr + 1] ELSE sc.buf[i]],
             !.ptr = @ + n]

\* Faulty variant: as if buf were empty.
ClipToBlock(sc, left) == IF 16 > left THEN left ELSE 16
\* the words that the next copy can take without overrunning buf
ClipToBuf(sc, left) == IF 16 - sc.ptr > left THEN left ELSE 16 - sc.ptr

\* one turn of the loop of sph_shabal256; off words of data are consumed
Turn(sc, data, off) ==
  LET n == ClipToBuf(sc, Len(data) - off)
      filled == CopyIn(sc, data, off, n)
  IN  [off |-> off + n,
       sc |-> IF filled.ptr = 16
              THEN [filled EXCEPT !.state = Absorb(@, filled.buf), !.ptr = 0]
              ELSE filled]

sph_shabal256(sc, data) ==
  LET after[k \in 0 .. Len(data)] ==
        IF k = 0 THEN [sc |-> sc, off |-> 0]
        ELSE LET before == after[k - 1]
             IN  IF before.off < Len(data)
                 THEN Turn(before.sc, data, before.off) ELSE before
  IN  IF Len(data) < 16 - sc.ptr THEN CopyIn(sc, data, 0, Len(data))
      ELSE after[Len(data)].sc

\* shabal_close(cc, 0, 0, dst, 8): the mark 0x80 and zeros fill buf in place,
\* and the state and ptr of the context are left as they were
EndMark == Small(128)
\* Faulty variant: what was in buf stays behind the mark.
PaddedDirty(sc) == [sc.buf EXCEPT ![sc.ptr] = EndMark]
Padded(sc) ==
  [i \in Block |-> IF i < sc.ptr THEN sc.buf[i]
                   ELSE IF i = sc.ptr THEN EndMark ELSE Zero]
DigestOf(s) == [i \in 0 .. 7 |-> s.B[8 + i]]
shabal_close(sc) ==
  [sc |-> [sc EXCEPT !.buf = Padded(sc)],
   dst |-> DigestOf(Finalize(sc.state, Padded(sc)))]

-----------------------------------------------------------------------------
(* One scoop of 16 words under a signature of 8 words, in one call.          *)

FirstBlock(scoop, sig) == [i \in Block |-> IF i < 8 THEN sig[i] ELSE scoop[i - 8]]
SecondBlock(scoop) ==
  [i \in Block |-> IF i < 8 THEN scoop[8 + i] ELSE IF i = 8 THEN EndMark ELSE Zero]

sph_shabal_openclose_fast(scoop, sig) ==
  LET end == Finalize(Absorb(InitialState, FirstBlock(scoop, sig)),
                      SecondBlock(scoop))
  IN  <<end.B[8], end.B[9]>>
=============================================================================

---------------------------- MODULE ShabalStream ----------------------------
(* The use of a Shabal context over a message that arrives in pieces: init,  *)
(* update, close, in the scalar library (kind "sph") and in the SIMD ones,   *)
(* which hash as many messages as they have lanes.                           *)
EXTENDS MShabal128Sse2, MShabal128, MShabal256, MShabal512

CONSTANTS
  Kinds,      \* the libraries used
  Pieces,     \* Pieces[kind], the lengths in words of the pieces
  MaxWords,   \* MaxWords[kind], a bound on the words of a message
  Messages    \* functions [1 .. N -> Word] that a lane may be fed

\* the number of messages that a library hashes at once
LaneCount == [sph |-> 1, sse2 |-> 4, simd128 |-> 4, simd256 |-> 8, simd512 |-> 16]

ASSUME KindsAssumption == Kinds \subseteq DOMAIN LaneCount

\* the program gives a SIMD library one piece only, of one block and a rest
ASSUME PiecesAssumption ==
  \A k \in Kinds :
    /\ Pieces[k] \subseteq Nat /\ MaxWords[k] \in Nat
    /\ k # "sph" => Pieces[k] \subseteq 16 .. 31 /\ MaxWords[k] <= 31

ASSUME MessagesAssumption ==
  \A m \in Messages : m \in Seq(Word) /\ \A k \in Kinds : MaxWords[k] <= Len(m)

VARIABLES
  kind,   \* the library, or "none"
  words,  \* words[l], all the words that lane l may be fed
  stream, \* the context
  fed,    \* the number of words fed
  dst     \* the digests after close

streamVars == <<kind, words, stream, fed, dst>>

NoContext == "no context"
Open == dst = <<>>

StreamInit ==
  /\ kind = "none" /\ words = <<>> /\ stream = NoContext
  /\ fed = 0 /\ dst = <<>>

\* a context with nothing in its memory, as sph_shabal256_init finds it
Garbage == [state |-> {}, buf |-> [i \in Block |-> Ones], ptr |-> 7]

OpenContext ==
  /\ kind = "none"
  /\ kind' \in Kinds
  /\ \E m \in [Lane(16) -> Messages] :
       /\ words' = [l \in Lane(LaneCount[kind']) |-> m[l]]
       /\ \A l \in Lane(16) : m[l] = m[l % 2]
  /\ stream' = CASE kind' = "sph" -> sph_shabal256_init(Garbage)
                 [] kind' = "sse2" -> simd128_sse2_mshabal_init(256)
                 [] kind' = "simd128" -> simd128_mshabal_init(256)
                 [] kind' = "simd256" -> simd256_mshabal_init(256)
                 [] kind' = "simd512" -> simd512_mshabal_init(256)
  /\ UNCHANGED <<fed, dst>>

-----------------------------------------------------------------------------
(* Pieces *)

\* the memory behind the pointer of a lane: the words not yet fed, then the
\* padding that the caller puts behind the message
LaneMemory(l, n) ==
  [j \in 0 .. 63 |-> LET i == fed + j
                     IN  IF i < fed + n THEN words[l][i + 1]
                         ELSE IF i = fed + n THEN EndMark ELSE Zero]

Feed ==
  /\ kind # "none" /\ Open
  /\ \E n \in Pieces[kind] :
       /\ fed + n <= MaxWords[kind]
       /\ fed' = fed + n
       /\ stream' =
            LET data == [l \in Lane(LaneCount[kind]) |-> LaneMemory(l, n)]
            IN  CASE kind = "sph" ->
                       sph_shabal256(stream, SubSeq(words[0], fed + 1, fed + n))
                  [] kind = "sse2" -> simd128_sse2_mshabal(stream, data, n)
                  [] kind = "simd128" -> simd128_mshabal(stream, data, n)
                  [] kind = "simd256" -> simd256_mshabal(stream, data, n)
                  [] kind = "simd512" -> simd512_mshabal(stream, data, n)
  /\ UNCHANGED <<kind, words, dst>>

-----------------------------------------------------------------------------
(* The end of a message *)

Ended(r) == stream' = r.sc /\ dst' = r.dst

\* mshabal_128_sse2.c has no close
Close ==
  /\ kind # "none" /\ Open
  /\ \/ kind = "sph" /\ LET r == shabal_close(stream)
                        IN  stream' = r.sc /\ dst' = [l \in {0} |-> r.dst]
     \/ kind \in {"simd128", "sse2"} /\ fed > 0 /\ Ended(simd128_mshabal_close(stream))
     \/ kind = "simd256" /\ fed > 0 /\ Ended(simd256_mshabal_close(stream))
     \/ kind = "simd512" /\ fed > 0 /\ Ended(simd512_mshabal_close(stream))
  /\ UNCHANGED <<kind, words, fed>>

\* the context is dropped; every user in the program takes a fresh copy
Drop ==
  /\ kind # "none" /\ ~Open
  /\ kind' = "none" /\ words' = <<>> /\ stream' = NoContext
  /\ fed' = 0 /\ dst' = <<>>

StreamNext == OpenContext \/ Feed \/ Close \/ Drop

StreamSpec == StreamInit /\ [][StreamNext]_streamVars

-----------------------------------------------------------------------------
(* Properties *)

\* The definition of Shabal-256: the padded message, block by block.
Padding(m) ==
  m \o <<EndMark>> \o [i \in 1 .. 15 - (Len(m) % 16) |-> Zero]
BlockAt(m, b) == [j \in Block |-> m[16 * b + j + 1]]
Shabal256(m) ==
  LET p == Padding(m)
      last == Len(p) \div 16 - 1
      after[b \in 0 .. last] ==
        IF b = 0 THEN InitialState
        ELSE LET before == after[b - 1] IN Absorb(before, BlockAt(p, b - 1))
  IN  DigestOf(Finalize(after[last], BlockAt(p, last)))

\* However a message is cut into pieces, close delivers the digest of all its
\* words, in every lane that of the lane's own message (ptr and buf carry
\* what did not fill a block).
DigestOfAllPieces ==
  ~Open => \A l \in Lane(LaneCount[kind]) :
             dst[l] = Shabal256(SubSeq(words[l], 1, fed))

\* The words that wait in buf are the last ptr words fed: nothing is lost or
\* doubled at the edge of a block (sph_shabal256).
BufHoldsTheRest ==
  kind = "sph" /\ Open =>
    /\ stream.ptr = fed % 16
    /\ \A i \in 0 .. stream.ptr - 1 : stream.buf[i] = words[0][fed - stream.ptr + i + 1]
=============================================================================

---------------------------- MODULE RBuffProofs ----------------------------
(***************************************************************************)
(* Proofs about RBuff, for every ring size, every set of bytes and every   *)
(* request length.  TypeOK /\ ClaimsFit is inductive: ClaimsFit says what  *)
(* a stale snapshot is still worth, namely that the other side only ever   *)
(* adds to the free space (the reader) or to the data (the writer).        *)
(***************************************************************************)
EXTENDS RBuff, SequenceTheorems, TLAPS

(* The free space and the data always add up to Size.                      *)
LEMMA FreeAndData ==
    ASSUME NEW r \in 0..Cap, NEW w \in 0..Cap
    PROVE  /\ FreeCount(r, w) = Size - DataCount(r, w)
           /\ DataCount(r, w) \in 0..Cap
BY SizeAssumption DEF FreeCount, DataCount, Cap

(* Writing n bytes that fit moves wp to an offset where the ring holds n   *)
(* bytes more, whether or not the block wraps.                             *)
LEMMA AdvanceWriter ==
    ASSUME NEW r \in 0..Cap, NEW w \in 0..Cap, NEW n \in Nat,
           DataCount(r, w) <= Size, w = 0 => r = 0,
           n <= FreeCount(r, w)
    PROVE  /\ Advance(w, n) \in 0..Cap
           /\ DataCount(r, Advance(w, n)) = DataCount(r, w) + n
           /\ Advance(w, n) = 0 => w = 0
BY SizeAssumption DEF FreeCount, DataCount, Cap, Advance

(* Erasing n bytes that are there moves rp to where n bytes fewer are left.*)
LEMMA AdvanceReader ==
    ASSUME NEW r \in 0..Cap, NEW w \in 0..Cap, NEW n \in Nat,
           DataCount(r, w) <= Size, w = 0 => r = 0,
           n <= DataCount(r, w)
    PROVE  /\ Advance(r, n) \in 0..Cap
           /\ DataCount(Advance(r, n), w) = DataCount(r, w) - n
           /\ w = 0 => Advance(r, n) = 0
BY SizeAssumption DEF DataCount, Cap, Advance

(* rbuff_get_write_ptrs and rbuff_get_read_ptrs name exactly the free      *)
(* bytes and the data, in ring order.                                      *)
LEMMA WritePtrsRight ==
    ASSUME NEW r \in 0..Cap, NEW w \in 0..Cap,
           DataCount(r, w) <= Size, w = 0 => r = 0
    PROVE  /\ WritePtrs(r, w).len1 + WritePtrs(r, w).len2 = FreeCount(r, w)
           /\ \A i \in 0..FreeCount(r, w)-1 : PtrAt(WritePtrs(r, w), i) = Offset(w, i)
BY SizeAssumption
   DEF WritePtrs, Ptrs, NonNeg, PtrAt, Offset, FreeCount, DataCount, Cap

LEMMA ReadPtrsRight ==
    ASSUME NEW r \in 0..Cap, NEW w \in 0..Cap,
           DataCount(r, w) <= Size, w = 0 => r = 0
    PROVE  /\ ReadPtrs(r, w).len1 + ReadPtrs(r, w).len2 = DataCount(r, w)
           /\ \A i \in 0..DataCount(r, w)-1 : PtrAt(ReadPtrs(r, w), i) = Offset(r, i)
BY SizeAssumption DEF ReadPtrs, Ptrs, PtrAt, Offset, DataCount, Cap

LEMMA IdleCalls == PutIdle \in PutCall /\ GetIdle \in GetCall
BY SizeAssumption DEF PutIdle, GetIdle, PutCall, GetCall, Cap

IInv == TypeOK /\ ClaimsFit

LEMMA InitIInv == Init => IInv
<1> SUFFICES ASSUME Init PROVE IInv
  OBVIOUS
<1>1. TypeOK
  BY SizeAssumption DEF Init, TypeOK, PutCall, GetCall, PutIdle, GetIdle, Cap
<1>2. ClaimsFit
  BY SizeAssumption DEF Init, ClaimsFit, PutIdle, GetIdle, Cap, DataCount
<1> QED BY <1>1, <1>2 DEF IInv

(* A call of rbuff_put starts from a block that fits and splits at tp.     *)
LEMMA PutBeginFits ==
    ASSUME IInv, NEW data \in Seq(Byte), NEW copy \in BOOLEAN,
           PutBegin(data, copy),
           UNCHANGED <<mem, rp, wp, get, seen>>
    PROVE  IInv'
<1> DEFINE n == Lesser(Len(data), FreeCount(rp, wp))
<1>1. /\ n \in 0..Size /\ n <= Len(data) /\ n <= FreeCount(rp, wp)
      /\ Lesser(n, Cap - wp) \in 0..Size
  <2>1. rp \in 0..Cap /\ wp \in 0..Cap /\ DataCount(rp, wp) <= Size
    BY DEF IInv, TypeOK, PutCall, GetCall, ClaimsFit
  <2>2. FreeCount(rp, wp) \in 0..Size
    <3>1. FreeCount(rp, wp) = Size - DataCount(rp, wp) /\ DataCount(rp, wp) \in 0..Cap
      BY <2>1, FreeAndData
    <3> QED BY <2>1, <3>1, SizeAssumption DEF Cap
  <2>3. Len(data) \in Nat
    OBVIOUS
  <2> QED BY <2>1, <2>2, <2>3, SizeAssumption DEF Lesser, Cap
<1>2. put' = [pc |-> "copy", len |-> n, part |-> Lesser(n, Cap - wp),
              data |-> data, copy |-> copy]
  BY DEF PutBegin
<1>3. TypeOK'
  BY <1>1, <1>2 DEF IInv, TypeOK, PutCall, GetCall, Cap
<1>4. ClaimsFit'
  BY <1>1, <1>2 DEF IInv, ClaimsFit, DataCount, FreeCount, Cap
<1> QED BY <1>3, <1>4 DEF IInv

LEMMA NextIInv == IInv /\ [Next]_vars => IInv'
<1> SUFFICES ASSUME IInv, [Next]_vars PROVE IInv'
  OBVIOUS
<1> USE DEF IInv
<1>a. /\ rp \in 0..Cap /\ wp \in 0..Cap
      /\ DataCount(rp, wp) <= Size /\ (wp = 0 => rp = 0)
      /\ DataCount(rp, wp) \in Nat
      /\ FreeCount(rp, wp) = Size - DataCount(rp, wp)
  <2>1. rp \in 0..Cap /\ wp \in 0..Cap
    BY DEF TypeOK, PutCall, GetCall
  <2>2. DataCount(rp, wp) <= Size /\ (wp = 0 => rp = 0)
    BY DEF ClaimsFit
  <2>3. DataCount(rp, wp) \in 0..Cap /\ FreeCount(rp, wp) = Size - DataCount(rp, wp)
    BY <2>1, FreeAndData
  <2> QED BY <2>1, <2>2, <2>3, SizeAssumption DEF Cap
<1>b. /\ get.len \in 0..Size /\ get.part \in 0..Size /\ get.wsnap \in 0..Cap
      /\ get.data \in Seq(Byte) /\ get.copy \in BOOLEAN /\ get.peek \in BOOLEAN
      /\ mem \in [0..Cap-1 -> Byte]
  BY DEF TypeOK, PutCall, GetCall
<1>c. get.pc \in {"copy", "wrap", "publish", "look"} =>
         /\ get.len <= DataCount(rp, get.wsnap)
         /\ DataCount(rp, get.wsnap) <= DataCount(rp, wp)
         /\ get.wsnap = 0 => rp = 0
         /\ DataCount(rp, get.wsnap) \in Nat
  <2>1. DataCount(rp, get.wsnap) \in 0..Cap
    BY <1>a, <1>b, FreeAndData
  <2> QED BY <2>1, SizeAssumption DEF ClaimsFit, Cap
<1>d. put.len \in 0..Size /\ put.part \in 0..Size /\ put.data \in Seq(Byte)
  BY DEF TypeOK, PutCall
<1>1. CASE Put
  <2>1. PICK data \in Blocks : PutBegin(data, TRUE)
    BY <1>1 DEF Put
  <2>2. data \in Seq(Byte)
    BY <2>1, MaxReqAssumption DEF Blocks
  <2> QED BY <1>1, <2>1, <2>2, PutBeginFits DEF Put
<1>2. CASE Fill
  <2>1. PICK data \in Blocks :
          /\ Len(data) <= WritePtrs(rp, wp).len1 + WritePtrs(rp, wp).len2
          /\ mem' = [a \in 0..Cap-1 |->
                IF \E i \in 0..Len(data)-1 : a = PtrAt(WritePtrs(rp, wp), i)
                THEN data[1 + CHOOSE i \in 0..Len(data)-1 : a = PtrAt(WritePtrs(rp, wp), i)]
                ELSE mem[a]]
          /\ put' = [PutIdle EXCEPT !.pc = "filled", !.data = data]
          /\ UNCHANGED <<rp, wp, get, seen>>
    BY <1>2 DEF Fill
  <2>2. data \in Seq(Byte)
    BY <2>1, MaxReqAssumption DEF Blocks
  <2>3. mem' \in [0..Cap-1 -> Byte]
    <3>1. ASSUME NEW a \in 0..Cap-1, \E i \in 0..Len(data)-1 : a = PtrAt(WritePtrs(rp, wp), i)
          PROVE  data[1 + CHOOSE i \in 0..Len(data)-1 : a = PtrAt(WritePtrs(rp, wp), i)] \in Byte
      <4> DEFINE c == CHOOSE i \in 0..Len(data)-1 : a = PtrAt(WritePtrs(rp, wp), i)
      <4>1. c \in 0..Len(data)-1
        BY <3>1
      <4>2. 1 + c \in 1..Len(data)
        BY <4>1, <2>2
      <4> QED BY <4>2, <2>2
    <3> QED BY <2>1, <3>1 DEF TypeOK, PutCall, GetCall
  <2>4. TypeOK'
    <3>1. put' \in PutCall
      BY <2>1, <2>2, IdleCalls DEF PutCall
    <3> QED BY <2>1, <2>3, <3>1 DEF TypeOK
  <2>5. Len(data) <= FreeCount(rp, wp)
    BY <2>1, <1>a, WritePtrsRight
  <2>6. ClaimsFit'
    BY <2>1, <2>5 DEF ClaimsFit, PutIdle, DataCount, FreeCount, Cap
  <2> QED BY <2>4, <2>6
<1>3. CASE Step
  BY <1>3, PutBeginFits DEF Step, TypeOK, PutCall, GetCall
<1>4. CASE PutCopy
  <2>1. put.len <= Len(put.data) /\ put.part <= put.len /\ put.part <= Cap - wp
    BY <1>4, <1>a, <1>d, SizeAssumption DEF PutCopy, ClaimsFit, Lesser, Cap
  <2>2. mem' \in [0..Cap-1 -> Byte]
    <3>1. ASSUME NEW a \in 0..Cap-1, a >= wp, a < wp + put.part
          PROVE  put.data[a - wp + 1] \in Byte
      <4>1. a - wp + 1 \in 1..Len(put.data)
        BY <2>1, <3>1, <1>a, <1>d, SizeAssumption DEF Cap
      <4> QED BY <4>1, <1>d
    <3> QED BY <1>4, <3>1, <1>b DEF PutCopy
  <2>3. TypeOK'
    BY <1>4, <2>2 DEF PutCopy, TypeOK, PutCall
  <2>4. ClaimsFit'
    BY <1>4, <2>1 DEF PutCopy, TypeOK, PutCall, ClaimsFit
  <2> QED BY <2>3, <2>4
<1>5. CASE PutWrap
  <2>1. WrapClip(put.len - put.part) = put.len - put.part
    <3>1. /\ put.len <= FreeCount(rp, wp)
          /\ put.part = Lesser(put.len, Cap - wp) /\ put.part < put.len
      BY <1>5 DEF PutWrap, ClaimsFit
    <3>2. put.len - put.part <= rp - 1
      BY <3>1, <1>a, <1>d, SizeAssumption DEF FreeCount, Lesser, Cap
    <3> QED BY <3>1, <3>2, <1>a, <1>d, SizeAssumption DEF WrapClip, Cap
  <2>2. put.len \in Nat /\ put.part \in Nat /\ put.part < put.len
        /\ put.len <= Len(put.data) /\ put.data \in Seq(Byte)
    BY <1>5, SizeAssumption DEF PutWrap, TypeOK, PutCall, GetCall, ClaimsFit
  <2>3. mem' \in [0..Cap-1 -> Byte]
    BY <1>5, <2>1, <2>2, <1>a, SizeAssumption DEF PutWrap, TypeOK, PutCall, GetCall, Cap
  <2>4. put' = [put EXCEPT !.pc = "publish", !.len = put.len]
    <3>1. put.part + (put.len - put.part) = put.len
      BY <2>2
    <3>2. put' = [put EXCEPT !.pc = "publish",
                             !.len = put.part + WrapClip(put.len - put.part)]
      BY <1>5 DEF PutWrap
    <3> QED BY <2>1, <3>1, <3>2
  <2>5. TypeOK'
    BY <1>5, <2>3, <2>4 DEF PutWrap, TypeOK, PutCall, GetCall
  <2>6. ClaimsFit'
    BY <1>5, <2>4 DEF PutWrap, TypeOK, PutCall, GetCall, ClaimsFit
  <2> QED BY <2>5, <2>6
<1>6. CASE PutPublish
  <2>1. put.len \in Nat /\ put.len <= FreeCount(rp, wp)
    BY <1>6, SizeAssumption DEF PutPublish, TypeOK, PutCall, GetCall, ClaimsFit
  <2>2. /\ wp' \in 0..Cap
        /\ DataCount(rp, wp') = DataCount(rp, wp) + put.len
        /\ wp' = 0 => wp = 0
    BY <1>6, <2>1, <1>a, AdvanceWriter DEF PutPublish
  <2>3. DataCount(rp, wp') <= Size
    BY <2>1, <2>2, <1>a, SizeAssumption
  <2>4. TypeOK'
    BY <1>6, <2>2, SizeAssumption DEF PutPublish, TypeOK, PutCall, GetCall, PutIdle
  <2>5. get.pc = "probe-lt" => wp' < rp
    BY <1>6, <2>1, <1>a, SizeAssumption DEF PutPublish, ClaimsFit, Advance, FreeCount, Cap
  <2>6. ClaimsFit'
    <3>1. get'  = get /\ rp' = rp /\ put' = PutIdle
      BY <1>6 DEF PutPublish
    <3>2. get.pc \in {"copy", "wrap", "publish", "look"} =>
             DataCount(rp, get.wsnap) <= DataCount(rp, wp')
      BY <2>1, <2>2, <1>a, <1>c
    <3>3. DataCount(rp, wp)' = DataCount(rp, wp') /\ DataCount(rp, get.wsnap)' = DataCount(rp, get.wsnap)
      BY <3>1 DEF DataCount, Cap
    <3> QED BY <3>1, <3>2, <3>3, <2>2, <2>3, <2>5 DEF ClaimsFit, PutIdle
  <2> QED BY <2>4, <2>6
<1>7. CASE Get
  <2>1. PICK n \in 1..MaxReq, copy \in BOOLEAN, peek \in BOOLEAN : GetBegin(n, copy, peek)
    BY <1>7 DEF Get
  <2> DEFINE k == Lesser(n, DataCount(rp, wp))
  <2>2. k \in 0..Size /\ k <= DataCount(rp, wp) /\ Lesser(k, Cap - rp) \in 0..Size
    BY <1>a, MaxReqAssumption, SizeAssumption DEF Lesser, DataCount, Cap
  <2>3. get' = [pc |-> "copy", len |-> k, part |-> Lesser(k, Cap - rp), wsnap |-> wp,
                data |-> <<>>, copy |-> copy, peek |-> peek]
    BY <2>1 DEF GetBegin
  <2>4. TypeOK'
    BY <1>7, <2>2, <2>3, <1>a DEF Get, TypeOK, PutCall, GetCall
  <2>5. get'.pc = "copy" /\ get'.len = k /\ get'.part = Lesser(k, Cap - rp) /\ get'.wsnap = wp
    BY <2>3
  <2>6. ClaimsFit'
    BY <1>7, <2>2, <2>5, <1>a DEF Get, ClaimsFit, DataCount, FreeCount, Cap
  <2> QED BY <2>4, <2>6
<1>8. CASE GetCopy
  <2>1. get.part \in Nat /\ get.part <= get.len /\ rp + get.part <= Cap
    BY <1>8, <1>a, <1>b, SizeAssumption DEF GetCopy, ClaimsFit, Lesser, Cap
  <2>2. [i \in 1..get.part |-> mem[rp + i - 1]] \in Seq(Byte)
    <3>1. \A i \in 1..get.part : mem[rp + i - 1] \in Byte
      BY <2>1, <1>a, <1>b, SizeAssumption DEF Cap
    <3> QED BY <2>1, <3>1
  <2>3. TypeOK'
    <3> DEFINE d == IF get.copy THEN [i \in 1..get.part |-> mem[rp + i - 1]] ELSE <<>>
               pc == IF get.part = get.len THEN "publish" ELSE "wrap"
    <3>1. d \in Seq(Byte) /\ pc \in {"publish", "wrap"}
      BY <2>2
    <3>2. get' = [get EXCEPT !.pc = pc, !.data = d]
      BY <1>8 DEF GetCopy
    <3> HIDE DEF d, pc
    <3>3. get' \in GetCall
      BY <3>1, <3>2 DEF TypeOK, GetCall
    <3> QED BY <1>8, <3>3 DEF GetCopy, TypeOK
  <2>4. ClaimsFit'
    BY <1>8, <2>1 DEF GetCopy, TypeOK, PutCall, GetCall, ClaimsFit
  <2> QED BY <2>3, <2>4
<1>9. CASE GetWrap
  <2>1. /\ get.len \in Nat /\ get.part \in Nat /\ get.wsnap \in 0..Cap
        /\ Lesser(get.len - get.part, get.wsnap) = get.len - get.part
        /\ get.len - get.part <= Cap
    <3>1. get.pc = "wrap" /\ get.part = Lesser(get.len, Cap - rp) /\ get.part < get.len
      BY <1>9 DEF GetWrap, ClaimsFit
    <3>2. get.len <= DataCount(rp, get.wsnap)
      BY <3>1, <1>c
    <3>3. get.part = Cap - rp /\ get.len > Cap - rp
      BY <3>1, <1>a, <1>b, SizeAssumption DEF Lesser, Cap
    <3>4. get.len - get.part <= get.wsnap
      BY <3>2, <3>3, <1>a, <1>b, SizeAssumption DEF DataCount, Cap
    <3> QED BY <3>1, <3>4, <1>b, SizeAssumption DEF Lesser, Cap
  <2>2. [i \in 1..(get.len - get.part) |-> mem[i - 1]] \in Seq(Byte)
    <3>1. get.len - get.part \in Nat
      BY <1>9, <1>b, SizeAssumption DEF GetWrap, ClaimsFit
    <3>2. \A i \in 1..(get.len - get.part) : mem[i - 1] \in Byte
      BY <2>1, <3>1, <1>b, SizeAssumption DEF Cap
    <3> QED BY <3>1, <3>2
  <2>3. get' = [get EXCEPT !.pc = "publish", !.len = get.len,
                  !.data = IF get.copy
                           THEN get.data \o [i \in 1..(get.len - get.part) |-> mem[i - 1]]
                           ELSE <<>>]
    <3>1. get.part + (get.len - get.part) = get.len
      BY <2>1
    <3> QED BY <1>9, <2>1, <3>1 DEF GetWrap
  <2>4. TypeOK'
    <3> DEFINE d == IF get.copy
                    THEN get.data \o [i \in 1..(get.len - get.part) |-> mem[i - 1]]
                    ELSE <<>>
    <3>1. d \in Seq(Byte)
      BY <2>2, <1>b
    <3> HIDE DEF d
    <3>2. get' = [get EXCEPT !.pc = "publish", !.len = get.len, !.data = d]
      BY <2>3 DEF d
    <3>3. get' \in GetCall
      BY <3>1, <3>2 DEF TypeOK, GetCall
    <3> QED BY <1>9, <3>3 DEF GetWrap, TypeOK
  <2>5. ClaimsFit'
    BY <1>9, <2>3 DEF GetWrap, TypeOK, PutCall, GetCall, ClaimsFit
  <2> QED BY <2>4, <2>5
<1>10. CASE GetPublish
  <2>1. get.len \in Nat /\ get.len <= DataCount(rp, wp)
    BY <1>10, <1>a, <1>b, <1>c, SizeAssumption DEF GetPublish
  <2>2. /\ rp' \in 0..Cap
        /\ DataCount(rp', wp) <= DataCount(rp, wp)
        /\ wp = 0 => rp' = 0
    <3>1. /\ Advance(rp, get.len) \in 0..Cap
          /\ DataCount(Advance(rp, get.len), wp) = DataCount(rp, wp) - get.len
          /\ wp = 0 => Advance(rp, get.len) = 0
      BY <2>1, <1>a, AdvanceReader
    <3>2. rp' = rp \/ rp' = Advance(rp, get.len)
      BY <1>10 DEF GetPublish
    <3> QED BY <3>1, <3>2, <2>1, <1>a
  <2>3. TypeOK'
    BY <1>10, <2>2, SizeAssumption DEF GetPublish, TypeOK, PutCall, GetCall, GetIdle, Cap
  <2>4. FreeCount(rp, wp) <= FreeCount(rp', wp)
    <3>1. FreeCount(rp', wp) = Size - DataCount(rp', wp) /\ DataCount(rp', wp) \in 0..Cap
      BY <2>2, <1>a, FreeAndData
    <3> QED BY <3>1, <2>2, <1>a, SizeAssumption DEF Cap
  <2>5. ClaimsFit'
    <3>1. get'  = GetIdle /\ wp' = wp /\ put' = put
      BY <1>10 DEF GetPublish
    <3>2. DataCount(rp, wp)' = DataCount(rp', wp) /\ FreeCount(rp, wp)' = FreeCount(rp', wp)
      BY <3>1 DEF DataCount, FreeCount, Cap
    <3>3. rp' \in 0..Cap /\ DataCount(rp', wp) \in Nat /\ FreeCount(rp', wp) \in Int
      BY <2>2, <1>a, FreeAndData, SizeAssumption DEF Cap
    <3>4. \A n \in Nat : n <= FreeCount(rp, wp) => n <= FreeCount(rp', wp)
      BY <3>3, <2>4, <1>a, SizeAssumption
    <3>5. put.len \in Nat /\ put.data \in Seq(Byte)
      BY SizeAssumption DEF TypeOK, PutCall
    <3>6. Len(put.data) \in Nat
      BY <3>5
    <3>7. DataCount(rp', wp) <= Size
      BY <3>3, <2>2, <1>a, SizeAssumption
    <3>8. get'.pc = "idle"
      BY <3>1 DEF GetIdle
    <3>9. put.pc = "filled" => Len(put.data) <= FreeCount(rp', wp)
      BY <3>4, <3>6 DEF ClaimsFit
    <3>10. put.pc \in {"copy", "wrap", "publish"} =>
             /\ put.len <= FreeCount(rp', wp)
             /\ put.len <= Len(put.data)
             /\ put.part = Lesser(put.len, Cap - wp)
      BY <3>4, <3>5 DEF ClaimsFit
    <3> QED BY <3>1, <3>2, <3>7, <3>8, <3>9, <3>10, <2>2 DEF ClaimsFit, Lesser, Cap
  <2> QED BY <2>3, <2>5
<1>11. CASE Look
  <2>1. ReadPtrs(rp, wp).len1 + ReadPtrs(rp, wp).len2 = DataCount(rp, wp)
    BY <1>a, ReadPtrsRight
  <2>2. get' = [GetIdle EXCEPT !.pc = "look", !.len = DataCount(rp, wp), !.wsnap = wp]
    BY <1>11, <2>1 DEF Look
  <2>3. TypeOK'
    <3>1. get' \in GetCall
      <4>1. DataCount(rp, wp) \in 0..Size
        BY <1>a, SizeAssumption
      <4> QED BY <2>2, <4>1, <1>a, IdleCalls DEF GetCall
    <3> QED BY <1>11, <3>1 DEF Look, TypeOK
  <2>4. get'.pc = "look" /\ get'.len = DataCount(rp, wp) /\ get'.wsnap = wp
    BY <2>2 DEF GetIdle
  <2>5. ClaimsFit'
    BY <1>11, <2>4, <1>a DEF Look, ClaimsFit, DataCount, FreeCount, Cap
  <2> QED BY <2>3, <2>5
<1>12. CASE LookCopy
  BY <1>12, SizeAssumption DEF LookCopy, TypeOK, PutCall, GetCall, ClaimsFit, GetIdle, DataCount, FreeCount, Cap
<1>13. CASE Probe
  <2>1. get' \in GetCall /\ get'.pc \in {"probe-ge", "probe-lt"}
        /\ (get'.pc = "probe-lt" => wp < rp)
    BY <1>13, <1>a, IdleCalls DEF Probe, GetCall, Cap
  <2>2. TypeOK'
    BY <1>13, <2>1 DEF Probe, TypeOK
  <2>3. ClaimsFit'
    BY <1>13, <2>1 DEF Probe, ClaimsFit, DataCount, FreeCount, Cap
  <2> QED BY <2>2, <2>3
<1>14. CASE ProbeEnd
  BY <1>14, SizeAssumption DEF ProbeEnd, TypeOK, PutCall, GetCall, ClaimsFit, GetIdle, DataCount, FreeCount, Cap
<1>15. CASE UNCHANGED vars
  BY <1>15 DEF vars, TypeOK, PutCall, GetCall, ClaimsFit
<1> QED BY <1>1, <1>2, <1>3, <1>4, <1>5, <1>6, <1>7, <1>8, <1>9, <1>10,
           <1>11, <1>12, <1>13, <1>14, <1>15 DEF Next, WriterStep, ReaderStep

(* Every state of rbuff.c under one writer and one reader is well typed,   *)
(* and every call in progress still fits the ring as it is now.            *)
THEOREM Invariant == Spec => []IInv
<1>1. Init => IInv
  BY InitIInv
<1>2. IInv /\ [Next]_vars => IInv'
  BY NextIInv
<1> QED BY <1>1, <1>2, PTL DEF Spec

(* The pointers stay between hp and tp, and the calls are well formed.     *)
THEOREM TypeCorrect == Spec => []TypeOK
<1>1. IInv => TypeOK
  BY DEF IInv
<1> QED BY <1>1, Invariant, PTL

(* A stale snapshot never promises more than the ring holds (ClaimsFit).   *)
THEOREM ClaimsHold == Spec => []ClaimsFit
<1>1. IInv => ClaimsFit
  BY DEF IInv
<1> QED BY <1>1, Invariant, PTL

(* The byte i of the free space and the byte j of the data are different   *)
(* bytes of the memory.                                                    *)
LEMMA FreeApartFromData ==
    ASSUME NEW r \in 0..Cap, NEW w \in 0..Cap,
           DataCount(r, w) <= Size, w = 0 => r = 0,
           NEW i \in 0..FreeCount(r, w)-1, NEW j \in 0..DataCount(r, w)-1
    PROVE  Offset(w, i) # Offset(r, j)
BY SizeAssumption DEF Offset, FreeCount, DataCount, Cap

(* The reader's snapshot of wp makes it read from the current data only.   *)
LEMMA ReadingIsData ==
    ASSUME IInv, NEW a \in Reading
    PROVE  \E j \in 0..DataCount(rp, wp)-1 : a = Offset(rp, j)
<1> USE DEF IInv
<1>1. /\ get.len \in 0..Size /\ get.wsnap \in 0..Cap /\ rp \in 0..Cap /\ wp \in 0..Cap
  BY DEF TypeOK, GetCall
<1>2. get.pc \in {"copy", "wrap", "look"} /\ get.pc \in {"copy", "wrap", "publish", "look"}
  BY DEF Reading
<1>3. /\ get.len <= DataCount(rp, get.wsnap)
      /\ DataCount(rp, get.wsnap) <= DataCount(rp, wp)
      /\ get.wsnap = 0 => rp = 0
      /\ get.pc = "look" => get.len = DataCount(rp, get.wsnap)
  BY <1>2 DEF ClaimsFit
<1>4. DataCount(rp, get.wsnap) \in Nat /\ DataCount(rp, wp) \in Nat
      /\ DataCount(rp, get.wsnap) <= Size
  <2>1. DataCount(rp, get.wsnap) \in 0..Cap /\ DataCount(rp, wp) \in 0..Cap
    BY <1>1, FreeAndData
  <2>2. DataCount(rp, wp) <= Size
    BY DEF ClaimsFit
  <2> QED BY <1>3, <2>1, <2>2, SizeAssumption DEF Cap
<1>5. PICK j \in 0..get.len-1 : a = Offset(rp, j)
  <2>1. CASE get.pc \in {"copy", "wrap"}
    BY <2>1 DEF Reading
  <2>2. CASE get.pc = "look"
    <3>1. PICK j \in 0..get.len-1 : a = PtrAt(ReadPtrs(rp, get.wsnap), j)
      BY <2>2 DEF Reading
    <3>2. PtrAt(ReadPtrs(rp, get.wsnap), j) = Offset(rp, j)
      BY <1>1, <1>3, <1>4, <2>2, <3>1, ReadPtrsRight
    <3> QED BY <3>1, <3>2
  <2> QED BY <1>2, <2>1, <2>2
<1> QED BY <1>1, <1>3, <1>4, <1>5

(* The writer's snapshot of rp, and the pointers it was given to fill the  *)
(* memory in place, make it write to the current free space only.          *)
LEMMA WritingIsFree ==
    ASSUME IInv, NEW a \in Writing \cup Filled
    PROVE  \E i \in 0..FreeCount(rp, wp)-1 : a = Offset(wp, i)
<1> USE DEF IInv
<1>1. /\ rp \in 0..Cap /\ wp \in 0..Cap /\ put.len \in Nat /\ put.data \in Seq(Byte)
  BY SizeAssumption DEF TypeOK, PutCall
<1>2. DataCount(rp, wp) <= Size /\ (wp = 0 => rp = 0)
  BY DEF ClaimsFit
<1>3. FreeCount(rp, wp) \in Int
  BY <1>1, FreeAndData, SizeAssumption DEF Cap
<1>4. CASE a \in Writing
  <2>1. put.len <= FreeCount(rp, wp)
    BY <1>4 DEF Writing, ClaimsFit
  <2>2. \E i \in 0..put.len-1 : a = Offset(wp, i)
    BY <1>4 DEF Writing
  <2> QED BY <2>1, <2>2, <1>1, <1>3
<1>5. CASE a \in Filled
  <2>1. PICK i \in 0..Len(put.data)-1 : a = PtrAt(WritePtrs(rp, wp), i)
    BY <1>5 DEF Filled
  <2>2. Len(put.data) <= FreeCount(rp, wp) /\ Len(put.data) \in Nat
    BY <1>1, <1>5 DEF Filled, ClaimsFit
  <2>3. i \in 0..FreeCount(rp, wp)-1
    BY <2>1, <2>2, <1>3
  <2> QED BY <2>1, <2>3, <1>1, <1>2, WritePtrsRight
<1> QED BY <1>4, <1>5

(* No byte is copied in and copied out at the same time: the lock-free     *)
(* ring of rbuff.c is free of data races on its contents.                  *)
THEOREM NoOverlapHolds == Spec => []NoOverlap
<1>1. IInv => NoOverlap
  <2> SUFFICES ASSUME IInv, NEW a \in Writing \cup Filled, a \in Reading
              PROVE  FALSE
    BY DEF NoOverlap
  <2>1. PICK i \in 0..FreeCount(rp, wp)-1 : a = Offset(wp, i)
    BY WritingIsFree
  <2>2. PICK j \in 0..DataCount(rp, wp)-1 : a = Offset(rp, j)
    BY ReadingIsData
  <2>3. rp \in 0..Cap /\ wp \in 0..Cap /\ DataCount(rp, wp) <= Size /\ (wp = 0 => rp = 0)
    BY DEF IInv, TypeOK, ClaimsFit
  <2> QED BY <2>1, <2>2, <2>3, FreeApartFromData
<1> QED BY <1>1, Invariant, PTL

(* The second clip of rbuff_put never bites and never underflows.          *)
THEOREM WrapRoomHolds == Spec => []WrapRoom
<1>1. IInv => WrapRoom
  <2> SUFFICES ASSUME IInv, put.pc = "wrap" PROVE rp > 0 /\ put.len - put.part <= rp - 1
    BY DEF WrapRoom
  <2>1. rp \in 0..Cap /\ wp \in 0..Cap /\ put.len \in 0..Size /\ put.part \in 0..Size
    BY DEF IInv, TypeOK, PutCall
  <2>2. put.len <= FreeCount(rp, wp) /\ put.part = Lesser(put.len, Cap - wp)
        /\ put.part < put.len
    BY DEF IInv, ClaimsFit
  <2> QED BY <2>1, <2>2, SizeAssumption DEF FreeCount, Lesser, Cap
<1> QED BY <1>1, Invariant, PTL

(* Polling with rbuff_datacount is sound although it reads wp twice.       *)
THEOREM ProbeSoundHolds == Spec => []ProbeSound
<1>1. IInv => ProbeSound
  BY SizeAssumption DEF IInv, TypeOK, ClaimsFit, ProbeSound, ProbeCount, DataCount, Cap
<1> QED BY <1>1, Invariant, PTL

(* The two zero-copy accessors agree with rbuff_put and rbuff_get.         *)
THEOREM PtrsAgreeHolds == Spec => []PtrsAgree
<1>1. IInv => PtrsAgree
  <2> SUFFICES ASSUME IInv PROVE PtrsAgree
    OBVIOUS
  <2>1. rp \in 0..Cap /\ wp \in 0..Cap /\ DataCount(rp, wp) <= Size /\ (wp = 0 => rp = 0)
    BY DEF IInv, TypeOK, ClaimsFit
  <2> QED BY <2>1, WritePtrsRight, ReadPtrsRight DEF PtrsAgree
<1> QED BY <1>1, Invariant, PTL

-----------------------------------------------------------------------------
(***************************************************************************)
(* RBuff implements ByteFifo, for every ring size, every set of bytes and  *)
(* every request length: each step of the two threads is a step of the     *)
(* queue, or leaves it alone.  The steps that count are the stores of wp   *)
(* and rp; the invariant Copied says that by then the bytes are in place.  *)
(***************************************************************************)


Memory == [0..Cap-1 -> Byte]

(* The k bytes of a memory m from offset r on.                             *)
Held(m, r, k) == [i \in 1..k |-> m[Offset(r, i - 1)]]

LEMMA OffsetInside ==
    ASSUME NEW r \in 0..Cap, NEW i \in 0..Size-1
    PROVE  Offset(r, i) \in 0..Cap-1
BY SizeAssumption DEF Offset, Cap

LEMMA HeldIsSeq ==
    ASSUME NEW m \in Memory, NEW r \in 0..Cap, NEW k \in 0..Size
    PROVE  /\ Held(m, r, k) \in Seq(Byte)
           /\ Len(Held(m, r, k)) = k
           /\ \A i \in 1..k : /\ Held(m, r, k)[i] = m[Offset(r, i - 1)]
                              /\ Held(m, r, k)[i] \in Byte
<1>1. ASSUME NEW i \in 1..k
      PROVE  m[Offset(r, i - 1)] \in Byte
  <2>1. i - 1 \in 0..Size-1
    BY SizeAssumption
  <2>2. Offset(r, i - 1) \in 0..Cap-1
    BY <2>1, OffsetInside
  <2> QED BY <2>2 DEF Memory
<1>2. Held(m, r, k) = [i \in 1..k |-> m[Offset(r, i - 1)]]
  BY DEF Held
<1>3. k \in Nat
  BY SizeAssumption
<1>4. Held(m, r, k) \in [1..k -> Byte]
  BY <1>1, <1>2
<1>5. Held(m, r, k) \in Seq(Byte) /\ Len(Held(m, r, k)) = k
  BY <1>3, <1>4
<1> QED BY <1>1, <1>2, <1>5

(* The bytes behind the data are those from wp on.                         *)
LEMMA OffsetPast ==
    ASSUME NEW r \in 0..Cap, NEW w \in 0..Cap,
           DataCount(r, w) <= Size, w = 0 => r = 0,
           NEW i \in 0..FreeCount(r, w)-1
    PROVE  Offset(r, DataCount(r, w) + i) = Offset(w, i)
BY SizeAssumption DEF Offset, DataCount, FreeCount, Cap

(* What follows n bytes from r on starts at the pointer advanced by n.     *)
LEMMA OffsetAdvanced ==
    ASSUME NEW r \in 0..Cap, NEW n \in 0..Size, NEW i \in Nat, n + i < Size
    PROVE  Offset(Advance(r, n), i) = Offset(r, n + i)
BY SizeAssumption DEF Offset, Advance, Cap

(* Two memories with the same bytes in a stretch hold the same block.      *)
LEMMA HeldSame ==
    ASSUME NEW m, NEW v, NEW r \in 0..Cap, NEW k \in 0..Size,
           \A i \in 0..k-1 : v[Offset(r, i)] = m[Offset(r, i)]
    PROVE  Held(v, r, k) = Held(m, r, k)
<1>1. \A i \in 1..k : i - 1 \in 0..k-1
  BY SizeAssumption
<1> QED BY <1>1 DEF Held

LEMMA HeldPrefix ==
    ASSUME NEW m \in Memory, NEW r \in 0..Cap, NEW k \in 0..Size, NEW n \in 0..k
    PROVE  SubSeq(Held(m, r, k), 1, n) = Held(m, r, n)
<1> DEFINE s == Held(m, r, k)  t == Held(m, r, n)
<1>1. n \in 0..Size
  BY SizeAssumption
<1>2. /\ \A i \in 1..k : s[i] = m[Offset(r, i - 1)] /\ s[i] \in Byte
      /\ t \in Seq(Byte) /\ Len(t) = n
      /\ \A i \in 1..n : t[i] = m[Offset(r, i - 1)]
  BY <1>1, HeldIsSeq
<1> HIDE DEF s, t
<1>3. \A i \in 1..n : s[i] \in Byte /\ s[i] = t[i]
  BY <1>2, SizeAssumption
<1>4. /\ SubSeq(s, 1, n) \in Seq(Byte) /\ Len(SubSeq(s, 1, n)) = n
      /\ \A i \in 1..n : SubSeq(s, 1, n)[i] = s[i]
  <2>1. 1 \in Int /\ n \in Int /\ n - 1 + 1 = n /\ (\A i \in 1..n : 1 + i - 1 = i)
        /\ (n < 1 => n = 0)
    BY <1>1, SizeAssumption
  <2>2. /\ SubSeq(s, 1, n) \in Seq(Byte)
        /\ Len(SubSeq(s, 1, n)) = IF 1 <= n THEN n - 1 + 1 ELSE 0
        /\ \A i \in 1 .. n - 1 + 1 : SubSeq(s, 1, n)[i] = s[1 + i - 1]
    BY <1>3, <2>1, SubSeqProperties
  <2> QED BY <2>1, <2>2
<1>5. SubSeq(s, 1, n) = t
  BY <1>2, <1>3, <1>4, SeqEqual
<1> QED BY <1>5 DEF s, t

LEMMA HeldRest ==
    ASSUME NEW m \in Memory, NEW r \in 0..Cap, NEW k \in 0..Size, NEW n \in 0..k
    PROVE  SubSeq(Held(m, r, k), n + 1, k) = Held(m, Advance(r, n), k - n)
<1> DEFINE s == Held(m, r, k)  t == Held(m, Advance(r, n), k - n)
           u == SubSeq(s, n + 1, k)
<1>1. /\ n \in 0..Size /\ k - n \in 0..Size /\ Advance(r, n) \in 0..Cap
      /\ k \in Nat /\ n \in Nat /\ n <= k /\ k <= Size
  BY SizeAssumption DEF Advance, Cap
<1>2. /\ \A i \in 1..k : s[i] = m[Offset(r, i - 1)] /\ s[i] \in Byte
      /\ t \in Seq(Byte) /\ Len(t) = k - n
      /\ \A i \in 1..k-n : t[i] = m[Offset(Advance(r, n), i - 1)]
  BY <1>1, HeldIsSeq
<1>3. \A i \in 1..k-n : Offset(Advance(r, n), i - 1) = Offset(r, n + i - 1)
  <2> SUFFICES ASSUME NEW i \in 1..k-n
               PROVE  Offset(Advance(r, n), i - 1) = Offset(r, n + i - 1)
    OBVIOUS
  <2>1. i - 1 \in Nat /\ n + (i - 1) < Size /\ n + (i - 1) = n + i - 1
    BY <1>1, SizeAssumption
  <2>2. Offset(Advance(r, n), i - 1) = Offset(r, n + (i - 1))
    BY <1>1, <2>1, OffsetAdvanced
  <2> QED BY <2>1, <2>2
<1> HIDE DEF s, t, u
<1>4. u \in Seq(Byte) /\ Len(u) = k - n /\ \A i \in 1..k-n : u[i] = s[n + i]
  <2>1. /\ n + 1 \in Int /\ k \in Int /\ k - (n + 1) + 1 = k - n
        /\ (\A i \in 1..k-n : n + 1 + i - 1 = n + i)
        /\ (\A i \in n+1..k : i \in 1..k)
        /\ (~(n + 1 <= k) => k - n = 0)
    BY <1>1
  <2>2. \A i \in n+1..k : s[i] \in Byte
    BY <1>2, <2>1
  <2>3. /\ u \in Seq(Byte)
        /\ Len(u) = IF n + 1 <= k THEN k - (n + 1) + 1 ELSE 0
        /\ \A i \in 1 .. k - (n + 1) + 1 : u[i] = s[n + 1 + i - 1]
    BY <2>1, <2>2, SubSeqProperties DEF u
  <2> QED BY <2>1, <2>3
<1>5. \A i \in 1..k-n : u[i] = t[i]
  <2> SUFFICES ASSUME NEW i \in 1..k-n PROVE u[i] = t[i]
    OBVIOUS
  <2>1. n + i \in 1..k
    BY <1>1
  <2>2. u[i] = s[n + i] /\ s[n + i] = m[Offset(r, n + i - 1)]
    BY <1>2, <1>4, <2>1
  <2>3. t[i] = m[Offset(Advance(r, n), i - 1)]
    BY <1>2
  <2> QED BY <1>3, <2>2, <2>3
<1>6. u = t
  BY <1>2, <1>4, <1>5, SeqEqual
<1> QED BY <1>6 DEF s, t, u

LEMMA HeldMore ==
    ASSUME NEW m \in Memory, NEW r \in 0..Cap, NEW w \in 0..Cap,
           DataCount(r, w) <= Size, w = 0 => r = 0,
           NEW n \in 0..FreeCount(r, w)
    PROVE  Held(m, r, DataCount(r, w) + n) = Held(m, r, DataCount(r, w)) \o Held(m, w, n)
<1> DEFINE d == DataCount(r, w)
           s == Held(m, r, d)  t == Held(m, w, n)  u == Held(m, r, d + n)
<1>1. FreeCount(r, w) = Size - d /\ d \in 0..Cap
  BY FreeAndData
<1>2. d \in Nat /\ n \in Nat /\ d + n <= Size /\ d \in 0..Size /\ n \in 0..Size /\ d + n \in 0..Size
  BY <1>1, SizeAssumption DEF Cap
<1>3. /\ s \in Seq(Byte) /\ Len(s) = d
      /\ \A i \in 1..d : s[i] = m[Offset(r, i - 1)]
      /\ t \in Seq(Byte) /\ Len(t) = n
      /\ \A i \in 1..n : t[i] = m[Offset(w, i - 1)]
      /\ u \in Seq(Byte) /\ Len(u) = d + n
      /\ \A i \in 1..d+n : u[i] = m[Offset(r, i - 1)]
  BY <1>2, HeldIsSeq
<1>4. \A i \in 1..n : Offset(r, d + (i - 1)) = Offset(w, i - 1)
  <2> SUFFICES ASSUME NEW i \in 1..n PROVE Offset(r, d + (i - 1)) = Offset(w, i - 1)
    OBVIOUS
  <2>1. i - 1 \in 0..FreeCount(r, w)-1
    <3> DEFINE free == FreeCount(r, w)
    <3>1. free \in Nat /\ n \in 0..free
      BY <1>1, <1>2, SizeAssumption
    <3> HIDE DEF free
    <3>2. i - 1 \in 0..free-1
      BY <3>1
    <3> QED BY <3>2 DEF free
  <2> QED BY <2>1, OffsetPast
<1> HIDE DEF s, t, u, d
<1>5. /\ s \o t \in Seq(Byte) /\ Len(s \o t) = d + n
      /\ \A i \in 1..d+n : (s \o t)[i] = IF i <= d THEN s[i] ELSE t[i - d]
  BY <1>3, ConcatProperties
<1>6. \A i \in 1..d+n : u[i] = (s \o t)[i]
  <2> SUFFICES ASSUME NEW i \in 1..d+n PROVE u[i] = (s \o t)[i]
    OBVIOUS
  <2>1. CASE i <= d
    <3>1. i \in 1..d
      BY <1>2, <2>1
    <3> QED BY <1>3, <1>5, <3>1, <2>1
  <2>2. CASE ~(i <= d)
    <3>1. i - d \in 1..n /\ d + (i - d - 1) = i - 1
      BY <1>2, <2>2
    <3>2. t[i - d] = m[Offset(w, i - d - 1)] /\ u[i] = m[Offset(r, i - 1)]
      BY <1>3, <3>1
    <3>3. Offset(r, d + (i - d - 1)) = Offset(w, i - d - 1)
      BY <1>4, <3>1
    <3>4. (s \o t)[i] = t[i - d]
      BY <1>5, <2>2
    <3> QED BY <3>1, <3>2, <3>3, <3>4
  <2> QED BY <2>1, <2>2
<1>7. u = s \o t
  BY <1>3, <1>5, <1>6, SeqEqual
<1> QED BY <1>7 DEF s, t, u, d

-----------------------------------------------------------------------------
(* What is in place already: the first n bytes of the writer's block stand *)
(* from wp on, and the reader's buffer holds the first n bytes of the data.*)
Written(n) == \A i \in 0..n-1 : mem[Offset(wp, i)] = put.data[i + 1]

CopiedIn ==
    /\ put.pc = "idle" => put.data = <<>>
    /\ put.pc # "idle" => put.data # <<>>
    /\ put.pc = "filled" => Written(Len(put.data))
    /\ put.pc \in {"copy", "wrap", "publish"} /\ put.copy = FALSE => Written(put.len)
    /\ put.pc = "wrap" => Written(put.part)
    /\ put.pc = "publish" => Written(put.len)

CopiedOut ==
    /\ get.pc = "wrap" /\ get.copy = TRUE => get.data = Held(mem, rp, get.part)
    /\ get.pc = "publish" /\ get.copy = TRUE => get.data = Held(mem, rp, get.len)

Copied == CopiedIn /\ CopiedOut

(* What IInv says of the numbers.                                          *)
LEMMA Sizes ==
    ASSUME IInv
    PROVE  /\ rp \in 0..Cap /\ wp \in 0..Cap /\ (wp = 0 => rp = 0)
           /\ DataCount(rp, wp) \in 0..Size /\ DataCount(rp, wp) <= Size
           /\ FreeCount(rp, wp) = Size - DataCount(rp, wp)
           /\ FreeCount(rp, wp) \in 0..Size
           /\ mem \in Memory
           /\ put.len \in 0..Size /\ put.part \in 0..Size
           /\ put.data \in Seq(Byte) /\ Len(put.data) \in Nat
           /\ get.len \in 0..Size /\ get.part \in 0..Size /\ get.wsnap \in 0..Cap
<1> USE DEF IInv
<1>1. rp \in 0..Cap /\ wp \in 0..Cap /\ mem \in Memory
  BY DEF TypeOK, Memory
<1>2. DataCount(rp, wp) <= Size /\ (wp = 0 => rp = 0)
  BY DEF ClaimsFit
<1>3. DataCount(rp, wp) \in 0..Cap /\ FreeCount(rp, wp) = Size - DataCount(rp, wp)
  BY <1>1, FreeAndData
<1>4. DataCount(rp, wp) \in 0..Size /\ FreeCount(rp, wp) \in 0..Size
  BY <1>2, <1>3, SizeAssumption DEF Cap
<1>5. /\ put.len \in 0..Size /\ put.part \in 0..Size
      /\ put.data \in Seq(Byte) /\ Len(put.data) \in Nat
  BY DEF TypeOK, PutCall
<1>6. get.len \in 0..Size /\ get.part \in 0..Size /\ get.wsnap \in 0..Cap
  BY DEF TypeOK, GetCall
<1> QED BY <1>1, <1>2, <1>3, <1>4, <1>5, <1>6

LEMMA OffsetInjective ==
    ASSUME NEW r \in 0..Cap, NEW i \in 0..Size-1, NEW k \in 0..Size-1,
           Offset(r, i) = Offset(r, k)
    PROVE  i = k
BY SizeAssumption DEF Offset, Cap

LEMMA OffsetAhead ==
    ASSUME NEW r \in 0..Cap, NEW a \in 0..Cap-1, a >= r
    PROVE  Offset(r, a - r) = a
BY SizeAssumption DEF Offset, Cap

LEMMA OffsetBehind ==
    ASSUME NEW r \in 0..Cap, NEW i \in Nat, i >= Cap - r
    PROVE  Offset(r, i) = i - (Cap - r)
BY SizeAssumption DEF Offset, Cap

LEMMA ContentsHeld == Contents = Held(mem, rp, DataCount(rp, wp))
BY DEF Contents, Held

(* A step of the writer that only touches free bytes, and moves no         *)
(* pointer, changes neither the contents nor what the reader has copied.   *)
LEMMA Frame ==
    ASSUME IInv, CopiedOut, UNCHANGED <<rp, wp, get>>,
           \A j \in 0..DataCount(rp, wp)-1 : mem'[Offset(rp, j)] = mem[Offset(rp, j)]
    PROVE  Contents' = Contents /\ CopiedOut'
<1> DEFINE d == DataCount(rp, wp)
<1>1. d \in 0..Size /\ rp \in 0..Cap /\ rp' = rp /\ wp' = wp /\ get' = get
  BY Sizes
<1>2. \A j \in 0..d-1 : mem'[Offset(rp, j)] = mem[Offset(rp, j)]
  OBVIOUS
<1>3. Contents' = Held(mem', rp, d) /\ Contents = Held(mem, rp, d)
  BY <1>1 DEF Contents, Held, DataCount, Cap, Offset
<1>4. Held(mem', rp, d) = Held(mem, rp, d)
  BY <1>1, <1>2, HeldSame
<1>5. ASSUME NEW k \in 0..Size, k <= d PROVE Held(mem', rp, k) = Held(mem, rp, k)
  <2>1. \A j \in 0..k-1 : j \in 0..d-1
    BY <1>1, <1>5
  <2> QED BY <1>1, <1>2, <2>1, HeldSame
<1>6. Held(mem, rp, get.part)' = Held(mem', rp, get.part)
      /\ Held(mem, rp, get.len)' = Held(mem', rp, get.len)
  BY <1>1 DEF Held, Offset, Cap
<1>7. get.pc \in {"wrap", "publish"} => get.len <= d /\ get.part <= d
  <2> HAVE get.pc \in {"wrap", "publish"}
  <2>1. /\ get.len <= DataCount(rp, get.wsnap) /\ DataCount(rp, get.wsnap) <= d
        /\ get.part = Lesser(get.len, Cap - rp)
    BY DEF IInv, ClaimsFit
  <2>2. DataCount(rp, get.wsnap) \in 0..Cap /\ get.len \in 0..Size /\ rp \in 0..Cap
    BY Sizes, FreeAndData
  <2>3. ASSUME NEW x \in 0..Cap, get.len <= x, x <= d,
               get.part = Lesser(get.len, Cap - rp)
        PROVE  get.len <= d /\ get.part <= d
    BY <1>1, <2>2, <2>3, SizeAssumption DEF Lesser, Cap
  <2> QED BY <2>1, <2>2, <2>3
<1>8. get.len \in 0..Size /\ get.part \in 0..Size
  BY Sizes
<1>9. CopiedOut'
  BY <1>1, <1>5, <1>6, <1>7, <1>8 DEF CopiedOut
<1> QED BY <1>3, <1>4, <1>9

-----------------------------------------------------------------------------
(* The steps of the writer *)

(* A step that changes no memory and no pointer.                           *)
LEMMA SameMemory ==
    ASSUME IInv, CopiedOut, UNCHANGED <<mem, rp, wp, get>>
    PROVE  Contents' = Contents /\ CopiedOut'
BY Frame

LEMMA FillStep ==
    ASSUME IInv, Copied, Fill
    PROVE  /\ Contents' = Contents /\ Copied'
           /\ put.data = <<>> /\ put'.data \in Seq(Byte) \ {<<>>} /\ seen' = seen
<1>1. PICK data \in Blocks :
        /\ Len(data) <= WritePtrs(rp, wp).len1 + WritePtrs(rp, wp).len2
        /\ mem' = [a \in 0..Cap-1 |->
              IF \E i \in 0..Len(data)-1 : a = PtrAt(WritePtrs(rp, wp), i)
              THEN data[1 + CHOOSE i \in 0..Len(data)-1 : a = PtrAt(WritePtrs(rp, wp), i)]
              ELSE mem[a]]
        /\ put' = [PutIdle EXCEPT !.pc = "filled", !.data = data]
        /\ UNCHANGED <<rp, wp, get, seen>>
  BY DEF Fill
<1>2. data \in Seq(Byte) /\ data # <<>> /\ Len(data) \in Nat
  BY <1>1, MaxReqAssumption DEF Blocks
<1>3. put'.pc = "filled" /\ put'.data = data
  BY <1>1 DEF PutIdle
<1> DEFINE ps == WritePtrs(rp, wp)  free == FreeCount(rp, wp)
<1>4. /\ ps.len1 + ps.len2 = free
      /\ \A i \in 0..free-1 : PtrAt(ps, i) = Offset(wp, i)
  BY Sizes, WritePtrsRight
<1>5. free \in 0..Size /\ Len(data) <= free /\ wp \in 0..Cap
  BY <1>1, <1>4, Sizes
<1>6. \A i \in 0..Len(data)-1 : i \in 0..free-1 /\ i \in 0..Size-1
  BY <1>2, <1>5, SizeAssumption
<1>7. ASSUME NEW i \in 0..Len(data)-1
      PROVE  mem'[Offset(wp, i)] = data[i + 1]
  <2> DEFINE a == Offset(wp, i)
             c == CHOOSE k \in 0..Len(data)-1 : a = PtrAt(ps, k)
  <2>1. a = PtrAt(ps, i) /\ a \in 0..Cap-1
    BY <1>4, <1>5, <1>6, OffsetInside
  <2>2. c \in 0..Len(data)-1 /\ a = PtrAt(ps, c)
    BY <2>1
  <2> HIDE DEF c
  <2>3. a = Offset(wp, c)
    BY <2>2, <1>4, <1>6
  <2>4. c = i
    BY <2>2, <2>3, <1>5, <1>6, OffsetInjective
  <2>5. mem'[a] = data[1 + c]
    BY <1>1, <2>1 DEF c
  <2>6. 1 + c = i + 1
    BY <2>4
  <2> QED BY <2>5, <2>6
<1>8. ASSUME NEW j \in 0..DataCount(rp, wp)-1
      PROVE  mem'[Offset(rp, j)] = mem[Offset(rp, j)]
  <2> DEFINE a == Offset(rp, j)
  <2>1. a \in 0..Cap-1
    <3>1. j \in 0..Size-1 /\ rp \in 0..Cap
      BY Sizes, SizeAssumption
    <3> QED BY <3>1, OffsetInside
  <2>2. \A i \in 0..free-1 : a # Offset(wp, i)
    <3> SUFFICES ASSUME NEW i \in 0..free-1 PROVE Offset(wp, i) # Offset(rp, j)
      OBVIOUS
    <3> QED BY Sizes, FreeApartFromData
  <2>3. ~(\E i \in 0..Len(data)-1 : a = PtrAt(ps, i))
    BY <1>4, <1>6, <2>2
  <2> QED BY <1>1, <2>1, <2>3
<1>9. Contents' = Contents /\ CopiedOut'
  BY <1>1, <1>8, Frame DEF Copied
<1>10. CopiedIn'
  <2>1. Written(Len(put.data))'
    BY <1>1, <1>3, <1>7 DEF Written, Offset, Cap
  <2> QED BY <1>2, <1>3, <2>1 DEF CopiedIn
<1> QED BY <1>1, <1>2, <1>3, <1>9, <1>10 DEF Copied, CopiedIn, Fill

(* A call of rbuff_put begins, with a block that is in place or is not.    *)
LEMMA PutStep ==
    ASSUME IInv, Copied, Put
    PROVE  /\ Contents' = Contents /\ Copied'
           /\ put.data = <<>> /\ put'.data \in Seq(Byte) \ {<<>>} /\ seen' = seen
<1>1. PICK data \in Blocks : PutBegin(data, TRUE)
  BY DEF Put
<1>2. data \in Seq(Byte) /\ data # <<>>
  BY <1>1, MaxReqAssumption DEF Blocks
<1>3. put'.pc = "copy" /\ put'.data = data /\ put'.copy = TRUE
  BY <1>1 DEF PutBegin
<1>4. UNCHANGED <<mem, rp, wp, get, seen>> /\ put.pc = "idle"
  BY DEF Put
<1>5. Contents' = Contents /\ CopiedOut'
  BY <1>4, SameMemory DEF Copied
<1>6. CopiedIn'
  BY <1>2, <1>3 DEF CopiedIn
<1> QED BY <1>2, <1>3, <1>4, <1>5, <1>6 DEF Copied, CopiedIn

LEMMA StepStep ==
    ASSUME IInv, Copied, Step
    PROVE  Contents' = Contents /\ Copied' /\ put'.data = put.data /\ seen' = seen
<1> DEFINE n == Lesser(Len(put.data), FreeCount(rp, wp))
<1>1. /\ put'.pc = "copy" /\ put'.data = put.data /\ put'.copy = FALSE /\ put'.len = n
      /\ UNCHANGED <<mem, rp, wp, get, seen>> /\ put.pc = "filled"
  BY DEF Step, PutBegin
<1>2. Contents' = Contents /\ CopiedOut'
  BY <1>1, SameMemory DEF Copied
<1>3. Written(Len(put.data)) /\ put.data # <<>>
  BY <1>1 DEF Copied, CopiedIn
<1>4. n \in Int /\ n <= Len(put.data) /\ Len(put.data) \in Nat
  BY Sizes DEF Lesser
<1> HIDE DEF n
<1>5. \A i \in 0..n-1 : i \in 0..Len(put.data)-1
  BY <1>4
<1>6. Written(put.len)'
  BY <1>1, <1>3, <1>5 DEF Written, Offset, Cap
<1>7. CopiedIn'
  BY <1>1, <1>3, <1>6 DEF CopiedIn
<1> QED BY <1>1, <1>2, <1>7 DEF Copied

LEMMA PutCopyStep ==
    ASSUME IInv, Copied, PutCopy
    PROVE  Contents' = Contents /\ Copied' /\ put'.data = put.data /\ seen' = seen
<1> DEFINE part == put.part  len == put.len  free == FreeCount(rp, wp)
<1>1. /\ mem' = [a \in 0..Cap-1 |-> IF put.copy /\ a >= wp /\ a < wp + part
                                    THEN put.data[a - wp + 1] ELSE mem[a]]
      /\ put'.pc = (IF part = len THEN "publish" ELSE "wrap")
      /\ put'.data = put.data /\ put'.len = len /\ put'.part = part /\ put'.copy = put.copy
      /\ UNCHANGED <<rp, wp, get, seen>> /\ put.pc = "copy"
  <2>1. put \in PutCall
    BY DEF IInv, TypeOK
  <2> QED BY <2>1 DEF PutCopy, PutCall
<1>2. len <= free /\ part = Lesser(len, Cap - wp)
  BY <1>1 DEF IInv, ClaimsFit
<1>3. /\ part \in Nat /\ len \in Nat /\ wp \in 0..Cap /\ free \in 0..Size /\ len <= Size
      /\ part <= len /\ wp + part <= Cap
  <2>1. part \in 0..Size /\ len \in 0..Size /\ wp \in 0..Cap /\ free \in 0..Size
    BY Sizes
  <2> QED BY <1>2, <2>1, SizeAssumption DEF Lesser, Cap
<1>4. put.copy \in BOOLEAN
  BY DEF IInv, TypeOK, PutCall
<1>5. ASSUME NEW j \in 0..DataCount(rp, wp)-1
      PROVE  mem'[Offset(rp, j)] = mem[Offset(rp, j)]
  <2> DEFINE a == Offset(rp, j)
  <2>1. a \in 0..Cap-1
    <3>1. j \in 0..Size-1 /\ rp \in 0..Cap
      BY Sizes, SizeAssumption
    <3> QED BY <3>1, OffsetInside
  <2>2. \A i \in 0..free-1 : Offset(wp, i) # a
    <3> SUFFICES ASSUME NEW i \in 0..free-1 PROVE Offset(wp, i) # Offset(rp, j)
      OBVIOUS
    <3> QED BY Sizes, FreeApartFromData
  <2> HIDE DEF a, part, len, free
  <2>3. ~(a >= wp /\ a < wp + part)
    <3> SUFFICES ASSUME a >= wp, a < wp + part PROVE FALSE
      OBVIOUS
    <3>1. a - wp \in 0..free-1
      BY <1>2, <1>3, <2>1 DEF Cap
    <3>2. Offset(wp, a - wp) = a
      BY <1>3, <2>1, OffsetAhead
    <3> QED BY <2>2, <3>1, <3>2
  <2>4. mem'[a] = mem[a]
    BY <1>1, <2>1, <2>3
  <2> QED BY <2>4 DEF a
<1>6. Contents' = Contents /\ CopiedOut'
  BY <1>1, <1>5, Frame DEF Copied
<1>7. put.copy = TRUE => \A i \in 0..part-1 : mem'[Offset(wp, i)] = put.data[i + 1]
  <2> SUFFICES ASSUME put.copy = TRUE, NEW i \in 0..part-1
               PROVE  mem'[Offset(wp, i)] = put.data[i + 1]
    OBVIOUS
  <2> HIDE DEF part, len, free
  <2> DEFINE x == Offset(wp, i)
  <2>1. x \in 0..Cap-1 /\ x >= wp /\ x < wp + part /\ x - wp + 1 = i + 1
    BY <1>3, SizeAssumption DEF Offset, Cap
  <2> HIDE DEF x
  <2>2. mem'[x] = IF put.copy /\ x >= wp /\ x < wp + part
                  THEN put.data[x - wp + 1] ELSE mem[x]
    BY <1>1, <2>1
  <2>3. put.copy /\ x >= wp /\ x < wp + part
    BY <1>4, <2>1
  <2>4. mem'[x] = put.data[x - wp + 1]
    BY <2>2, <2>3, Zenon
  <2>5. mem'[x] = put.data[i + 1]
    BY <2>1, <2>4
  <2> QED BY <2>5 DEF x
<1>8. put.copy = FALSE => \A i \in 0..len-1 : mem'[Offset(wp, i)] = put.data[i + 1]
  <2> SUFFICES ASSUME put.copy = FALSE, NEW i \in 0..len-1
               PROVE  mem'[Offset(wp, i)] = put.data[i + 1]
    OBVIOUS
  <2>1. mem[Offset(wp, i)] = put.data[i + 1]
    BY <1>1 DEF Copied, CopiedIn, Written
  <2>2. Offset(wp, i) \in 0..Cap-1
    <3>1. i \in 0..Size-1
      BY <1>3, SizeAssumption
    <3> QED BY <1>3, <3>1, OffsetInside
  <2> QED BY <1>1, <2>1, <2>2
<1>9. \A i \in 0..part-1 : i \in 0..len-1
  BY <1>3
<1>10. \A i \in 0..part-1 : mem'[Offset(wp, i)] = put.data[i + 1]
  BY <1>4, <1>7, <1>8, <1>9
<1>11. /\ Written(put.part)' = \A i \in 0..part-1 : mem'[Offset(wp, i)] = put.data[i + 1]
       /\ Written(put.len)' = \A i \in 0..len-1 : mem'[Offset(wp, i)] = put.data[i + 1]
  BY <1>1 DEF Written, Offset, Cap
<1>12. put'.copy = FALSE => Written(put.len)'
  BY <1>1, <1>8, <1>11
<1>13. put'.pc = "wrap" => Written(put.part)'
  BY <1>10, <1>11
<1>14. put'.pc = "publish" => Written(put.len)'
  BY <1>1, <1>10, <1>11
<1>15. put.data # <<>> /\ put'.pc \in {"publish", "wrap"}
  BY <1>1 DEF Copied, CopiedIn
<1>16. CopiedIn'
  BY <1>1, <1>12, <1>13, <1>14, <1>15 DEF CopiedIn
<1> QED BY <1>1, <1>6, <1>16 DEF Copied

LEMMA PutWrapStep ==
    ASSUME IInv, Copied, PutWrap
    PROVE  Contents' = Contents /\ Copied' /\ put'.data = put.data /\ seen' = seen
<1> DEFINE part == put.part  len == put.len  free == FreeCount(rp, wp)
           n == len - part
<1>1. put.pc = "wrap" /\ UNCHANGED <<rp, wp, get, seen>>
  BY DEF PutWrap
<1>2. len <= free /\ part = Lesser(len, Cap - wp) /\ part < len
  BY <1>1 DEF IInv, ClaimsFit
<1>3. /\ part \in Nat /\ len \in Nat /\ n \in Nat /\ part + n = len
      /\ rp \in 0..Cap /\ wp \in 0..Cap /\ free \in 0..Size /\ len <= Size
      /\ part = Cap - wp /\ n > 0 /\ n <= rp - 1 /\ n <= Cap - 1
  <2>1. part \in 0..Size /\ len \in 0..Size /\ wp \in 0..Cap /\ rp \in 0..Cap
    BY Sizes
  <2>2. free \in 0..Size
    BY Sizes
  <2> QED BY <1>2, <2>1, <2>2, SizeAssumption DEF Lesser, FreeCount, Cap
<1>4. WrapClip(put.len - put.part) = n
  BY <1>3 DEF WrapClip
<1>5. /\ mem' = [a \in 0..Cap-1 |-> IF put.copy /\ a < n
                                    THEN put.data[part + a + 1] ELSE mem[a]]
      /\ put'.pc = "publish" /\ put'.data = put.data /\ put'.len = len
      /\ put'.copy = put.copy
  <2>1. put \in PutCall
    BY DEF IInv, TypeOK
  <2> QED BY <1>3, <1>4, <2>1 DEF PutWrap, PutCall
<1>6. put.copy \in BOOLEAN
  BY DEF IInv, TypeOK, PutCall
<1>7. ASSUME NEW a \in 0..Cap-1, a < n
      PROVE  part + a \in part..len-1 /\ part + a \in 0..free-1 /\ part + a \in 0..Size-1
             /\ Offset(wp, part + a) = a
  <2> HIDE DEF part, len, free, n
  <2>1. part + a \in part..len-1 /\ part + a \in 0..free-1 /\ part + a \in 0..Size-1
    BY <1>2, <1>3, <1>7, SizeAssumption
  <2>2. Offset(wp, part + a) = a
    BY <1>3, <1>7, SizeAssumption DEF Offset, Cap
  <2> QED BY <2>1, <2>2
<1>8. ASSUME NEW j \in 0..DataCount(rp, wp)-1
      PROVE  mem'[Offset(rp, j)] = mem[Offset(rp, j)]
  <2> DEFINE a == Offset(rp, j)
  <2>1. a \in 0..Cap-1
    <3>1. j \in 0..Size-1 /\ rp \in 0..Cap
      BY Sizes, SizeAssumption
    <3> QED BY <3>1, OffsetInside
  <2>2. \A i \in 0..free-1 : Offset(wp, i) # a
    <3> SUFFICES ASSUME NEW i \in 0..free-1 PROVE Offset(wp, i) # Offset(rp, j)
      OBVIOUS
    <3> QED BY Sizes, FreeApartFromData
  <2>3. ~(a < n)
    BY <1>7, <2>1, <2>2
  <2> QED BY <1>5, <2>1, <2>3
<1>9. Contents' = Contents /\ CopiedOut'
  BY <1>1, <1>8, Frame DEF Copied
<1>10. ASSUME NEW i \in 0..len-1
       PROVE  Offset(wp, i) \in 0..Cap-1 /\ i \in 0..Size-1
  <2>1. i \in 0..Size-1
    BY <1>3, SizeAssumption
  <2> QED BY <1>3, <2>1, OffsetInside
<1>11. ASSUME NEW i \in 0..len-1, put.copy = TRUE
       PROVE  mem'[Offset(wp, i)] = put.data[i + 1]
  <2> DEFINE a == Offset(wp, i)
  <2>1. a \in 0..Cap-1 /\ i \in 0..Size-1
    BY <1>10
  <2>2. CASE a < n
    <3>1. part + a \in 0..Size-1 /\ Offset(wp, part + a) = a
      BY <1>7, <2>1, <2>2
    <3>2. part + a = i
      <4> HIDE DEF part
      <4> QED BY <1>3, <2>1, <3>1, OffsetInjective
    <3>3. mem'[a] = put.data[part + a + 1]
      BY <1>5, <1>11, <2>1, <2>2
    <3>4. part + a + 1 = i + 1
      BY <3>2
    <3> QED BY <3>3, <3>4
  <2>3. CASE ~(a < n)
    <3>1. i \in 0..part-1
      <4>1. i < part \/ (i >= part /\ i - part < n)
        BY <1>3
      <4>2. i >= part => Offset(wp, i) = i - part
        <5> HAVE i >= part
        <5>1. i \in Nat
          BY <1>3
        <5> QED BY <1>3, <5>1, OffsetBehind
      <4> QED BY <1>3, <2>3, <4>1, <4>2
    <3>2. mem[a] = put.data[i + 1]
      BY <1>1, <3>1 DEF Copied, CopiedIn, Written
    <3> QED BY <1>5, <2>1, <2>3, <3>2
  <2> QED BY <2>2, <2>3
<1>12. ASSUME NEW i \in 0..len-1, put.copy = FALSE
       PROVE  mem'[Offset(wp, i)] = put.data[i + 1]
  <2>1. mem[Offset(wp, i)] = put.data[i + 1]
    BY <1>1, <1>12 DEF Copied, CopiedIn, Written
  <2> QED BY <1>5, <1>10, <1>12, <2>1
<1>13. Written(put.len)' = \A i \in 0..len-1 : mem'[Offset(wp, i)] = put.data[i + 1]
  BY <1>1, <1>5 DEF Written, Offset, Cap
<1>14. Written(put.len)'
  BY <1>6, <1>11, <1>12, <1>13
<1>15. put.data # <<>>
  BY <1>1 DEF Copied, CopiedIn
<1>16. CopiedIn'
  BY <1>5, <1>14, <1>15 DEF CopiedIn
<1> QED BY <1>1, <1>5, <1>9, <1>16 DEF Copied

(* The store of wp: the block is in the ring at once, or what of it fits.  *)
LEMMA PutPublishStep ==
    ASSUME IInv, Copied, PutPublish
    PROVE  /\ Copied' /\ put.data # <<>> /\ put'.data = <<>> /\ seen' = seen
           /\ \E n \in 0..Len(put.data) :
                 /\ Len(Contents) + n <= Size
                 /\ Contents' = Contents \o SubSeq(put.data, 1, n)
<1> DEFINE n == put.len  d == DataCount(rp, wp)
<1>1. /\ put.pc = "publish" /\ wp' = Advance(wp, n) /\ put' = PutIdle
      /\ UNCHANGED <<mem, rp, get, seen>>
  BY DEF PutPublish
<1>2. n <= FreeCount(rp, wp) /\ n <= Len(put.data)
  BY <1>1 DEF IInv, ClaimsFit
<1>3. /\ rp \in 0..Cap /\ wp \in 0..Cap /\ (wp = 0 => rp = 0) /\ d \in 0..Size /\ d <= Size
      /\ FreeCount(rp, wp) = Size - d /\ mem \in Memory
      /\ n \in 0..Size /\ put.data \in Seq(Byte) /\ Len(put.data) \in Nat
  BY Sizes
<1>4. n \in Nat /\ n \in 0..Len(put.data) /\ d + n <= Size /\ n \in 0..FreeCount(rp, wp)
  BY <1>2, <1>3, SizeAssumption
<1>5. DataCount(rp, wp)' = d + n
  <2>1. DataCount(rp, Advance(wp, n)) = d + n
    BY <1>2, <1>3, <1>4, AdvanceWriter
  <2> QED BY <1>1, <2>1 DEF DataCount, Cap
<1>6. Contents' = Held(mem, rp, d + n)
  BY <1>1, <1>5 DEF Contents, Held, Offset, Cap
<1>7. Contents' = Contents \o Held(mem, wp, n)
  BY <1>3, <1>4, <1>6, HeldMore, ContentsHeld
<1>8. Held(mem, wp, n) = SubSeq(put.data, 1, n)
  <2> DEFINE s == Held(mem, wp, n)  t == SubSeq(put.data, 1, n)
  <2>1. s \in Seq(Byte) /\ Len(s) = n /\ \A i \in 1..n : s[i] = mem[Offset(wp, i - 1)]
    BY <1>3, HeldIsSeq
  <2>2. t \in Seq(Byte) /\ Len(t) = n /\ \A i \in 1..n : t[i] = put.data[i]
    BY <1>3, <1>4
  <2>3. \A i \in 1..n : mem[Offset(wp, i - 1)] = put.data[i]
    <3> SUFFICES ASSUME NEW i \in 1..n PROVE mem[Offset(wp, i - 1)] = put.data[i]
      OBVIOUS
    <3>1. i - 1 \in 0..n-1 /\ i - 1 + 1 = i
      BY <1>4
    <3>2. Written(n)
      BY <1>1 DEF Copied, CopiedIn
    <3>3. mem[Offset(wp, i - 1)] = put.data[i - 1 + 1]
      BY <3>1, <3>2 DEF Written
    <3> QED BY <3>1, <3>3
  <2> HIDE DEF s, t
  <2>4. s = t
    <3>1. \A i \in 1..Len(s) : s[i] = t[i]
      BY <2>1, <2>2, <2>3
    <3> QED BY <2>1, <2>2, <3>1, SeqEqual
  <2> QED BY <2>4 DEF s, t
<1>9. Len(Contents) = d
  BY <1>3, HeldIsSeq, ContentsHeld
<1>10. CopiedOut'
  BY <1>1 DEF Copied, CopiedOut, Held, Offset, Cap
<1>11. CopiedIn' /\ put'.data = <<>>
  BY <1>1 DEF CopiedIn, PutIdle
<1>12. put.data # <<>>
  BY <1>1 DEF Copied, CopiedIn
<1> QED BY <1>1, <1>4, <1>7, <1>8, <1>9, <1>10, <1>11, <1>12 DEF Copied

-----------------------------------------------------------------------------
(* The steps of the reader *)

(* A block read in two parts is the block.                                 *)
LEMMA HeldSplit ==
    ASSUME NEW m \in Memory, NEW r \in 0..Cap, NEW k \in 0..Size, NEW p \in 0..k
    PROVE  Held(m, r, k) = Held(m, r, p) \o Held(m, Advance(r, p), k - p)
<1> DEFINE s == Held(m, r, k)
<1>1. /\ SubSeq(s, 1, p) = Held(m, r, p)
      /\ SubSeq(s, p + 1, k) = Held(m, Advance(r, p), k - p)
  BY HeldPrefix, HeldRest
<1>2. s \in Seq(Byte) /\ Len(s) = k
  BY HeldIsSeq
<1> HIDE DEF s
<1>3. k \in Nat /\ p \in Nat /\ p <= k
  BY SizeAssumption
<1>4. s = SubSeq(s, 1, p) \o SubSeq(s, p + 1, k)
  BY <1>2, <1>3
<1> QED BY <1>1, <1>4 DEF s

(* A step of the reader that does not move rp.                             *)
LEMMA SameForWriter ==
    ASSUME CopiedIn, UNCHANGED <<mem, wp, put>>
    PROVE  CopiedIn'
BY DEF CopiedIn, Written, Offset, Cap

LEMMA SameContents ==
    ASSUME UNCHANGED <<mem, rp, wp>>
    PROVE  Contents' = Contents
BY DEF Contents, DataCount, Offset, Cap

(* What the reader works on is data, by its snapshot of wp.                *)
LEMMA GetIsData ==
    ASSUME IInv, get.pc \in {"copy", "wrap", "publish", "look"}
    PROVE  get.len \in 0..DataCount(rp, wp)
<1> DEFINE d == DataCount(rp, wp)  x == DataCount(rp, get.wsnap)
<1>1. get.len <= x /\ x <= d
  BY DEF IInv, ClaimsFit
<1>2. x \in 0..Cap /\ d \in 0..Size /\ get.len \in 0..Size
  BY Sizes, FreeAndData
<1> HIDE DEF x, d
<1>3. get.len \in 0..d
  BY <1>1, <1>2, SizeAssumption DEF Cap
<1> QED BY <1>3 DEF d

LEMMA BeginStep ==
    ASSUME IInv, Copied, Get \/ Look \/ Probe \/ ProbeEnd
    PROVE  Contents' = Contents /\ Copied' /\ put' = put /\ seen' = seen
<1>1. UNCHANGED <<mem, rp, wp, put, seen>>
  BY DEF Get, Look, Probe, ProbeEnd
<1>2. get'.pc \notin {"wrap", "publish"}
  <2>1. CASE Get
    BY <2>1 DEF Get, GetBegin
  <2>2. CASE Look
    BY <2>2 DEF Look, GetIdle
  <2>3. CASE Probe
    BY <2>3 DEF Probe, GetIdle
  <2>4. CASE ProbeEnd
    BY <2>4 DEF ProbeEnd, GetIdle
  <2> QED BY <2>1, <2>2, <2>3, <2>4
<1>3. CopiedOut'
  BY <1>2 DEF CopiedOut
<1> QED BY <1>1, <1>3, SameForWriter, SameContents DEF Copied

LEMMA GetCopyStep ==
    ASSUME IInv, Copied, GetCopy
    PROVE  Contents' = Contents /\ Copied' /\ put' = put /\ seen' = seen
<1> DEFINE part == get.part  len == get.len
<1>1. UNCHANGED <<mem, rp, wp, put, seen>> /\ get.pc = "copy"
  BY DEF GetCopy
<1>2. /\ get'.pc = (IF part = len THEN "publish" ELSE "wrap")
      /\ get.copy => get'.data = [i \in 1..part |-> mem[rp + i - 1]]
      /\ get'.len = len /\ get'.part = part /\ get'.copy = get.copy
  <2>1. get \in GetCall
    BY DEF IInv, TypeOK
  <2> QED BY <2>1 DEF GetCopy, GetCall
<1>3. part = Lesser(len, Cap - rp)
  BY <1>1 DEF IInv, ClaimsFit
<1>4. part \in 0..Size /\ rp \in 0..Cap /\ len \in 0..Size
  BY Sizes
<1>5. \A i \in 1..part : Offset(rp, i - 1) = rp + i - 1
  BY <1>3, <1>4, SizeAssumption DEF Lesser, Offset, Cap
<1>6. [i \in 1..part |-> mem[rp + i - 1]] = Held(mem, rp, part)
  BY <1>5 DEF Held
<1>7. /\ Held(mem, rp, get.part)' = Held(mem, rp, part)
      /\ Held(mem, rp, get.len)' = Held(mem, rp, len)
  BY <1>1, <1>2 DEF Held, Offset, Cap
<1>8. CopiedOut'
  BY <1>2, <1>6, <1>7 DEF CopiedOut
<1> QED BY <1>1, <1>8, SameForWriter, SameContents DEF Copied

LEMMA GetWrapStep ==
    ASSUME IInv, Copied, GetWrap
    PROVE  Contents' = Contents /\ Copied' /\ put' = put /\ seen' = seen
<1> DEFINE part == get.part  len == get.len  n == len - part
<1>1. UNCHANGED <<mem, rp, wp, put, seen>> /\ get.pc = "wrap"
  BY DEF GetWrap
<1>2. /\ part = Lesser(len, Cap - rp) /\ part < len
      /\ len <= DataCount(rp, get.wsnap)
  BY <1>1 DEF IInv, ClaimsFit
<1>3. part \in 0..Size /\ rp \in 0..Cap /\ len \in 0..Size /\ get.wsnap \in 0..Cap
  BY Sizes
<1>4. part = Cap - rp /\ n <= get.wsnap /\ part \in 0..len /\ n \in 0..Size
  <2>1. ASSUME NEW p \in 0..Size, NEW l \in 0..Size, NEW w \in 0..Cap,
               p = Lesser(l, Cap - rp), p < l, l <= DataCount(rp, w)
        PROVE  p = Cap - rp /\ l - p <= w /\ p \in 0..l /\ l - p \in 0..Size
    BY <1>3, <2>1, SizeAssumption DEF Lesser, DataCount, Cap
  <2> QED BY <1>2, <1>3, <2>1
<1>5. Lesser(get.len - get.part, get.wsnap) = n
  <2>1. ASSUME NEW p \in 0..Size, NEW w \in 0..Cap, p <= w PROVE Lesser(p, w) = p
    BY <2>1, SizeAssumption DEF Lesser, Cap
  <2> QED BY <1>3, <1>4, <2>1
<1>6. part + n = len
  BY <1>3
<1>7. /\ get'.pc = "publish" /\ get'.len = len /\ get'.copy = get.copy
      /\ get.copy => get'.data = get.data \o [i \in 1..n |-> mem[i - 1]]
  <2>1. get \in GetCall
    BY DEF IInv, TypeOK
  <2> QED BY <1>5, <1>6, <2>1 DEF GetWrap, GetCall
<1>8. [i \in 1..n |-> mem[i - 1]] = Held(mem, Advance(rp, part), n)
  <2>1. Advance(rp, part) = Cap
    BY <1>3, <1>4, SizeAssumption DEF Advance, Cap
  <2>2. \A i \in 1..n : Offset(Cap, i - 1) = i - 1
    <3> SUFFICES ASSUME NEW i \in 1..n PROVE Offset(Cap, i - 1) = i - 1
      OBVIOUS
    <3>1. i - 1 \in Nat /\ Cap \in 0..Cap /\ i - 1 >= Cap - Cap
      BY <1>4, SizeAssumption DEF Cap
    <3> QED BY <3>1, OffsetBehind, SizeAssumption DEF Cap
  <2> QED BY <2>1, <2>2 DEF Held
<1>9. get.copy = TRUE => get'.data = Held(mem, rp, len)
  <2> HAVE get.copy = TRUE
  <2>1. get.data = Held(mem, rp, part)
    BY <1>1 DEF Copied, CopiedOut
  <2>2. Held(mem, rp, len) = Held(mem, rp, part) \o Held(mem, Advance(rp, part), n)
    BY <1>3, <1>4, Sizes, HeldSplit
  <2> QED BY <1>7, <1>8, <2>1, <2>2
<1>10. Held(mem, rp, get.len)' = Held(mem, rp, len)
  BY <1>1, <1>7 DEF Held, Offset, Cap
<1>11. CopiedOut'
  BY <1>7, <1>9, <1>10 DEF CopiedOut
<1> QED BY <1>1, <1>11, SameForWriter, SameContents DEF Copied

(* The store of rp, and the end of a look in place: what was handed over   *)
(* are the oldest bytes, and what is erased are those.                     *)
LEMMA GetPublishStep ==
    ASSUME IInv, Copied, GetPublish
    PROVE  /\ Copied' /\ put' = put
           /\ \E n \in 0..Len(Contents) :
                 /\ \/ Contents' = Contents
                    \/ Contents' = SubSeq(Contents, n + 1, Len(Contents)) /\ n > 0
                 /\ seen' = seen \/ seen' = SubSeq(Contents, 1, n)
<1> DEFINE n == get.len  d == DataCount(rp, wp)
<1>1. /\ get.pc = "publish" /\ UNCHANGED <<mem, wp, put>> /\ get' = GetIdle
      /\ rp' = (IF get.peek THEN rp ELSE Advance(rp, n))
      /\ seen' = (IF get.copy THEN get.data ELSE seen)
  BY DEF GetPublish
<1>2. get.pc \in {"copy", "wrap", "publish", "look"}
  BY <1>1
<1>3. n \in 0..d
  BY <1>2, GetIsData
<1>4. /\ rp \in 0..Cap /\ wp \in 0..Cap /\ (wp = 0 => rp = 0) /\ d \in 0..Size /\ d <= Size
      /\ mem \in Memory /\ n \in 0..Size
  BY Sizes
<1>5. Contents = Held(mem, rp, d) /\ Len(Contents) = d
  BY <1>4, ContentsHeld, HeldIsSeq
<1>6. Contents' = Contents \/ (Contents' = SubSeq(Contents, n + 1, d) /\ n > 0)
  <2>1. CASE rp' = rp
    BY <1>1, <2>1, SameContents
  <2>2. CASE rp' = Advance(rp, n) /\ n = 0
    <3>1. rp' = rp
      BY <1>4, <2>2, SizeAssumption DEF Advance, Cap
    <3> QED BY <1>1, <3>1, SameContents
  <2>3. CASE rp' = Advance(rp, n) /\ n # 0
    <3>1. n \in Nat /\ n <= d /\ n > 0
      BY <1>3, <1>4, <2>3, SizeAssumption
    <3>2. DataCount(Advance(rp, n), wp) = d - n
      BY <1>4, <3>1, AdvanceReader
    <3>3. Contents' = Held(mem, Advance(rp, n), d - n)
      BY <1>1, <2>3, <3>2 DEF Contents, Held, DataCount, Offset, Cap
    <3>4. SubSeq(Held(mem, rp, d), n + 1, d) = Held(mem, Advance(rp, n), d - n)
      BY <1>3, <1>4, HeldRest
    <3> QED BY <1>5, <3>1, <3>3, <3>4
  <2> QED BY <1>1, <2>1, <2>2, <2>3
<1>7. seen' = seen \/ seen' = SubSeq(Contents, 1, n)
  <2>1. CASE get.copy = TRUE
    <3>1. get.data = Held(mem, rp, n)
      BY <1>1, <2>1 DEF Copied, CopiedOut
    <3>2. SubSeq(Held(mem, rp, d), 1, n) = Held(mem, rp, n)
      BY <1>3, <1>4, HeldPrefix
    <3> QED BY <1>1, <1>5, <2>1, <3>1, <3>2
  <2>2. CASE get.copy = FALSE
    BY <1>1, <2>2
  <2>3. get.copy \in BOOLEAN
    BY DEF IInv, TypeOK, GetCall
  <2> QED BY <2>1, <2>2, <2>3
<1>8. CopiedOut'
  BY <1>1 DEF CopiedOut, GetIdle
<1> QED BY <1>1, <1>3, <1>5, <1>6, <1>7, <1>8, SameForWriter DEF Copied

LEMMA LookCopyStep ==
    ASSUME IInv, Copied, LookCopy
    PROVE  /\ Copied' /\ put' = put /\ Contents' = Contents
           /\ \E n \in 0..Len(Contents) : seen' = SubSeq(Contents, 1, n)
<1> DEFINE n == get.len  d == DataCount(rp, wp)  ps == ReadPtrs(rp, get.wsnap)
<1>1. /\ get.pc = "look" /\ UNCHANGED <<mem, rp, wp, put>> /\ get' = GetIdle
      /\ seen' = [i \in 1..n |-> mem[PtrAt(ps, i - 1)]]
  BY DEF LookCopy
<1>2. get.pc \in {"copy", "wrap", "publish", "look"}
  BY <1>1
<1>3. n \in 0..d
  BY <1>2, GetIsData
<1>4. rp \in 0..Cap /\ d \in 0..Size /\ mem \in Memory /\ n \in 0..Size /\ get.wsnap \in 0..Cap
  BY Sizes
<1>5. n = DataCount(rp, get.wsnap) /\ (get.wsnap = 0 => rp = 0)
  BY <1>1, <1>2 DEF IInv, ClaimsFit
<1>6. \A i \in 0..n-1 : PtrAt(ps, i) = Offset(rp, i)
  <2>1. DataCount(rp, get.wsnap) <= Size
    BY <1>4, <1>5, SizeAssumption
  <2> QED BY <1>4, <1>5, <2>1, ReadPtrsRight
<1>7. seen' = Held(mem, rp, n)
  <2>1. \A i \in 1..n : i - 1 \in 0..n-1
    BY <1>4, SizeAssumption
  <2> QED BY <1>1, <1>6, <2>1 DEF Held
<1>8. SubSeq(Held(mem, rp, d), 1, n) = Held(mem, rp, n)
  BY <1>3, <1>4, HeldPrefix
<1>9. Contents = Held(mem, rp, d) /\ Len(Contents) = d
  BY <1>4, ContentsHeld, HeldIsSeq
<1>10. CopiedOut'
  BY <1>1 DEF CopiedOut, GetIdle
<1> QED BY <1>1, <1>3, <1>7, <1>8, <1>9, <1>10, SameForWriter, SameContents DEF Copied

-----------------------------------------------------------------------------
LEMMA CopiedInit == Init => Copied /\ Fifo!Init
<1> SUFFICES ASSUME Init PROVE Copied /\ Fifo!Init
  OBVIOUS
<1>1. Copied
  BY DEF Init, Copied, CopiedIn, CopiedOut, PutIdle, GetIdle
<1>2. DataCount(rp, wp) = 0
  BY DEF Init, DataCount
<1>3. Contents = <<>>
  BY <1>2 DEF Contents
<1>4. put.data = <<>> /\ seen = <<>>
  BY DEF Init, PutIdle
<1> QED BY <1>1, <1>3, <1>4 DEF Fifo!Init

(* Every step is a step of the queue, or one it does not see.              *)
LEMMA StepsOfFifo ==
    ASSUME IInv, Copied, [Next]_vars
    PROVE  Copied' /\ [Fifo!Next]_(Fifo!vars)
<1>1. CASE Fill \/ Put
  <2>1. /\ Contents' = Contents /\ Copied'
        /\ put.data = <<>> /\ put'.data \in Seq(Byte) \ {<<>>} /\ seen' = seen
    BY <1>1, FillStep, PutStep
  <2> QED BY <2>1 DEF Fifo!Next, Fifo!Offer
<1>2. CASE Step \/ PutCopy \/ PutWrap
  <2>1. Contents' = Contents /\ Copied' /\ put'.data = put.data /\ seen' = seen
    BY <1>2, StepStep, PutCopyStep, PutWrapStep
  <2> QED BY <2>1 DEF Fifo!vars
<1>3. CASE PutPublish
  BY <1>3, PutPublishStep DEF Fifo!Next, Fifo!Put
<1>4. CASE Get \/ Look \/ Probe \/ ProbeEnd \/ GetCopy \/ GetWrap
  <2>1. Contents' = Contents /\ Copied' /\ put' = put /\ seen' = seen
    BY <1>4, BeginStep, GetCopyStep, GetWrapStep
  <2> QED BY <2>1 DEF Fifo!vars
<1>5. CASE GetPublish
  <2>1. PICK n \in 0..Len(Contents) :
          /\ \/ Contents' = Contents
             \/ Contents' = SubSeq(Contents, n + 1, Len(Contents)) /\ n > 0
          /\ seen' = seen \/ seen' = SubSeq(Contents, 1, n)
    BY <1>5, GetPublishStep
  <2>2. Copied' /\ put' = put
    BY <1>5, GetPublishStep
  <2>3. CASE Contents' = Contents /\ seen' = seen
    BY <2>2, <2>3 DEF Fifo!vars
  <2>4. CASE Contents' = Contents /\ seen' = SubSeq(Contents, 1, n)
    BY <2>2, <2>4 DEF Fifo!Next, Fifo!Peek
  <2>5. n > 0 => n \in 1..Len(Contents)
    BY <2>1
  <2>6. CASE /\ Contents' = SubSeq(Contents, n + 1, Len(Contents)) /\ n > 0
             /\ seen' = seen
    BY <2>2, <2>5, <2>6 DEF Fifo!Next, Fifo!Erase
  <2>7. CASE /\ Contents' = SubSeq(Contents, n + 1, Len(Contents)) /\ n > 0
             /\ seen' = SubSeq(Contents, 1, n)
    BY <2>2, <2>5, <2>7 DEF Fifo!Next, Fifo!Take
  <2> QED BY <2>1, <2>3, <2>4, <2>6, <2>7
<1>6. CASE LookCopy
  BY <1>6, LookCopyStep DEF Fifo!Next, Fifo!Peek
<1>7. CASE UNCHANGED vars
  <2>1. UNCHANGED <<mem, rp, wp, put, get, seen>>
    BY <1>7 DEF vars
  <2>2. Contents' = Contents
    BY <2>1, SameContents
  <2>3. Copied'
    BY <2>1 DEF Copied, CopiedIn, CopiedOut, Written, Held, Offset, Cap
  <2> QED BY <2>1, <2>2, <2>3 DEF Fifo!vars
<1> QED BY <1>1, <1>2, <1>3, <1>4, <1>5, <1>6, <1>7
        DEF Next, WriterStep, ReaderStep

(* What is copied is in place by the time a pointer is stored: between two *)
(* threads without a lock, the bytes of a block are those its writer gave. *)
THEOREM CopiedInPlace == Spec => []Copied
<1>1. Init => Copied
  BY CopiedInit
<1>2. IInv /\ Copied /\ [Next]_vars => Copied'
  BY StepsOfFifo
<1> QED BY <1>1, <1>2, Invariant, PTL DEF Spec

(* rbuff.c implements a queue of bytes that takes a block at once and      *)
(* hands over its oldest bytes at once (ByteFifo), for one writer and one  *)
(* reader.                                                                 *)
THEOREM FifoImplemented == Spec => ImplementsFifo
<1>1. Init => Fifo!Init
  BY CopiedInit
<1>2. IInv /\ Copied /\ [Next]_vars => [Fifo!Next]_(Fifo!vars)
  BY StepsOfFifo
<1> QED BY <1>1, <1>2, Invariant, CopiedInPlace, PTL DEF Spec, ImplementsFifo, Fifo!Spec
=============================================================================

------------------------------- MODULE RBuff -------------------------------
(***************************************************************************)
(* The ring buffer of miner/rbuff.c and rbuff.h between its one writer and *)
(* its one reader, which run on two threads and share no lock.  The memory *)
(* has Cap = tp - hp = size + 1 bytes; rp and wp are modelled as offsets   *)
(* from hp and range over 0..Cap, for the code lets a pointer rest on tp.  *)
(*                                                                         *)
(* A call is several steps, in the order the C code makes its accesses to  *)
(* shared memory: a snapshot of the other side's pointer, the memcpy up to *)
(* tp, the memcpy from hp, and the store of the own pointer.  (buff->wp is *)
(* a char * that memcpy may alias, so a build cannot hoist the store above *)
(* the copy, and x86 keeps stores in order.)                               *)
(***************************************************************************)
EXTENDS Integers, Sequences

CONSTANTS Byte,      \* the byte values the model tells apart
          Size,      \* the size given to rbuff_init
          MaxReq     \* bound: the most bytes one call asks for

ASSUME SizeAssumption == Size \in Nat \ {0}
ASSUME MaxReqAssumption == MaxReq \in Nat \ {0}
ASSUME ByteAssumption == Byte # {}

VARIABLES mem,       \* the bytes between hp and tp
          rp, wp,    \* read and write pointer, as offsets from hp
          put,       \* the writer's call in progress
          get,       \* the reader's call in progress
          seen       \* what the reader's last call handed over

vars == <<mem, rp, wp, put, get, seen>>

Cap == Size + 1

Lesser(a, b) == IF a < b THEN a ELSE b
NonNeg(n) == IF n < 0 THEN 0 ELSE n

(* Faulty variants of the operators below: the gap byte forgotten, and a   *)
(* wrapped block one byte short.                                           *)
FreeCountNoGap(r, w) == IF w >= r THEN Cap - (w - r) ELSE r - w
AdvanceShort(p, n) == IF Cap - p >= n THEN p + n ELSE n - (Cap - p) - 1

(* The macro rbuff_datacount on one pair of pointer values, and the free   *)
(* space as rbuff_put computes it.  One byte always stays unused.          *)
DataCount(r, w) == IF w >= r THEN w - r ELSE Cap - (r - w)
FreeCount(r, w) == IF w >= r THEN Cap - (w - r) - 1 ELSE r - w - 1

(* The offset of the i-th byte, counted from 0, from pointer p.            *)
Offset(p, i) == IF p + i < Cap THEN p + i ELSE p + i - Cap

(* A pointer after n bytes: it stays on tp when the block ends there, and  *)
(* starts again from hp only when the block goes beyond.                   *)
Advance(p, n) == IF Cap - p >= n THEN p + n ELSE n - (Cap - p)

-----------------------------------------------------------------------------
(* Zero-copy access.  [p1, len1, p2, len2] as the C code returns them; a   *)
(* null pointer goes with length 0.                                        *)
Ptrs(p1, len1, p2, len2) ==
    IF len1 = 0
    THEN [p1 |-> p2, len1 |-> len2, p2 |-> 0, len2 |-> 0]
    ELSE [p1 |-> p1, len1 |-> len1, p2 |-> p2, len2 |-> len2]

ReadPtrs(r, w) ==
    IF w >= r THEN Ptrs(r, w - r, 0, 0) ELSE Ptrs(r, Cap - r, 0, w)

(* Faulty variant: with rp on hp the gap byte is forgotten.                *)
WritePtrsFull(r, w) ==
    IF w >= r THEN Ptrs(w, Cap - w, 0, NonNeg(r - 1)) ELSE Ptrs(w, r - w - 1, 0, 0)

WritePtrs(r, w) ==
    IF w = r /\ w \in {0, Cap} THEN Ptrs(0, Cap - 1, 0, 0)
    ELSE IF w = r THEN Ptrs(w, Cap - w, 0, r - 1)
    ELSE IF w > r
         THEN Ptrs(w, NonNeg(Cap - w - (IF r = 0 THEN 1 ELSE 0)), 0, NonNeg(r - 1))
         ELSE Ptrs(w, r - w - 1, 0, 0)

PtrAt(ps, i) == IF i < ps.len1 THEN ps.p1 + i ELSE ps.p2 + (i - ps.len1)

-----------------------------------------------------------------------------
PutIdle == [pc |-> "idle", len |-> 0, part |-> 0, data |-> <<>>, copy |-> TRUE]
GetIdle == [pc |-> "idle", len |-> 0, part |-> 0, wsnap |-> 0, data |-> <<>>,
            copy |-> TRUE, peek |-> FALSE]

Blocks == UNION {[1..n -> Byte] : n \in 1..MaxReq}

(* rbuff_init: a fresh malloc, so the contents are whatever was there.     *)
Init == /\ mem \in [0..Cap-1 -> Byte]
        /\ rp = 0 /\ wp = 0
        /\ put = PutIdle /\ get = GetIdle
        /\ seen = <<>>

-----------------------------------------------------------------------------
(* The writer: rbuff_put.  Its own wp cannot change under it.              *)

(* Snapshot rp, clip the size to the free space.                           *)
PutBegin(data, copy) ==
    LET n == Lesser(Len(data), FreeCount(rp, wp)) IN
    put' = [pc |-> "copy", len |-> n, part |-> Lesser(n, Cap - wp),
            data |-> data, copy |-> copy]

Put == /\ put.pc = "idle"
       /\ \E data \in Blocks : PutBegin(data, TRUE)
       /\ UNCHANGED <<mem, rp, wp, get, seen>>

(* rbuff_get_write_ptrs and a writer that fills the memory in place ...    *)
Fill == /\ put.pc = "idle"
        /\ \E data \in Blocks :
              LET ps == WritePtrs(rp, wp) IN
              /\ Len(data) <= ps.len1 + ps.len2
              /\ mem' = [a \in 0..Cap-1 |->
                           IF \E i \in 0..Len(data)-1 : a = PtrAt(ps, i)
                           THEN data[1 + CHOOSE i \in 0..Len(data)-1 : a = PtrAt(ps, i)]
                           ELSE mem[a]]
              /\ put' = [PutIdle EXCEPT !.pc = "filled", !.data = data]
        /\ UNCHANGED <<rp, wp, get, seen>>

(* ... and then rbuff_step_write_ptr, an rbuff_put without data.           *)
Step == /\ put.pc = "filled"
        /\ PutBegin(put.data, FALSE)
        /\ UNCHANGED <<mem, rp, wp, get, seen>>

(* The first memcpy, from wp and never beyond tp.                          *)
PutCopy ==
    /\ put.pc = "copy"
    /\ mem' = [a \in 0..Cap-1 |->
                 IF put.copy /\ a >= wp /\ a < wp + put.part
                 THEN put.data[a - wp + 1] ELSE mem[a]]
    /\ put' = [put EXCEPT !.pc = IF put.part = put.len THEN "publish" ELSE "wrap"]
    /\ UNCHANGED <<rp, wp, get, seen>>

(* rp is read again here. With rp on hp the difference rp - hp - 1 is -1,  *)
(* which clips nothing where pointers have 32 bits and makes the length    *)
(* 2^32 - 1 where they have 64; WrapRoom says that it never comes to that. *)
WrapClip(n) == IF rp > 0 /\ n > rp - 1 THEN rp - 1 ELSE n

(* The second memcpy, from hp.                                             *)
PutWrap ==
    /\ put.pc = "wrap"
    /\ LET n == WrapClip(put.len - put.part) IN
       /\ mem' = [a \in 0..Cap-1 |->
                    IF put.copy /\ a < n THEN put.data[put.part + a + 1] ELSE mem[a]]
       /\ put' = [put EXCEPT !.pc = "publish", !.len = put.part + n]
    /\ UNCHANGED <<rp, wp, get, seen>>

(* The store of wp.                                                        *)
PutPublish ==
    /\ put.pc = "publish"
    /\ wp' = Advance(wp, put.len)
    /\ put' = PutIdle
    /\ UNCHANGED <<mem, rp, get, seen>>

-----------------------------------------------------------------------------
(* The reader: _rbuff_get, that is rbuff_get, rbuff_peek and rbuff_erase   *)
(* (no data wanted).  Its own rp cannot change under it.                   *)

(* (Faulty variant: not clipped to the data.)                              *)
GetBeginUnclipped(n, copy, peek) ==
    get' = [pc |-> "copy", len |-> n, part |-> Lesser(n, Cap - rp), wsnap |-> wp,
            data |-> <<>>, copy |-> copy, peek |-> peek]

GetBegin(n, copy, peek) ==
    LET k == Lesser(n, DataCount(rp, wp)) IN
    get' = [pc |-> "copy", len |-> k, part |-> Lesser(k, Cap - rp), wsnap |-> wp,
            data |-> <<>>, copy |-> copy, peek |-> peek]

Get == /\ get.pc = "idle"
       /\ \E n \in 1..MaxReq, copy, peek \in BOOLEAN :
             (peek => copy) /\ GetBegin(n, copy, peek)
       /\ UNCHANGED <<mem, rp, wp, put, seen>>

GetCopy ==
    /\ get.pc = "copy"
    /\ get' = [get EXCEPT !.pc = IF get.part = get.len THEN "publish" ELSE "wrap",
                          !.data = IF get.copy
                                   THEN [i \in 1..get.part |-> mem[rp + i - 1]]
                                   ELSE <<>>]
    /\ UNCHANGED <<mem, rp, wp, put, seen>>

(* The clip compares with the snapshot of wp, not with wp.                 *)
GetWrap ==
    /\ get.pc = "wrap"
    /\ LET n == Lesser(get.len - get.part, get.wsnap) IN
       get' = [get EXCEPT !.pc = "publish", !.len = get.part + n,
                 !.data = IF get.copy
                          THEN get.data \o [i \in 1..n |-> mem[i - 1]]
                          ELSE <<>>]
    /\ UNCHANGED <<mem, rp, wp, put, seen>>

GetPublish ==
    /\ get.pc = "publish"
    /\ rp' = IF get.peek THEN rp ELSE Advance(rp, get.len)
    /\ seen' = IF get.copy THEN get.data ELSE seen
    /\ get' = GetIdle
    /\ UNCHANGED <<mem, wp, put>>

(* rbuff_get_read_ptrs, as rbuff_move uses it on its source: the pointers  *)
(* are taken, then the bytes are read in place; the erase is a call of its *)
(* own.                                                                    *)
Look == /\ get.pc = "idle"
        /\ LET ps == ReadPtrs(rp, wp) IN
           get' = [GetIdle EXCEPT !.pc = "look", !.len = ps.len1 + ps.len2, !.wsnap = wp]
        /\ UNCHANGED <<mem, rp, wp, put, seen>>

LookCopy == /\ get.pc = "look"
            /\ seen' = [i \in 1..get.len |-> mem[PtrAt(ReadPtrs(rp, get.wsnap), i - 1)]]
            /\ get' = GetIdle
            /\ UNCHANGED <<mem, rp, wp, put>>

-----------------------------------------------------------------------------
(* rbuff_datacount as the reader polls it: the macro reads wp once for the *)
(* comparison and once more for the subtraction.                           *)
Probe == /\ get.pc = "idle"
         /\ get' = [GetIdle EXCEPT !.pc = IF wp >= rp THEN "probe-ge" ELSE "probe-lt"]
         /\ UNCHANGED <<mem, rp, wp, put, seen>>

(* The second read; as an unsigned a negative difference is a huge count.  *)
(* (The variant takes a ring that has wrapped for an empty one.)           *)
ProbeCountNoWrap == IF get.pc = "probe-ge" THEN NonNeg(wp - rp) ELSE Cap - (rp - wp)
ProbeCount == IF get.pc = "probe-ge" THEN wp - rp ELSE Cap - (rp - wp)

ProbeEnd == /\ get.pc \in {"probe-ge", "probe-lt"}
            /\ get' = GetIdle
            /\ UNCHANGED <<mem, rp, wp, put, seen>>

WriterStep == Put \/ Fill \/ Step \/ PutCopy \/ PutWrap \/ PutPublish
ReaderStep == Get \/ GetCopy \/ GetWrap \/ GetPublish \/ Look \/ LookCopy
              \/ Probe \/ ProbeEnd

Next == WriterStep \/ ReaderStep

Spec == Init /\ [][Next]_vars

-----------------------------------------------------------------------------
PutCall == [pc : {"idle", "filled", "copy", "wrap", "publish"},
            len : 0..Size, part : 0..Size, data : Seq(Byte), copy : BOOLEAN]
GetCall == [pc : {"idle", "copy", "wrap", "publish", "look", "probe-ge", "probe-lt"},
            len : 0..Size, part : 0..Size, wsnap : 0..Cap, data : Seq(Byte),
            copy : BOOLEAN, peek : BOOLEAN]

TypeOK == /\ mem \in [0..Cap-1 -> Byte]
          /\ rp \in 0..Cap /\ wp \in 0..Cap
          /\ put \in PutCall /\ get \in GetCall

(* What each call holds on to, in terms of the pointers as they are now:   *)
(* the block being put fits in the free space, the block being got is part *)
(* of the data, and a count that was taken is still good.  (The inductive  *)
(* invariant behind the theorems of RBuffProofs.)                          *)
ClaimsFit ==
    /\ DataCount(rp, wp) <= Size
    /\ wp = 0 => rp = 0
    /\ put.pc = "filled" => Len(put.data) <= FreeCount(rp, wp)
    /\ put.pc \in {"copy", "wrap", "publish"} =>
          /\ put.len <= FreeCount(rp, wp)
          /\ put.len <= Len(put.data)
          /\ put.part = Lesser(put.len, Cap - wp)
    /\ put.pc = "wrap" => put.part < put.len
    /\ get.pc \in {"copy", "wrap", "publish", "look"} =>
          /\ get.len <= DataCount(rp, get.wsnap)
          /\ DataCount(rp, get.wsnap) <= DataCount(rp, wp)
          /\ get.wsnap = 0 => rp = 0
    /\ get.pc \in {"copy", "wrap", "publish"} =>
          get.part = Lesser(get.len, Cap - rp)
    /\ get.pc = "wrap" => get.part < get.len
    /\ get.pc = "look" => get.len = DataCount(rp, get.wsnap)
    /\ get.pc = "probe-lt" => wp < rp

(* The bytes a call in progress may touch, from its snapshot on.           *)
Writing == IF put.pc \in {"copy", "wrap", "publish"}
           THEN {Offset(wp, i) : i \in 0..put.len-1} ELSE {}
Filled  == IF put.pc = "filled"
           THEN {PtrAt(WritePtrs(rp, wp), i) : i \in 0..Len(put.data)-1} ELSE {}
Reading == IF get.pc \in {"copy", "wrap"}
           THEN {Offset(rp, i) : i \in 0..get.len-1}
           ELSE IF get.pc = "look"
                THEN {PtrAt(ReadPtrs(rp, get.wsnap), i) : i \in 0..get.len-1}
                ELSE {}

(* The memcpy of one side never touches a byte the other side's call is    *)
(* working on, though neither takes a lock: rbuff_put and _rbuff_get clip  *)
(* by a snapshot that can be stale.                                        *)
NoOverlap == (Writing \cup Filled) \cap Reading = {}

(* The clip of rbuff_put at its second memcpy, which reads rp a second     *)
(* time, never bites: a block is never cut after its first part was        *)
(* copied, and the unsigned rp - hp - 1 is never evaluated with rp on hp.  *)
WrapRoom == put.pc = "wrap" => rp > 0 /\ put.len - put.part <= rp - 1

(* A poll of rbuff_datacount that answers 0 does so only for an empty      *)
(* ring, and one that does not leaves a byte to get, although the macro    *)
(* reads wp twice (hash_thread and sche_runnew wait on it).                *)
ProbeSound == get.pc \in {"probe-ge", "probe-lt"} =>
                  (ProbeCount = 0 <=> DataCount(rp, wp) = 0)

(* rbuff_get_write_ptrs names as many bytes as rbuff_put would accept, in  *)
(* the order rbuff_put would fill them (the asserts of the function), and  *)
(* rbuff_get_read_ptrs the bytes rbuff_get would hand over.                *)
PtrsAgree ==
    /\ LET ps == WritePtrs(rp, wp) IN
       /\ ps.len1 + ps.len2 = FreeCount(rp, wp)
       /\ \A i \in 0..FreeCount(rp, wp)-1 : PtrAt(ps, i) = Offset(wp, i)
    /\ LET ps == ReadPtrs(rp, wp) IN
       /\ ps.len1 + ps.len2 = DataCount(rp, wp)
       /\ \A i \in 0..DataCount(rp, wp)-1 : PtrAt(ps, i) = Offset(rp, i)

(* The bytes in the ring, oldest first.                                    *)
Contents == [i \in 1..DataCount(rp, wp) |-> mem[Offset(rp, i - 1)]]

(* The ring implements the queue of ByteFifo: what the reader is handed is *)
(* exactly what the writer put, in order, block by block.                  *)
Fifo == INSTANCE ByteFifo WITH offer <- put.data, queue <- Contents
ImplementsFifo == Fifo!Spec
=============================================================================

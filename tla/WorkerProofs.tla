---------------------------- MODULE WorkerProofs ----------------------------
(* Theorems about Worker, for any number of slots, any sizes of caches, any  *)
(* number of jobs and of runs.                                               *)
EXTENDS Worker, SequenceTheorems, TLAPS

-----------------------------------------------------------------------------
(* The inductive invariant of the types *)

ReaderPoints == {"off", "loop", "wait", "check", "peek", "alloc", "read", "check2",
                 "put", "erase"}
Wanting  == ReaderPoints \ {"off", "loop"}
\* where the reader has a copy of the slot at the head of idle_list
Filling  == {"alloc", "read", "check2", "put", "erase"}
CacheData == [size : CacheSizes, data : 0..MaxJobs]

Lists ==
  /\ idle \in Seq(Unit) /\ Len(idle) <= 2 * NCache
  /\ job \in Seq(Unit) /\ Len(job) <= 2 * NCache
Caches ==
  /\ DOMAIN heap \subseteq Block
  /\ \A b \in DOMAIN heap : heap[b] \in CacheData
ReaderType ==
  /\ reader \in [pc : ReaderPoints, slot : Slot, want : CacheSizes \cup {0}]
  /\ reader.pc \in Wanting => reader.want \in CacheSizes
  /\ reads \in 0..MaxJobs
HasherType ==
  hasher \in [pc : HasherPoints, slot : Slot, rest : Seq(Unit), moved : Nat,
              short : BOOLEAN, exit : BOOLEAN]
\* rbuff_move takes no more from job_list than is there
Moves ==
  /\ hasher.pc = "move2" => hasher.moved + Len(hasher.rest) <= Len(job)
  /\ hasher.pc = "erase" => hasher.moved <= Len(job)
  /\ hasher.pc \notin {"move2", "erase"} => hasher.moved = 0
Types == /\ runflag \in BOOLEAN /\ cancel \in BOOLEAN /\ mishaps \subseteq Mishaps
         /\ Lists /\ Caches /\ ReaderType /\ HasherType /\ Moves

-----------------------------------------------------------------------------
(* Lists of units *)

LEMMA LesserIs ==
  ASSUME NEW a \in Nat, NEW b \in Nat
  PROVE  /\ Lesser(a, b) \in Nat /\ Lesser(a, b) <= a /\ Lesser(a, b) <= b
         /\ Lesser(a, b) = a \/ Lesser(a, b) = b
  BY DEF Lesser

LEMMA FirstOf ==
  ASSUME NEW q \in Seq(Unit), NEW n \in Nat
  PROVE  First(q, n) \in Seq(Unit) /\ Len(First(q, n)) = Lesser(n, Len(q))
<1> DEFINE k == Lesser(n, Len(q))
<1>1. Len(q) \in Nat /\ DOMAIN q = 1 .. Len(q)
  OBVIOUS
<1>2. k \in Nat /\ k <= Len(q)
  BY <1>1, LesserIs
<1>3. \A i \in 1 .. k : q[i] \in Unit
  BY <1>1, <1>2
<1> HIDE DEF k
<1>4. SubSeq(q, 1, k) \in Seq(Unit) /\ Len(SubSeq(q, 1, k)) = IF 1 <= k THEN k - 1 + 1 ELSE 0
  BY <1>2, <1>3, SubSeqProperties
<1>5. Len(SubSeq(q, 1, k)) = k
  BY <1>2, <1>4
<1> QED
  BY <1>4, <1>5 DEF First, k

LEMMA RestOf ==
  ASSUME NEW q \in Seq(Unit), NEW n \in Nat
  PROVE  Rest(q, n) \in Seq(Unit) /\ Len(Rest(q, n)) = Len(q) - Lesser(n, Len(q))
<1> DEFINE k == Lesser(n, Len(q))
<1>1. Len(q) \in Nat /\ DOMAIN q = 1 .. Len(q)
  OBVIOUS
<1>2. k \in Nat /\ k <= Len(q)
  BY <1>1, LesserIs
<1>3. \A i \in k + 1 .. Len(q) : q[i] \in Unit
  BY <1>1, <1>2
<1> HIDE DEF k
<1>4. /\ SubSeq(q, k + 1, Len(q)) \in Seq(Unit)
      /\ Len(SubSeq(q, k + 1, Len(q))) = IF k + 1 <= Len(q) THEN Len(q) - (k + 1) + 1 ELSE 0
  BY <1>1, <1>2, <1>3, SubSeqProperties
<1> DEFINE m == Len(q)  p == Len(SubSeq(q, k + 1, Len(q)))
<1>5. p = m - k
  <2>1. m \in Nat /\ k \in Nat /\ k <= m /\ p = IF k + 1 <= m THEN m - (k + 1) + 1 ELSE 0
    BY <1>1, <1>2, <1>4
  <2> HIDE DEF m, p
  <2> QED
    BY <2>1
<1> QED
  BY <1>4, <1>5 DEF Rest, k

LEMMA PutOf ==
  ASSUME NEW q \in Seq(Unit), Len(q) <= 2 * NCache, NEW u \in Seq(Unit)
  PROVE  /\ Put(q, u) \in Seq(Unit) /\ Free(q) \in Nat
         /\ Len(Put(q, u)) = Len(q) + Lesser(Free(q), Len(u))
         /\ Len(Put(q, u)) <= 2 * NCache
<1>1. Len(q) \in Nat /\ Len(u) \in Nat /\ NCache \in Nat
  BY NCacheAssumption
<1>2. Free(q) \in Nat /\ Free(q) = 2 * NCache - Len(q)
  BY <1>1 DEF Free
<1>3. First(u, Free(q)) \in Seq(Unit) /\ Len(First(u, Free(q))) = Lesser(Free(q), Len(u))
  BY <1>2, FirstOf
<1>4. Lesser(Free(q), Len(u)) \in Nat /\ Lesser(Free(q), Len(u)) <= Free(q)
  BY <1>1, <1>2, LesserIs
<1>5. Put(q, u) \in Seq(Unit) /\ Len(Put(q, u)) = Len(q) + Lesser(Free(q), Len(u))
  BY <1>3, ConcatProperties DEF Put
<1> DEFINE f == Free(q)  l == Lesser(Free(q), Len(u))  n == Len(q)  p == Len(Put(q, u))
<1>6. f = 2 * NCache - n /\ l \in Nat /\ l <= f /\ p = n + l /\ n \in Nat
  BY <1>1, <1>2, <1>4, <1>5
<1>7. p <= 2 * NCache
  <2> HIDE DEF f, l, n, p
  <2> QED
    BY <1>1, <1>6
<1> QED
  BY <1>2, <1>5, <1>7

LEMMA PutGrows ==
  ASSUME NEW q \in Seq(Unit), Len(q) <= 2 * NCache, NEW u \in Seq(Unit)
  PROVE  Len(Put(q, u)) >= Len(q) /\ (\A n \in Nat : Len(u) <= n => Len(Put(q, u)) <= Len(q) + n)
<1> DEFINE l == Lesser(Free(q), Len(u))  m == Len(q)  p == Len(Put(q, u))  k == Len(u)
<1>1. p = m + l /\ Free(q) \in Nat
  BY PutOf
<1>2. k \in Nat /\ m \in Nat
  OBVIOUS
<1>3. l \in Nat /\ l <= k
  BY <1>1, <1>2, LesserIs
<1>4. p >= m /\ \A n \in Nat : k <= n => p <= m + n
  <2> HIDE DEF l, m, p, k
  <2> QED
    BY ONLY <1>1, <1>2, <1>3
<1> QED
  BY <1>4

LEMMA UnitsOf ==
  ASSUME NEW s \in Slot
  PROVE  Units(s) \in Seq(Unit) /\ Len(Units(s)) = 2
<1>1. <<s, 1>> \in Unit /\ <<s, 2>> \in Unit
  BY DEF Unit
<1> QED
  BY <1>1 DEF Units

LEMMA BlankSlots == Blank \in Slot /\ Mixed \in Slot
<1>1. MaxJobs \in Nat
  BY BoundAssumption
<1> QED
  BY <1>1 DEF Blank, Mixed, Slot, NoCache, Wild

LEMMA SlotOfUnits ==
  ASSUME NEW u \in Seq(Unit)
  PROVE  SlotOf(u) \in Slot
<1>1. CASE Len(u) = 2
  <2>1. u[1] \in Unit
    BY <1>1, ElementOfSeq
  <2>2. u[1][1] \in Slot
    BY <2>1 DEF Unit
  <2> QED
    BY <2>2, BlankSlots DEF SlotOf
<1>2. CASE Len(u) # 2
  BY <1>2, BlankSlots DEF SlotOf
<1> QED
  BY <1>1, <1>2

-----------------------------------------------------------------------------
(* Types is inductive. Frames says, part by part, which steps change it.     *)

LEMMA InitTypes == Init => Types
<1> SUFFICES ASSUME Init PROVE Types
  OBVIOUS
<1>1. NCache \in Nat /\ MaxJobs \in Nat
  BY NCacheAssumption, BoundAssumption
<1>2. Lists
  <2> DEFINE start == [i \in 1 .. 2 * NCache |-> <<Blank, IF i % 2 = 1 THEN 1 ELSE 2>>]
  <2>1. 2 * NCache \in Nat
    BY <1>1
  <2>2. \A i \in 1 .. 2 * NCache : <<Blank, IF i % 2 = 1 THEN 1 ELSE 2>> \in Unit
    BY BlankSlots DEF Unit
  <2>3. start \in Seq(Unit) /\ Len(start) = 2 * NCache
    BY <2>1, <2>2, IsASeq
  <2>4. job \in Seq(Unit) /\ Len(job) = 0
    BY EmptySeq DEF Init
  <2>5. idle = start
    BY DEF Init
  <2> QED
    BY <2>1, <2>3, <2>4, <2>5 DEF Lists
<1>3. Caches
  BY DEF Init, Caches
<1>4. ReaderType
  BY <1>1, BlankSlots DEF Init, ReaderType, ReaderPoints, Wanting
<1>5. HasherType /\ Moves
  <2>1. <<>> \in Seq(Unit)
    BY EmptySeq
  <2>2. hasher = [pc |-> "top", slot |-> Mixed, rest |-> <<>>, moved |-> 0,
                  short |-> FALSE, exit |-> FALSE]
    BY DEF Init
  <2> QED
    BY <2>1, <2>2, BlankSlots DEF HasherType, HasherPoints, Moves
<1> QED
  BY <1>2, <1>3, <1>4, <1>5 DEF Init, Types

LEMMA Frames ==
  ASSUME [Next]_vars
  PROVE  /\ Stop \/ Start \/ Close \/ UNCHANGED runflag
         /\ Close \/ UNCHANGED cancel
         /\ EraseIdle \/ MoveFirst \/ MoveSecond \/ PutIdle \/ FreeCache \/ UNCHANGED idle
         /\ PutJob \/ MoveErase \/ GetJob \/ FreeCache \/ UNCHANGED job
         /\ EnsureCache \/ ReadBlock \/ FreeCache \/ UNCHANGED heap
         /\ Start \/ ReaderStep \/ UNCHANGED <<reader, reads>>
         /\ HasherStep \/ (UNCHANGED hasher /\ (PutJob \/ UNCHANGED job))
         /\ HasherStep \/ (UNCHANGED hasher /\ (EraseIdle \/ UNCHANGED idle))
  BY DEF Next, vars, Stop, Start, Close, ReaderStep, HasherStep, Ended, ReadLoop, WaitIdle,
         CheckFlag, PeekIdle, EnsureCache, ReadBlock, FillJob, PutJob, EraseIdle, TestCancel,
         PollJob, TestFlag, MoveFirst, MoveSecond, MoveErase, GetJob, Hash, PutIdle, FreeCache

LEMMA OtherFrames ==
  ASSUME [Next]_vars
  PROVE  /\ ReadBlock \/ FillJob \/ MoveSecond \/ GetJob \/ UNCHANGED mishaps
         /\ mishaps \subseteq mishaps'
<1>1. ReadBlock \/ FillJob \/ MoveSecond \/ GetJob \/ UNCHANGED mishaps
  BY DEF Next, vars, Stop, Start, Close, ReaderStep, HasherStep, Ended, ReadLoop, WaitIdle,
         CheckFlag, PeekIdle, EnsureCache, PutJob, EraseIdle, TestCancel, PollJob, TestFlag,
         MoveFirst, MoveErase, Hash, PutIdle, FreeCache
<1>2. mishaps \subseteq mishaps'
  BY <1>1 DEF ReadBlock, FillJob, MoveSecond, GetJob, GiveUp
<1> QED
  BY <1>1, <1>2

LEMMA NextLists ==
  ASSUME Types, [Next]_vars
  PROVE  Lists'
<1>1. /\ idle \in Seq(Unit) /\ Len(idle) <= 2 * NCache /\ Len(idle) \in Nat
      /\ job \in Seq(Unit) /\ Len(job) <= 2 * NCache /\ Len(job) \in Nat
  BY DEF Types, Lists
<1>2. /\ hasher.rest \in Seq(Unit) /\ hasher.slot \in Slot /\ hasher.moved \in Nat
      /\ reader.slot \in Slot
  BY DEF Types, HasherType, ReaderType
<1>3. \A n \in Nat : /\ Rest(idle, n) \in Seq(Unit) /\ Len(Rest(idle, n)) <= 2 * NCache
                     /\ Rest(job, n) \in Seq(Unit) /\ Len(Rest(job, n)) <= 2 * NCache
  <2> SUFFICES ASSUME NEW q \in Seq(Unit), Len(q) <= 2 * NCache, NEW n \in Nat
               PROVE  Rest(q, n) \in Seq(Unit) /\ Len(Rest(q, n)) <= 2 * NCache
    BY <1>1
  <2> DEFINE m == Len(q)  l == Lesser(n, Len(q))  p == Len(Rest(q, n))
  <2>1. Rest(q, n) \in Seq(Unit) /\ p = m - l
    BY RestOf
  <2>0. m \in Nat
    OBVIOUS
  <2>2. m \in Nat /\ l \in Nat /\ m <= 2 * NCache /\ NCache \in Nat
    BY <2>0, NCacheAssumption, LesserIs
  <2>3. p <= 2 * NCache
    <3>1. p = m - l
      BY <2>1
    <3> HIDE DEF m, l, p
    <3> QED
      BY <2>2, <3>1
  <2> QED
    BY <2>1, <2>3
<1>4. NCache \in Nat /\ 0 <= 2 * NCache
  BY NCacheAssumption
<1>5. idle' \in Seq(Unit) /\ Len(idle') <= 2 * NCache
  <2>1. CASE EraseIdle
    BY <1>3, <2>1 DEF EraseIdle
  <2>2. CASE MoveFirst
    <3>1. PICK c \in EndsOfRing(Len(job)) : idle' = Put(idle, First(job, c))
      BY <2>2 DEF MoveFirst
    <3>2. c \in Nat
      BY <1>1, <3>1 DEF EndsOfRing
    <3> QED
      BY <1>1, <3>1, <3>2, FirstOf, PutOf
  <2>3. CASE MoveSecond
    BY <1>1, <1>2, <2>3, PutOf DEF MoveSecond
  <2>4. CASE PutIdle
    BY <1>1, <1>2, <2>4, UnitsOf, PutOf DEF PutIdle
  <2>5. CASE FreeCache
    BY <1>1, <1>3, <1>4, <2>5, EmptySeq DEF FreeCache
  <2>6. CASE UNCHANGED idle
    BY <1>1, <2>6
  <2> QED
    BY <2>1, <2>2, <2>3, <2>4, <2>5, <2>6, Frames
<1>6. job' \in Seq(Unit) /\ Len(job') <= 2 * NCache
  <2>1. CASE PutJob
    BY <1>1, <1>2, <2>1, UnitsOf, PutOf DEF PutJob
  <2>2. CASE MoveErase
    BY <1>2, <1>3, <2>2 DEF MoveErase
  <2>3. CASE GetJob
    BY <1>3, <2>3 DEF GetJob
  <2>4. CASE FreeCache
    BY <1>1, <1>3, <1>4, <2>4, EmptySeq DEF FreeCache
  <2>5. CASE UNCHANGED job
    BY <1>1, <2>5
  <2> QED
    BY <2>1, <2>2, <2>3, <2>4, <2>5, Frames
<1> QED
  BY <1>5, <1>6 DEF Lists

LEMMA AddressesAre ==
  \A new \in Addresses : new \in Block /\ (new = reader.slot.cache \/ new \notin DOMAIN heap)
<1>1. Unnamed # {} => (CHOOSE b \in Unnamed : TRUE) \in Unnamed
  OBVIOUS
<1> QED
  BY <1>1 DEF Addresses, Unnamed

LEMMA NextCaches ==
  ASSUME Types, [Next]_vars
  PROVE  Caches'
<1>1. /\ DOMAIN heap \subseteq Block /\ \A b \in DOMAIN heap : heap[b] \in CacheData
      /\ reads \in 0..MaxJobs /\ MaxJobs \in Nat
  BY BoundAssumption DEF Types, Caches, ReaderType
<1>2. CASE EnsureCache
  <2>1. CASE UNCHANGED heap
    BY <1>1, <2>1 DEF Caches
  <2>2. CASE heap' # heap
    <3>1. PICK new \in Addresses : Realloc(new)
      BY <1>2, <2>2 DEF EnsureCache
    <3>2. new \in Block /\ reader.want \in CacheSizes
      BY <1>1, <1>2, <3>1, AddressesAre
      DEF EnsureCache, Types, ReaderType, Wanting, ReaderPoints
    <3> DEFINE old == reader.slot.cache
               d == IF old \in DOMAIN heap THEN heap[old].data ELSE 0
    <3>3. d \in 0..MaxJobs
      BY <1>1 DEF CacheData
    <3>4. heap' = [b \in (DOMAIN heap \ {old}) \cup {new} |->
                     IF b = new THEN [size |-> reader.want, data |-> d] ELSE heap[b]]
      BY <3>1 DEF Realloc
    <3> HIDE DEF d
    <3> QED
      BY <1>1, <3>2, <3>3, <3>4 DEF Caches, CacheData
  <2> QED
    BY <2>1, <2>2
<1>3. CASE ReadBlock
  BY <1>1, <1>3 DEF ReadBlock, Caches, CacheData
<1>4. CASE FreeCache
  BY <1>1, <1>4 DEF FreeCache, Caches
<1>5. CASE UNCHANGED heap
  BY <1>1, <1>5 DEF Caches
<1> QED
  BY <1>2, <1>3, <1>4, <1>5, Frames

LEMMA NextReader ==
  ASSUME Types, [Next]_vars
  PROVE  ReaderType'
<1> USE DEF ReaderType, ReaderPoints, Wanting
<1>1. ReaderType /\ idle \in Seq(Unit) /\ DOMAIN heap \subseteq Block
  BY DEF Types, Lists, Caches
<1>2. CASE Start
  BY <1>1, <1>2 DEF Start
<1>3. CASE ReadLoop
  <2>1. reads' \in 0..MaxJobs
    <3>1. CASE reads' = reads
      BY <1>1, <3>1
    <3>2. CASE reads < MaxJobs /\ reads' = reads + 1
      <4>1. reads \in 0..MaxJobs /\ MaxJobs \in Nat
        BY <1>1, BoundAssumption
      <4> QED
        BY ONLY <3>2, <4>1
    <3> QED
      BY <1>3, <3>1, <3>2 DEF ReadLoop
  <2> QED
    BY <1>1, <1>3, <2>1 DEF ReadLoop, ReaderTo
<1>4. CASE WaitIdle \/ CheckFlag \/ PutJob \/ EraseIdle \/ ReadBlock
  BY <1>1, <1>4 DEF WaitIdle, CheckFlag, PutJob, EraseIdle, ReadBlock, ReaderTo, GiveUp
<1>5. CASE PeekIdle
  <2>1. SlotOf(First(idle, 2)) \in Slot
    BY <1>1, FirstOf, SlotOfUnits
  <2> QED
    BY <1>1, <1>5, <2>1 DEF PeekIdle
<1>6. CASE EnsureCache
  <2>1. CASE ReaderTo("read") \/ ReaderTo("off")
    BY <1>1, <1>6, <2>1 DEF EnsureCache, ReaderTo
  <2>2. CASE \E new \in Addresses : Realloc(new)
    <3>1. PICK new \in Block :
             reader' = [reader EXCEPT !.pc = "read", !.slot.cache = new,
                                      !.slot.size = reader.want]
      BY <1>1, <2>2, AddressesAre DEF Realloc
    <3>2. [reader.slot EXCEPT !.cache = new, !.size = reader.want] \in Slot
      BY <1>1, <3>1 DEF Slot
    <3>3. reader' = [reader EXCEPT !.pc = "read",
                                   !.slot = [reader.slot EXCEPT !.cache = new,
                                                                !.size = reader.want]]
      BY <3>1, <1>1
    <3> QED
      BY <1>1, <1>6, <3>2, <3>3 DEF EnsureCache
  <2> QED
    BY <1>6, <2>1, <2>2 DEF EnsureCache
<1>7. CASE FillJob
  <2>1. [reader.slot EXCEPT !.job = reads] \in Slot
    BY <1>1 DEF Slot
  <2>2. \/ reader' = [reader EXCEPT !.pc = "off"]
        \/ reader' = [reader EXCEPT !.pc = "put", !.slot = [reader.slot EXCEPT !.job = reads]]
    BY <1>1, <1>7 DEF FillJob, GiveUp, ReaderTo
  <2> QED
    BY <1>1, <1>7, <2>1, <2>2 DEF FillJob
<1>8. CASE UNCHANGED <<reader, reads>>
  BY <1>1, <1>8
<1> QED
  BY <1>2, <1>3, <1>4, <1>5, <1>6, <1>7, <1>8, Frames DEF ReaderStep

LEMMA NextHasher ==
  ASSUME Types, [Next]_vars
  PROVE  HasherType'
<1> USE DEF HasherType, HasherPoints
<1>1. /\ HasherType /\ job \in Seq(Unit) /\ Len(job) \in Nat /\ Len(hasher.rest) \in Nat
      /\ idle \in Seq(Unit) /\ Len(idle) <= 2 * NCache
  BY DEF Types, Lists
<1>2. Free(idle) \in Nat
  BY <1>1, PutOf
<1>3. CASE TestCancel \/ PollJob \/ TestFlag \/ MoveErase \/ Hash \/ PutIdle \/ FreeCache
  <2>1. HasherType'
    <3>1. CASE TestCancel
      BY <1>1, <3>1 DEF TestCancel
    <3>2. CASE PollJob
      BY <1>1, <3>2 DEF PollJob, HasherTo
    <3>3. CASE TestFlag
      BY <1>1, <3>3 DEF TestFlag, HasherTo
    <3>4. CASE MoveErase
      BY <1>1, <3>4 DEF MoveErase
    <3>5. CASE Hash \/ PutIdle
      BY <1>1, <3>5 DEF Hash, PutIdle, HasherTo
    <3>6. CASE FreeCache
      <4>1. HasherTo("freed") \/ UNCHANGED hasher
        BY <3>6 DEF FreeCache
      <4> QED
        BY <1>1, <4>1 DEF HasherTo
    <3> QED
      BY <1>3, <3>1, <3>2, <3>3, <3>4, <3>5, <3>6
  <2> QED
    BY <2>1
<1>4. CASE MoveFirst
  <2>1. PICK c \in EndsOfRing(Len(job)) :
          hasher' = [hasher EXCEPT !.pc = "move2", !.rest = Rest(job, c),
                                   !.moved = Lesser(c, Free(idle)),
                                   !.short = c > Free(idle)]
    BY <1>4 DEF MoveFirst
  <2>2. c \in Nat
    BY <1>1, <2>1 DEF EndsOfRing
  <2>3. Rest(job, c) \in Seq(Unit) /\ Lesser(c, Free(idle)) \in Nat
    BY <1>1, <1>2, <2>2, RestOf, LesserIs
  <2> DEFINE b == c > Free(idle)
  <2>4. b \in BOOLEAN
    OBVIOUS
  <2>5. hasher' = [hasher EXCEPT !.pc = "move2", !.rest = Rest(job, c),
                                 !.moved = Lesser(c, Free(idle)), !.short = b]
    BY <2>1
  <2> HIDE DEF b
  <2> QED
    BY <1>1, <2>3, <2>4, <2>5
<1>5. CASE MoveSecond
  <2> DEFINE l == Lesser(Len(hasher.rest), Free(idle))  m == hasher.moved
  <2>1. l \in Nat /\ m \in Nat
    BY <1>1, <1>2, LesserIs
  <2>2. m + l \in Nat
    <3> HIDE DEF l, m
    <3> QED
      BY ONLY <2>1
  <2>3. <<>> \in Seq(Unit)
    BY EmptySeq
  <2>4. hasher' = [hasher EXCEPT !.pc = "erase", !.rest = <<>>, !.moved = m + l,
                                 !.short = FALSE]
    BY <1>5 DEF MoveSecond
  <2> HIDE DEF l, m
  <2> QED
    BY <1>1, <2>2, <2>3, <2>4
<1>6. CASE GetJob
  <2>1. SlotOf(First(job, 2)) \in Slot
    BY <1>1, FirstOf, SlotOfUnits
  <2>2. PICK s \in Slot : hasher' = [hasher EXCEPT !.pc = "hash", !.slot = s]
    <3>1. hasher.slot \in Slot /\ Mixed \in Slot
      BY <1>1, BlankSlots
    <3> QED
      BY <1>6, <2>1, <3>1 DEF GetJob
  <2> QED
    BY <1>1, <2>2
<1>7. CASE UNCHANGED hasher
  BY <1>1, <1>7
<1> QED
  BY <1>3, <1>4, <1>5, <1>6, <1>7, Frames DEF HasherStep

\* What rbuff_move has counted is still at the head of job_list.
LEMMA NextMoves ==
  ASSUME Types, [Next]_vars
  PROVE  Moves'
<1>1. /\ Lists /\ HasherType /\ Moves /\ Lists' /\ HasherType'
  BY NextLists, NextHasher DEF Types
<1>2. /\ job \in Seq(Unit) /\ Len(job) \in Nat /\ Len(job) <= 2 * NCache /\ Len(job') \in Nat
      /\ idle \in Seq(Unit) /\ Len(idle) <= 2 * NCache
      /\ hasher.rest \in Seq(Unit) /\ Len(hasher.rest) \in Nat /\ hasher.moved \in Nat
      /\ hasher.moved' \in Nat /\ Len(hasher.rest)' \in Nat
  BY <1>1 DEF Lists, HasherType
<1>3. Free(idle) \in Nat
  BY <1>2, PutOf
<1>4. CASE UNCHANGED hasher /\ (PutJob \/ UNCHANGED job)
  <2>1. Len(job') >= Len(job)
    <3>1. CASE PutJob
      <4>1. reader.slot \in Slot
        BY DEF Types, ReaderType
      <4>2. Units(reader.slot) \in Seq(Unit)
        BY <4>1, UnitsOf
      <4>3. job' = Put(job, Units(reader.slot))
        BY <3>1 DEF PutJob
      <4> QED
        BY <1>2, <4>2, <4>3, PutGrows
    <3>2. CASE UNCHANGED job
      BY <1>2, <3>2
    <3> QED
      BY <1>4, <3>1, <3>2
  <2> DEFINE m == hasher.moved  r == Len(hasher.rest)  j == Len(job)  j1 == Len(job')
  <2>2. m + r <= j => m + r <= j1
    <3>1. m \in Nat /\ r \in Nat /\ j \in Nat /\ j1 \in Nat /\ j <= j1
      BY <1>2, <2>1
    <3> HIDE DEF m, r, j, j1
    <3> QED
      BY ONLY <3>1
  <2>3. m <= j => m <= j1
    <3>1. m \in Nat /\ j \in Nat /\ j1 \in Nat /\ j <= j1
      BY <1>2, <2>1
    <3> HIDE DEF m, j, j1
    <3> QED
      BY ONLY <3>1
  <2> QED
    BY <1>1, <1>4, <2>2, <2>3 DEF Moves
<1>5. CASE MoveFirst
  <2>1. PICK c \in EndsOfRing(Len(job)) :
          hasher' = [hasher EXCEPT !.pc = "move2", !.rest = Rest(job, c),
                                   !.moved = Lesser(c, Free(idle)),
                                   !.short = c > Free(idle)]
    BY <1>5 DEF MoveFirst
  <2>2. c \in 0 .. Len(job)
    BY <2>1 DEF EndsOfRing
  <2>3. c \in Nat /\ c <= Len(job)
    BY <1>2, <2>2
  <2>4. /\ hasher'.pc = "move2" /\ hasher'.rest = Rest(job, c)
        /\ hasher'.moved = Lesser(c, Free(idle)) /\ job' = job
    BY <1>1, <1>5, <2>1 DEF HasherType, MoveFirst
  <2> DEFINE j == Len(job)  l == Lesser(c, Free(idle))  k == Lesser(c, j)  r == Len(Rest(job, c))
  <2>5. j \in Nat /\ l \in Nat /\ l <= c /\ r = j - k /\ k = c
    <3>1. j \in Nat /\ l \in Nat /\ l <= c
      BY <1>2, <1>3, <2>3, LesserIs
    <3>2. r = j - k
      BY <1>2, <2>3, RestOf
    <3>3. k = c
      BY <2>3 DEF Lesser
    <3> QED
      BY <3>1, <3>2, <3>3
  <2>6. l + r <= j
    <3> HIDE DEF j, l, k, r
    <3> QED
      BY <2>3, <2>5
  <2> QED
    BY <2>4, <2>6 DEF Moves
<1>6. CASE MoveSecond
  <2> DEFINE l == Lesser(Len(hasher.rest), Free(idle))  m == hasher.moved
             j == Len(job)  r == Len(hasher.rest)
  <2>1. l \in Nat /\ l <= r /\ m \in Nat /\ r \in Nat /\ j \in Nat /\ m + r <= j
    BY <1>1, <1>2, <1>3, <1>6, LesserIs DEF MoveSecond, Moves
  <2>2. m + l <= j
    <3> HIDE DEF j, l, m, r
    <3> QED
      BY ONLY <2>1
  <2>3. hasher'.pc = "erase" /\ hasher'.moved = m + l /\ job' = job
    BY <1>1, <1>6 DEF HasherType, MoveSecond
  <2> QED
    BY <2>2, <2>3 DEF Moves
<1>7. CASE MoveErase
  <2>1. hasher'.pc \in {"done", "top"} /\ hasher'.moved = 0
    BY <1>1, <1>7 DEF HasherType, MoveErase
  <2> QED
    BY <2>1 DEF Moves
<1>8. CASE TestCancel \/ PollJob \/ TestFlag \/ GetJob \/ Hash \/ PutIdle
  <2>1. /\ hasher.pc \notin {"move2", "erase"} /\ hasher'.moved = hasher.moved
        /\ hasher'.pc \notin {"move2", "erase"}
    BY <1>1, <1>8 DEF HasherType, TestCancel, PollJob, TestFlag, GetJob, Hash, PutIdle, HasherTo
  <2> QED
    BY <1>1, <2>1 DEF Moves
<1>9. CASE FreeCache
  <2>1. hasher.pc = "done" /\ hasher'.pc \in {"done", "freed"} /\ hasher'.moved = hasher.moved
    BY <1>1, <1>9 DEF HasherType, FreeCache, HasherTo
  <2> QED
    BY <1>1, <2>1 DEF Moves
<1> QED
  BY <1>4, <1>5, <1>6, <1>7, <1>8, <1>9, Frames DEF HasherStep

LEMMA NextTypes ==
  ASSUME Types, [Next]_vars
  PROVE  Types'
<1>1. runflag' \in BOOLEAN /\ cancel' \in BOOLEAN
  BY Frames DEF Types, Stop, Start, Close
<1>2. mishaps' \subseteq Mishaps
  <2>1. CASE UNCHANGED mishaps
    BY <2>1 DEF Types
  <2>2. CASE ReadBlock \/ FillJob
    BY <2>2 DEF Types, Mishaps, ReadBlock, FillJob, GiveUp
  <2>3. CASE MoveSecond \/ GetJob
    BY <2>3 DEF Types, Mishaps, MoveSecond, GetJob
  <2> QED
    BY <2>1, <2>2, <2>3, OtherFrames
<1> QED
  BY <1>1, <1>2, NextLists, NextCaches, NextReader, NextHasher, NextMoves DEF Types

LEMMA TypesAlways == Spec => []Types
  BY InitTypes, NextTypes, PTL DEF Spec

(* The lists hold units of slots and no more than their rings can, the caches *)
(* have a size that was asked for, and what rbuff_move has counted is never   *)
(* more than a list can hold: the state of sche_runnew and hash_thread.       *)
THEOREM TypesHold == Spec => []TypeOK
<1>1. Types => TypeOK
  <2> SUFFICES ASSUME Types PROVE TypeOK
    OBVIOUS
  <2>1. hasher.moved \in 0 .. 2 * NCache
    <3> DEFINE m == hasher.moved  j == Len(job)  r == Len(hasher.rest)
    <3>1. /\ m \in Nat /\ j \in Nat /\ r \in Nat /\ j <= 2 * NCache /\ NCache \in Nat
          /\ m + r <= j \/ m <= j \/ m = 0
      BY NCacheAssumption DEF Types, Lists, HasherType, Moves
    <3>2. m \in 0 .. 2 * NCache
      <4> HIDE DEF m, j, r
      <4> QED
        BY ONLY <3>1
    <3> QED
      BY <3>2
  <2> QED
    BY <2>1 DEF Types, TypeOK, Lists, Caches, CacheData, ReaderType, ReaderPoints, HasherType
<1> QED
  BY <1>1, TypesAlways, PTL

-----------------------------------------------------------------------------
(* Stops and ends: nothing runs once the hash thread was told to stop.       *)

Ending ==
  /\ cancel => reader.pc = "off"
  /\ cancel => runflag = FALSE
  /\ hasher.exit => cancel
  /\ hasher.pc \in {"done", "freed"} => hasher.exit
HoldsHead == reader.pc \in Filling => Len(idle) >= 2

LEMMA NextEnding ==
  ASSUME Types, Ending, [Next]_vars
  PROVE  Ending'
<1>1. /\ HasherType /\ runflag \in BOOLEAN /\ cancel \in BOOLEAN
      /\ reader \in [pc : ReaderPoints, slot : Slot, want : CacheSizes \cup {0}]
  BY DEF Types, ReaderType
<1>2. cancel' => runflag' = FALSE
  <2>1. CASE Stop \/ Start \/ Close
    BY <1>1, <2>1 DEF Stop, Start, Close, Ending
  <2>2. CASE UNCHANGED runflag /\ UNCHANGED cancel
    BY <2>2 DEF Ending
  <2>3. CASE UNCHANGED runflag /\ Close
    BY <1>1, <2>3 DEF Close
  <2> QED
    BY <2>1, <2>2, <2>3, Frames
<1>3. cancel' => reader'.pc = "off"
  <2>1. CASE Close
    BY <1>1, <2>1 DEF Close
  <2>2. CASE UNCHANGED cancel /\ Start
    BY <2>2 DEF Start
  <2>3. CASE UNCHANGED cancel /\ ReaderStep
    BY <2>3 DEF Ending, ReaderStep, ReadLoop, WaitIdle, CheckFlag, PeekIdle, EnsureCache,
                ReadBlock, FillJob, PutJob, EraseIdle
  <2>4. CASE UNCHANGED <<cancel, reader>>
    BY <2>4 DEF Ending
  <2> QED
    BY <2>1, <2>2, <2>3, <2>4, Frames
<1>4. cancel => cancel'
  BY Frames DEF Close
<1>5. (hasher'.exit => cancel') /\ (hasher'.pc \in {"done", "freed"} => hasher'.exit)
  <2>1. CASE UNCHANGED hasher
    BY <1>4, <2>1 DEF Ending
  <2>2. CASE TestCancel
    BY <1>1, <1>4, <2>2 DEF Ending, TestCancel, HasherType
  <2>3. CASE PollJob \/ TestFlag \/ Hash \/ PutIdle
    BY <1>1, <1>4, <2>3 DEF Ending, HasherType, PollJob, TestFlag, Hash, PutIdle, HasherTo
  <2>4. CASE MoveFirst
    BY <1>1, <1>4, <2>4 DEF Ending, HasherType, MoveFirst
  <2>5. CASE MoveSecond \/ GetJob
    BY <1>1, <1>4, <2>5 DEF Ending, HasherType, MoveSecond, GetJob
  <2>6. CASE MoveErase
    BY <1>1, <1>4, <2>6 DEF Ending, HasherType, MoveErase
  <2>7. CASE FreeCache
    BY <1>1, <1>4, <2>7 DEF Ending, HasherType, FreeCache, HasherTo
  <2> QED
    BY <2>1, <2>2, <2>3, <2>4, <2>5, <2>6, <2>7, Frames DEF HasherStep
<1> QED
  BY <1>2, <1>3, <1>5 DEF Ending

\* The reader finds at the head of idle_list what it has taken a copy of.
LEMMA NextHoldsHead ==
  ASSUME Types, Ending, HoldsHead, [Next]_vars
  PROVE  HoldsHead'
<1>1. /\ Lists /\ HasherType
      /\ reader \in [pc : ReaderPoints, slot : Slot, want : CacheSizes \cup {0}]
      /\ idle' \in Seq(Unit) /\ Len(idle') \in Nat /\ Len(idle) \in Nat
  BY NextLists DEF Types, ReaderType, Lists
<1>2. ASSUME HasherStep, reader.pc # "off"
      PROVE  Len(idle') >= Len(idle)
  <2>1. ASSUME NEW u \in Seq(Unit), idle' = Put(idle, u)
        PROVE  Len(idle') >= Len(idle)
    BY <1>1, <2>1, PutGrows DEF Lists
  <2>2. CASE UNCHANGED idle
    BY <1>1, <2>2
  <2>3. CASE MoveFirst
    <3>1. PICK c \in EndsOfRing(Len(job)) : idle' = Put(idle, First(job, c))
      BY <2>3 DEF MoveFirst
    <3>2. First(job, c) \in Seq(Unit)
      BY <1>1, <3>1, FirstOf DEF Lists, EndsOfRing
    <3> QED
      BY <2>1, <3>1, <3>2
  <2>4. CASE MoveSecond
    BY <1>1, <2>1, <2>4 DEF MoveSecond, HasherType
  <2>5. CASE PutIdle
    <3>1. Units(hasher.slot) \in Seq(Unit)
      BY <1>1, UnitsOf DEF HasherType
    <3> QED
      BY <2>1, <2>5, <3>1 DEF PutIdle
  <2>6. CASE FreeCache
    BY <1>2, <2>6 DEF FreeCache, Ending
  <2> QED
    BY <1>2, <2>2, <2>3, <2>4, <2>5, <2>6
    DEF HasherStep, TestCancel, PollJob, TestFlag, MoveErase, GetJob, Hash
<1>3. CASE UNCHANGED <<reader, idle>>
  BY <1>3 DEF HoldsHead
<1>4. CASE UNCHANGED reader /\ HasherStep
  <2>1. ASSUME reader.pc \in Filling PROVE Len(idle') >= 2
    <3> DEFINE m == Len(idle)  p == Len(idle')
    <3>1. m >= 2 /\ p >= m /\ m \in Nat /\ p \in Nat
      BY <1>1, <1>2, <1>4, <2>1 DEF HoldsHead, Filling
    <3>2. p >= 2
      <4> HIDE DEF m, p
      <4> QED
        BY ONLY <3>1
    <3> QED
      BY <3>2
  <2> QED
    BY <1>4, <2>1 DEF HoldsHead
<1>5. CASE Start
  BY <1>1, <1>5 DEF Start, HoldsHead, Filling
<1>6. CASE PeekIdle
  <2>1. reader'.pc \in Filling => ~(Len(idle) < 2)
    BY <1>1, <1>6 DEF PeekIdle, Filling
  <2>2. ~(Len(idle) < 2) => Len(idle) >= 2
    BY <1>1
  <2> QED
    BY <1>6, <2>1, <2>2 DEF PeekIdle, HoldsHead
<1>7. CASE EnsureCache
  BY <1>1, <1>7 DEF EnsureCache, Realloc, ReaderTo, HoldsHead, Filling
<1>8. CASE ReadLoop \/ WaitIdle \/ CheckFlag \/ EraseIdle
  BY <1>1, <1>8 DEF ReadLoop, WaitIdle, CheckFlag, EraseIdle, ReaderTo, HoldsHead, Filling
<1>9. CASE ReadBlock \/ FillJob \/ PutJob
  BY <1>1, <1>9 DEF ReadBlock, FillJob, PutJob, ReaderTo, GiveUp, HoldsHead, Filling
<1> QED
  <2>1. \/ Stop \/ Close \/ UNCHANGED vars \/ Ended \/ Start \/ ReaderStep \/ HasherStep
    BY DEF Next
  <2>2. CASE Stop \/ Close \/ UNCHANGED vars \/ Ended
    BY <1>3, <2>2 DEF Stop, Close, Ended, vars
  <2>3. HasherStep => UNCHANGED reader
    BY DEF HasherStep, TestCancel, PollJob, TestFlag, MoveFirst, MoveSecond, MoveErase, GetJob,
           Hash, PutIdle, FreeCache
  <2> QED
    BY <1>4, <1>5, <1>6, <1>7, <1>8, <1>9, <2>1, <2>2, <2>3 DEF ReaderStep

\* Every list holds whole slots, so a get that comes after a test finds one.
-----------------------------------------------------------------------------
(* Lists of whole slots: Num(q) slots, the k-th of them At(q, k).            *)

Even(n) == \E k \in Nat : n = k + k
Num(q) == Len(q) \div 2
At(q, k) == q[2 * k - 1][1]
Paired(q) ==
  /\ Even(Len(q))
  /\ \A k \in 1 .. Num(q) : q[2 * k - 1] = <<At(q, k), 1>> /\ q[2 * k] = <<At(q, k), 2>>

LEMMA EvenSum ==
  ASSUME NEW a \in Nat, NEW b \in Nat, Even(a), Even(b)
  PROVE  Even(a + b) /\ (b <= a => Even(a - b))
<1>1. PICK k \in Nat : a = k + k
  BY DEF Even
<1>2. PICK l \in Nat : b = l + l
  BY DEF Even
<1>3. k + l \in Nat /\ a + b = (k + l) + (k + l)
  BY ONLY <1>1, <1>2
<1>4. b <= a => k - l \in Nat /\ a - b = (k - l) + (k - l)
  BY ONLY <1>1, <1>2
<1> QED
  BY <1>3, <1>4 DEF Even

LEMMA EvenHalf ==
  ASSUME NEW c \in Nat, c % 2 = 0
  PROVE  Even(c)
<1>1. \E k \in Nat : c = k + k
  <2>1. c \div 2 \in Nat /\ c = (c \div 2) + (c \div 2)
    BY Z3
  <2> QED
    BY <2>1
<1> QED
  BY <1>1 DEF Even

LEMMA EvenLesser ==
  ASSUME NEW a \in Nat, NEW b \in Nat, Even(a), Even(b)
  PROVE  Even(Lesser(a, b))
  BY LesserIs

LEMMA EvenSmall == Even(0) /\ Even(2) /\ \A n \in Nat : Even(n) /\ n # 0 => n >= 2
<1>1. 0 = 0 + 0 /\ 2 = 1 + 1 /\ 0 \in Nat /\ 1 \in Nat
  OBVIOUS
<1>2. Even(0) /\ Even(2)
  BY <1>1 DEF Even
<1>3. ASSUME NEW n \in Nat, Even(n), n # 0 PROVE n >= 2
  <2>1. PICK k \in Nat : n = k + k
    BY <1>3 DEF Even
  <2> QED
    BY <1>3, <2>1
<1> QED
  BY <1>2, <1>3

LEMMA EvenFree ==
  ASSUME NEW q \in Seq(Unit), Len(q) <= 2 * NCache, Even(Len(q))
  PROVE  Free(q) \in Nat /\ Even(Free(q))
<1> DEFINE m == Len(q)
<1>1. m \in Nat /\ NCache \in Nat /\ m <= 2 * NCache
  BY NCacheAssumption
<1>2. 2 * NCache = NCache + NCache /\ 2 * NCache \in Nat
  BY <1>1
<1>3. Even(2 * NCache)
  BY <1>1, <1>2 DEF Even
<1> HIDE DEF m
<1>4. 2 * NCache - m \in Nat
  BY <1>1
<1>5. Even(2 * NCache - m)
  BY <1>1, <1>2, <1>3, EvenSum DEF m
<1> QED
  BY <1>4, <1>5 DEF Free, m

LEMMA EvenLists ==
  ASSUME NEW q \in Seq(Unit), Len(q) <= 2 * NCache, Even(Len(q)),
         NEW u \in Seq(Unit), Even(Len(u)), NEW n \in Nat, Even(n)
  PROVE  /\ Even(Len(Put(q, u))) /\ Even(Len(Rest(q, n))) /\ Even(Len(First(q, n)))
         /\ Even(Lesser(n, Free(q))) /\ Even(Lesser(Len(u), Free(q)))
<1>1. Len(q) \in Nat /\ Len(u) \in Nat
  OBVIOUS
<1>2. Free(q) \in Nat /\ Even(Free(q))
  BY EvenFree
<1>3. /\ Even(Lesser(Free(q), Len(u))) /\ Even(Lesser(n, Len(q)))
      /\ Even(Lesser(n, Free(q))) /\ Even(Lesser(Len(u), Free(q)))
  BY <1>1, <1>2, EvenLesser
<1>4. /\ Lesser(Free(q), Len(u)) \in Nat
      /\ Lesser(n, Len(q)) \in Nat /\ Lesser(n, Len(q)) <= Len(q)
  BY <1>1, <1>2, LesserIs
<1>5. Even(Len(q) + Lesser(Free(q), Len(u))) /\ Even(Len(q) - Lesser(n, Len(q)))
  BY <1>1, <1>3, <1>4, EvenSum
<1> QED
  BY <1>3, <1>5, PutOf, RestOf, FirstOf

-----------------------------------------------------------------------------
LEMMA NumOf ==
  ASSUME NEW q \in Seq(Unit), Even(Len(q))
  PROVE  /\ Num(q) \in Nat /\ Len(q) = 2 * Num(q)
         /\ \A k \in 1 .. Num(q) : /\ 2 * k - 1 \in 1 .. Len(q) /\ 2 * k \in 1 .. Len(q)
                                   /\ At(q, k) \in Slot
<1> DEFINE n == Len(q)  h == Len(q) \div 2
<1>1. n \in Nat /\ DOMAIN q = 1 .. n
  OBVIOUS
<1>2. PICK k \in Nat : n = k + k
  BY DEF Even
<1>3. h \in Nat /\ n = 2 * h
  <2>1. h = n \div 2
    OBVIOUS
  <2> HIDE DEF n, h
  <2> QED
    BY <1>2, <2>1
<1>4. \A i \in 1 .. h : 2 * i - 1 \in 1 .. n /\ 2 * i \in 1 .. n
  <2> HIDE DEF n, h
  <2> QED
    BY <1>3
<1>5. \A i \in 1 .. n : q[i][1] \in Slot
  BY <1>1 DEF Unit
<1> QED
  BY <1>3, <1>4, <1>5 DEF Num, At

LEMMA PartsAt ==
  ASSUME NEW q \in Seq(Unit), NEW n \in Nat, n <= Len(q)
  PROVE  /\ First(q, n) \in Seq(Unit) /\ Len(First(q, n)) = n
         /\ \A i \in 1 .. n : First(q, n)[i] = q[i]
         /\ Rest(q, n) \in Seq(Unit) /\ Len(Rest(q, n)) = Len(q) - n
         /\ \A i \in 1 .. Len(q) - n : Rest(q, n)[i] = q[n + i]
<1> DEFINE l == Len(q)
<1>1. l \in Nat /\ DOMAIN q = 1 .. l
  OBVIOUS
<1>2. Lesser(n, Len(q)) = n
  BY DEF Lesser
<1>3. /\ First(q, n) = SubSeq(q, 1, n) /\ Rest(q, n) = SubSeq(q, n + 1, l)
      /\ First(q, n) \in Seq(Unit) /\ Rest(q, n) \in Seq(Unit)
      /\ Len(First(q, n)) = n /\ Len(Rest(q, n)) = l - n
  BY <1>2, FirstOf, RestOf DEF First, Rest
<1>4. \A i \in 1 .. l : q[i] \in Unit
  BY <1>1
<1>5. \A i \in 1 .. n : First(q, n)[i] = q[i]
  <2> HIDE DEF l
  <2> QED
    BY <1>1, <1>3, <1>4, SubSeqProperties
<1>6. \A i \in 1 .. l - n : Rest(q, n)[i] = q[n + i]
  <2> HIDE DEF l
  <2> QED
    BY <1>1, <1>3, <1>4, SubSeqProperties
<1> QED
  BY <1>3, <1>5, <1>6

LEMMA PairedRest ==
  ASSUME NEW q \in Seq(Unit), Paired(q), NEW m \in Nat, m <= Num(q)
  PROVE  /\ Rest(q, 2 * m) \in Seq(Unit) /\ Paired(Rest(q, 2 * m))
         /\ Num(Rest(q, 2 * m)) = Num(q) - m
         /\ \A k \in 1 .. Num(q) - m : At(Rest(q, 2 * m), k) = At(q, m + k)
<1> DEFINE r == Rest(q, 2 * m)  n == Num(q)  l == Len(q)
<1>1. n \in Nat /\ l = 2 * n
  BY NumOf DEF Paired
<1>2. 2 * m \in Nat /\ 2 * m <= l
  <2> HIDE DEF n, l
  <2> QED
    BY <1>1 DEF n
<1>3. /\ r \in Seq(Unit) /\ Len(r) = l - 2 * m
      /\ \A i \in 1 .. l - 2 * m : r[i] = q[2 * m + i]
  BY <1>2, PartsAt
<1>4. \A k \in 1 .. n : q[2 * k - 1] = <<At(q, k), 1>> /\ q[2 * k] = <<At(q, k), 2>>
  BY DEF Paired
<1> HIDE DEF n, l, r
<1>5. n - m \in Nat /\ l - 2 * m = (n - m) + (n - m) /\ (l - 2 * m) \div 2 = n - m
  BY <1>1 DEF n
<1>6. Even(Len(r)) /\ Num(r) = n - m
  BY <1>3, <1>5 DEF Even, Num
<1>7. ASSUME NEW k \in 1 .. n - m
      PROVE  /\ r[2 * k - 1] = <<At(q, m + k), 1>> /\ r[2 * k] = <<At(q, m + k), 2>>
  <2>1. /\ m + k \in 1 .. n /\ 2 * k - 1 \in 1 .. l - 2 * m /\ 2 * k \in 1 .. l - 2 * m
        /\ 2 * m + (2 * k - 1) = 2 * (m + k) - 1 /\ 2 * m + 2 * k = 2 * (m + k)
    BY <1>1, <1>5
  <2>2. r[2 * k - 1] = q[2 * (m + k) - 1] /\ r[2 * k] = q[2 * (m + k)]
    BY <1>3, <2>1
  <2> QED
    BY <1>4, <2>1, <2>2
<1>8. \A k \in 1 .. n - m : At(r, k) = At(q, m + k)
  BY <1>7 DEF At
<1> QED
  BY <1>3, <1>6, <1>7, <1>8 DEF Paired, n, r

LEMMA PairedFirst ==
  ASSUME NEW q \in Seq(Unit), Paired(q), NEW m \in Nat, m <= Num(q)
  PROVE  /\ First(q, 2 * m) \in Seq(Unit) /\ Paired(First(q, 2 * m))
         /\ Num(First(q, 2 * m)) = m
         /\ \A k \in 1 .. m : At(First(q, 2 * m), k) = At(q, k)
<1> DEFINE r == First(q, 2 * m)  n == Num(q)  l == Len(q)
<1>1. n \in Nat /\ l = 2 * n
  BY NumOf DEF Paired
<1>2. 2 * m \in Nat /\ 2 * m <= l
  <2> HIDE DEF n, l
  <2> QED
    BY <1>1 DEF n
<1>3. r \in Seq(Unit) /\ Len(r) = 2 * m /\ \A i \in 1 .. 2 * m : r[i] = q[i]
  BY <1>2, PartsAt
<1>4. \A k \in 1 .. n : q[2 * k - 1] = <<At(q, k), 1>> /\ q[2 * k] = <<At(q, k), 2>>
  BY DEF Paired
<1> HIDE DEF n, l, r
<1>5. 2 * m = m + m /\ (2 * m) \div 2 = m
  OBVIOUS
<1>6. Even(Len(r)) /\ Num(r) = m
  BY <1>3, <1>5 DEF Even, Num
<1>7. ASSUME NEW k \in 1 .. m
      PROVE  r[2 * k - 1] = <<At(q, k), 1>> /\ r[2 * k] = <<At(q, k), 2>>
  <2>1. k \in 1 .. n /\ 2 * k - 1 \in 1 .. 2 * m /\ 2 * k \in 1 .. 2 * m
    BY <1>1 DEF n
  <2> QED
    BY <1>3, <1>4, <2>1
<1>8. \A k \in 1 .. m : At(r, k) = At(q, k)
  <2>1. \A k \in 1 .. m : r[2 * k - 1][1] = At(q, k)
    BY <1>7
  <2>2. \A k \in 1 .. m : At(r, k) = r[2 * k - 1][1]
    BY DEF At
  <2> QED
    BY <2>1, <2>2
<1> QED
  BY <1>3, <1>6, <1>7, <1>8 DEF Paired, r

LEMMA PairedConcat ==
  ASSUME NEW q \in Seq(Unit), Paired(q), NEW u \in Seq(Unit), Paired(u)
  PROVE  /\ q \o u \in Seq(Unit) /\ Paired(q \o u) /\ Num(q \o u) = Num(q) + Num(u)
         /\ \A k \in 1 .. Num(q) : At(q \o u, k) = At(q, k)
         /\ \A k \in 1 .. Num(u) : At(q \o u, Num(q) + k) = At(u, k)
<1> DEFINE r == q \o u  n == Num(q)  l == Len(q)  p == Num(u)  j == Len(u)
<1>1. n \in Nat /\ l = 2 * n /\ p \in Nat /\ j = 2 * p
  BY NumOf DEF Paired
<1>2. /\ r \in Seq(Unit) /\ Len(r) = l + j
      /\ \A i \in 1 .. l + j : r[i] = IF i <= l THEN q[i] ELSE u[i - l]
  BY ConcatProperties
<1>3. \A k \in 1 .. n : q[2 * k - 1] = <<At(q, k), 1>> /\ q[2 * k] = <<At(q, k), 2>>
  BY DEF Paired
<1>4. \A k \in 1 .. p : u[2 * k - 1] = <<At(u, k), 1>> /\ u[2 * k] = <<At(u, k), 2>>
  BY DEF Paired
<1> HIDE DEF r, n, l, p, j
<1>5. n + p \in Nat /\ l + j = (n + p) + (n + p) /\ (l + j) \div 2 = n + p
  BY <1>1
<1>6. Even(Len(r)) /\ Num(r) = n + p
  BY <1>2, <1>5 DEF Even, Num
<1>7. ASSUME NEW k \in 1 .. n
      PROVE  r[2 * k - 1] = <<At(q, k), 1>> /\ r[2 * k] = <<At(q, k), 2>>
  <2>1. /\ 2 * k - 1 \in 1 .. l + j /\ 2 * k \in 1 .. l + j
        /\ 2 * k - 1 <= l /\ 2 * k <= l
    BY <1>1
  <2> QED
    BY <1>2, <1>3, <2>1
<1>8. ASSUME NEW k \in 1 .. p
      PROVE  r[2 * (n + k) - 1] = <<At(u, k), 1>> /\ r[2 * (n + k)] = <<At(u, k), 2>>
  <2>1. /\ 2 * (n + k) - 1 \in 1 .. l + j /\ 2 * (n + k) \in 1 .. l + j
        /\ ~(2 * (n + k) - 1 <= l) /\ ~(2 * (n + k) <= l)
        /\ 2 * (n + k) - 1 - l = 2 * k - 1 /\ 2 * (n + k) - l = 2 * k
    BY <1>1
  <2> QED
    BY <1>2, <1>4, <2>1
<1>9. (\A k \in 1 .. n : At(r, k) = At(q, k)) /\ (\A k \in 1 .. p : At(r, n + k) = At(u, k))
  BY <1>7, <1>8 DEF At
<1>10. ASSUME NEW k \in 1 .. n + p
       PROVE  r[2 * k - 1] = <<At(r, k), 1>> /\ r[2 * k] = <<At(r, k), 2>>
  <2>1. CASE k \in 1 .. n
    BY <1>7, <1>9, <2>1
  <2>2. CASE k \notin 1 .. n
    <3>1. k - n \in 1 .. p /\ n + (k - n) = k
      BY <1>1, <2>2
    <3> QED
      BY <1>8, <1>9, <3>1
  <2> QED
    BY <2>1, <2>2
<1> QED
  BY <1>2, <1>6, <1>9, <1>10 DEF Paired, r, n, p

\* A put of whole slots puts as many of them as there is room for.
LEMMA PairedUnits ==
  ASSUME NEW s \in Slot
  PROVE  /\ Units(s) \in Seq(Unit) /\ Paired(Units(s))
         /\ Num(Units(s)) = 1 /\ At(Units(s), 1) = s
<1>1. Units(s) \in Seq(Unit) /\ Len(Units(s)) = 2
  BY UnitsOf
<1>2. Even(2) /\ 2 \div 2 = 1
  BY EvenSmall
<1>3. Units(s)[1] = <<s, 1>> /\ Units(s)[2] = <<s, 2>>
  BY DEF Units
<1>4. At(Units(s), 1) = s
  BY <1>3 DEF At
<1>5. Num(Units(s)) = 1
  BY <1>1, <1>2 DEF Num
<1>6. \A k \in 1 .. 1 : k = 1 /\ 2 * k - 1 = 1 /\ 2 * k = 2
  OBVIOUS
<1> QED
  BY <1>1, <1>2, <1>3, <1>4, <1>5, <1>6 DEF Paired

LEMMA PairedHead ==
  ASSUME NEW q \in Seq(Unit), Paired(q), Len(q) >= 2
  PROVE  Num(q) >= 1 /\ SlotOf(First(q, 2)) = At(q, 1)
<1>1. Num(q) \in Nat /\ Len(q) = 2 * Num(q)
  BY NumOf DEF Paired
<1>2. Num(q) >= 1
  BY <1>1
<1>3. /\ First(q, 2) \in Seq(Unit) /\ Len(First(q, 2)) = 2
      /\ \A i \in 1 .. 2 : First(q, 2)[i] = q[i]
  BY PartsAt
<1>4. 1 \in 1 .. Num(q) /\ 2 * 1 - 1 = 1 /\ 2 * 1 = 2
  BY <1>1, <1>2
<1>5. q[1] = <<At(q, 1), 1>> /\ q[2] = <<At(q, 1), 2>>
  BY <1>4 DEF Paired
<1>6. First(q, 2)[1] = q[1] /\ First(q, 2)[2] = q[2]
  BY <1>3
<1>7. First(q, 2) = Units(At(q, 1))
  <2>1. At(q, 1) \in Slot
    BY <1>4, NumOf DEF Paired
  <2>2. Units(At(q, 1)) \in Seq(Unit) /\ Len(Units(At(q, 1))) = 2
    BY <2>1, UnitsOf
  <2>3. Units(At(q, 1))[1] = q[1] /\ Units(At(q, 1))[2] = q[2]
    BY <1>5 DEF Units
  <2>4. \A i \in 1 .. 2 : First(q, 2)[i] = Units(At(q, 1))[i]
    BY <1>6, <2>3
  <2> QED
    BY <1>3, <2>2, <2>4, SeqEqual
<1> QED
  BY <1>2, <1>3, <1>5, <1>6, <1>7 DEF SlotOf

-----------------------------------------------------------------------------
(* Parts of lists put together again.                                        *)

LEMMA Joined ==
  ASSUME NEW a \in Seq(Unit), NEW b \in Seq(Unit), NEW c \in Seq(Unit)
  PROVE  /\ (a \o b) \o c = a \o (b \o c) /\ a \o b \in Seq(Unit)
         /\ a \o <<>> = a /\ <<>> \in Seq(Unit) /\ Len(<<>>) = 0
<1>1. a \o b \in Seq(Unit) /\ b \o c \in Seq(Unit)
  BY ConcatProperties
<1>2. (a \o b) \o c = a \o (b \o c) /\ a \o <<>> = a
  BY ConcatAssociative, ConcatEmptySeq
<1> QED
  BY <1>1, <1>2, EmptySeq

LEMMA Assoc ==
  ASSUME NEW a \in Seq(Unit), NEW b \in Seq(Unit), NEW c \in Seq(Unit)
  PROVE  (a \o b) \o c = a \o (b \o c)
  BY Joined

LEMMA SplitJoined ==
  ASSUME NEW q \in Seq(Unit), NEW n \in Nat, n <= Len(q)
  PROVE  First(q, n) \o Rest(q, n) = q
<1> DEFINE a == First(q, n)  b == Rest(q, n)  l == Len(q)
<1>1. /\ a \in Seq(Unit) /\ Len(a) = n /\ \A i \in 1 .. n : a[i] = q[i]
      /\ b \in Seq(Unit) /\ Len(b) = l - n /\ \A i \in 1 .. l - n : b[i] = q[n + i]
  BY PartsAt
<1>2. l \in Nat /\ n <= l
  OBVIOUS
<1> HIDE DEF a, b, l
<1>3. /\ a \o b \in Seq(Unit) /\ Len(a \o b) = Len(a) + Len(b)
      /\ \A i \in 1 .. Len(a) + Len(b) : (a \o b)[i] = IF i <= Len(a) THEN a[i] ELSE b[i - Len(a)]
  BY <1>1, ConcatProperties
<1>4. Len(a) + Len(b) = l
  BY <1>1, <1>2
<1>5. \A i \in 1 .. l : (a \o b)[i] = q[i]
  <2> SUFFICES ASSUME NEW i \in 1 .. l PROVE (a \o b)[i] = q[i]
    OBVIOUS
  <2>1. i <= n => i \in 1 .. n
    BY <1>2
  <2>2. ~(i <= n) => i - n \in 1 .. l - n /\ n + (i - n) = i
    BY <1>2
  <2> QED
    BY <1>1, <1>3, <1>4, <2>1, <2>2
<1>6. q \in Seq(Unit) /\ Len(q) = l
  BY DEF l
<1>7. a \o b = q
  BY <1>3, <1>4, <1>5, <1>6, SeqEqual
<1> QED
  BY <1>7 DEF a, b

LEMMA RestOfRest ==
  ASSUME NEW q \in Seq(Unit), NEW m \in Nat, NEW n \in Nat, m + n <= Len(q)
  PROVE  Rest(Rest(q, m), n) = Rest(q, m + n)
<1> DEFINE a == Rest(q, m)  l == Len(q)
<1>1. l \in Nat /\ m <= l /\ m + n \in Nat /\ n <= l - m /\ m + n <= l
  <2>1. l \in Nat
    OBVIOUS
  <2>2. m + n <= l
    OBVIOUS
  <2> HIDE DEF l
  <2> QED
    BY <2>1, <2>2
<1>2. a \in Seq(Unit) /\ Len(a) = l - m /\ \A i \in 1 .. l - m : a[i] = q[m + i]
  BY <1>1, PartsAt
<1>3. /\ Rest(q, m + n) \in Seq(Unit) /\ Len(Rest(q, m + n)) = l - (m + n)
      /\ \A i \in 1 .. l - (m + n) : Rest(q, m + n)[i] = q[m + n + i]
  BY <1>1, PartsAt
<1> HIDE DEF a
<1>4. n <= Len(a)
  BY <1>1, <1>2
<1>5. /\ Rest(a, n) \in Seq(Unit) /\ Len(Rest(a, n)) = Len(a) - n
      /\ \A i \in 1 .. Len(a) - n : Rest(a, n)[i] = a[n + i]
  BY <1>2, <1>4, PartsAt
<1> HIDE DEF l
<1>6. Len(a) - n = l - (m + n)
  BY <1>1, <1>2
<1>7. \A i \in 1 .. l - (m + n) : Rest(a, n)[i] = Rest(q, m + n)[i]
  <2> SUFFICES ASSUME NEW i \in 1 .. l - (m + n) PROVE Rest(a, n)[i] = Rest(q, m + n)[i]
    OBVIOUS
  <2>1. n + i \in 1 .. l - m /\ m + (n + i) = m + n + i
    BY <1>1
  <2> QED
    BY <1>2, <1>3, <1>5, <1>6, <2>1
<1>8. Rest(a, n) = Rest(q, m + n)
  BY <1>3, <1>5, <1>6, <1>7, SeqEqual
<1> QED
  BY <1>8 DEF a

LEMMA RestOfJoined ==
  ASSUME NEW q \in Seq(Unit), NEW u \in Seq(Unit), NEW n \in Nat, n <= Len(q)
  PROVE  Rest(q \o u, n) = Rest(q, n) \o u /\ First(q \o u, n) = First(q, n)
<1> DEFINE a == First(q, n)  b == Rest(q, n)  l == Len(q)  w == q \o u  k == Len(u)
<1>1. /\ a \in Seq(Unit) /\ Len(a) = n /\ \A i \in 1 .. n : a[i] = q[i]
      /\ b \in Seq(Unit) /\ Len(b) = l - n /\ \A i \in 1 .. l - n : b[i] = q[n + i]
  BY PartsAt
<1>2. l \in Nat /\ n <= l /\ k \in Nat
  OBVIOUS
<1>3. /\ w \in Seq(Unit) /\ Len(w) = l + k
      /\ \A i \in 1 .. l + k : w[i] = IF i <= l THEN q[i] ELSE u[i - l]
  BY ConcatProperties
<1> HIDE DEF w
<1>4. n <= Len(w)
  BY <1>2, <1>3
<1>5. /\ First(w, n) \in Seq(Unit) /\ Len(First(w, n)) = n
      /\ \A i \in 1 .. n : First(w, n)[i] = w[i]
      /\ Rest(w, n) \in Seq(Unit) /\ Len(Rest(w, n)) = Len(w) - n
      /\ \A i \in 1 .. Len(w) - n : Rest(w, n)[i] = w[n + i]
  BY <1>3, <1>4, PartsAt
<1> HIDE DEF a, b
<1>6. /\ b \o u \in Seq(Unit) /\ Len(b \o u) = Len(b) + k
      /\ \A i \in 1 .. Len(b) + k : (b \o u)[i] = IF i <= Len(b) THEN b[i] ELSE u[i - Len(b)]
  BY <1>1, ConcatProperties
<1> HIDE DEF l, k
<1>7. Len(w) - n = Len(b) + k /\ Len(b) + k = l + k - n
  BY <1>1, <1>2, <1>3
<1>8. \A i \in 1 .. l + k - n : Rest(w, n)[i] = (b \o u)[i]
  <2> SUFFICES ASSUME NEW i \in 1 .. l + k - n PROVE Rest(w, n)[i] = (b \o u)[i]
    OBVIOUS
  <2>1. n + i \in 1 .. l + k
    BY <1>2
  <2>2. i <= Len(b) => n + i <= l /\ i \in 1 .. l - n
    BY <1>1, <1>2
  <2>3. ~(i <= Len(b)) => ~(n + i <= l) /\ (n + i) - l = i - Len(b)
    BY <1>1, <1>2
  <2>4. Rest(w, n)[i] = w[n + i]
    BY <1>5, <1>7
  <2>5. (b \o u)[i] = IF i <= Len(b) THEN b[i] ELSE u[i - Len(b)]
    BY <1>6, <1>7
  <2>6. CASE i <= Len(b)
    <3>1. b[i] = q[n + i] /\ w[n + i] = q[n + i]
      BY <1>1, <1>3, <2>1, <2>2, <2>6
    <3> QED
      BY <2>4, <2>5, <2>6, <3>1
  <2>7. CASE ~(i <= Len(b))
    <3>1. w[n + i] = u[i - Len(b)]
      BY <1>3, <2>1, <2>3, <2>7
    <3> QED
      BY <2>4, <2>5, <2>7, <3>1
  <2> QED
    BY <2>6, <2>7
<1>9. Rest(w, n) = b \o u
  BY <1>5, <1>6, <1>7, <1>8, SeqEqual
<1>10. \A i \in 1 .. n : First(w, n)[i] = a[i]
  <2> SUFFICES ASSUME NEW i \in 1 .. n PROVE First(w, n)[i] = a[i]
    OBVIOUS
  <2>1. i \in 1 .. l + k /\ i <= l
    BY <1>2
  <2>2. w[i] = q[i]
    BY <1>3, <2>1
  <2>3. First(w, n)[i] = w[i]
    BY <1>5
  <2>4. a[i] = q[i]
    BY <1>1
  <2> QED
    BY <2>2, <2>3, <2>4
<1>11. First(w, n) = a
  BY <1>1, <1>5, <1>10, SeqEqual
<1> QED
  BY <1>9, <1>11 DEF a, b, w

LEMMA FirstOfFirst ==
  ASSUME NEW q \in Seq(Unit), NEW m \in Nat, NEW n \in Nat, m <= Len(q)
  PROVE  First(First(q, m), n) = First(q, Lesser(m, n))
<1> DEFINE k == Lesser(m, n)  l == Len(q)  a == First(q, m)
<1>1. k \in Nat /\ k <= m /\ k <= n /\ (k = m \/ k = n)
  BY LesserIs
<1>2. l \in Nat /\ m <= l
  OBVIOUS
<1>3. a \in Seq(Unit) /\ Len(a) = m /\ \A i \in 1 .. m : a[i] = q[i]
  BY PartsAt
<1> HIDE DEF a
<1>4. Lesser(n, Len(a)) = k
  BY <1>3 DEF Lesser
<1>5. First(a, n) = First(a, k)
  <2>1. Lesser(k, Len(a)) = k
    <3>1. Len(a) = m
      BY <1>3
    <3> HIDE DEF k
    <3> QED
      BY <1>1, <3>1 DEF Lesser
  <2> QED
    BY <1>4, <2>1 DEF First
<1> HIDE DEF k, l
<1>6. k <= l /\ k <= Len(a)
  BY <1>1, <1>2, <1>3
<1>7. /\ First(a, k) \in Seq(Unit) /\ Len(First(a, k)) = k
      /\ \A i \in 1 .. k : First(a, k)[i] = a[i]
  BY <1>1, <1>3, <1>6, PartsAt
<1>8. /\ First(q, k) \in Seq(Unit) /\ Len(First(q, k)) = k
      /\ \A i \in 1 .. k : First(q, k)[i] = q[i]
  BY <1>1, <1>6, PartsAt DEF l
<1>9. \A i \in 1 .. k : First(a, k)[i] = First(q, k)[i]
  <2> SUFFICES ASSUME NEW i \in 1 .. k PROVE First(a, k)[i] = First(q, k)[i]
    OBVIOUS
  <2>1. i \in 1 .. m
    BY <1>1
  <2> QED
    BY <1>3, <1>7, <1>8, <2>1
<1>10. First(a, k) = First(q, k)
  BY <1>7, <1>8, <1>9, SeqEqual
<1> QED
  BY <1>5, <1>10 DEF a, k

LEMMA WholeParts ==
  ASSUME NEW q \in Seq(Unit)
  PROVE  First(q, Len(q)) = q /\ Rest(q, Len(q)) = <<>> /\ Rest(q, 0) = q /\ First(q, 0) = <<>>
<1>1. Len(q) \in Nat /\ 0 <= Len(q)
  OBVIOUS
<1>2. /\ First(q, Len(q)) \in Seq(Unit) /\ Len(First(q, Len(q))) = Len(q)
      /\ \A i \in 1 .. Len(q) : First(q, Len(q))[i] = q[i]
      /\ Rest(q, Len(q)) \in Seq(Unit) /\ Len(Rest(q, Len(q))) = Len(q) - Len(q)
  BY <1>1, PartsAt
<1>3. /\ First(q, 0) \in Seq(Unit) /\ Len(First(q, 0)) = 0
      /\ Rest(q, 0) \in Seq(Unit) /\ Len(Rest(q, 0)) = Len(q) - 0
      /\ \A i \in 1 .. Len(q) - 0 : Rest(q, 0)[i] = q[0 + i]
  BY <1>1, PartsAt
<1>4. Len(q) - Len(q) = 0 /\ Len(q) - 0 = Len(q) /\ \A i \in 1 .. Len(q) : 0 + i = i
  BY <1>1
<1>5. First(q, Len(q)) = q
  BY <1>2, SeqEqual
<1>6. Rest(q, 0) = q
  BY <1>3, <1>4, SeqEqual
<1> QED
  BY <1>2, <1>3, <1>4, <1>5, <1>6, EmptySeq
-----------------------------------------------------------------------------
(* The circle of slots.  While every get finds a whole slot and no move is   *)
(* cut, each step of the two threads leaves the circle as it is, but for the *)
(* reader, which takes the slot at its head and puts it at its end, and for  *)
(* slots that no list has room for.  rbuff_move and hash_thread only move    *)
(* the border between idle_list and the rest.                                *)

Torn == ~(mishaps \subseteq {"cache left"})
Tail1 == Rest(job, hasher.moved)
Short2 == hasher.pc = "move2" /\ hasher.short
Full2 == hasher.pc = "move2" /\ ~hasher.short
MoveWhole ==
  /\ Short2 => Even(hasher.moved)
  /\ Full2 => /\ Even(hasher.moved + Len(hasher.rest))
              /\ hasher.rest = First(Tail1, Len(hasher.rest))
  /\ hasher.pc = "erase" => Even(hasher.moved)
Base == Types /\ Ending /\ HoldsHead
Shape == Paired(Circle) /\ Even(Len(job)) /\ MoveWhole

LEMMA CircleParts ==
  ASSUME Types
  PROVE  /\ idle \in Seq(Unit) /\ Len(idle) \in Nat /\ Len(idle) <= 2 * NCache
         /\ job \in Seq(Unit) /\ Len(job) \in Nat /\ Len(job) <= 2 * NCache
         /\ InHand \in Seq(Unit) /\ Len(InHand) \in {0, 2}
         /\ Tail1 \in Seq(Unit) /\ Len(Tail1) \in Nat /\ Len(job) = hasher.moved + Len(Tail1)
         /\ hasher.moved \in Nat /\ hasher.moved <= Len(job)
         /\ hasher.rest \in Seq(Unit) /\ Len(hasher.rest) \in Nat
         /\ Full2 => Len(hasher.rest) <= Len(Tail1)
         /\ hasher.pc \notin {"move2", "erase"} => hasher.moved = 0 /\ Tail1 = job
         /\ Circle = (idle \o InHand) \o Tail1 /\ Circle \in Seq(Unit)
         /\ Len(Circle) = Len(idle) + Len(InHand) + Len(Tail1)
<1>1. /\ idle \in Seq(Unit) /\ Len(idle) \in Nat /\ Len(idle) <= 2 * NCache
      /\ job \in Seq(Unit) /\ Len(job) \in Nat /\ Len(job) <= 2 * NCache
      /\ hasher.rest \in Seq(Unit) /\ Len(hasher.rest) \in Nat
      /\ hasher.moved \in Nat /\ hasher.slot \in Slot
  BY DEF Types, Lists, HasherType
<1>2. InHand \in Seq(Unit) /\ Len(InHand) \in {0, 2}
  <2>1. Units(hasher.slot) \in Seq(Unit) /\ Len(Units(hasher.slot)) = 2
    BY <1>1, UnitsOf
  <2>2. <<>> \in Seq(Unit) /\ Len(<<>>) = 0
    BY EmptySeq
  <2> QED
    BY <2>1, <2>2 DEF InHand
<1>3. hasher.moved <= Len(job) /\ (Full2 => hasher.moved + Len(hasher.rest) <= Len(job))
      /\ (hasher.pc \notin {"move2", "erase"} => hasher.moved = 0)
  <2>1. Moves
    BY DEF Types
  <2> DEFINE m == hasher.moved  r == Len(hasher.rest)  j == Len(job)
  <2>2. /\ m \in Nat /\ r \in Nat /\ j \in Nat
        /\ hasher.pc = "move2" => m + r <= j
        /\ hasher.pc = "erase" => m <= j
        /\ hasher.pc \notin {"move2", "erase"} => m = 0
    BY <1>1, <2>1 DEF Moves
  <2> HIDE DEF m, r, j
  <2>3. m <= j
    <3>1. CASE hasher.pc = "move2"
      BY <2>2, <3>1
    <3>2. CASE hasher.pc # "move2"
      BY <2>2, <3>2
    <3> QED
      BY <3>1, <3>2
  <2> QED
    BY <2>2, <2>3 DEF m, r, j, Full2
<1>4. Tail1 \in Seq(Unit) /\ Len(Tail1) = Len(job) - hasher.moved
  BY <1>1, <1>3, PartsAt DEF Tail1
<1>5. Len(Tail1) \in Nat /\ Len(job) = hasher.moved + Len(Tail1)
      /\ (Full2 => Len(hasher.rest) <= Len(Tail1))
  <2> DEFINE m == hasher.moved  r == Len(hasher.rest)  j == Len(job)  t == Len(Tail1)
  <2>1. m \in Nat /\ r \in Nat /\ j \in Nat /\ t = j - m /\ m <= j /\ (Full2 => m + r <= j)
    BY <1>1, <1>3, <1>4
  <2> HIDE DEF m, r, j, t
  <2>2. t \in Nat /\ j = m + t /\ (Full2 => r <= t)
    BY <2>1
  <2> QED
    BY <2>2 DEF m, r, j, t
<1>6. hasher.moved = 0 => Tail1 = job
  BY <1>1, WholeParts DEF Tail1
<1>7. Circle = (idle \o InHand) \o Tail1 /\ idle \o InHand \in Seq(Unit)
      /\ Len(idle \o InHand) = Len(idle) + Len(InHand)
  BY <1>1, <1>2, ConcatProperties DEF Circle, Tail1
<1>8. Circle \in Seq(Unit) /\ Len(Circle) = Len(idle \o InHand) + Len(Tail1)
  BY <1>4, <1>7, ConcatProperties
<1> QED
  BY <1>1, <1>2, <1>3, <1>4, <1>5, <1>6, <1>7, <1>8

LEMMA EvenAround ==
  ASSUME NEW i \in Nat, NEW h \in {0, 2}, NEW t \in Nat, NEW j \in Nat, NEW m \in Nat,
         j = m + t, Even(i + h + t), Even(j)
  PROVE  (m = 0 => Even(i)) /\ (Even(i) => Even(m))
<1>3. PICK a \in Nat : i + h + t = a + a
  BY DEF Even
<1>4. PICK b \in Nat : j = b + b
  BY DEF Even
<1>5. ASSUME m = 0 PROVE Even(i)
  <2>1. CASE h = 0
    <3>1. a - b \in Nat /\ i = (a - b) + (a - b)
      BY <1>3, <1>4, <1>5, <2>1
    <3> QED
      BY <3>1 DEF Even
  <2>2. CASE h = 2
    <3>1. (a - b) - 1 \in Nat /\ i = ((a - b) - 1) + ((a - b) - 1)
      BY <1>3, <1>4, <1>5, <2>2
    <3> QED
      BY <3>1 DEF Even
  <2> QED
    BY <2>1, <2>2
<1>6. ASSUME Even(i) PROVE Even(m)
  <2>1. PICK k \in Nat : i = k + k
    BY <1>6 DEF Even
  <2>2. CASE h = 0
    <3>1. (k + b) - a \in Nat /\ m = ((k + b) - a) + ((k + b) - a)
      BY <1>3, <1>4, <2>1, <2>2
    <3> QED
      BY <3>1 DEF Even
  <2>3. CASE h = 2
    <3>1. (k + b + 1) - a \in Nat /\ m = ((k + b + 1) - a) + ((k + b + 1) - a)
      BY <1>3, <1>4, <2>1, <2>3
    <3> QED
      BY <3>1 DEF Even
  <2> QED
    BY <2>2, <2>3
<1> QED
  BY <1>5, <1>6

\* Between moves, idle_list holds whole slots.
LEMMA IdleEven ==
  ASSUME Types, Shape, hasher.pc \notin {"move2", "erase"}
  PROVE  Even(Len(idle)) /\ Free(idle) \in Nat /\ Even(Free(idle))
<1>1. /\ Len(idle) \in Nat /\ Len(InHand) \in {0, 2} /\ Len(Tail1) \in Nat
      /\ Len(job) \in Nat /\ hasher.moved \in Nat /\ hasher.moved = 0
      /\ Len(job) = hasher.moved + Len(Tail1)
      /\ Len(Circle) = Len(idle) + Len(InHand) + Len(Tail1)
      /\ idle \in Seq(Unit) /\ Len(idle) <= 2 * NCache
  BY CircleParts
<1>2. Even(Len(idle) + Len(InHand) + Len(Tail1)) /\ Even(Len(job))
  BY <1>1 DEF Shape, Paired
<1>3. Even(Len(idle))
  BY <1>1, <1>2, EvenAround
<1> QED
  BY <1>1, <1>3, EvenFree

LEMMA MoveFirstCircle ==
  ASSUME Types, Shape, MoveFirst
  PROVE  Circle' = Circle /\ job' = job /\ Len(idle') >= Len(idle) /\ MoveWhole'
<1>1. PICK c \in EndsOfRing(Len(job)) :
        /\ idle' = Put(idle, First(job, c))
        /\ hasher' = [hasher EXCEPT !.pc = "move2", !.rest = Rest(job, c),
                                    !.moved = Lesser(c, Free(idle)),
                                    !.short = c > Free(idle)]
  BY DEF MoveFirst
<1> DEFINE f == Free(idle)  k == Lesser(c, f)  j == Len(job)
<1>2. /\ hasher.pc = "move" /\ HasherType /\ job' = job
      /\ idle \in Seq(Unit) /\ job \in Seq(Unit) /\ j \in Nat
      /\ Tail1 = job /\ Circle = (idle \o InHand) \o Tail1
  <2>1. hasher.pc = "move" /\ HasherType /\ job' = job
    BY DEF MoveFirst, Types
  <2> QED
    BY <2>1, CircleParts
<1>3. Even(Len(idle)) /\ f \in Nat /\ Even(f) /\ Even(j)
  BY <1>2, IdleEven DEF Shape
<1>4. c \in Nat /\ c <= j
  <2>1. c \in 0 .. j
    BY <1>1 DEF EndsOfRing
  <2> HIDE DEF j
  <2> QED
    BY <1>2, <2>1
<1>5. k \in Nat /\ k <= c /\ k <= f /\ (k = c \/ k = f) /\ k <= j
  <2>1. k \in Nat /\ k <= c /\ k <= f /\ (k = c \/ k = f)
    BY <1>3, <1>4, LesserIs
  <2> HIDE DEF k, f, j
  <2> QED
    BY <1>2, <1>4, <2>1
<1>6. /\ hasher'.pc = "move2" /\ hasher'.rest = Rest(job, c) /\ hasher'.moved = k
      /\ hasher'.short = (c > f)
  BY <1>1, <1>2 DEF HasherType
<1>7. idle' = idle \o First(job, k)
  <2>1. idle' = idle \o First(First(job, c), f)
    BY <1>1 DEF Put
  <2>2. First(First(job, c), f) = First(job, k)
    <3> HIDE DEF f
    <3> QED
      BY <1>2, <1>3, <1>4, FirstOfFirst
  <2> QED
    BY <2>1, <2>2
<1>8. First(job, k) \in Seq(Unit) /\ Rest(job, k) \in Seq(Unit) /\ First(job, k) \o Rest(job, k) = job
  <2> HIDE DEF k
  <2>1. First(job, k) \in Seq(Unit) /\ Rest(job, k) \in Seq(Unit)
    BY <1>2, <1>5, PartsAt
  <2>2. First(job, k) \o Rest(job, k) = job
    BY <1>2, <1>5, SplitJoined
  <2> QED
    BY <2>1, <2>2
<1>9. Circle' = Circle
  <2>1. InHand = <<>> /\ InHand' = <<>>
    BY <1>2, <1>6 DEF InHand
  <2>2. Tail1' = Rest(job, k)
    BY <1>2, <1>6 DEF Tail1
  <2>3. Circle' = ((idle \o First(job, k)) \o <<>>) \o Rest(job, k)
    BY <1>7, <2>1, <2>2 DEF Circle, Tail1
  <2>4. Circle = (idle \o <<>>) \o job
    BY <1>2, <2>1
  <2>5. /\ idle \o First(job, k) \in Seq(Unit) /\ idle \o <<>> = idle
        /\ (idle \o First(job, k)) \o Rest(job, k) = idle \o (First(job, k) \o Rest(job, k))
    <3> DEFINE A == First(job, k)  B == Rest(job, k)
    <3>1. A \in Seq(Unit) /\ B \in Seq(Unit) /\ idle \in Seq(Unit)
      BY <1>2, <1>8
    <3> HIDE DEF A, B
    <3>2. idle \o A \in Seq(Unit) /\ idle \o <<>> = idle /\ (idle \o A) \o B = idle \o (A \o B)
      BY <3>1, Joined
    <3> QED
      BY <3>2 DEF A, B
  <2>6. (idle \o First(job, k)) \o <<>> = idle \o First(job, k)
    BY <2>5, Joined
  <2> QED
    BY <1>8, <2>3, <2>4, <2>5, <2>6
<1>10. Len(idle') >= Len(idle)
  BY <1>2, <1>4, FirstOf, PutGrows, <1>1 DEF Types, Lists
<1>11. MoveWhole'
  <2> DEFINE r == Rest(job, c)
  <2>1. r \in Seq(Unit) /\ Len(r) = j - c /\ First(r, Len(r)) = r
    BY <1>2, <1>4, PartsAt, WholeParts
  <2>2. CASE c > f
    <3>1. k = f
      <4> HIDE DEF k, f
      <4> QED
        BY <1>3, <1>4, <1>5, <2>2
    <3>2. Even(hasher'.moved)
      BY <1>3, <1>6, <3>1
    <3>3. ~Full2'
      BY <1>6, <2>2 DEF Full2
    <3> QED
      BY <1>6, <3>2, <3>3 DEF MoveWhole
  <2>3. CASE ~(c > f)
    <3>1. k = c
      <4> HIDE DEF k, f
      <4> QED
        BY <1>3, <1>4, <1>5, <2>3
    <3>2. k + Len(r) = j
      <4> HIDE DEF k, f, j, r
      <4> QED
        BY <1>2, <1>4, <2>1, <3>1
    <3>3. Tail1' = r /\ hasher'.rest = r
      BY <1>2, <1>6, <3>1 DEF Tail1
    <3>4. Even(hasher'.moved + Len(hasher'.rest)) /\ hasher'.rest = First(Tail1', Len(hasher'.rest))
      BY <1>3, <1>6, <2>1, <3>2, <3>3
    <3>5. ~Short2'
      BY <1>6, <2>3 DEF Short2
    <3> QED
      BY <1>6, <3>4, <3>5 DEF MoveWhole
  <2> QED
    BY <2>2, <2>3
<1> QED
  BY <1>2, <1>9, <1>10, <1>11

LEMMA MoveSecondCircle ==
  ASSUME Types, Shape, MoveSecond, ~Torn'
  PROVE  Circle' = Circle /\ job' = job /\ Len(idle') >= Len(idle) /\ MoveWhole'
<1> DEFINE f == Free(idle)  r == Len(hasher.rest)  l == Lesser(r, f)  m == hasher.moved
           T == Tail1
<1>1. /\ hasher.pc = "move2" /\ HasherType /\ job' = job
      /\ idle \in Seq(Unit) /\ Len(idle) <= 2 * NCache /\ job \in Seq(Unit) /\ Len(job) \in Nat
      /\ T \in Seq(Unit) /\ Len(T) \in Nat /\ Len(job) = m + Len(T) /\ m \in Nat
      /\ hasher.rest \in Seq(Unit) /\ r \in Nat /\ (Full2 => r <= Len(T))
      /\ Circle = (idle \o InHand) \o T
  BY CircleParts DEF MoveSecond, Types
<1>2. f \in Nat /\ Len(idle) + f = 2 * NCache /\ Len(idle) \in Nat
  <2>1. f \in Nat
    BY <1>1, PutOf
  <2>2. Len(idle) \in Nat /\ f = 2 * NCache - Len(idle) /\ NCache \in Nat
    BY <1>1, NCacheAssumption DEF Free
  <2> DEFINE i == Len(idle)
  <2> HIDE DEF f, i
  <2> QED
    BY <2>1, <2>2 DEF i
<1>3. l \in Nat /\ l <= r /\ l <= f /\ (l = r \/ l = f)
  BY <1>1, <1>2, LesserIs
<1>4. /\ hasher'.pc = "erase" /\ hasher'.moved = m + l /\ idle' = Put(idle, hasher.rest)
  BY <1>1 DEF MoveSecond, HasherType
<1>5. InHand = <<>> /\ InHand' = <<>>
  BY <1>1, <1>4 DEF InHand
<1>6. idle' = idle \o First(hasher.rest, f)
  BY <1>4 DEF Put
<1>7. Circle = idle \o T
  BY <1>1, <1>5, Joined
<1>8. First(hasher.rest, f) \in Seq(Unit) /\ Len(First(hasher.rest, f)) = Lesser(f, r)
  BY <1>1, <1>2, FirstOf
<1>9. Lesser(f, r) = l
  BY <1>1, <1>2 DEF Lesser
<1>10. /\ idle' = idle \o First(T, l) /\ (hasher.short => l = 0) /\ l <= Len(T)
  <2>1. CASE hasher.short
    <3>1. First(hasher.rest, f) = <<>>
      BY <2>1 DEF Torn, MoveSecond
    <3>2. l = 0
      <4>1. Len(First(hasher.rest, f)) = l
        BY <1>8, <1>9
      <4>2. Len(First(hasher.rest, f)) = 0
        BY <3>1
      <4> QED
        BY <4>1, <4>2
    <3>3. First(T, 0) = <<>>
      BY <1>1, WholeParts
    <3> QED
      BY <1>1, <1>6, <3>1, <3>2, <3>3
  <2>2. CASE ~hasher.short
    <3>1. hasher.rest = First(T, r) /\ r <= Len(T)
      BY <1>1, <2>2 DEF Shape, MoveWhole, Full2
    <3>2. First(hasher.rest, f) = First(T, l)
      BY <1>1, <1>2, <3>1, FirstOfFirst
    <3>3. l <= Len(T)
      <4> DEFINE t == Len(T)
      <4>1. t \in Nat /\ r <= t
        BY <1>1, <3>1
      <4> HIDE DEF l, t, r, f
      <4>2. l <= t
        BY <1>1, <1>3, <4>1
      <4> QED
        BY <4>2 DEF t
    <3> QED
      BY <1>6, <2>2, <3>2, <3>3
  <2> QED
    BY <2>1, <2>2
<1>11. /\ First(T, l) \in Seq(Unit) /\ Rest(T, l) \in Seq(Unit) /\ First(T, l) \o Rest(T, l) = T
       /\ Len(First(T, l)) = l
  BY <1>1, <1>3, <1>10, PartsAt, SplitJoined
<1>12. Tail1' = Rest(T, l)
  <2>1. m + l <= Len(job)
    <3> DEFINE t == Len(T)  j == Len(job)
    <3>1. t \in Nat /\ j \in Nat /\ j = m + t /\ l <= t
      BY <1>1, <1>10
    <3> HIDE DEF l, t, j, m
    <3>2. m + l <= j
      BY <1>1, <1>3, <3>1
    <3> QED
      BY <3>2 DEF j
  <2>2. Rest(Rest(job, m), l) = Rest(job, m + l)
    BY <1>1, <1>3, <2>1, RestOfRest
  <2> QED
    BY <1>1, <1>4, <2>2 DEF Tail1
<1>13. Circle' = Circle
  <2>1. Circle' = ((idle \o First(T, l)) \o <<>>) \o Rest(T, l)
    BY <1>5, <1>10, <1>12 DEF Circle, Tail1
  <2>2. /\ idle \o First(T, l) \in Seq(Unit)
        /\ (idle \o First(T, l)) \o Rest(T, l) = idle \o (First(T, l) \o Rest(T, l))
    <3> DEFINE A == First(T, l)  B == Rest(T, l)
    <3>1. A \in Seq(Unit) /\ B \in Seq(Unit) /\ idle \in Seq(Unit)
      BY <1>1, <1>11
    <3> HIDE DEF A, B
    <3>2. idle \o A \in Seq(Unit) /\ (idle \o A) \o B = idle \o (A \o B)
      BY <3>1, Joined
    <3> QED
      BY <3>2 DEF A, B
  <2>3. (idle \o First(T, l)) \o <<>> = idle \o First(T, l)
    BY <2>2, Joined
  <2> QED
    BY <1>7, <1>11, <2>1, <2>2, <2>3
<1>14. Len(idle') >= Len(idle)
  BY <1>1, <1>4, PutGrows
<1>15. Even(m + l)
  <2>1. CASE hasher.short
    <3>1. Even(m)
      BY <1>1, <2>1 DEF Shape, MoveWhole, Short2
    <3> QED
      BY <1>1, <1>10, <2>1, <3>1
  <2>2. CASE ~hasher.short /\ l = r
    BY <1>1, <2>2 DEF Shape, MoveWhole, Full2
  <2>3. CASE l = f
    <3> HIDE DEF l, T, f
    <3>1. Len(idle') = Len(idle) + l /\ idle' \in Seq(Unit)
      BY <1>1, <1>10, <1>11, ConcatProperties
    <3>2. idle' \in Seq(Unit) /\ Len(Rest(T, l)) = Len(T) - l /\ Len(Rest(T, l)) \in Nat
      <4>1. Len(Rest(T, l)) = Len(T) - l
        BY <1>1, <1>3, <1>10, PartsAt
      <4>2. Len(Rest(T, l)) \in Nat
        BY <1>11
      <4> QED
        BY <3>1, <4>1, <4>2
    <3>3. Circle = idle' \o Rest(T, l)
      <4> DEFINE A == First(T, l)  B == Rest(T, l)
      <4>1. A \in Seq(Unit) /\ B \in Seq(Unit) /\ idle \in Seq(Unit)
        BY <1>1, <1>11
      <4>2. A \o B = T /\ idle' = idle \o A
        BY <1>10, <1>11
      <4> HIDE DEF A, B
      <4>3. (idle \o A) \o B = idle \o (A \o B)
        BY <4>1, Assoc
      <4> QED
        BY <1>7, <4>2, <4>3 DEF B
    <3>4. Len(Circle) = Len(idle') + Len(Rest(T, l))
      BY <1>11, <3>2, <3>3, ConcatProperties
    <3> DEFINE i1 == Len(idle')  t1 == Len(Rest(T, l))  j == Len(job)  t == Len(T)  i == Len(idle)
    <3>5. Even(i1 + 0 + t1) /\ Even(j)
      <4>1. i1 \in Nat /\ t1 \in Nat
        BY <3>2
      <4>2. i1 + 0 + t1 = i1 + t1
        <5> HIDE DEF i1, t1
        <5> QED
          BY <4>1
      <4> QED
        BY <3>4, <4>2 DEF Shape, Paired
    <3>6. i1 \in Nat /\ t1 \in Nat /\ j \in Nat /\ t \in Nat /\ j = m + t /\ t1 = t - l
          /\ i1 = i + l /\ i + f = 2 * NCache /\ i \in Nat /\ NCache \in Nat
      BY <1>1, <1>2, <3>1, <3>2, NCacheAssumption
    <3> HIDE DEF i1, t1, j, t, i, f, l, m, r
    <3>7. i1 = NCache + NCache /\ j = (m + l) + t1 /\ m + l \in Nat
      BY <1>1, <1>3, <2>3, <3>6
    <3>8. Even(i1)
      BY <3>6, <3>7 DEF Even
    <3> QED
      BY <3>5, <3>6, <3>7, <3>8, EvenAround
  <2> QED
    BY <1>3, <2>1, <2>2, <2>3
<1>16. MoveWhole'
  BY <1>4, <1>15 DEF MoveWhole, Short2, Full2
<1> QED
  BY <1>1, <1>13, <1>14, <1>16

LEMMA MoveEraseCircle ==
  ASSUME Types, Shape, MoveErase
  PROVE  Circle' = Circle /\ Even(Len(job')) /\ idle' = idle /\ MoveWhole'
<1>1. /\ hasher.pc = "erase" /\ HasherType /\ idle' = idle /\ job' = Tail1
      /\ hasher'.moved = 0 /\ hasher'.pc \in {"done", "top"}
      /\ Tail1 \in Seq(Unit) /\ Len(Tail1) \in Nat /\ Len(job) = hasher.moved + Len(Tail1)
      /\ hasher.moved \in Nat
  BY CircleParts DEF MoveErase, Types, HasherType, Tail1
<1>2. Tail1' = Tail1
  BY <1>1, WholeParts DEF Tail1
<1>3. InHand = <<>> /\ InHand' = <<>>
  BY <1>1 DEF InHand
<1>4. Circle' = Circle
  BY <1>1, <1>2, <1>3 DEF Circle, Tail1
<1>5. Even(Len(Tail1))
  <2> DEFINE t == Len(Tail1)  m == hasher.moved  j == Len(job)
  <2>1. Even(m) /\ Even(j) /\ t \in Nat /\ m \in Nat /\ j = m + t
    BY <1>1 DEF Shape, MoveWhole
  <2>2. j \in Nat /\ m <= j /\ t = j - m
    <3> HIDE DEF t, m, j
    <3> QED
      BY <2>1
  <2> HIDE DEF t, m, j
  <2>3. Even(t)
    BY <2>1, <2>2, EvenSum
  <2> QED
    BY <2>3 DEF t
<1> QED
  BY <1>1, <1>4, <1>5 DEF MoveWhole, Short2, Full2

LEMMA PairedSplit ==
  ASSUME NEW a \in Seq(Unit), NEW b \in Seq(Unit), Paired(a \o b), Even(Len(a))
  PROVE  Paired(a) /\ Paired(b) /\ Num(a \o b) = Num(a) + Num(b) /\ Num(a) \in Nat /\ Num(b) \in Nat
<1> DEFINE q == a \o b  m == Num(a)
<1>1. q \in Seq(Unit) /\ Len(q) = Len(a) + Len(b) /\ Len(a) \in Nat /\ Len(b) \in Nat
  BY ConcatProperties
<1>2. m \in Nat /\ Len(a) = 2 * m
  BY NumOf
<1>3. Num(q) \in Nat /\ Len(q) = 2 * Num(q)
  BY <1>1, NumOf DEF Paired
<1>4. m <= Num(q)
  <2> DEFINE x == Num(q)  y == Len(a)  z == Len(b)
  <2>1. x \in Nat /\ y \in Nat /\ z \in Nat /\ 2 * x = y + z /\ y = 2 * m
    BY <1>1, <1>2, <1>3
  <2> HIDE DEF x, y, z, m
  <2>2. m <= x
    BY <1>2, <2>1
  <2> QED
    BY <2>2 DEF x
<1>5. First(q, Len(a)) = a /\ Rest(q, Len(a)) = b
  <2>1. First(q, Len(a)) = First(a, Len(a)) /\ Rest(q, Len(a)) = Rest(a, Len(a)) \o b
    BY <1>1, RestOfJoined
  <2>2. First(a, Len(a)) = a /\ Rest(a, Len(a)) = <<>>
    BY WholeParts
  <2>3. <<>> \o b = b
    BY ConcatEmptySeq
  <2> QED
    BY <2>1, <2>2, <2>3
<1> HIDE DEF q
<1>6. Paired(q)
  BY DEF q
<1>7. Paired(First(q, 2 * m)) /\ Paired(Rest(q, 2 * m)) /\ Num(Rest(q, 2 * m)) = Num(q) - m
  BY <1>1, <1>2, <1>4, <1>6, PairedFirst, PairedRest
<1>8. Paired(a) /\ Paired(b) /\ Num(b) = Num(q) - m
  BY <1>2, <1>5, <1>7
<1>9. Num(q) = m + Num(b) /\ Num(b) \in Nat
  <2> DEFINE x == Num(q)  y == Num(b)
  <2>1. x \in Nat /\ y = x - m /\ m <= x
    BY <1>3, <1>4, <1>8
  <2> HIDE DEF x, y, m
  <2>2. x = m + y /\ y \in Nat
    BY <1>2, <2>1
  <2> QED
    BY <2>2 DEF x, y
<1> QED
  BY <1>2, <1>8, <1>9 DEF q

\* Between moves each list holds whole slots, and so does the hash thread.
LEMMA WholeLists ==
  ASSUME Types, Shape, hasher.pc \notin {"move2", "erase"}
  PROVE  /\ Paired(idle) /\ Paired(InHand) /\ Paired(job)
         /\ Circle = (idle \o InHand) \o job /\ Circle = idle \o (InHand \o job)
         /\ InHand \o job \in Seq(Unit) /\ Paired(InHand \o job)
         /\ Even(Len(idle)) /\ Even(Len(job)) /\ Even(Len(InHand))
         /\ Free(idle) \in Nat /\ Even(Free(idle))
<1>1. /\ idle \in Seq(Unit) /\ InHand \in Seq(Unit) /\ job \in Seq(Unit) /\ Len(InHand) \in {0, 2}
      /\ Tail1 = job /\ Circle = (idle \o InHand) \o Tail1
  BY CircleParts
<1>2. Even(Len(idle)) /\ Free(idle) \in Nat /\ Even(Free(idle)) /\ Even(Len(job))
  BY IdleEven DEF Shape
<1>3. Even(Len(InHand))
  BY <1>1, EvenSmall
<1>4. Circle = idle \o (InHand \o job) /\ InHand \o job \in Seq(Unit)
  <2>1. (idle \o InHand) \o job = idle \o (InHand \o job)
    BY <1>1, Assoc
  <2>2. InHand \o job \in Seq(Unit)
    BY <1>1, ConcatProperties
  <2> QED
    BY <1>1, <2>1, <2>2
<1>5. Paired(Circle)
  BY DEF Shape
<1>6. Paired(idle) /\ Paired(InHand \o job)
  BY <1>1, <1>2, <1>4, <1>5, PairedSplit
<1>7. Paired(InHand) /\ Paired(job)
  BY <1>1, <1>3, <1>6, PairedSplit
<1> QED
  BY <1>1, <1>2, <1>3, <1>4, <1>6, <1>7

-----------------------------------------------------------------------------
(* What a step leaves of the circle: the slots of p are slots of q, in their *)
(* order, and those of p behind place a were behind place x of q.            *)

Thinned(f, p, q) ==
  /\ f \in [1 .. Num(p) -> 1 .. Num(q)]
  /\ \A k \in 1 .. Num(p) : f[k] >= k /\ At(p, k) = At(q, f[k])
  /\ \A k, l \in 1 .. Num(p) : k < l => f[k] < f[l]
Behind(k, a) == 2 * k - 1 > a
Borders(f, p, a, x) == \A k \in 1 .. Num(p) : Behind(k, a) => Behind(f[k], x)

LEMMA ThinSame ==
  ASSUME NEW q \in Seq(Unit), Paired(q)
  PROVE  \E f : /\ Thinned(f, q, q) /\ \A a, x \in Nat : a >= x => Borders(f, q, a, x)
                /\ Num(q) >= 1 => f[1] = 1
<1> DEFINE n == Num(q)  f == [k \in 1 .. n |-> k]
<1>1. n \in Nat
  BY NumOf DEF Paired
<1> HIDE DEF n
<1>2. f \in [1 .. n -> 1 .. n] /\ \A k \in 1 .. n : f[k] = k
  OBVIOUS
<1> HIDE DEF f
<1>3. \A k, l \in 1 .. n : k < l => f[k] < f[l]
  BY <1>1, <1>2
<1>4. \A k \in 1 .. n : f[k] >= k /\ At(q, k) = At(q, f[k])
  BY <1>1, <1>2
<1>5. \A a, x \in Nat : a >= x => \A k \in 1 .. n : Behind(k, a) => Behind(f[k], x)
  BY <1>1, <1>2 DEF Behind
<1>6. n >= 1 => f[1] = 1
  BY <1>1, <1>2
<1> QED
  BY <1>2, <1>3, <1>4, <1>5, <1>6 DEF Thinned, Borders, n

LEMMA ThinRest ==
  ASSUME NEW q \in Seq(Unit), Paired(q), Len(q) >= 2
  PROVE  /\ Rest(q, 2) \in Seq(Unit) /\ Paired(Rest(q, 2))
         /\ \E f : /\ Thinned(f, Rest(q, 2), q)
                   /\ \A k \in 1 .. Num(Rest(q, 2)) : f[k] = k + 1
                   /\ \A a, x \in Nat : a + 2 >= x => Borders(f, Rest(q, 2), a, x)
<1> DEFINE n == Num(q)  r == Rest(q, 2)  m == Num(r)  f == [k \in 1 .. m |-> k + 1]
<1>1. n \in Nat /\ n >= 1
  BY NumOf, PairedHead DEF Paired
<1>2. 2 * 1 = 2
  OBVIOUS
<1>3. r \in Seq(Unit) /\ Paired(r) /\ m = n - 1 /\ \A k \in 1 .. m : At(r, k) = At(q, 1 + k)
  BY <1>1, <1>2, PairedRest
<1>4. \A k \in 1 .. m : f[k] = k + 1
  OBVIOUS
<1> HIDE DEF n, m, r
<1>5. m \in Nat /\ \A k \in 1 .. m : k + 1 \in 1 .. n /\ 1 + k = k + 1
  BY <1>1, <1>3
<1>6. f \in [1 .. m -> 1 .. n]
  BY <1>5
<1> HIDE DEF f
<1>7. \A k, l \in 1 .. m : k < l => f[k] < f[l]
  BY <1>4, <1>5
<1>8. \A k \in 1 .. m : f[k] >= k /\ At(r, k) = At(q, f[k])
  BY <1>3, <1>4, <1>5
<1>9. \A a, x \in Nat : a + 2 >= x => \A k \in 1 .. m : Behind(k, a) => Behind(f[k], x)
  BY <1>4, <1>5 DEF Behind
<1>10. Thinned(f, r, q) /\ \A a, x \in Nat : a + 2 >= x => Borders(f, r, a, x)
  BY <1>6, <1>7, <1>8, <1>9 DEF Thinned, Borders, n, m
<1> QED
  BY <1>3, <1>4, <1>10 DEF r, m

\* The slot in the middle is dropped.
LEMMA ThinDrop ==
  ASSUME NEW a \in Seq(Unit), NEW h \in Seq(Unit), NEW b \in Seq(Unit),
         Paired(a), Paired(h), Paired(b), Num(h) = 1
  PROVE  /\ Paired(a \o b)
         /\ \E f : /\ Thinned(f, a \o b, (a \o h) \o b)
                   /\ Borders(f, a \o b, Len(a), Len(a)) /\ Borders(f, a \o b, Len(a), Len(a) + 2)
                   /\ Len(a) >= 2 => f[1] = 1
<1> DEFINE p == a \o b  q == (a \o h) \o b  n == Num(a)  m == Num(b)
           f == [k \in 1 .. n + m |-> IF k <= n THEN k ELSE k + 1]
<1>1. n \in Nat /\ m \in Nat /\ Len(a) = 2 * n
  BY NumOf DEF Paired
<1>2. /\ p \in Seq(Unit) /\ Paired(p) /\ Num(p) = n + m
      /\ \A k \in 1 .. n : At(p, k) = At(a, k)
      /\ \A k \in 1 .. m : At(p, n + k) = At(b, k)
  BY PairedConcat
<1>3. /\ a \o h \in Seq(Unit) /\ Paired(a \o h) /\ Num(a \o h) = n + 1
      /\ \A k \in 1 .. n : At(a \o h, k) = At(a, k)
  BY PairedConcat
<1>4. /\ Num(q) = (n + 1) + m
      /\ \A k \in 1 .. n + 1 : At(q, k) = At(a \o h, k)
      /\ \A k \in 1 .. m : At(q, (n + 1) + k) = At(b, k)
  <2> DEFINE w == a \o h
  <2>1. w \in Seq(Unit) /\ Paired(w) /\ Num(w) = n + 1
    BY <1>3
  <2> HIDE DEF w
  <2>2. /\ Num(w \o b) = Num(w) + m
        /\ \A k \in 1 .. Num(w) : At(w \o b, k) = At(w, k)
        /\ \A k \in 1 .. m : At(w \o b, Num(w) + k) = At(b, k)
    BY <2>1, PairedConcat
  <2> HIDE DEF n, m
  <2>3. /\ Num(w \o b) = (n + 1) + m
        /\ \A k \in 1 .. n + 1 : At(w \o b, k) = At(w, k)
        /\ \A k \in 1 .. m : At(w \o b, (n + 1) + k) = At(b, k)
    BY <2>1, <2>2
  <2> QED
    BY <2>3 DEF w
<1> HIDE DEF p, q, n, m
<1>5. \A k \in 1 .. n + m : f[k] = IF k <= n THEN k ELSE k + 1
  OBVIOUS
<1>6. f \in [1 .. n + m -> 1 .. (n + 1) + m]
  <2>1. \A k \in 1 .. n + m : (IF k <= n THEN k ELSE k + 1) \in 1 .. (n + 1) + m
    BY <1>1
  <2> QED
    BY <2>1
<1> HIDE DEF f
<1>7. \A k, l \in 1 .. n + m : k < l => f[k] < f[l]
  BY <1>1, <1>5
<1>8. \A k \in 1 .. n + m : f[k] >= k
  BY <1>1, <1>5
<1>9. ASSUME NEW k \in 1 .. n + m PROVE At(p, k) = At(q, f[k])
  <2>1. CASE k <= n
    <3>1. k \in 1 .. n /\ k \in 1 .. n + 1 /\ f[k] = k
      BY <1>1, <1>5, <2>1
    <3> QED
      BY <1>2, <1>3, <1>4, <3>1
  <2>2. CASE ~(k <= n)
    <3>1. k - n \in 1 .. m /\ n + (k - n) = k /\ (n + 1) + (k - n) = k + 1 /\ f[k] = k + 1
      BY <1>1, <1>5, <2>2
    <3>2. At(p, k) = At(b, k - n)
      BY <1>2, <3>1
    <3>3. At(q, k + 1) = At(b, k - n)
      BY <1>4, <3>1
    <3> QED
      BY <3>1, <3>2, <3>3
  <2> QED
    BY <2>1, <2>2
<1>10. \A k \in 1 .. n + m : Behind(k, 2 * n) => Behind(f[k], 2 * n) /\ Behind(f[k], 2 * n + 2)
  BY <1>1, <1>5 DEF Behind
<1>11. 2 * n >= 2 => f[1] = 1
  <2> SUFFICES ASSUME 2 * n >= 2 PROVE f[1] = 1
    OBVIOUS
  <2>1. 1 \in 1 .. n + m /\ 1 <= n
    BY <1>1
  <2> QED
    BY <1>5, <2>1
<1>12. Thinned(f, p, q)
  BY <1>2, <1>4, <1>6, <1>7, <1>8, <1>9 DEF Thinned
<1>13. Borders(f, p, Len(a), Len(a)) /\ Borders(f, p, Len(a), Len(a) + 2)
  BY <1>1, <1>2, <1>10 DEF Borders
<1> QED
  BY <1>1, <1>2, <1>11, <1>12, <1>13 DEF p, q

-----------------------------------------------------------------------------
(* The steps, one by one.                                                    *)

Edge == Len(idle) + Len(InHand)
Kept(f) == /\ Thinned(f, Circle', Circle)
           /\ Borders(f, Circle', Len(idle'), Len(idle))
           /\ Borders(f, Circle', Edge', Edge)

LEMMA HandLen == Len(InHand) \in {0, 2} /\ Len(InHand') \in {0, 2}
  BY DEF InHand, Units

LEMMA KeepSame ==
  ASSUME Types, Shape, Lists', Circle' = Circle, Len(idle') >= Len(idle), Edge' >= Edge
  PROVE  \E f : Kept(f) /\ (Len(idle) >= 2 => f[1] = 1)
<1>1. /\ Circle \in Seq(Unit) /\ Len(idle) \in Nat /\ Len(InHand) \in Nat /\ Len(Tail1) \in Nat
      /\ Len(Circle) = Len(idle) + Len(InHand) + Len(Tail1)
  BY CircleParts, HandLen
<1>2. Len(idle') \in Nat /\ Len(InHand') \in Nat
  BY HandLen DEF Lists
<1>3. Edge \in Nat /\ Edge' \in Nat
  BY <1>1, <1>2 DEF Edge
<1>4. Paired(Circle)
  BY DEF Shape
<1>5. PICK f : /\ Thinned(f, Circle, Circle)
               /\ \A a, x \in Nat : a >= x => Borders(f, Circle, a, x)
               /\ Num(Circle) >= 1 => f[1] = 1
  BY <1>1, <1>4, ThinSame
<1>6. Len(idle) >= 2 => Num(Circle) >= 1
  <2>1. Len(idle) >= 2 => Len(Circle) >= 2
    <3> DEFINE a == Len(idle)  b == Len(InHand)  c == Len(Tail1)  d == Len(Circle)
    <3>1. a \in Nat /\ b \in Nat /\ c \in Nat /\ d = a + b + c
      BY <1>1
    <3> HIDE DEF a, b, c, d
    <3>2. a >= 2 => d >= 2
      BY <3>1
    <3> QED
      BY <3>2 DEF a, d
  <2> QED
    BY <1>1, <1>4, <2>1, PairedHead
<1>7. Borders(f, Circle, Len(idle'), Len(idle)) /\ Borders(f, Circle, Edge', Edge)
  BY <1>1, <1>2, <1>3, <1>5
<1>8. Kept(f)
  BY <1>5, <1>7 DEF Kept
<1> QED
  BY <1>5, <1>6, <1>8

LEMMA KeepStill ==
  ASSUME Types, Shape, Lists', UNCHANGED <<idle, job>>, UNCHANGED hasher \/ TestCancel \/ PollJob
         \/ TestFlag \/ Hash
  PROVE  Shape' /\ \E f : Kept(f) /\ (Len(idle) >= 2 => f[1] = 1)
<1>1. /\ hasher'.slot = hasher.slot /\ hasher'.moved = hasher.moved
      /\ (hasher'.pc \in {"hash", "return"}) = (hasher.pc \in {"hash", "return"})
      /\ UNCHANGED hasher \/ hasher'.pc \notin {"move2", "erase"}
  <2>1. CASE UNCHANGED hasher
    BY <2>1
  <2>2. CASE TestCancel \/ PollJob \/ TestFlag \/ Hash
    <3>1. HasherType
      BY DEF Types
    <3>2. CASE TestCancel
      BY <3>1, <3>2 DEF HasherType, TestCancel
    <3>3. CASE PollJob
      BY <3>1, <3>3 DEF HasherType, PollJob, HasherTo
    <3>4. CASE TestFlag
      <4>1. hasher.pc \in {"flag", "gap"} /\ HasherTo(IF runflag THEN "get" ELSE "move")
        BY <3>4 DEF TestFlag
      <4> QED
        BY <3>1, <4>1 DEF HasherType, HasherTo
    <3>5. CASE Hash
      BY <3>1, <3>5 DEF HasherType, Hash, HasherTo
    <3> QED
      BY <2>2, <3>2, <3>3, <3>4, <3>5
  <2> QED
    BY <2>1, <2>2
<1>2. InHand' = InHand
  BY <1>1 DEF InHand
<1>3. Circle' = Circle /\ Tail1' = Tail1
  BY <1>1, <1>2 DEF Circle, Tail1
<1>4. Paired(Circle)' /\ Even(Len(job))'
  BY <1>3 DEF Shape
<1>5. MoveWhole'
  <2>1. CASE UNCHANGED hasher
    BY <1>3, <2>1 DEF Shape, MoveWhole, Short2, Full2
  <2>2. CASE hasher'.pc \notin {"move2", "erase"}
    BY <2>2 DEF MoveWhole, Short2, Full2
  <2> QED
    BY <1>1, <2>1, <2>2
<1>6. Len(idle') >= Len(idle) /\ Edge' >= Edge
  <2>1. Len(idle) \in Nat /\ Len(InHand) \in Nat
    BY CircleParts, HandLen
  <2>2. Edge \in Nat
    BY <2>1 DEF Edge
  <2>3. Len(idle') = Len(idle) /\ Edge' = Edge
    BY <1>2 DEF Edge
  <2> QED
    BY <2>1, <2>2, <2>3
<1>7. \E f : Kept(f) /\ (Len(idle) >= 2 => f[1] = 1)
  BY <1>3, <1>6, KeepSame
<1> QED
  BY <1>4, <1>5, <1>7 DEF Shape

LEMMA KeepMove ==
  ASSUME Types, Shape, ~Torn', Lists', MoveFirst \/ MoveSecond \/ MoveErase
  PROVE  Shape' /\ \E f : Kept(f) /\ (Len(idle) >= 2 => f[1] = 1)
<1>1. Circle' = Circle /\ Even(Len(job')) /\ Len(idle') >= Len(idle) /\ MoveWhole'
  <2>1. CASE MoveFirst
    BY <2>1, MoveFirstCircle DEF Shape
  <2>2. CASE MoveSecond
    BY <2>2, MoveSecondCircle DEF Shape
  <2>3. CASE MoveErase
    <3>1. Circle' = Circle /\ Even(Len(job')) /\ idle' = idle /\ MoveWhole'
      BY <2>3, MoveEraseCircle
    <3>2. Len(idle) \in Nat
      BY CircleParts
    <3> QED
      BY <3>1, <3>2
  <2> QED
    BY <2>1, <2>2, <2>3
<1>2. InHand = <<>> /\ InHand' = <<>>
  <2>1. hasher.pc \in {"move", "move2", "erase"}
    BY DEF MoveFirst, MoveSecond, MoveErase
  <2>2. hasher'.pc \in {"move2", "erase", "done", "top"}
    <3>1. MoveFirst => hasher'.pc = "move2"
      <4> SUFFICES ASSUME MoveFirst PROVE hasher'.pc = "move2"
        OBVIOUS
      <4>1. PICK c \in EndsOfRing(Len(job)) :
              hasher' = [hasher EXCEPT !.pc = "move2", !.rest = Rest(job, c),
                                       !.moved = Lesser(c, Free(idle)),
                                       !.short = c > Free(idle)]
        BY Zenon DEF MoveFirst
      <4> DEFINE b == c > Free(idle)
      <4> HIDE DEF b
      <4> QED
        BY <4>1 DEF Types, HasherType, b
    <3>2. MoveSecond => hasher'.pc = "erase"
      BY DEF MoveSecond, Types, HasherType
    <3>3. MoveErase => hasher'.pc \in {"done", "top"}
      BY DEF MoveErase, Types, HasherType
    <3> QED
      BY <3>1, <3>2, <3>3
  <2> QED
    BY <2>1, <2>2 DEF InHand
<1>3. Edge' >= Edge
  <2>1. Len(idle) \in Nat /\ Len(idle') \in Nat
    BY DEF Types, Lists
  <2> DEFINE a == Len(idle)  b == Len(idle')
  <2>2. Edge = a + 0 /\ Edge' = b + 0
    BY <1>2 DEF Edge
  <2>3. a \in Nat /\ b \in Nat /\ b >= a
    BY <1>1, <2>1
  <2> HIDE DEF a, b
  <2> QED
    BY <2>2, <2>3
<1>4. \E f : Kept(f) /\ (Len(idle) >= 2 => f[1] = 1)
  BY <1>1, <1>3, KeepSame
<1> QED
  BY <1>1, <1>4 DEF Shape

LEMMA HeadUnits ==
  ASSUME NEW q \in Seq(Unit), Paired(q), Len(q) >= 2
  PROVE  /\ First(q, 2) = Units(At(q, 1)) /\ At(q, 1) \in Slot
         /\ q = Units(At(q, 1)) \o Rest(q, 2) /\ Rest(q, 2) \in Seq(Unit)
<1>1. First(q, 2) \in Seq(Unit) /\ Len(First(q, 2)) = 2 /\ \A i \in 1 .. 2 : First(q, 2)[i] = q[i]
      /\ Rest(q, 2) \in Seq(Unit)
  BY PartsAt
<1>2. Num(q) \in Nat /\ Num(q) >= 1
  BY NumOf, PairedHead DEF Paired
<1>3. 1 \in 1 .. Num(q) /\ 2 * 1 = 2 /\ 2 * 1 - 1 = 1
  BY <1>2
<1>4. q[2 * 1 - 1] = <<At(q, 1), 1>> /\ q[2 * 1] = <<At(q, 1), 2>>
  BY <1>3 DEF Paired
<1>5. At(q, 1) \in Slot
  BY <1>3, NumOf DEF Paired
<1>6. Units(At(q, 1)) \in Seq(Unit) /\ Len(Units(At(q, 1))) = 2
  BY <1>5, UnitsOf
<1>7. \A i \in 1 .. 2 : First(q, 2)[i] = Units(At(q, 1))[i]
  <2> DEFINE s == At(q, 1)
  <2>1. q[1] = <<s, 1>> /\ q[2] = <<s, 2>>
    BY <1>3, <1>4
  <2>2. First(q, 2)[1] = q[1] /\ First(q, 2)[2] = q[2]
    BY <1>1
  <2>3. Units(s)[1] = <<s, 1>> /\ Units(s)[2] = <<s, 2>>
    BY DEF Units
  <2> HIDE DEF s
  <2>4. \A i \in 1 .. 2 : i = 1 \/ i = 2
    OBVIOUS
  <2> QED
    BY <2>1, <2>2, <2>3, <2>4 DEF s
<1>8. First(q, 2) = Units(At(q, 1))
  BY <1>1, <1>6, <1>7, SeqEqual
<1>9. First(q, 2) \o Rest(q, 2) = q
  BY SplitJoined
<1> QED
  BY <1>1, <1>5, <1>8, <1>9

LEMMA KeepGet ==
  ASSUME Types, Shape, ~Torn', Lists', GetJob
  PROVE  /\ Shape' /\ \E f : Kept(f) /\ (Len(idle) >= 2 => f[1] = 1)
         /\ Circle' = Circle /\ idle' = idle /\ InHand = <<>>
         /\ Num(idle) + 1 \in 1 .. Num(Circle) /\ Len(idle) = 2 * Num(idle) /\ Num(idle) \in Nat
         /\ hasher'.slot = At(Circle, Num(idle) + 1)
<1>1. /\ hasher.pc = "get" /\ HasherType /\ idle' = idle /\ job' = Rest(job, 2)
      /\ Len(job) >= 2 /\ InHand = <<>>
      /\ hasher'.pc = "hash" /\ hasher'.slot = SlotOf(First(job, 2))
      /\ hasher'.moved = hasher.moved
  <2>1. hasher.pc = "get" /\ HasherType /\ idle' = idle /\ job' = Rest(job, 2)
    BY DEF GetJob, Types
  <2>2. ~(Len(job) < 2)
    BY DEF GetJob, Torn
  <2>3. Len(job) >= 2
    BY <2>2, CircleParts
  <2>4. hasher' = [hasher EXCEPT !.pc = "hash", !.slot = SlotOf(First(job, 2))]
    BY <2>3 DEF GetJob
  <2> QED
    BY <2>1, <2>3, <2>4 DEF HasherType, InHand
<1>2. /\ Paired(idle) /\ Paired(job) /\ Circle = (idle \o <<>>) \o job /\ Even(Len(job))
      /\ idle \in Seq(Unit) /\ job \in Seq(Unit) /\ hasher.moved = 0
  BY <1>1, WholeLists, CircleParts
<1> DEFINE s == At(job, 1)  r == Rest(job, 2)
<1>3. s \in Slot /\ job = Units(s) \o r /\ r \in Seq(Unit) /\ hasher'.slot = s
  BY <1>1, <1>2, HeadUnits, PairedHead
<1>4. Units(s) \in Seq(Unit)
  BY <1>3, UnitsOf
<1> HIDE DEF s, r
<1>5. InHand' = Units(s) /\ Tail1' = r
  <2>1. InHand' = Units(s)
    BY <1>1, <1>3 DEF InHand
  <2>2. Rest(r, 0) = r
    BY <1>3, WholeParts
  <2> QED
    BY <1>1, <1>2, <2>1, <2>2 DEF Tail1, r
<1>6. Circle' = (idle \o Units(s)) \o r
  BY <1>1, <1>5 DEF Circle, Tail1
<1>7. (idle \o Units(s)) \o r = idle \o (Units(s) \o r) /\ idle \o <<>> = idle
  BY <1>2, <1>3, <1>4, Joined
<1>8. Circle' = Circle
  BY <1>2, <1>3, <1>6, <1>7
<1>9. Even(Len(job'))
  BY <1>1, <1>2, EvenLists, EvenSmall, CircleParts
<1>10. MoveWhole'
  BY <1>1 DEF MoveWhole, Short2, Full2
<1>11. Len(idle') >= Len(idle) /\ Edge' >= Edge
  <2>1. Len(idle) \in Nat
    BY <1>2
  <2>2. Len(InHand) = 0 /\ Len(InHand') = 2
    BY <1>1, <1>5 DEF Units
  <2> DEFINE a == Len(idle)
  <2>3. Edge = a + 0 /\ Edge' = a + 2 /\ Len(idle') = a /\ a \in Nat
    BY <1>1, <2>1, <2>2 DEF Edge
  <2> HIDE DEF a
  <2> QED
    BY <2>3 DEF a
<1>12. \E f : Kept(f) /\ (Len(idle) >= 2 => f[1] = 1)
  BY <1>8, <1>11, KeepSame
<1>13. Num(idle) \in Nat /\ Len(idle) = 2 * Num(idle) /\ Num(job) \in Nat /\ Num(job) >= 1
  BY <1>1, <1>2, NumOf, PairedHead DEF Paired
<1>14. /\ Num(Circle) = Num(idle) + Num(job)
       /\ \A k \in 1 .. Num(job) : At(Circle, Num(idle) + k) = At(job, k)
  BY <1>2, <1>7, PairedConcat
<1>15. Num(idle) + 1 \in 1 .. Num(Circle) /\ At(Circle, Num(idle) + 1) = s
  <2> DEFINE n == Num(idle)  m == Num(job)  c == Num(Circle)
  <2>1. n \in Nat /\ m \in Nat /\ m >= 1 /\ c = n + m
    BY <1>13, <1>14
  <2> HIDE DEF n, m, c
  <2>2. n + 1 \in 1 .. c /\ 1 \in 1 .. m
    BY <2>1
  <2> QED
    BY <1>14, <2>2 DEF n, m, c, s
<1> QED
  BY <1>1, <1>3, <1>8, <1>9, <1>10, <1>12, <1>13, <1>15 DEF Shape

LEMMA KeepPutIdle ==
  ASSUME Types, Shape, Lists', PutIdle
  PROVE  Shape' /\ \E f : Kept(f) /\ (Len(idle) >= 2 => f[1] = 1)
<1> DEFINE s == hasher.slot  u == Units(s)
<1>1. /\ hasher.pc = "return" /\ HasherType /\ job' = job /\ idle' = Put(idle, u)
      /\ InHand = u /\ s \in Slot /\ hasher'.pc = "top" /\ hasher'.moved = hasher.moved
      /\ InHand' = <<>>
  <2>1. hasher.pc = "return" /\ HasherType /\ job' = job /\ idle' = Put(idle, u)
    BY DEF PutIdle, Types
  <2> QED
    BY <2>1 DEF PutIdle, HasherTo, HasherType, InHand
<1>2. /\ Paired(idle) /\ Paired(job) /\ Circle = (idle \o u) \o job /\ Even(Len(job))
      /\ idle \in Seq(Unit) /\ job \in Seq(Unit) /\ hasher.moved = 0
      /\ Free(idle) \in Nat /\ Even(Free(idle)) /\ Len(idle) \in Nat
  BY <1>1, WholeLists, CircleParts
<1>3. u \in Seq(Unit) /\ Len(u) = 2 /\ Paired(u) /\ Num(u) = 1
  BY <1>1, UnitsOf, PairedUnits
<1> HIDE DEF u
<1>4. Circle' = (idle' \o <<>>) \o job
  <2>1. Rest(job, 0) = job
    BY <1>2, WholeParts
  <2> QED
    BY <1>1, <1>2, <2>1 DEF Circle
<1>5. Paired(Circle) /\ Edge = Len(idle) + 2 /\ Edge' = Len(idle') + 0
  BY <1>1, <1>3 DEF Shape, Edge
<1>6. Even(Len(job')) /\ MoveWhole'
  BY <1>1, <1>2 DEF MoveWhole, Short2, Full2
<1>7. CASE Free(idle) >= 2
  <2>1. First(u, Free(idle)) = u
    <3>1. Lesser(Free(idle), Len(u)) = Len(u)
      BY <1>2, <1>3, <1>7 DEF Lesser
    <3>2. Lesser(Len(u), Len(u)) = Len(u)
      BY DEF Lesser
    <3>3. First(u, Len(u)) = u
      BY <1>3, WholeParts
    <3> QED
      BY <3>1, <3>2, <3>3 DEF First
  <2>2. idle' = idle \o u
    BY <1>1, <2>1 DEF Put
  <2>3. idle \o u \in Seq(Unit) /\ Len(idle \o u) = Len(idle) + 2
    <3>1. idle \o u \in Seq(Unit) /\ Len(idle \o u) = Len(idle) + Len(u)
      BY <1>2, <1>3, ConcatProperties
    <3> QED
      BY <1>3, <3>1
  <2>4. (idle \o u) \o <<>> = idle \o u
    BY <2>3, ConcatEmptySeq
  <2>5. Circle' = Circle
    BY <1>2, <1>4, <2>2, <2>4
  <2>6. Len(idle') >= Len(idle) /\ Edge' >= Edge
    <3> DEFINE a == Len(idle)  b == Len(idle')
    <3>1. a \in Nat /\ b = a + 2 /\ Edge = a + 2 /\ Edge' = b + 0
      BY <1>2, <1>5, <2>2, <2>3
    <3> HIDE DEF a, b
    <3>2. b >= a /\ Edge' >= Edge
      BY <3>1
    <3> QED
      BY <3>2 DEF a, b
  <2> QED
    BY <1>5, <1>6, <2>5, <2>6, KeepSame DEF Shape
<1>8. CASE ~(Free(idle) >= 2)
  <2>1. Free(idle) = 0
    BY <1>2, <1>8, EvenSmall
  <2>2. First(u, Free(idle)) = <<>>
    BY <1>3, <2>1, WholeParts
  <2>3. idle' = idle
    BY <1>1, <1>2, <2>2, ConcatEmptySeq DEF Put
  <2>4. Circle' = idle \o job
    BY <1>2, <1>4, <2>3, ConcatEmptySeq
  <2>5. Paired(idle \o job)
    BY <1>2, <1>3, ThinDrop
  <2>6. PICK f : /\ Thinned(f, idle \o job, (idle \o u) \o job)
                 /\ Borders(f, idle \o job, Len(idle), Len(idle))
                 /\ Borders(f, idle \o job, Len(idle), Len(idle) + 2)
                 /\ Len(idle) >= 2 => f[1] = 1
    BY <1>2, <1>3, ThinDrop
  <2>7. Edge' = Len(idle)
    BY <1>2, <1>5, <2>3
  <2>8. Kept(f)
    BY <1>2, <1>5, <2>3, <2>4, <2>6, <2>7 DEF Kept
  <2> QED
    BY <1>6, <2>4, <2>5, <2>6, <2>8 DEF Shape
<1> QED
  BY <1>7, <1>8

\* The reader's put adds a slot to the circle, or nothing.
LEMMA PutJobCircle ==
  ASSUME Types, Shape, PutJob
  PROVE  /\ Shape' /\ idle' = idle /\ Edge' = Edge /\ hasher' = hasher
         /\ Circle' = Circle \/ Circle' = Circle \o Units(reader.slot)
<1> DEFINE s == reader.slot  u == Units(s)  m == hasher.moved
<1>1. /\ hasher' = hasher /\ idle' = idle /\ job' = Put(job, u) /\ s \in Slot
  BY DEF PutJob, Types, ReaderType
<1>2. InHand' = InHand /\ Edge' = Edge
  BY <1>1 DEF InHand, Edge
<1>3. u \in Seq(Unit) /\ Len(u) = 2 /\ Paired(u)
  BY <1>1, UnitsOf, PairedUnits
<1>4. /\ idle \in Seq(Unit) /\ InHand \in Seq(Unit) /\ Tail1 \in Seq(Unit)
      /\ job \in Seq(Unit) /\ Len(job) <= 2 * NCache /\ m \in Nat /\ m <= Len(job)
      /\ Circle = (idle \o InHand) \o Tail1 /\ Circle \in Seq(Unit)
      /\ hasher.rest \in Seq(Unit) /\ Len(hasher.rest) \in Nat
      /\ Full2 => Len(hasher.rest) <= Len(Tail1)
  BY CircleParts
<1>5. Paired(Circle) /\ Even(Len(job)) /\ MoveWhole
  BY DEF Shape
<1>6. Free(job) \in Nat /\ Even(Free(job))
  BY <1>4, <1>5, EvenFree
<1> HIDE DEF u
<1>7. First(u, Free(job)) = u \/ First(u, Free(job)) = <<>>
  <2>1. CASE Free(job) >= 2
    <3>1. Lesser(Free(job), Len(u)) = Len(u)
      BY <1>6, <1>3, <2>1 DEF Lesser
    <3>2. Lesser(Len(u), Len(u)) = Len(u)
      BY DEF Lesser
    <3>3. First(u, Len(u)) = u
      BY <1>3, WholeParts
    <3> QED
      BY <3>1, <3>2, <3>3 DEF First
  <2>2. CASE ~(Free(job) >= 2)
    <3>1. Free(job) = 0
      BY <1>6, <2>2, EvenSmall
    <3> QED
      BY <1>3, <3>1, WholeParts
  <2> QED
    BY <2>1, <2>2
<1>8. CASE First(u, Free(job)) = <<>>
  <2>1. job' = job
    BY <1>1, <1>4, <1>8, ConcatEmptySeq DEF Put
  <2>2. Circle' = Circle /\ Tail1' = Tail1
    BY <1>1, <1>2, <2>1 DEF Circle, Tail1
  <2>3. MoveWhole'
    BY <1>1, <1>5, <2>2 DEF MoveWhole, Short2, Full2
  <2> QED
    BY <1>1, <1>2, <1>5, <2>1, <2>2, <2>3 DEF Shape
<1>9. CASE First(u, Free(job)) = u
  <2>1. job' = job \o u
    BY <1>1, <1>9 DEF Put
  <2>2. Tail1' = Tail1 \o u
    <3>1. Rest(job \o u, m) = Rest(job, m) \o u
      BY <1>3, <1>4, RestOfJoined
    <3> QED
      BY <1>1, <2>1, <3>1 DEF Tail1
  <2>3. Circle' = Circle \o u
    <3> DEFINE w == idle \o InHand  t == Tail1
    <3>1. w \in Seq(Unit) /\ t \in Seq(Unit)
      BY <1>4, ConcatProperties
    <3>2. Circle' = w \o (t \o u) /\ Circle = w \o t
      <4>1. Circle' = (idle' \o InHand') \o Tail1'
        BY DEF Circle, Tail1
      <4> QED
        BY <1>1, <1>2, <1>4, <2>2, <4>1
    <3> HIDE DEF w, t
    <3>3. (w \o t) \o u = w \o (t \o u)
      BY <1>3, <3>1, Assoc
    <3> QED
      BY <3>2, <3>3
  <2>4. Paired(Circle')
    BY <1>3, <1>4, <1>5, <2>3, PairedConcat
  <2>5. Even(Len(job'))
    <3>1. Len(job \o u) = Len(job) + 2 /\ Len(job) \in Nat
      <4>1. Len(job \o u) = Len(job) + Len(u)
        BY <1>3, <1>4, ConcatProperties
      <4> QED
        BY <1>3, <1>4, <4>1
    <3> QED
      BY <1>5, <2>1, <3>1, EvenSum, EvenSmall
  <2>6. MoveWhole'
    <3>1. Full2 => First(Tail1 \o u, Len(hasher.rest)) = First(Tail1, Len(hasher.rest))
      BY <1>3, <1>4, RestOfJoined
    <3>2. Full2' => hasher.rest = First(Tail1', Len(hasher.rest))
      BY <1>1, <1>5, <2>2, <3>1 DEF MoveWhole, Full2
    <3> QED
      BY <1>1, <1>5, <3>2 DEF MoveWhole, Short2, Full2
  <2> QED
    BY <1>1, <1>2, <2>3, <2>4, <2>5, <2>6 DEF Shape, u
<1> QED
  BY <1>7, <1>8, <1>9

\* The slot at the head leaves the circle.
LEMMA KeepHeadTaken ==
  ASSUME Types, Shape, Lists', Len(idle) >= 2, idle' = Rest(idle, 2), job' = job, hasher' = hasher
  PROVE  /\ Shape' /\ Circle' = Rest(Circle, 2) /\ Len(Circle) >= 2 /\ InHand' = InHand
         /\ \E f : Kept(f) /\ \A k \in 1 .. Num(Circle') : f[k] = k + 1
<1>1. /\ idle \in Seq(Unit) /\ InHand \in Seq(Unit) /\ Tail1 \in Seq(Unit)
      /\ Len(idle) \in Nat /\ Len(InHand) \in Nat /\ Len(Tail1) \in Nat
      /\ Circle = (idle \o InHand) \o Tail1 /\ Circle \in Seq(Unit)
      /\ Len(Circle) = Len(idle) + Len(InHand) + Len(Tail1)
  BY CircleParts, HandLen
<1>2. InHand' = InHand /\ Tail1' = Tail1
  BY DEF InHand, Tail1
<1>3. Circle' = Rest(Circle, 2)
  <2> DEFINE w == idle \o InHand  t == Tail1
  <2>1. w \in Seq(Unit) /\ t \in Seq(Unit) /\ Len(w) = Len(idle) + Len(InHand) /\ Circle = w \o t
    BY <1>1, ConcatProperties
  <2>2. Rest(w, 2) = Rest(idle, 2) \o InHand
    BY <1>1, RestOfJoined
  <2>3. Len(w) >= 2
    <3> DEFINE a == Len(idle)  b == Len(InHand)  c == Len(w)
    <3>1. a \in Nat /\ b \in Nat /\ c = a + b /\ a >= 2
      BY <1>1, <2>1
    <3> HIDE DEF a, b, c
    <3>2. c >= 2
      BY <3>1
    <3> QED
      BY <3>2 DEF c
  <2>4. Circle' = Rest(w, 2) \o t
    <3>1. Circle' = (idle' \o InHand') \o Tail1'
      BY DEF Circle, Tail1
    <3> QED
      BY <1>2, <2>2, <3>1
  <2> HIDE DEF w, t
  <2>5. Rest(w \o t, 2) = Rest(w, 2) \o t
    BY <2>1, <2>3, RestOfJoined
  <2> QED
    BY <2>1, <2>4, <2>5
<1>4. Len(Circle) >= 2
  <2> DEFINE a == Len(idle)  b == Len(InHand)  c == Len(Tail1)  d == Len(Circle)
  <2>1. a \in Nat /\ b \in Nat /\ c \in Nat /\ d = a + b + c /\ a >= 2
    BY <1>1
  <2> HIDE DEF a, b, c, d
  <2>2. d >= 2
    BY <2>1
  <2> QED
    BY <2>2 DEF d
<1>5. Paired(Circle) /\ Even(Len(job)) /\ MoveWhole
  BY DEF Shape
<1>6. MoveWhole'
  BY <1>2, <1>5 DEF MoveWhole, Short2, Full2
<1>7. Paired(Rest(Circle, 2))
  BY <1>1, <1>4, <1>5, ThinRest
<1>8. PICK f : /\ Thinned(f, Rest(Circle, 2), Circle)
               /\ \A k \in 1 .. Num(Rest(Circle, 2)) : f[k] = k + 1
               /\ \A a, x \in Nat : a + 2 >= x => Borders(f, Rest(Circle, 2), a, x)
  BY <1>1, <1>4, <1>5, ThinRest
<1>9. Len(idle') \in Nat /\ Len(idle') + 2 >= Len(idle) /\ Edge \in Nat /\ Edge' \in Nat
      /\ Edge' + 2 >= Edge
  <2>1. Len(idle') = Len(idle) - 2
    BY <1>1, PartsAt
  <2> DEFINE a == Len(idle)  b == Len(InHand)  c == Len(idle')
  <2>2. a \in Nat /\ b \in Nat /\ c = a - 2 /\ a >= 2 /\ Edge = a + b /\ Edge' = c + b
    BY <1>1, <1>2, <2>1 DEF Edge
  <2> HIDE DEF a, b, c
  <2>3. c \in Nat /\ c + 2 >= a /\ Edge \in Nat /\ Edge' \in Nat /\ Edge' + 2 >= Edge
    BY <2>2
  <2> QED
    BY <2>3 DEF a, c
<1>10. Borders(f, Rest(Circle, 2), Len(idle'), Len(idle))
       /\ Borders(f, Rest(Circle, 2), Edge', Edge)
  BY <1>1, <1>8, <1>9
<1>11. Kept(f) /\ \A k \in 1 .. Num(Circle') : f[k] = k + 1
  BY <1>3, <1>8, <1>10 DEF Kept
<1>12. Shape'
  BY <1>3, <1>5, <1>6, <1>7 DEF Shape
<1> QED
  BY <1>2, <1>3, <1>4, <1>11, <1>12

LEMMA EmptyPaired == Paired(<<>>) /\ Num(<<>>) = 0 /\ 1 .. Num(<<>>) = {}
<1>1. Len(<<>>) = 0 /\ 0 \div 2 = 0 /\ 1 .. 0 = {}
  OBVIOUS
<1> QED
  BY <1>1, EvenSmall DEF Paired, Num

LEMMA KeepFree ==
  ASSUME Types, Shape, Lists', FreeCache
  PROVE  /\ Shape'
         /\ \E f : Kept(f) /\ \A k \in 1 .. Num(Circle') : f[k] = k + 1
<1>1. CASE Len(idle) >= 2
  <2>1. idle' = Rest(idle, 2) /\ job' = job /\ hasher' = hasher
    BY <1>1 DEF FreeCache
  <2> QED
    BY <1>1, <2>1, KeepHeadTaken
<1>2. CASE ~(Len(idle) >= 2)
  <2>1. /\ hasher.pc = "done" /\ idle' = <<>> /\ job' = <<>> /\ HasherType
        /\ hasher' = [hasher EXCEPT !.pc = "freed"]
    BY <1>2 DEF FreeCache, HasherTo, Types
  <2>2. hasher.moved = 0 /\ hasher'.moved = 0 /\ hasher'.pc = "freed"
    BY <2>1, CircleParts DEF HasherType
  <2>3. InHand' = <<>> /\ Tail1' = <<>>
    <3>1. <<>> \in Seq(Unit)
      BY EmptySeq
    <3>2. Rest(<<>>, 0) = <<>>
      BY <3>1, WholeParts
    <3> QED
      BY <2>1, <2>2, <3>2 DEF InHand, Tail1
  <2>4. Circle' = <<>>
    <3>1. Circle' = (idle' \o InHand') \o Tail1'
      BY DEF Circle, Tail1
    <3>2. <<>> \in Seq(Unit)
      BY EmptySeq
    <3> QED
      BY <2>1, <2>3, <3>1, <3>2, Joined
  <2>5. Shape'
    <3>1. Len(<<>>) = 0
      OBVIOUS
    <3> QED
      BY <2>1, <2>2, <2>4, <3>1, EmptyPaired, EvenSmall DEF Shape, MoveWhole, Short2, Full2
  <2> DEFINE f == [k \in {} |-> 0]
  <2>6. f \in [{} -> 1 .. Num(Circle)]
    OBVIOUS
  <2> HIDE DEF f
  <2>7. Kept(f)
    BY <2>4, <2>6, EmptyPaired DEF Kept, Thinned, Borders
  <2> QED
    BY <2>4, <2>5, <2>7, EmptyPaired
<1> QED
  BY <1>1, <1>2

LEMMA InitShape ==
  ASSUME Init
  PROVE  Shape /\ Circle = idle /\ \A k \in 1 .. Num(idle) : At(idle, k) = Blank
<1>1. Types
  BY InitTypes
<1>2. /\ NCache \in Nat /\ idle \in Seq(Unit) /\ job = <<>> /\ hasher.pc = "top"
      /\ idle = [i \in 1 .. 2 * NCache |-> <<Blank, IF i % 2 = 1 THEN 1 ELSE 2>>]
  BY <1>1, NCacheAssumption DEF Init, Types, Lists
<1>3. Len(idle) = 2 * NCache
  <2>1. DOMAIN idle = 1 .. 2 * NCache /\ DOMAIN idle = 1 .. Len(idle) /\ Len(idle) \in Nat
    BY <1>2
  <2> DEFINE l == Len(idle)
  <2> HIDE DEF l
  <2>2. 1 .. 2 * NCache = 1 .. l /\ l \in Nat /\ 2 * NCache \in Nat
    BY <1>2, <2>1 DEF l
  <2>3. l = 2 * NCache
    BY <2>2
  <2> QED
    BY <2>3 DEF l
<1>4. Even(Len(idle))
  <2>1. 2 * NCache = NCache + NCache
    BY <1>2
  <2> QED
    BY <1>2, <1>3, <2>1 DEF Even
<1>5. ASSUME NEW i \in 1 .. 2 * NCache
      PROVE  idle[i] = <<Blank, IF i % 2 = 1 THEN 1 ELSE 2>>
  BY <1>2
<1>6. Num(idle) \in Nat /\ Num(idle) = NCache
  <2> DEFINE n == Num(idle)
  <2>1. n \in Nat /\ 2 * NCache = 2 * n
    BY <1>2, <1>3, <1>4, NumOf
  <2> HIDE DEF n
  <2>2. n = NCache
    BY <1>2, <2>1
  <2> QED
    BY <2>1, <2>2 DEF n
<1>7. ASSUME NEW k \in 1 .. NCache
      PROVE  idle[2 * k - 1] = <<Blank, 1>> /\ idle[2 * k] = <<Blank, 2>>
  <2>1. /\ 2 * k - 1 \in 1 .. 2 * NCache /\ 2 * k \in 1 .. 2 * NCache
        /\ (2 * k - 1) % 2 = 1 /\ (2 * k) % 2 = 0
    BY <1>2
  <2> QED
    BY <1>5, <2>1
<1>8. \A k \in 1 .. NCache : At(idle, k) = Blank
  BY <1>7 DEF At
<1>9. Paired(idle)
  BY <1>4, <1>6, <1>7, <1>8 DEF Paired
<1>10. Circle = (idle \o <<>>) \o job /\ InHand = <<>>
  <2>1. Circle = (idle \o InHand) \o Tail1 /\ Tail1 = job
    BY <1>1, <1>2, CircleParts
  <2>2. InHand = <<>>
    BY <1>2 DEF InHand
  <2> QED
    BY <2>1, <2>2
<1>11. Circle = idle
  BY <1>2, <1>10, ConcatEmptySeq
<1>12. Even(Len(job)) /\ MoveWhole
  <2>1. Len(<<>>) = 0
    OBVIOUS
  <2> QED
    BY <1>2, <2>1, EvenSmall DEF MoveWhole, Short2, Full2
<1> QED
  BY <1>6, <1>8, <1>9, <1>11, <1>12 DEF Shape

Appends == /\ PutJob /\ idle' = idle /\ Edge' = Edge /\ hasher' = hasher
           /\ Circle' = Circle \o Units(reader.slot)
Keeps(f) ==
  /\ Kept(f)
  /\ EraseIdle \/ FreeCache \/ (Len(idle) >= 2 => f[1] = 1)
  /\ EraseIdle \/ FreeCache => \A k \in 1 .. Num(Circle') : f[k] = k + 1

LEMMA NextCircle ==
  ASSUME Base, Shape, ~Torn', [Next]_vars
  PROVE  Shape' /\ (Appends \/ \E f : Keeps(f))
<1>1. Types /\ Lists' /\ HoldsHead
  BY NextLists DEF Base
<1>2. Circle \in Seq(Unit) /\ Paired(Circle)
  BY <1>1, CircleParts DEF Shape
<1>3. EraseIdle \/ FreeCache \/ ~(EraseIdle \/ FreeCache)
  OBVIOUS
<1>4. CASE EraseIdle
  <2>1. Len(idle) >= 2
    BY <1>1, <1>4 DEF EraseIdle, HoldsHead, Filling
  <2>2. Shape' /\ \E f : Kept(f) /\ \A k \in 1 .. Num(Circle') : f[k] = k + 1
    BY <1>1, <1>4, <2>1, KeepHeadTaken DEF EraseIdle
  <2> QED
    BY <1>4, <2>2 DEF Keeps
<1>5. CASE FreeCache
  BY <1>1, <1>5, KeepFree DEF Keeps
<1>6. CASE ~EraseIdle /\ ~FreeCache
  <2>1. ASSUME Shape' /\ \E f : Kept(f) /\ (Len(idle) >= 2 => f[1] = 1)
        PROVE  Shape' /\ \E f : Keeps(f)
    <3>1. PICK f : Kept(f) /\ (Len(idle) >= 2 => f[1] = 1)
      BY <2>1
    <3>2. Keeps(f)
      BY <1>6, <3>1 DEF Keeps
    <3> QED
      BY <2>1, <3>2
  <2>2. CASE MoveFirst \/ MoveSecond \/ MoveErase
    BY <1>1, <2>1, <2>2, KeepMove
  <2>3. CASE GetJob
    BY <1>1, <2>1, <2>3, KeepGet
  <2>4. CASE PutIdle
    BY <1>1, <2>1, <2>4, KeepPutIdle
  <2>5. CASE PutJob
    <3>1. /\ Shape' /\ idle' = idle /\ Edge' = Edge /\ hasher' = hasher
          /\ Circle' = Circle \/ Circle' = Circle \o Units(reader.slot)
      BY <1>1, <2>5, PutJobCircle
    <3>2. CASE Circle' = Circle
      <4>1. Len(idle) \in Nat /\ Edge \in Nat
        <5>1. Len(idle) \in Nat /\ Len(InHand) \in Nat
          BY <1>1, CircleParts, HandLen
        <5> QED
          BY <5>1 DEF Edge
      <4>2. Len(idle') >= Len(idle) /\ Edge' >= Edge
        BY <3>1, <4>1
      <4> QED
        BY <1>1, <2>1, <3>1, <3>2, <4>2, KeepSame
    <3> QED
      BY <2>5, <3>1, <3>2 DEF Appends
  <2>6. CASE ~PutJob /\ ~MoveFirst /\ ~MoveSecond /\ ~MoveErase /\ ~GetJob /\ ~PutIdle
    <3>1. UNCHANGED idle /\ UNCHANGED job
      BY <1>6, <2>6, Frames
    <3>2. UNCHANGED hasher \/ TestCancel \/ PollJob \/ TestFlag \/ Hash
      BY <1>6, <2>6, Frames DEF HasherStep
    <3> QED
      BY <1>1, <2>1, <3>1, <3>2, KeepStill
  <2> QED
    BY <2>2, <2>3, <2>4, <2>5, <2>6
<1> QED
  BY <1>4, <1>5, <1>6

-----------------------------------------------------------------------------
(* Jobs are hashed in the order they were read: their numbers rise along the *)
(* circle, from the slot hashed last to the one read last.                   *)

InLoop == {"wait", "check", "peek", "alloc", "read", "check2", "put"}
Past(n, pc, m) == n <= m /\ (pc \in InLoop => n < m)
RiseOf(q, x, y, n, pc, m) ==
  /\ \A k \in 1 .. Num(q) : Behind(k, x) => Past(At(q, k).job, pc, m)
  /\ \A k, l \in 1 .. Num(q) : k < l /\ Behind(k, x) => At(q, k).job < At(q, l).job
  /\ \A k \in 1 .. Num(q) : Behind(k, y) => n < At(q, k).job
  /\ Past(n, pc, m)
Rise == RiseOf(Circle, Len(idle), Edge, hasher.slot.job, reader.pc, reads)
Numbered == reader.pc = "put" => reader.slot.job = reads

\* What is past stays past.
LEMMA PastStays ==
  ASSUME Types, [Next]_vars, NEW n \in Nat, Past(n, reader.pc, reads)
  PROVE  Past(n, reader'.pc, reads')
<1>1. /\ reader \in [pc : ReaderPoints, slot : Slot, want : CacheSizes \cup {0}]
      /\ reads \in Nat /\ n <= reads
  BY BoundAssumption DEF Types, ReaderType, Past
<1>2. CASE reads' = reads /\ (reader'.pc \in InLoop => reader.pc \in InLoop)
  BY <1>2 DEF Past
<1>3. CASE reads' = reads + 1
  <2>1. n <= reads' /\ n < reads'
    BY <1>1, <1>3
  <2> QED
    BY <2>1 DEF Past
<1>4. CASE Start \/ UNCHANGED <<reader, reads>>
  <2>1. reads' = reads /\ (reader'.pc \in InLoop => reader.pc \in InLoop)
    BY <1>1, <1>4 DEF Start, InLoop
  <2> QED
    BY <1>2, <2>1
<1>5. CASE ReaderStep
  <2>1. \/ reads' = reads /\ (reader'.pc \in InLoop => reader.pc \in InLoop)
        \/ reads' = reads + 1
    <3>1. CASE ReadLoop
      BY <1>1, <3>1 DEF ReadLoop, ReaderTo, InLoop
    <3>2. CASE WaitIdle \/ CheckFlag \/ PeekIdle \/ ReadBlock \/ FillJob \/ PutJob \/ EraseIdle
      BY <1>1, <3>2 DEF WaitIdle, CheckFlag, PeekIdle, ReadBlock, FillJob, PutJob, EraseIdle,
                        ReaderTo, GiveUp, InLoop
    <3>3. CASE EnsureCache
      BY <1>1, <3>3 DEF EnsureCache, Realloc, ReaderTo, InLoop
    <3> QED
      BY <1>5, <3>1, <3>2, <3>3 DEF ReaderStep
  <2> QED
    BY <1>2, <1>3, <2>1
<1> QED
  BY <1>4, <1>5, Frames

LEMMA NextNumbered ==
  ASSUME Types, Numbered, [Next]_vars
  PROVE  Numbered'
<1>1. reader \in [pc : ReaderPoints, slot : Slot, want : CacheSizes \cup {0}]
  BY DEF Types, ReaderType
<1>2. CASE FillJob
  <2>1. reads' = reads /\ (reader'.pc = "put" => reader'.slot.job = reads)
    <3>1. /\ reads' = reads
          /\ \/ reader' = [reader EXCEPT !.pc = "put", !.slot.job = reads]
             \/ GiveUp("off")
      BY <1>2 DEF FillJob
    <3>2. CASE reader' = [reader EXCEPT !.pc = "put", !.slot.job = reads]
      BY <1>1, <3>1, <3>2 DEF Slot
    <3>3. CASE GiveUp("off")
      BY <1>1, <3>1, <3>3 DEF GiveUp, ReaderTo
    <3> QED
      BY <3>1, <3>2, <3>3
  <2> QED
    BY <2>1 DEF Numbered
<1>3. CASE UNCHANGED <<reader, reads>>
  BY <1>3 DEF Numbered
<1>4. CASE Start \/ ReadLoop \/ WaitIdle \/ CheckFlag \/ PeekIdle \/ ReadBlock \/ PutJob \/ EraseIdle
  <2>1. reader'.pc # "put"
    BY <1>1, <1>4 DEF Start, ReadLoop, WaitIdle, CheckFlag, PeekIdle, ReadBlock, PutJob,
                      EraseIdle, ReaderTo, GiveUp
  <2> QED
    BY <2>1 DEF Numbered
<1>5. CASE EnsureCache
  <2>1. reader'.pc # "put"
    BY <1>1, <1>5 DEF EnsureCache, Realloc, ReaderTo
  <2> QED
    BY <2>1 DEF Numbered
<1> QED
  BY <1>2, <1>3, <1>4, <1>5, Frames DEF ReaderStep

LEMMA SlotKept ==
  ASSUME Types, [Next]_vars
  PROVE  GetJob \/ hasher'.slot = hasher.slot
<1>1. HasherType
  BY DEF Types
<1>2. CASE UNCHANGED hasher
  BY <1>2
<1>3. CASE TestCancel
  BY <1>1, <1>3 DEF HasherType, TestCancel
<1>4. CASE TestFlag
  <2>1. HasherTo(IF runflag THEN "get" ELSE "move")
    BY <1>4 DEF TestFlag
  <2> QED
    BY <1>1, <2>1 DEF HasherType, HasherTo
<1>5. CASE PollJob \/ Hash \/ PutIdle
  BY <1>1, <1>5 DEF HasherType, PollJob, Hash, PutIdle, HasherTo
<1>6. CASE MoveFirst
  <2>1. PICK c \in EndsOfRing(Len(job)) :
          hasher' = [hasher EXCEPT !.pc = "move2", !.rest = Rest(job, c),
                                   !.moved = Lesser(c, Free(idle)),
                                   !.short = c > Free(idle)]
    BY <1>6, Zenon DEF MoveFirst
  <2> DEFINE b == c > Free(idle)
  <2> HIDE DEF b
  <2> QED
    BY <1>1, <2>1 DEF HasherType, b
<1>7. CASE MoveSecond
  BY <1>1, <1>7 DEF HasherType, MoveSecond
<1>8. CASE MoveErase
  BY <1>1, <1>8 DEF HasherType, MoveErase
<1>9. CASE FreeCache
  BY <1>1, <1>9 DEF HasherType, FreeCache, HasherTo
<1> QED
  BY <1>2, <1>3, <1>4, <1>5, <1>6, <1>7, <1>8, <1>9, Frames DEF HasherStep

LEMMA JobsAre ==
  ASSUME NEW q \in Seq(Unit), Paired(q)
  PROVE  Num(q) \in Nat /\ \A k \in 1 .. Num(q) : At(q, k) \in Slot /\ At(q, k).job \in Nat
<1>1. \A s \in Slot : s.job \in Nat
  BY BoundAssumption DEF Slot
<1> QED
  BY <1>1, NumOf DEF Paired

LEMMA RiseThinned ==
  ASSUME NEW p \in Seq(Unit), NEW q \in Seq(Unit), Paired(p), Paired(q), NEW f, Thinned(f, p, q),
         NEW a, NEW x, Borders(f, p, a, x), NEW b, NEW y, Borders(f, p, b, y),
         NEW n \in Nat, NEW pc, NEW m, NEW pc2, NEW m2,
         \A i \in Nat : Past(i, pc, m) => Past(i, pc2, m2),
         RiseOf(q, x, y, n, pc, m)
  PROVE  RiseOf(p, a, b, n, pc2, m2)
<1> DEFINE u == Num(p)  v == Num(q)
<1>1. /\ f \in [1 .. u -> 1 .. v] /\ \A k \in 1 .. u : At(p, k) = At(q, f[k])
      /\ \A k, l \in 1 .. u : k < l => f[k] < f[l]
  BY DEF Thinned
<1>2. \A k \in 1 .. v : At(q, k).job \in Nat
  BY JobsAre
<1>3. \A k \in 1 .. u : (Behind(k, a) => Behind(f[k], x)) /\ (Behind(k, b) => Behind(f[k], y))
  BY DEF Borders
<1>4. /\ \A k \in 1 .. v : Behind(k, x) => Past(At(q, k).job, pc, m)
      /\ \A k, l \in 1 .. v : k < l /\ Behind(k, x) => At(q, k).job < At(q, l).job
      /\ \A k \in 1 .. v : Behind(k, y) => n < At(q, k).job
      /\ Past(n, pc, m)
  BY DEF RiseOf
<1> HIDE DEF u, v
<1>5. ASSUME NEW k \in 1 .. u, Behind(k, a) PROVE Past(At(p, k).job, pc2, m2)
  <2>1. f[k] \in 1 .. v /\ Behind(f[k], x) /\ At(p, k) = At(q, f[k])
    BY <1>1, <1>3, <1>5
  <2> QED
    BY <1>2, <1>4, <2>1
<1>6. ASSUME NEW k \in 1 .. u, NEW l \in 1 .. u, k < l, Behind(k, a)
      PROVE  At(p, k).job < At(p, l).job
  <2>1. f[k] \in 1 .. v /\ f[l] \in 1 .. v /\ f[k] < f[l] /\ Behind(f[k], x)
    BY <1>1, <1>3, <1>6
  <2>2. At(p, k) = At(q, f[k]) /\ At(p, l) = At(q, f[l])
    BY <1>1
  <2>3. At(q, f[k]).job < At(q, f[l]).job
    BY <1>4, <2>1
  <2> QED
    BY <2>2, <2>3
<1>7. ASSUME NEW k \in 1 .. u, Behind(k, b) PROVE n < At(p, k).job
  <2>1. f[k] \in 1 .. v /\ Behind(f[k], y) /\ At(p, k) = At(q, f[k])
    BY <1>1, <1>3, <1>7
  <2> QED
    BY <1>4, <2>1
<1>8. Past(n, pc2, m2)
  BY <1>4
<1> QED
  BY <1>5, <1>6, <1>7, <1>8 DEF RiseOf, u

\* The next slot behind idle_list is taken in hand.
LEMMA RiseTaken ==
  ASSUME NEW q \in Seq(Unit), Paired(q), NEW n \in Nat, NEW x, x = 2 * n, n + 1 \in 1 .. Num(q),
         NEW j, NEW pc, NEW m, RiseOf(q, x, x, j, pc, m)
  PROVE  j < At(q, n + 1).job /\ RiseOf(q, x, x + 2, At(q, n + 1).job, pc, m)
<1> DEFINE v == Num(q)
<1>1. v \in Nat /\ \A k \in 1 .. v : At(q, k).job \in Nat
  BY JobsAre
<1>2. /\ \A k \in 1 .. v : Behind(k, x) => Past(At(q, k).job, pc, m)
      /\ \A k, l \in 1 .. v : k < l /\ Behind(k, x) => At(q, k).job < At(q, l).job
      /\ \A k \in 1 .. v : Behind(k, x) => j < At(q, k).job
  BY DEF RiseOf
<1>3. Behind(n + 1, x) /\ \A k \in 1 .. v : Behind(k, x + 2) => n + 1 < k
  BY <1>1 DEF Behind
<1>4. n + 1 \in 1 .. v
  OBVIOUS
<1> HIDE DEF v
<1>5. \A k \in 1 .. v : Behind(k, x + 2) => At(q, n + 1).job < At(q, k).job
  BY <1>2, <1>3, <1>4
<1> QED
  BY <1>2, <1>3, <1>4, <1>5 DEF RiseOf, v

\* The slot of the job read last is put behind all others.
LEMMA RiseAppended ==
  ASSUME NEW q \in Seq(Unit), Paired(q), NEW s \in Slot, NEW x, NEW y, NEW j \in Nat,
         NEW pc, NEW m \in Nat, NEW pc2, RiseOf(q, x, y, j, pc, m),
         pc \in InLoop, pc2 \notin InLoop, s.job = m
  PROVE  RiseOf(q \o Units(s), x, y, j, pc2, m)
<1> DEFINE v == Num(q)  w == q \o Units(s)
<1>1. v \in Nat /\ \A k \in 1 .. v : At(q, k).job \in Nat
  BY JobsAre
<1>2. /\ \A k \in 1 .. v : Behind(k, x) => Past(At(q, k).job, pc, m)
      /\ \A k, l \in 1 .. v : k < l /\ Behind(k, x) => At(q, k).job < At(q, l).job
      /\ \A k \in 1 .. v : Behind(k, y) => j < At(q, k).job
      /\ Past(j, pc, m)
  BY DEF RiseOf
<1>3. /\ Num(w) = v + 1 /\ \A k \in 1 .. v : At(w, k) = At(q, k)
      /\ At(w, v + 1) = s
  <2>1. /\ Units(s) \in Seq(Unit) /\ Paired(Units(s)) /\ Num(Units(s)) = 1 /\ At(Units(s), 1) = s
    BY PairedUnits
  <2>2. /\ Num(w) = v + Num(Units(s)) /\ \A k \in 1 .. v : At(w, k) = At(q, k)
        /\ \A k \in 1 .. Num(Units(s)) : At(w, v + k) = At(Units(s), k)
    BY <2>1, PairedConcat
  <2>3. 1 \in 1 .. 1
    OBVIOUS
  <2> QED
    BY <2>1, <2>2, <2>3
<1> HIDE DEF v, w
<1>4. \A i \in Nat : Past(i, pc, m) => i < m /\ Past(i, pc2, m)
  BY DEF Past
<1>5. Past(m, pc2, m) /\ At(w, v + 1).job = m
  BY <1>3 DEF Past
<1>6. \A k \in 1 .. v + 1 : k = v + 1 \/ k \in 1 .. v
  BY <1>1
<1>7. ASSUME NEW k \in 1 .. v + 1, Behind(k, x) PROVE Past(At(w, k).job, pc2, m)
  BY <1>1, <1>2, <1>3, <1>4, <1>5, <1>6, <1>7
<1>8. ASSUME NEW k \in 1 .. v + 1, NEW l \in 1 .. v + 1, k < l, Behind(k, x)
      PROVE  At(w, k).job < At(w, l).job
  <2>1. k \in 1 .. v
    BY <1>1, <1>8
  <2>2. At(w, k) = At(q, k) /\ At(q, k).job \in Nat /\ Past(At(q, k).job, pc, m)
    BY <1>1, <1>2, <1>3, <1>8, <2>1
  <2>3. CASE l = v + 1
    BY <1>4, <1>5, <2>2, <2>3
  <2>4. CASE l \in 1 .. v
    BY <1>2, <1>3, <1>8, <2>1, <2>2, <2>4
  <2> QED
    BY <1>6, <2>3, <2>4
<1>9. ASSUME NEW k \in 1 .. v + 1, Behind(k, y) PROVE j < At(w, k).job
  <2>1. CASE k = v + 1
    BY <1>2, <1>4, <1>5, <2>1
  <2>2. CASE k \in 1 .. v
    BY <1>2, <1>3, <1>9, <2>2
  <2> QED
    BY <1>6, <2>1, <2>2
<1>10. Past(j, pc2, m)
  BY <1>2, <1>4
<1> QED
  BY <1>3, <1>7, <1>8, <1>9, <1>10 DEF RiseOf, w

LEMMA CircleIs ==
  ASSUME Types, Shape
  PROVE  /\ Circle \in Seq(Unit) /\ Paired(Circle) /\ hasher.slot.job \in Nat /\ reads \in Nat
         /\ Len(idle) \in Nat /\ Edge \in Nat
<1>1. Circle \in Seq(Unit) /\ Len(idle) \in Nat /\ Len(InHand) \in Nat
  BY CircleParts, HandLen
<1>2. hasher.slot \in Slot /\ reads \in Nat
  BY BoundAssumption DEF Types, HasherType, ReaderType
<1>3. hasher.slot.job \in Nat
  BY <1>2, BoundAssumption DEF Slot
<1>4. Edge \in Nat
  BY <1>1 DEF Edge
<1> QED
  BY <1>1, <1>2, <1>3, <1>4 DEF Shape

LEMMA CirclePaired == Types /\ Shape => Circle \in Seq(Unit) /\ Paired(Circle)
  BY CircleIs

LEMMA NextRise ==
  ASSUME Base, Base', Shape, Rise, Numbered, [Next]_vars, ~Torn'
  PROVE  Shape' /\ Rise'
<1>1. /\ Types /\ Types' /\ Lists' /\ Shape' /\ (Appends \/ \E f : Keeps(f))
  BY NextCircle DEF Base, Types
<1>2. Circle' \in Seq(Unit) /\ Paired(Circle')
  <2>1. (Types /\ Shape => Circle \in Seq(Unit) /\ Paired(Circle))'
    BY CirclePaired, PTL
  <2> QED
    BY <1>1, <2>1
<1>3. /\ Circle \in Seq(Unit) /\ Paired(Circle) /\ hasher.slot.job \in Nat /\ reads \in Nat
  BY <1>1, CircleIs
<1>4. \A i \in Nat : Past(i, reader.pc, reads) => Past(i, reader'.pc, reads')
  BY <1>1, PastStays
<1>5. RiseOf(Circle, Len(idle), Edge, hasher.slot.job, reader.pc, reads)
  BY DEF Rise
<1>6. CASE GetJob
  <2>1. /\ Circle' = Circle /\ idle' = idle /\ InHand = <<>>
        /\ Num(idle) + 1 \in 1 .. Num(Circle) /\ Len(idle) = 2 * Num(idle) /\ Num(idle) \in Nat
        /\ hasher'.slot = At(Circle, Num(idle) + 1)
    BY <1>1, <1>6, KeepGet
  <2>2. reader' = reader /\ reads' = reads
    BY <1>6 DEF GetJob
  <2>3. Edge = Len(idle) /\ Edge' = Len(idle) + 2
    <3>1. hasher'.pc = "hash"
      BY <1>1, <1>6 DEF GetJob, Types, HasherType
    <3>2. Len(InHand') = 2 /\ Len(InHand) = 0
      BY <2>1, <3>1 DEF InHand, Units
    <3>3. Len(idle) \in Nat
      BY <1>1, CircleIs
    <3> QED
      BY <2>1, <3>2, <3>3 DEF Edge
  <2>4. RiseOf(Circle, Len(idle), Len(idle), hasher.slot.job, reader.pc, reads)
    BY <1>5, <2>3
  <2>5. RiseOf(Circle, Len(idle), Len(idle) + 2, At(Circle, Num(idle) + 1).job, reader.pc, reads)
    BY <1>3, <2>1, <2>4, RiseTaken
  <2> QED
    BY <1>1, <2>1, <2>2, <2>3, <2>5 DEF Rise
<1>7. CASE Appends
  <2>1. /\ reader.pc = "put" /\ reader'.pc = "erase" /\ reads' = reads /\ reader.slot \in Slot
    BY <1>1, <1>7 DEF Appends, PutJob, ReaderTo, Types, ReaderType
  <2>2. reader.slot.job = reads
    BY <2>1 DEF Numbered
  <2>3. idle' = idle /\ Edge' = Edge /\ hasher' = hasher /\ Circle' = Circle \o Units(reader.slot)
    BY <1>7 DEF Appends
  <2>4. reader.pc \in InLoop /\ reader'.pc \notin InLoop
    BY <2>1 DEF InLoop
  <2>5. RiseOf(Circle \o Units(reader.slot), Len(idle), Edge, hasher.slot.job, reader'.pc, reads)
    BY <1>3, <1>5, <2>1, <2>2, <2>4, RiseAppended
  <2> QED
    BY <1>1, <2>1, <2>3, <2>5 DEF Rise
<1>8. CASE ~GetJob /\ \E f : Keeps(f)
  <2>1. PICK f : Keeps(f)
    BY <1>8
  <2>2. /\ Thinned(f, Circle', Circle) /\ Borders(f, Circle', Len(idle'), Len(idle))
        /\ Borders(f, Circle', Edge', Edge)
    BY <2>1 DEF Keeps, Kept
  <2>3. hasher'.slot = hasher.slot
    BY <1>1, <1>8, SlotKept
  <2>4. ASSUME NEW p, p = Circle', NEW a, a = Len(idle'), NEW b, b = Edge',
               NEW pc2, pc2 = reader'.pc, NEW m2, m2 = reads'
        PROVE  RiseOf(p, a, b, hasher.slot.job, pc2, m2)
    <3>1. /\ p \in Seq(Unit) /\ Paired(p) /\ Thinned(f, p, Circle)
          /\ Borders(f, p, a, Len(idle)) /\ Borders(f, p, b, Edge)
          /\ \A i \in Nat : Past(i, reader.pc, reads) => Past(i, pc2, m2)
      BY <1>2, <1>4, <2>2, <2>4
    <3> QED
      BY <1>3, <1>5, <3>1, RiseThinned
  <2>5. RiseOf(Circle', Len(idle'), Edge', hasher.slot.job, reader'.pc, reads')
    BY <2>4
  <2> QED
    BY <1>1, <2>3, <2>5 DEF Rise
<1> QED
  BY <1>1, <1>6, <1>7, <1>8

RiseInv == Base /\ Numbered /\ (Torn \/ (Shape /\ Rise))

LEMMA InitRise == Init => RiseInv
<1> SUFFICES ASSUME Init PROVE RiseInv
  OBVIOUS
<1>1. Types /\ Shape
  BY InitTypes, InitShape
<1>2. Ending /\ HoldsHead /\ Numbered
  BY DEF Init, Ending, HoldsHead, Filling, Numbered
<1>3. Rise
  <2>1. hasher.slot.job = 0 /\ reads = 0 /\ reader.pc = "off" /\ hasher.pc = "top"
    BY DEF Init, Mixed
  <2>2. Past(0, "off", 0)
    BY DEF Past, InLoop
  <2>3. job = <<>> /\ InHand = <<>> /\ Tail1 = job
    BY <1>1, <2>1, CircleParts DEF Init, InHand
  <2>4. Circle = idle /\ Edge = Len(idle)
    <3>1. idle \in Seq(Unit) /\ Len(idle) \in Nat /\ Circle = (idle \o <<>>) \o <<>>
      BY <1>1, <2>3, CircleParts
    <3>2. Circle = idle
      BY <3>1, ConcatEmptySeq
    <3>3. Edge = Len(idle) + 0
      BY <2>3 DEF Edge
    <3> QED
      BY <3>1, <3>2, <3>3
  <2>5. \A k \in 1 .. Num(idle) : ~Behind(k, Len(idle))
    <3> DEFINE n == Num(idle)  l == Len(idle)
    <3>1. n \in Nat /\ l = 2 * n
      BY <1>1, <2>4, CircleIs, NumOf DEF Paired
    <3> HIDE DEF n, l
    <3>2. \A k \in 1 .. n : ~Behind(k, l)
      BY <3>1 DEF Behind
    <3> QED
      BY <3>2 DEF n, l
  <2>6. RiseOf(idle, Len(idle), Len(idle), 0, "off", 0)
    BY <2>2, <2>5 DEF RiseOf
  <2> QED
    BY <2>1, <2>4, <2>6 DEF Rise
<1> QED
  BY <1>1, <1>2, <1>3 DEF RiseInv, Base

LEMMA NextRiseInv ==
  ASSUME RiseInv, [Next]_vars
  PROVE  RiseInv'
<1>1. Base /\ Base'
  <2>1. Base
    BY DEF RiseInv
  <2>2. Types'
    BY <2>1, NextTypes DEF Base
  <2>3. Ending' /\ HoldsHead'
    BY <2>1, NextEnding, NextHoldsHead DEF Base
  <2> QED
    BY <2>1, <2>2, <2>3 DEF Base
<1>2. Numbered'
  BY <1>1, NextNumbered DEF RiseInv, Base
<1>3. Torn => Torn'
  BY OtherFrames DEF Torn
<1>4. CASE Torn'
  BY <1>1, <1>2, <1>4 DEF RiseInv
<1>5. CASE ~Torn'
  <2>1. Shape /\ Rise /\ Numbered
    BY <1>3, <1>5 DEF RiseInv
  <2>2. Shape' /\ Rise'
    BY <1>1, <1>5, <2>1, NextRise
  <2> QED
    BY <1>1, <1>2, <2>2 DEF RiseInv
<1> QED
  BY <1>4, <1>5

(* What hash_thread gets from job_list was read after all it has hashed so   *)
(* far: no block is hashed twice and none overtakes another, through stops,  *)
(* moves of the list, restarts at any point and caches that the reader has   *)
(* left behind, until a get finds no whole slot or a move is cut.            *)
THEOREM HashedAsRead == Spec => HashedInOrder
<1> DEFINE Later == hasher.pc = "get" /\ hasher'.pc = "hash" /\ mishaps' \subseteq {"cache left"}
                      => hasher'.slot.job > hasher.slot.job
<1>1. RiseInv /\ [Next]_vars => [Later]_vars
  <2> SUFFICES ASSUME RiseInv, [Next]_vars, hasher.pc = "get", hasher'.pc = "hash",
                      mishaps' \subseteq {"cache left"}
               PROVE  hasher'.slot.job > hasher.slot.job
    OBVIOUS
  <2>1. ~Torn /\ ~Torn' /\ Types /\ Lists' /\ Shape /\ Rise
    BY OtherFrames, NextLists DEF Torn, RiseInv, Base
  <2>2. GetJob
    <3>1. hasher' # hasher
      OBVIOUS
    <3> QED
      BY <3>1, Frames
      DEF HasherStep, TestCancel, PollJob, TestFlag, MoveFirst, MoveSecond, MoveErase,
          Hash, PutIdle, FreeCache
  <2>3. /\ InHand = <<>>
        /\ Num(idle) + 1 \in 1 .. Num(Circle) /\ Len(idle) = 2 * Num(idle) /\ Num(idle) \in Nat
        /\ hasher'.slot = At(Circle, Num(idle) + 1)
    BY <2>1, <2>2, KeepGet
  <2>4. Edge = Len(idle)
    <3> DEFINE a == Len(idle)  b == Len(InHand)
    <3>1. b = 0 /\ a \in Nat /\ Edge = a + b
      BY <2>1, <2>3, CircleIs DEF Edge
    <3> HIDE DEF a, b
    <3>2. a + b = a
      BY ONLY <3>1
    <3>3. Edge = a
      BY ONLY <3>1, <3>2
    <3> QED
      BY <3>3 DEF a
  <2>5. Circle \in Seq(Unit) /\ Paired(Circle) /\ hasher.slot.job \in Nat
    BY <2>1, CircleIs
  <2>6. RiseOf(Circle, Len(idle), Len(idle), hasher.slot.job, reader.pc, reads)
    BY <2>1, <2>4 DEF Rise
  <2>7. hasher.slot.job < At(Circle, Num(idle) + 1).job
    BY <2>3, <2>5, <2>6, RiseTaken
  <2>8. At(Circle, Num(idle) + 1).job \in Nat
    BY <2>3, <2>5, JobsAre
  <2> QED
    BY <2>3, <2>5, <2>7, <2>8
<1> QED
  BY <1>1, InitRise, NextRiseInv, PTL DEF Spec, HashedInOrder

-----------------------------------------------------------------------------
(* The caches, until the first mishap.  A cache is in one slot of the circle *)
(* only, but for the slot that the reader has put on job_list and not erased *)
(* from idle_list yet (Lead).  It is alive and as long as its slot says, but *)
(* for that of the slot at the head while the reader fills it: the reader's  *)
(* copy knows where realloc has put that one (Lo).  Behind idle_list, it     *)
(* holds the data of its slot's job.                                         *)

Lead(pc) == IF pc = "erase" THEN 1 ELSE 0
Lo(pc) == IF pc \in {"read", "check2", "put", "erase"} THEN 1 ELSE 0
Pure(s) == s.cache \in Block \cup {NoCache}
SoundIn(s, h) == s.cache # NoCache => s.cache \in DOMAIN h /\ h[s.cache].size >= s.size
FilledIn(s, h) == s.cache \in DOMAIN h /\ h[s.cache].data = s.job

ApartIn(q, pc) ==
  \A i, j \in 1 .. Num(q) :
     i < j /\ i > Lead(pc) /\ At(q, i).cache = At(q, j).cache => At(q, i).cache = NoCache
CopyIn(q, h, r) ==
  /\ r.pc = "alloc" => r.slot = At(q, 1)
  /\ r.pc \in {"read", "check2", "put"} =>
       /\ r.slot.cache \in DOMAIN h
       /\ h[r.slot.cache].size >= r.want /\ h[r.slot.cache].size >= r.slot.size
       /\ \A k \in 1 .. Num(q) : k >= 2 => At(q, k).cache # r.slot.cache
       /\ At(q, 1).cache = r.slot.cache => SoundIn(At(q, 1), h)
ReadIn(h, r, m) == r.pc \in {"check2", "put"} => h[r.slot.cache].data = m
CachesOf(q, x, h, r, m) ==
  /\ \A k \in 1 .. Num(q) : Pure(At(q, k))
  /\ ApartIn(q, r.pc)
  /\ \A k \in 1 .. Num(q) : k > Lo(r.pc) => SoundIn(At(q, k), h)
  /\ \A k \in 1 .. Num(q) : Behind(k, x) => FilledIn(At(q, k), h)
  /\ CopyIn(q, h, r) /\ ReadIn(h, r, m)
Cached == CachesOf(Circle, Len(idle), heap, reader, reads)

LEMMA CachesThinned ==
  ASSUME NEW p \in Seq(Unit), NEW q \in Seq(Unit), Paired(p), Paired(q), NEW f, Thinned(f, p, q),
         NEW a, NEW x, Borders(f, p, a, x), NEW h, NEW r, NEW m,
         r.pc \in Filling => Num(p) >= 1 /\ f[1] = 1,
         CachesOf(q, x, h, r, m)
  PROVE  CachesOf(p, a, h, r, m)
<1> DEFINE u == Num(p)  v == Num(q)
<1>1. /\ f \in [1 .. u -> 1 .. v] /\ \A k \in 1 .. u : f[k] >= k /\ At(p, k) = At(q, f[k])
      /\ \A k, l \in 1 .. u : k < l => f[k] < f[l]
  BY DEF Thinned
<1>2. u \in Nat /\ v \in Nat
  BY NumOf DEF Paired
<1>3. \A k \in 1 .. u : Behind(k, a) => Behind(f[k], x)
  BY DEF Borders
<1>4. /\ \A k \in 1 .. v : Pure(At(q, k))
      /\ \A k \in 1 .. v : k > Lo(r.pc) => SoundIn(At(q, k), h)
      /\ \A k \in 1 .. v : Behind(k, x) => FilledIn(At(q, k), h)
      /\ \A i, j \in 1 .. v :
            i < j /\ i > Lead(r.pc) /\ At(q, i).cache = At(q, j).cache => At(q, i).cache = NoCache
  BY DEF CachesOf, ApartIn
<1>5. Lo(r.pc) \in Nat /\ Lead(r.pc) \in Nat
  BY DEF Lo, Lead
<1> HIDE DEF u, v
<1>6. \A k \in 1 .. u, n \in Nat : k > n => f[k] > n
  BY <1>1, <1>2
<1>7. \A k \in 1 .. u : /\ Pure(At(p, k)) /\ (k > Lo(r.pc) => SoundIn(At(p, k), h))
                        /\ Behind(k, a) => FilledIn(At(p, k), h)
  BY <1>1, <1>3, <1>4, <1>5, <1>6
<1>8. ASSUME NEW i \in 1 .. u, NEW j \in 1 .. u, i < j, i > Lead(r.pc),
             At(p, i).cache = At(p, j).cache
      PROVE  At(p, i).cache = NoCache
  <2>1. f[i] \in 1 .. v /\ f[j] \in 1 .. v /\ f[i] < f[j] /\ f[i] > Lead(r.pc)
    BY <1>1, <1>5, <1>6, <1>8
  <2>2. At(p, i) = At(q, f[i]) /\ At(p, j) = At(q, f[j])
    BY <1>1
  <2> QED
    BY <1>4, <1>8, <2>1, <2>2
<1>9. ApartIn(p, r.pc)
  BY <1>8 DEF ApartIn, u
<1>10. CopyIn(p, h, r)
  <2>1. r.pc \in Filling => At(p, 1) = At(q, 1)
    <3>1. r.pc \in Filling => 1 \in 1 .. u /\ f[1] = 1
      BY <1>2 DEF u
    <3> QED
      BY <1>1, <3>1
  <2>2. CopyIn(q, h, r)
    BY DEF CachesOf
  <2>3. \A k \in 1 .. u : k >= 2 => f[k] \in 1 .. v /\ f[k] >= 2 /\ At(p, k) = At(q, f[k])
    BY <1>1, <1>2
  <2>4. CASE r.pc = "alloc"
    BY <2>1, <2>2, <2>4 DEF CopyIn, Filling
  <2>5. CASE r.pc \in {"read", "check2", "put"}
    <3>1. At(p, 1) = At(q, 1)
      BY <2>1, <2>5 DEF Filling
    <3>2. \A k \in 1 .. v : k >= 2 => At(q, k).cache # r.slot.cache
      BY <2>2, <2>5 DEF CopyIn, v
    <3>3. \A k \in 1 .. u : k >= 2 => At(p, k).cache # r.slot.cache
      BY <2>3, <3>2
    <3> QED
      BY <2>2, <2>5, <3>1, <3>3 DEF CopyIn, u
  <2>6. CASE r.pc \notin {"alloc", "read", "check2", "put"}
    BY <2>6 DEF CopyIn
  <2> QED
    BY <2>4, <2>5, <2>6
<1>11. ReadIn(h, r, m)
  BY DEF CachesOf
<1> QED
  BY <1>7, <1>9, <1>10, <1>11 DEF CachesOf, u

\* The head is taken away: by the reader, or by work_cleanup, which frees its cache.
LEMMA CachesShifted ==
  ASSUME NEW p \in Seq(Unit), NEW q \in Seq(Unit), Paired(p), Paired(q), NEW f, Thinned(f, p, q),
         \A k \in 1 .. Num(p) : f[k] = k + 1,
         NEW a, NEW x, Borders(f, p, a, x), NEW h, NEW r, NEW m, NEW g, NEW r2, NEW m2,
         r2.pc \in {"off", "loop"}, CachesOf(q, x, h, r, m),
         \A k \in 1 .. Num(p) : SoundIn(At(p, k), h) => SoundIn(At(p, k), g),
         \A k \in 1 .. Num(p) : FilledIn(At(p, k), h) => FilledIn(At(p, k), g)
  PROVE  CachesOf(p, a, g, r2, m2)
<1> DEFINE u == Num(p)  v == Num(q)
<1>1. /\ f \in [1 .. u -> 1 .. v] /\ \A k \in 1 .. u : At(p, k) = At(q, f[k])
  BY DEF Thinned
<1>2. u \in Nat /\ v \in Nat
  BY NumOf DEF Paired
<1>3. \A k \in 1 .. u : Behind(k, a) => Behind(f[k], x)
  BY DEF Borders
<1>4. /\ \A k \in 1 .. v : Pure(At(q, k))
      /\ \A k \in 1 .. v : k > Lo(r.pc) => SoundIn(At(q, k), h)
      /\ \A k \in 1 .. v : Behind(k, x) => FilledIn(At(q, k), h)
      /\ \A i, j \in 1 .. v :
            i < j /\ i > Lead(r.pc) /\ At(q, i).cache = At(q, j).cache => At(q, i).cache = NoCache
  BY DEF CachesOf, ApartIn
<1>5. Lo(r.pc) \in {0, 1} /\ Lead(r.pc) \in {0, 1}
  BY DEF Lo, Lead
<1>6. \A k \in 1 .. u : f[k] = k + 1
  OBVIOUS
<1> HIDE DEF u, v
<1>7. \A k \in 1 .. u : f[k] \in 1 .. v /\ f[k] > Lo(r.pc) /\ f[k] > Lead(r.pc)
  BY <1>1, <1>2, <1>5, <1>6
<1>8. \A k \in 1 .. u : /\ Pure(At(p, k)) /\ SoundIn(At(p, k), g)
                        /\ Behind(k, a) => FilledIn(At(p, k), g)
  BY <1>1, <1>3, <1>4, <1>7 DEF u
<1>9. ASSUME NEW i \in 1 .. u, NEW j \in 1 .. u, i < j, At(p, i).cache = At(p, j).cache
      PROVE  At(p, i).cache = NoCache
  <2>1. f[i] \in 1 .. v /\ f[j] \in 1 .. v /\ f[i] < f[j] /\ f[i] > Lead(r.pc)
    BY <1>2, <1>6, <1>7, <1>9
  <2>2. At(p, i) = At(q, f[i]) /\ At(p, j) = At(q, f[j])
    BY <1>1
  <2> QED
    BY <1>4, <1>9, <2>1, <2>2
<1>10. ApartIn(p, r2.pc)
  BY <1>9 DEF ApartIn, u
<1>11. CopyIn(p, g, r2) /\ ReadIn(g, r2, m2)
  BY DEF CopyIn, ReadIn
<1> QED
  BY <1>8, <1>10, <1>11 DEF CachesOf, u

\* The reader puts the filled slot on job_list.
LEMMA CachesAppended ==
  ASSUME NEW q \in Seq(Unit), Paired(q), NEW x, NEW h, DOMAIN h \subseteq Block, NEW r,
         r.slot \in Slot, r.pc = "put",
         NEW m, r.slot.job = m, NEW r2, r2.pc = "erase", CachesOf(q, x, h, r, m)
  PROVE  CachesOf(q \o Units(r.slot), x, h, r2, m)
<1> DEFINE v == Num(q)  s == r.slot  w == q \o Units(s)
<1>1. v \in Nat
  BY NumOf DEF Paired
<1>2. /\ Num(w) = v + 1 /\ \A k \in 1 .. v : At(w, k) = At(q, k)
      /\ At(w, v + 1) = s
  <2>1. /\ Units(s) \in Seq(Unit) /\ Paired(Units(s)) /\ Num(Units(s)) = 1 /\ At(Units(s), 1) = s
    BY PairedUnits
  <2>2. /\ Num(w) = v + Num(Units(s)) /\ \A k \in 1 .. v : At(w, k) = At(q, k)
        /\ \A k \in 1 .. Num(Units(s)) : At(w, v + k) = At(Units(s), k)
    BY <2>1, PairedConcat
  <2>3. 1 \in 1 .. 1
    OBVIOUS
  <2> QED
    BY <2>1, <2>2, <2>3
<1>3. /\ \A k \in 1 .. v : Pure(At(q, k))
      /\ \A k \in 1 .. v : k > 1 => SoundIn(At(q, k), h)
      /\ \A k \in 1 .. v : Behind(k, x) => FilledIn(At(q, k), h)
      /\ \A i, j \in 1 .. v :
            i < j /\ i > 1 /\ At(q, i).cache = At(q, j).cache => At(q, i).cache = NoCache
  BY <1>1 DEF CachesOf, ApartIn, Lo, Lead
<1>4. /\ s.cache \in DOMAIN h /\ h[s.cache].size >= s.size /\ h[s.cache].data = m
      /\ \A k \in 1 .. v : k >= 2 => At(q, k).cache # s.cache
  BY DEF CachesOf, CopyIn, ReadIn
<1>5. Pure(s) /\ SoundIn(s, h) /\ FilledIn(s, h)
  BY <1>4 DEF Pure, SoundIn, FilledIn
<1>6. Lo(r2.pc) = 1 /\ Lead(r2.pc) = 1 /\ CopyIn(w, h, r2) /\ ReadIn(h, r2, m)
  BY DEF Lo, Lead, CopyIn, ReadIn
<1> HIDE DEF v, w, s
<1>7. \A k \in 1 .. v + 1 : k = v + 1 \/ k \in 1 .. v
  BY <1>1
<1>8. \A k \in 1 .. v + 1 : /\ Pure(At(w, k)) /\ (k > 1 => SoundIn(At(w, k), h))
                            /\ Behind(k, x) => FilledIn(At(w, k), h)
  BY <1>2, <1>3, <1>5, <1>7
<1>9. ASSUME NEW i \in 1 .. v + 1, NEW j \in 1 .. v + 1, i < j, i > 1,
             At(w, i).cache = At(w, j).cache
      PROVE  At(w, i).cache = NoCache
  <2>1. i \in 1 .. v /\ i >= 2
    BY <1>1, <1>9
  <2>2. CASE j = v + 1
    BY <1>2, <1>4, <1>9, <2>1, <2>2
  <2>3. CASE j \in 1 .. v
    BY <1>2, <1>3, <1>9, <2>1, <2>3
  <2> QED
    BY <1>7, <2>2, <2>3
<1>10. ApartIn(w, r2.pc)
  BY <1>2, <1>6, <1>9 DEF ApartIn
<1>11. CachesOf(w, x, h, r2, m)
  BY <1>2, <1>6, <1>8, <1>10 DEF CachesOf
<1> QED
  BY <1>11 DEF w, s

LEMMA HeadOfCircle ==
  ASSUME Types, Shape, Len(idle) >= 2
  PROVE  /\ SlotOf(First(idle, 2)) = At(Circle, 1) /\ Num(Circle) \in Nat /\ Num(Circle) >= 1
         /\ \A k \in 1 .. Num(Circle) : Behind(k, Len(idle)) => k >= 2
<1>1. /\ idle \in Seq(Unit) /\ InHand \in Seq(Unit) /\ Tail1 \in Seq(Unit)
      /\ Len(idle) \in Nat /\ Len(InHand) \in Nat /\ Len(Tail1) \in Nat
      /\ Circle = (idle \o InHand) \o Tail1 /\ Circle \in Seq(Unit) /\ Paired(Circle)
      /\ Len(Circle) = Len(idle) + Len(InHand) + Len(Tail1)
  BY CircleParts, HandLen DEF Shape
<1>2. Len(Circle) >= 2
  <2> DEFINE a == Len(idle)  b == Len(InHand)  c == Len(Tail1)  d == Len(Circle)
  <2>1. a \in Nat /\ b \in Nat /\ c \in Nat /\ d = a + b + c /\ a >= 2
    BY <1>1
  <2> HIDE DEF a, b, c, d
  <2>2. d >= 2
    BY <2>1
  <2> QED
    BY <2>2 DEF d
<1>3. First(Circle, 2) = First(idle, 2)
  <2> DEFINE w == idle \o InHand  t == Tail1
  <2>1. w \in Seq(Unit) /\ t \in Seq(Unit) /\ Len(w) = Len(idle) + Len(InHand) /\ Circle = w \o t
    BY <1>1, ConcatProperties
  <2>2. First(w, 2) = First(idle, 2)
    BY <1>1, RestOfJoined
  <2>3. Len(w) >= 2
    <3> DEFINE a == Len(idle)  b == Len(InHand)  c == Len(w)
    <3>1. a \in Nat /\ b \in Nat /\ c = a + b /\ a >= 2
      BY <1>1, <2>1
    <3> HIDE DEF a, b, c
    <3>2. c >= 2
      BY <3>1
    <3> QED
      BY <3>2 DEF c
  <2> HIDE DEF w, t
  <2>4. First(w \o t, 2) = First(w, 2)
    BY <2>1, <2>3, RestOfJoined
  <2> QED
    BY <2>1, <2>2, <2>4
<1>4. SlotOf(First(idle, 2)) = At(Circle, 1) /\ Num(Circle) \in Nat /\ Num(Circle) >= 1
  BY <1>1, <1>2, <1>3, PairedHead, NumOf DEF Paired
<1>5. \A k \in 1 .. Num(Circle) : Behind(k, Len(idle)) => k >= 2
  <2> DEFINE n == Num(Circle)  x == Len(idle)
  <2>1. n \in Nat /\ x \in Nat /\ x >= 2
    BY <1>1, <1>4
  <2> HIDE DEF n, x
  <2>2. \A k \in 1 .. n : Behind(k, x) => k >= 2
    BY <2>1 DEF Behind
  <2> QED
    BY <2>2 DEF n, x
<1> QED
  BY <1>4, <1>5

Resting == {"off", "loop", "wait", "check", "peek"}

LEMMA CachesRest ==
  ASSUME NEW q, NEW x, NEW h, NEW r, NEW m, NEW r2, NEW m2, CachesOf(q, x, h, r, m),
         r.pc \in Resting \cup {"alloc"}, r2.pc \in Resting
  PROVE  CachesOf(q, x, h, r2, m2)
<1>1. Lo(r.pc) = 0 /\ Lo(r2.pc) = 0 /\ Lead(r.pc) = 0 /\ Lead(r2.pc) = 0
  BY DEF Lo, Lead, Resting
<1>2. CopyIn(q, h, r2) /\ ReadIn(h, r2, m2)
  BY DEF CopyIn, ReadIn, Resting
<1> QED
  BY <1>1, <1>2 DEF CachesOf, ApartIn

\* The reader gives up: the slot at the head is as it was, with its own cache.
LEMMA CachesGivenUp ==
  ASSUME NEW q, Num(q) \in Nat, NEW x, NEW h, NEW r, NEW m, NEW r2, CachesOf(q, x, h, r, m),
         r.pc \in {"read", "check2"}, r2.pc \in Resting,
         At(q, 1).cache \in {NoCache, r.slot.cache}
  PROVE  CachesOf(q, x, h, r2, m)
<1>1. Lo(r.pc) = 1 /\ Lo(r2.pc) = 0 /\ Lead(r.pc) = 0 /\ Lead(r2.pc) = 0
  BY DEF Lo, Lead, Resting
<1>2. CopyIn(q, h, r2) /\ ReadIn(h, r2, m)
  BY DEF CopyIn, ReadIn, Resting
<1>3. SoundIn(At(q, 1), h)
  BY DEF CachesOf, CopyIn, SoundIn
<1>4. \A k \in 1 .. Num(q) : SoundIn(At(q, k), h)
  <2>1. \A k \in 1 .. Num(q) : k = 1 \/ k > 1
    OBVIOUS
  <2> QED
    BY <1>1, <1>3, <2>1 DEF CachesOf
<1> QED
  BY <1>1, <1>2, <1>4 DEF CachesOf, ApartIn

\* realloc gives the reader's copy a cache that no other slot has.
MovedTo(h, r, new, g, r2) ==
  /\ r.pc = "alloc" /\ r.want \in Nat /\ ~Enough(r.slot, r.want)
  /\ DOMAIN h \subseteq Block
  /\ new \in Block /\ (new = r.slot.cache \/ new \notin DOMAIN h)
  /\ DOMAIN g = (DOMAIN h \ {r.slot.cache}) \cup {new} /\ g[new].size = r.want
  /\ \A b \in DOMAIN g : b # new => g[b] = h[b]
  /\ r2.pc = "read" /\ r2.want = r.want /\ r2.slot.cache = new /\ r2.slot.size = r.want
LEMMA CachesMoved ==
  ASSUME NEW q \in Seq(Unit), Paired(q), Num(q) >= 1, NEW x,
         \A k \in 1 .. Num(q) : Behind(k, x) => k >= 2,
         NEW h, NEW r, NEW m, CachesOf(q, x, h, r, m),
         NEW new, NEW g, NEW r2, MovedTo(h, r, new, g, r2)
  PROVE  CachesOf(q, x, g, r2, m)
<1> DEFINE v == Num(q)  old == r.slot.cache
<1>0. /\ r.pc = "alloc" /\ r.want \in Nat /\ ~Enough(r.slot, r.want)
      /\ DOMAIN h \subseteq Block
      /\ new \in Block /\ (new = r.slot.cache \/ new \notin DOMAIN h)
      /\ DOMAIN g = (DOMAIN h \ {r.slot.cache}) \cup {new} /\ g[new].size = r.want
      /\ \A b \in DOMAIN g : b # new => g[b] = h[b]
      /\ r2.pc = "read" /\ r2.want = r.want /\ r2.slot.cache = new /\ r2.slot.size = r.want
  BY DEF MovedTo
<1>1. v \in Nat /\ \A k \in 1 .. v : At(q, k) \in Slot
  BY NumOf DEF Paired
<1>2. /\ \A k \in 1 .. v : Pure(At(q, k))
      /\ \A k \in 1 .. v : k > 0 => SoundIn(At(q, k), h)
      /\ \A k \in 1 .. v : Behind(k, x) => FilledIn(At(q, k), h)
      /\ \A i, j \in 1 .. v :
            i < j /\ i > 0 /\ At(q, i).cache = At(q, j).cache => At(q, i).cache = NoCache
      /\ r.slot = At(q, 1)
  BY <1>0 DEF CachesOf, ApartIn, CopyIn, Lo, Lead
<1>3. NoCache \notin Block
  BY AddressAssumption
<1>4. 1 \in 1 .. v
  BY <1>1
<1> HIDE DEF v
<1>5. ASSUME NEW k \in 1 .. v, k >= 2
      PROVE  /\ At(q, k).cache # new
             /\ SoundIn(At(q, k), g) /\ (FilledIn(At(q, k), h) => FilledIn(At(q, k), g))
  <2> DEFINE c == At(q, k).cache
  <2>1. 1 < k /\ 1 > 0 /\ k > 0
    BY <1>1, <1>5
  <2>2. c = old => c = NoCache
    BY <1>2, <1>4, <2>1
  <2>3. c # NoCache => c \in DOMAIN h
    BY <1>2, <2>1 DEF SoundIn
  <2>4. c # new
    BY <1>0, <1>3, <2>2, <2>3
  <2>5. c \in DOMAIN h => c \in DOMAIN g /\ g[c] = h[c]
    BY <1>0, <1>3, <2>2, <2>4
  <2>6. SoundIn(At(q, k), h)
    BY <1>2, <2>1
  <2> QED
    BY <2>3, <2>4, <2>5, <2>6 DEF SoundIn, FilledIn
<1>6. At(q, 1).cache = new => SoundIn(At(q, 1), g)
  <2> SUFFICES ASSUME At(q, 1).cache = new PROVE g[new].size >= At(q, 1).size
    BY <1>0 DEF SoundIn
  <2>1. r.slot.cache # NoCache /\ ~(r.slot.size >= r.want)
    BY <1>0, <1>2, <1>3 DEF Enough
  <2>2. r.slot.size \in Nat
    <3>1. At(q, 1).size \in CacheSizes \cup {0}
      BY <1>1, <1>4 DEF Slot
    <3>2. r.slot.size = At(q, 1).size
      BY <1>2
    <3>3. \A z \in CacheSizes \cup {0} : z \in Nat
      BY ONLY SizeAssumption
    <3> QED
      BY ONLY <3>1, <3>2, <3>3
  <2> DEFINE a == r.slot.size  b == r.want
  <2>3. a \in Nat /\ b \in Nat /\ ~(a >= b)
    BY <1>0, <2>1, <2>2
  <2> HIDE DEF a, b
  <2>4. b >= a
    BY <2>3
  <2> QED
    BY <1>0, <1>2, <2>4 DEF a, b
<1>7. CopyIn(q, g, r2)
  <2>1. r.want >= r.want
    BY <1>0
  <2>2. new \in DOMAIN g
    BY <1>0
  <2> QED
    BY <1>0, <1>5, <1>6, <2>1, <2>2 DEF CopyIn, v
<1>8. Lo(r2.pc) = 1 /\ Lead(r2.pc) = 0 /\ ReadIn(g, r2, m)
  BY <1>0 DEF Lo, Lead, ReadIn
<1>9. \A k \in 1 .. v : k > 1 => k >= 2
  BY <1>1
<1>10. /\ \A k \in 1 .. v : k > 1 => SoundIn(At(q, k), g)
       /\ \A k \in 1 .. v : Behind(k, x) => FilledIn(At(q, k), g)
  BY <1>2, <1>5, <1>9 DEF v
<1>11. ApartIn(q, r2.pc)
  BY <1>2, <1>8 DEF ApartIn, v
<1> QED
  BY <1>2, <1>7, <1>8, <1>10, <1>11 DEF CachesOf, v

\* What is read goes to the cache of the reader's copy.
LEMMA CachesRead ==
  ASSUME NEW q, Num(q) \in Nat, NEW x, \A k \in 1 .. Num(q) : Behind(k, x) => k >= 2,
         NEW h, NEW r, NEW m, CachesOf(q, x, h, r, m), r.pc = "read",
         NEW g, DOMAIN g = DOMAIN h, \A b \in DOMAIN h : g[b].size = h[b].size,
         \A b \in DOMAIN h : b # r.slot.cache => g[b] = h[b],
         g[r.slot.cache].data = m,
         NEW r2, r2.pc = "check2", r2.slot = r.slot, r2.want = r.want
  PROVE  CachesOf(q, x, g, r2, m)
<1> DEFINE v == Num(q)
<1>1. /\ \A k \in 1 .. v : Pure(At(q, k))
      /\ \A k \in 1 .. v : k > 1 => SoundIn(At(q, k), h)
      /\ \A k \in 1 .. v : Behind(k, x) => FilledIn(At(q, k), h)
      /\ ApartIn(q, r.pc) /\ CopyIn(q, h, r)
  BY DEF CachesOf, Lo
<1>2. Lo(r2.pc) = 1 /\ Lead(r2.pc) = 0 /\ Lead(r.pc) = 0
  BY DEF Lo, Lead
<1>3. \A k \in 1 .. v : k >= 2 => At(q, k).cache # r.slot.cache
  BY <1>1 DEF CopyIn
<1>4. \A s : SoundIn(s, h) => SoundIn(s, g)
  BY DEF SoundIn
<1>5. ASSUME NEW k \in 1 .. v, Behind(k, x) PROVE FilledIn(At(q, k), g)
  <2>1. At(q, k).cache # r.slot.cache /\ FilledIn(At(q, k), h)
    BY <1>1, <1>3, <1>5
  <2> QED
    BY <2>1 DEF FilledIn
<1>6. CopyIn(q, g, r2) /\ ReadIn(g, r2, m)
  BY <1>1, <1>4 DEF CopyIn, ReadIn
<1>7. ApartIn(q, r2.pc)
  BY <1>1, <1>2 DEF ApartIn
<1> QED
  BY <1>1, <1>2, <1>4, <1>5, <1>6, <1>7 DEF CachesOf

LEMMA ReaderCaches ==
  ASSUME Base, Shape, Numbered, Cached, mishaps' = {}, [Next]_vars, ~EraseIdle, ~FreeCache
  PROVE  CachesOf(Circle, Len(idle), heap', reader', reads')
<1> DEFINE q == Circle  x == Len(idle)
<1>1. /\ Types /\ HoldsHead /\ q \in Seq(Unit) /\ Paired(q) /\ Num(q) \in Nat
      /\ reader \in [pc : ReaderPoints, slot : Slot, want : CacheSizes \cup {0}]
      /\ DOMAIN heap \subseteq Block /\ reads \in Nat
      /\ \A b \in DOMAIN heap : heap[b] \in CacheData
  BY CircleIs, NumOf DEF Base, Types, ReaderType, Caches, Paired
<1>2. CachesOf(q, x, heap, reader, reads)
  BY DEF Cached
<1>3. reader.pc \in Filling =>
        /\ Num(q) >= 1 /\ SlotOf(First(idle, 2)) = At(q, 1)
        /\ \A k \in 1 .. Num(q) : Behind(k, x) => k >= 2
  BY <1>1, HeadOfCircle DEF HoldsHead
<1>4. Len(idle) >= 2 => SlotOf(First(idle, 2)) = At(q, 1)
  BY <1>1, HeadOfCircle
<1> HIDE DEF q
<1>5. CASE UNCHANGED <<heap, reader, reads>>
  BY <1>2, <1>5 DEF q
<1>6. CASE Start \/ ReadLoop \/ WaitIdle \/ CheckFlag
  <2>1. heap' = heap /\ reader.pc \in Resting /\ reader'.pc \in Resting
    <3>1. CASE Start
      BY <1>1, <3>1 DEF Start, Resting
    <3>2. CASE ReadLoop
      BY <1>1, <3>2 DEF ReadLoop, ReaderTo, Resting
    <3>3. CASE WaitIdle
      BY <1>1, <3>3 DEF WaitIdle, ReaderTo, Resting
    <3>4. CASE CheckFlag
      <4>1. reader.pc = "check" /\ heap' = heap /\ ReaderTo(IF runflag THEN "peek" ELSE "off")
        BY <3>4 DEF CheckFlag
      <4> QED
        BY <1>1, <4>1 DEF ReaderTo, Resting
    <3> QED
      BY <1>6, <3>1, <3>2, <3>3, <3>4
  <2> QED
    BY <1>2, <2>1, CachesRest DEF q
<1>7. CASE PeekIdle
  <2>1. reader.pc = "peek" /\ heap' = heap /\ reads' = reads
    BY <1>7 DEF PeekIdle
  <2>2. CASE Len(idle) < 2
    <3>1. reader'.pc \in Resting /\ reader.pc \in Resting
      BY <1>1, <1>7, <2>1, <2>2 DEF PeekIdle, Resting
    <3> QED
      BY <1>2, <2>1, <3>1, CachesRest DEF q
  <2>3. CASE ~(Len(idle) < 2)
    <3>1. reader'.pc = "alloc" /\ reader'.slot = At(q, 1)
      <4>1. Len(idle) >= 2
        BY <1>1, <2>3, CircleParts
      <4>2. reader' = [reader EXCEPT !.pc = "alloc", !.slot = SlotOf(First(idle, 2))]
        BY <1>7, <2>3 DEF PeekIdle
      <4> QED
        BY <1>1, <1>4, <4>1, <4>2
    <3>2. CopyIn(q, heap, reader') /\ ReadIn(heap, reader', reads)
      BY <3>1 DEF CopyIn, ReadIn
    <3>3. /\ Lo(reader'.pc) = 0 /\ Lo(reader.pc) = 0
          /\ Lead(reader'.pc) = 0 /\ Lead(reader.pc) = 0
      BY <2>1, <3>1 DEF Lo, Lead
    <3> QED
      BY <1>2, <2>1, <3>2, <3>3 DEF CachesOf, ApartIn, q
  <2> QED
    BY <2>2, <2>3
<1>8. CASE EnsureCache
  <2>1. reader.pc = "alloc" /\ reads' = reads
    BY <1>8 DEF EnsureCache
  <2>2. Num(q) >= 1 /\ \A k \in 1 .. Num(q) : Behind(k, x) => k >= 2
    BY <1>3, <2>1 DEF Filling
  <2>3. /\ reader.slot = At(q, 1) /\ Pure(At(q, 1)) /\ SoundIn(At(q, 1), heap)
        /\ \A k \in 1 .. Num(q) : k > 0 => SoundIn(At(q, k), heap)
        /\ \A i, j \in 1 .. Num(q) :
              i < j /\ i > 0 /\ At(q, i).cache = At(q, j).cache => At(q, i).cache = NoCache
    <3>1. 1 \in 1 .. Num(q) /\ 1 > 0
      BY <1>1, <2>2
    <3>2. /\ reader.slot = At(q, 1)
          /\ \A k \in 1 .. Num(q) : Pure(At(q, k))
          /\ \A k \in 1 .. Num(q) : k > 0 => SoundIn(At(q, k), heap)
          /\ \A i, j \in 1 .. Num(q) :
                i < j /\ i > 0 /\ At(q, i).cache = At(q, j).cache => At(q, i).cache = NoCache
      BY <1>2, <2>1 DEF CachesOf, CopyIn, ApartIn, Lo, Lead
    <3> QED
      BY <3>1, <3>2
  <2>4. NoCache \notin Block /\ Wild \notin Block /\ NoCache # Wild
    BY AddressAssumption DEF NoCache, Wild
  <2>5. CASE /\ Enough(reader.slot, reader.want) \/ reader.slot.cache = Wild
             /\ ReaderTo("read") /\ heap' = heap
    <3>1. reader'.pc = "read" /\ reader'.slot = reader.slot /\ reader'.want = reader.want
      BY <1>1, <2>5 DEF ReaderTo
    <3>2. reader.slot.cache # Wild
      BY <2>3, <2>4 DEF Pure
    <3>3. reader.slot.cache # NoCache /\ reader.slot.size >= reader.want
      BY <2>5, <3>2 DEF Enough
    <3> DEFINE c == reader.slot.cache
    <3>4. c \in DOMAIN heap /\ heap[c].size >= reader.slot.size
      BY <2>3, <3>3 DEF SoundIn
    <3>5. heap[c].size >= reader.want
      <4>1. \A z \in CacheSizes \cup {0} : z \in Nat
        BY ONLY SizeAssumption
      <4>2. /\ heap[c].size \in CacheSizes \cup {0} /\ reader.slot.size \in CacheSizes \cup {0}
            /\ reader.want \in CacheSizes \cup {0}
        BY <1>1, <3>4 DEF CacheData, Slot
      <4> DEFINE a == heap[c].size  b == reader.slot.size  d == reader.want
      <4>3. a \in Nat /\ b \in Nat /\ d \in Nat /\ a >= b /\ b >= d
        BY <3>3, <3>4, <4>1, <4>2
      <4> HIDE DEF a, b, d
      <4>4. a >= d
        BY <4>3
      <4> QED
        BY <4>4 DEF a, d
    <3>6. \A k \in 1 .. Num(q) : k >= 2 => At(q, k).cache # c
      <4> SUFFICES ASSUME NEW k \in 1 .. Num(q), k >= 2 PROVE At(q, k).cache # c
        OBVIOUS
      <4>1. 1 \in 1 .. Num(q) /\ 1 < k /\ 1 > 0
        BY <1>1, <2>2
      <4> QED
        BY <2>3, <3>3, <4>1
    <3>7. CopyIn(q, heap, reader') /\ ReadIn(heap, reader', reads)
      BY <2>3, <3>1, <3>4, <3>5, <3>6 DEF CopyIn, ReadIn
    <3>8. /\ Lo(reader'.pc) = 1 /\ Lead(reader'.pc) = 0 /\ Lead(reader.pc) = 0
      BY <2>1, <3>1 DEF Lo, Lead
    <3>9. \A k \in 1 .. Num(q) : k > 1 => SoundIn(At(q, k), heap)
      BY <2>3
    <3> QED
      BY <1>2, <2>1, <2>5, <3>7, <3>8, <3>9 DEF CachesOf, ApartIn, q
  <2>6. CASE ~Enough(reader.slot, reader.want) /\ \E new \in Addresses : Realloc(new)
    <3>1. PICK new \in Addresses : Realloc(new)
      BY <2>6
    <3>2. new \in Block /\ (new = reader.slot.cache \/ new \notin DOMAIN heap)
      BY <3>1, AddressesAre
    <3>3. /\ DOMAIN heap' = (DOMAIN heap \ {reader.slot.cache}) \cup {new}
          /\ heap'[new].size = reader.want
          /\ \A b \in DOMAIN heap' : b # new => heap'[b] = heap[b]
      BY <3>1 DEF Realloc
    <3>4. /\ reader'.pc = "read" /\ reader'.want = reader.want /\ reader'.slot.cache = new
          /\ reader'.slot.size = reader.want
      BY <1>1, <3>1 DEF Realloc, Slot
    <3>5. reader.want \in Nat
      <4>1. \A z \in CacheSizes \cup {0} : z \in Nat
        BY ONLY SizeAssumption
      <4> QED
        BY <1>1, <4>1
    <3>6. \A g, r2 : /\ DOMAIN g = (DOMAIN heap \ {reader.slot.cache}) \cup {new}
                     /\ g[new].size = reader.want
                     /\ \A b \in DOMAIN g : b # new => g[b] = heap[b]
                     /\ r2.pc = "read" /\ r2.want = reader.want /\ r2.slot.cache = new
                     /\ r2.slot.size = reader.want
                     => CachesOf(q, x, g, r2, reads)
      <4> SUFFICES ASSUME NEW g, NEW r2,
                          DOMAIN g = (DOMAIN heap \ {reader.slot.cache}) \cup {new},
                          g[new].size = reader.want,
                          \A b \in DOMAIN g : b # new => g[b] = heap[b],
                          r2.pc = "read", r2.want = reader.want, r2.slot.cache = new,
                          r2.slot.size = reader.want
                   PROVE  CachesOf(q, x, g, r2, reads)
        OBVIOUS
      <4>1. MovedTo(heap, reader, new, g, r2)
        BY <1>1, <2>1, <2>6, <3>2, <3>5 DEF MovedTo
      <4> HIDE DEF x
      <4> QED
        BY <1>1, <1>2, <2>2, <4>1, CachesMoved
    <3>7. CachesOf(q, x, heap', reader', reads)
      BY <3>3, <3>4, <3>6
    <3> QED
      BY <2>1, <3>7 DEF q
  <2>7. CASE ReaderTo("off") /\ heap' = heap
    <3>1. reader'.pc \in Resting /\ reader.pc \in Resting \cup {"alloc"}
      BY <1>1, <2>1, <2>7 DEF ReaderTo, Resting
    <3> QED
      BY <1>2, <2>7, <3>1, CachesRest DEF q
  <2> QED
    BY <1>8, <2>5, <2>6, <2>7 DEF EnsureCache
<1>9. ASSUME NEW pc \in {"loop", "off"}, GiveUp(pc), reader.pc \in {"read", "check2"},
             heap' = heap, reads' = reads
      PROVE  CachesOf(q, x, heap', reader', reads')
  <2>1. ~CacheLeft
    BY <1>9 DEF GiveUp
  <2>2. At(q, 1).cache \in {NoCache, reader.slot.cache}
    BY <1>3, <1>9, <2>1 DEF CacheLeft, Filling
  <2>3. reader'.pc \in Resting
    BY <1>1, <1>9 DEF GiveUp, ReaderTo, Resting
  <2>4. CachesOf(q, x, heap, reader', reads)
    BY <1>1, <1>2, <1>9, <2>2, <2>3, CachesGivenUp
  <2> QED
    BY <1>9, <2>4
<1>10. CASE ReadBlock
  <2>1. reader.pc = "read" /\ reads' = reads
    BY <1>10 DEF ReadBlock
  <2>2. CASE GiveUp("loop") /\ heap' = heap
    BY <1>9, <2>1, <2>2 DEF q
  <2>3. CASE /\ ReaderTo("check2")
             /\ heap' = [b \in DOMAIN heap |-> IF b = reader.slot.cache
                                               THEN [heap[b] EXCEPT !.data = reads] ELSE heap[b]]
    <3>1. reader'.pc = "check2" /\ reader'.slot = reader.slot /\ reader'.want = reader.want
      BY <1>1, <2>3 DEF ReaderTo
    <3>2. reader.slot.cache \in DOMAIN heap
      BY <1>2, <2>1 DEF CachesOf, CopyIn
    <3>3. /\ DOMAIN heap' = DOMAIN heap
          /\ \A b \in DOMAIN heap : b # reader.slot.cache => heap'[b] = heap[b]
          /\ heap'[reader.slot.cache] = [heap[reader.slot.cache] EXCEPT !.data = reads]
      BY <2>3, <3>2
    <3>4. /\ heap'[reader.slot.cache].data = reads
          /\ heap'[reader.slot.cache].size = heap[reader.slot.cache].size
      <4>1. heap[reader.slot.cache] \in CacheData
        BY <1>1, <3>2
      <4> QED
        BY <3>3, <4>1 DEF CacheData
    <3>5. \A b \in DOMAIN heap : heap'[b].size = heap[b].size
      BY <3>3, <3>4
    <3>6. \A k \in 1 .. Num(q) : Behind(k, x) => k >= 2
      BY <1>3, <2>1 DEF Filling
    <3>7. \A g, r2 : /\ DOMAIN g = DOMAIN heap /\ \A b \in DOMAIN heap : g[b].size = heap[b].size
                     /\ \A b \in DOMAIN heap : b # reader.slot.cache => g[b] = heap[b]
                     /\ g[reader.slot.cache].data = reads
                     /\ r2.pc = "check2" /\ r2.slot = reader.slot /\ r2.want = reader.want
                     => CachesOf(q, x, g, r2, reads)
      BY <1>1, <1>2, <2>1, <3>6, CachesRead
    <3>8. CachesOf(q, x, heap', reader', reads)
      BY <3>1, <3>3, <3>4, <3>5, <3>7
    <3> QED
      BY <2>1, <3>8 DEF q
  <2> QED
    BY <1>10, <2>2, <2>3 DEF ReadBlock
<1>11. CASE FillJob
  <2>1. reader.pc = "check2" /\ reads' = reads /\ heap' = heap
    BY <1>11 DEF FillJob
  <2>2. CASE GiveUp("off")
    BY <1>9, <2>1, <2>2 DEF q
  <2>3. CASE reader' = [reader EXCEPT !.pc = "put", !.slot.job = reads]
    <3>1. /\ reader'.pc = "put" /\ reader'.want = reader.want
          /\ reader'.slot.cache = reader.slot.cache /\ reader'.slot.size = reader.slot.size
      BY <1>1, <2>3 DEF Slot
    <3>2. /\ Lo(reader'.pc) = 1 /\ Lo(reader.pc) = 1
          /\ Lead(reader'.pc) = 0 /\ Lead(reader.pc) = 0
      BY <2>1, <3>1 DEF Lo, Lead
    <3>3. CopyIn(q, heap, reader) /\ ReadIn(heap, reader, reads)
      BY <1>2 DEF CachesOf
    <3>4. CopyIn(q, heap, reader') /\ ReadIn(heap, reader', reads)
      BY <2>1, <3>1, <3>3 DEF CopyIn, ReadIn
    <3> QED
      BY <1>2, <2>1, <3>2, <3>4 DEF CachesOf, ApartIn, q
  <2> QED
    BY <1>11, <2>2, <2>3 DEF FillJob
<1>12. CASE PutJob
  <2>1. /\ reader.pc = "put" /\ reads' = reads /\ heap' = heap /\ reader'.pc = "erase"
    BY <1>1, <1>12 DEF PutJob, ReaderTo
  <2>2. /\ Lo(reader'.pc) = 1 /\ Lo(reader.pc) = 1
        /\ Lead(reader'.pc) = 1 /\ Lead(reader.pc) = 0
    BY <2>1 DEF Lo, Lead
  <2>3. CopyIn(q, heap, reader') /\ ReadIn(heap, reader', reads)
    BY <2>1 DEF CopyIn, ReadIn
  <2>4. ApartIn(q, reader'.pc)
    <3>1. ApartIn(q, reader.pc)
      BY <1>2 DEF CachesOf
    <3>2. \A i \in 1 .. Num(q) : i > 1 => i > 0
      OBVIOUS
    <3> QED
      BY <2>2, <3>1, <3>2 DEF ApartIn
  <2> QED
    BY <1>2, <2>1, <2>2, <2>3, <2>4 DEF CachesOf, q
<1> QED
  <2>1. EnsureCache \/ ReadBlock \/ Start \/ ReaderStep \/ UNCHANGED <<heap, reader, reads>>
    BY Frames
  <2> QED
    BY <1>5, <1>6, <1>7, <1>8, <1>10, <1>11, <1>12, <2>1 DEF ReaderStep

LEMMA HeadPresent == Types /\ Shape /\ Len(idle) >= 2 => Num(Circle) >= 1
  BY HeadOfCircle

LEMMA NextCached ==
  ASSUME Base, Base', Shape, Numbered, Cached, mishaps' = {}, [Next]_vars
  PROVE  Cached'
<1> DEFINE q == Circle  x == Len(idle)
<1>1. /\ Types /\ Types' /\ ~Torn' /\ Shape' /\ (Appends \/ \E f : Keeps(f))
      /\ HoldsHead /\ HoldsHead' /\ Ending
  BY NextCircle DEF Base, Types, Torn
<1>2. Circle' \in Seq(Unit) /\ Paired(Circle')
  <2>1. (Types /\ Shape => Circle \in Seq(Unit) /\ Paired(Circle))'
    BY CirclePaired, PTL
  <2> QED
    BY <1>1, <2>1
<1>3. /\ q \in Seq(Unit) /\ Paired(q) /\ Num(q) \in Nat /\ DOMAIN heap \subseteq Block
      /\ CachesOf(q, x, heap, reader, reads)
  BY <1>1, CircleIs, NumOf DEF Types, Caches, Cached, Paired
<1>4. CASE Appends
  <2>1. /\ reader.pc = "put" /\ reader'.pc = "erase" /\ reads' = reads /\ reader.slot \in Slot
        /\ heap' = heap
    BY <1>1, <1>4 DEF Appends, PutJob, ReaderTo, Types, ReaderType
  <2>2. reader.slot.job = reads
    BY <2>1 DEF Numbered
  <2>3. idle' = idle /\ Circle' = Circle \o Units(reader.slot)
    BY <1>4 DEF Appends
  <2>4. CachesOf(q \o Units(reader.slot), x, heap, reader', reads)
    BY <1>3, <2>1, <2>2, CachesAppended
  <2> QED
    BY <2>1, <2>3, <2>4 DEF Cached
<1>5. CASE EraseIdle /\ \E f : Keeps(f)
  <2>1. PICK f : Keeps(f)
    BY <1>5
  <2>2. /\ Thinned(f, Circle', q) /\ Borders(f, Circle', Len(idle'), x)
        /\ \A k \in 1 .. Num(Circle') : f[k] = k + 1
    BY <1>5, <2>1 DEF Keeps, Kept
  <2>3. heap' = heap /\ reader'.pc \in {"off", "loop"}
    BY <1>1, <1>5 DEF EraseIdle, ReaderTo, Types, ReaderType
  <2>4. ASSUME NEW p, p = Circle', NEW a, a = Len(idle'), NEW r2, r2 = reader', NEW m2
        PROVE  CachesOf(p, a, heap, r2, m2)
    <3>1. /\ p \in Seq(Unit) /\ Paired(p) /\ Thinned(f, p, q) /\ Borders(f, p, a, x)
          /\ \A k \in 1 .. Num(p) : f[k] = k + 1
          /\ r2.pc \in {"off", "loop"}
      BY <1>2, <2>2, <2>3, <2>4
    <3> HIDE DEF q, x
    <3> QED
      BY <1>3, <3>1, CachesShifted
  <2>5. CachesOf(Circle', Len(idle'), heap, reader', reads')
    BY <2>4
  <2> QED
    BY <2>3, <2>5 DEF Cached
<1>6. CASE FreeCache /\ \E f : Keeps(f)
  <2>1. PICK f : Keeps(f)
    BY <1>6
  <2>2. /\ Thinned(f, Circle', q) /\ Borders(f, Circle', Len(idle'), x)
        /\ \A k \in 1 .. Num(Circle') : f[k] = k + 1
    BY <1>6, <2>1 DEF Keeps, Kept
  <2>3. reader.pc = "off" /\ reader' = reader
    BY <1>1, <1>6 DEF FreeCache, Ending
  <2>4. /\ \A k \in 1 .. Num(q) : k > 0 => SoundIn(At(q, k), heap)
        /\ \A i, j \in 1 .. Num(q) :
              i < j /\ i > 0 /\ At(q, i).cache = At(q, j).cache => At(q, i).cache = NoCache
    BY <1>3, <2>3 DEF CachesOf, ApartIn, Lo, Lead
  <2>5. ASSUME NEW k \in 1 .. Num(Circle')
        PROVE  /\ SoundIn(At(Circle', k), heap) => SoundIn(At(Circle', k), heap')
               /\ FilledIn(At(Circle', k), heap) => FilledIn(At(Circle', k), heap')
    <3> DEFINE c == At(Circle', k).cache
    <3>1. CASE ~(Len(idle) >= 2)
      <4>1. heap' = heap
        BY <1>6, <3>1 DEF FreeCache
      <4> QED
        BY <4>1
    <3>2. CASE Len(idle) >= 2
      <4>1. SlotOf(First(idle, 2)) = At(q, 1) /\ Num(q) >= 1
        BY <1>1, <3>2, HeadOfCircle
      <4>2. heap' = [b \in DOMAIN heap \ {At(q, 1).cache} |-> heap[b]]
        BY <1>6, <3>2, <4>1 DEF FreeCache
      <4>3. At(Circle', k) = At(q, k + 1) /\ k + 1 \in 1 .. Num(q) /\ k \in Nat /\ k >= 1
        <5>1. f[k] \in 1 .. Num(q) /\ f[k] = k + 1 /\ At(Circle', k) = At(q, f[k])
          BY <2>2 DEF Thinned
        <5>2. Num(Circle') \in Nat
          BY <1>2, NumOf DEF Paired
        <5> QED
          BY <5>1, <5>2
      <4>4. 1 \in 1 .. Num(q) /\ 1 < k + 1 /\ 1 > 0
        BY <1>3, <4>1, <4>3
      <4>5. c = At(q, 1).cache => c = NoCache
        BY <2>4, <4>3, <4>4
      <4>6. c \in DOMAIN heap => c # NoCache
        BY <1>3, AddressAssumption
      <4>7. c \in DOMAIN heap => c \in DOMAIN heap' /\ heap'[c] = heap[c]
        BY <4>2, <4>5, <4>6
      <4> QED
        BY <4>7 DEF SoundIn, FilledIn
    <3> QED
      BY <3>1, <3>2
  <2>6. ASSUME NEW p, p = Circle', NEW a, a = Len(idle'), NEW m2, NEW g, g = heap'
        PROVE  CachesOf(p, a, g, reader, m2)
    <3>1. /\ p \in Seq(Unit) /\ Paired(p) /\ Thinned(f, p, q) /\ Borders(f, p, a, x)
          /\ \A k \in 1 .. Num(p) : f[k] = k + 1
          /\ \A k \in 1 .. Num(p) : SoundIn(At(p, k), heap) => SoundIn(At(p, k), g)
          /\ \A k \in 1 .. Num(p) : FilledIn(At(p, k), heap) => FilledIn(At(p, k), g)
          /\ reader.pc \in {"off", "loop"}
      BY <1>2, <2>2, <2>3, <2>5, <2>6
    <3> HIDE DEF q, x
    <3> QED
      BY <1>3, <3>1, CachesShifted
  <2>7. CachesOf(Circle', Len(idle'), heap', reader, reads')
    BY <2>6
  <2> QED
    BY <2>3, <2>7 DEF Cached
<1>7. CASE ~EraseIdle /\ ~FreeCache /\ \E f : Keeps(f)
  <2>1. PICK f : Keeps(f)
    BY <1>7
  <2>2. /\ Thinned(f, Circle', q) /\ Borders(f, Circle', Len(idle'), x)
        /\ Len(idle) >= 2 => f[1] = 1
    BY <1>7, <2>1 DEF Keeps, Kept
  <2>3. CachesOf(q, x, heap', reader', reads')
    BY <1>7, ReaderCaches
  <2>4. reader'.pc \in Filling => Num(Circle') >= 1 /\ f[1] = 1
    <3> SUFFICES ASSUME reader'.pc \in Filling PROVE Num(Circle') >= 1 /\ f[1] = 1
      OBVIOUS
    <3>1. Len(idle') >= 2
      BY <1>1 DEF HoldsHead
    <3>2. (Types /\ Shape /\ Len(idle) >= 2 => Num(Circle) >= 1)'
      BY HeadPresent, PTL
    <3>3. Len(idle) >= 2
      <4>1. CASE HasherStep
        <5>1. reader' = reader
          BY <4>1 DEF HasherStep, TestCancel, PollJob, TestFlag, MoveFirst, MoveSecond, MoveErase,
                      GetJob, Hash, PutIdle, FreeCache
        <5> QED
          BY <1>1, <5>1 DEF HoldsHead
      <4>2. CASE UNCHANGED idle
        BY <3>1, <4>2
      <4> QED
        BY <1>7, <4>1, <4>2, Frames
    <3> QED
      BY <1>1, <2>2, <3>1, <3>2, <3>3
  <2>5. ASSUME NEW p, p = Circle', NEW a, a = Len(idle'), NEW m2, m2 = reads',
               NEW g, g = heap', NEW r2, r2 = reader'
        PROVE  CachesOf(p, a, g, r2, m2)
    <3>1. /\ p \in Seq(Unit) /\ Paired(p) /\ Thinned(f, p, q) /\ Borders(f, p, a, x)
          /\ r2.pc \in Filling => Num(p) >= 1 /\ f[1] = 1
          /\ CachesOf(q, x, g, r2, m2)
      BY <1>2, <2>2, <2>3, <2>4, <2>5
    <3> HIDE DEF q, x
    <3> QED
      BY <1>3, <3>1, CachesThinned
  <2>6. CachesOf(Circle', Len(idle'), heap', reader', reads')
    BY <2>5
  <2> QED
    BY <2>6 DEF Cached
<1> QED
  BY <1>1, <1>4, <1>5, <1>6, <1>7

CacheInv == RiseInv /\ (mishaps # {} \/ Cached)

LEMMA InitCached == Init => CacheInv
<1> SUFFICES ASSUME Init PROVE CacheInv
  OBVIOUS
<1>1. RiseInv
  BY InitRise
<1>2. /\ Types /\ Shape /\ Circle = idle /\ \A k \in 1 .. Num(idle) : At(idle, k) = Blank
  BY InitTypes, InitShape
<1>3. Blank.cache = NoCache
  BY DEF Blank
<1>4. reader.pc = "off"
  BY DEF Init
<1>5. \A k \in 1 .. Num(idle) : ~Behind(k, Len(idle))
  <2> DEFINE n == Num(idle)  l == Len(idle)
  <2>1. n \in Nat /\ l = 2 * n
    BY <1>2, CircleIs, NumOf DEF Paired
  <2> HIDE DEF n, l
  <2>2. \A k \in 1 .. n : ~Behind(k, l)
    BY <2>1 DEF Behind
  <2> QED
    BY <2>2 DEF n, l
<1>6. \A k \in 1 .. Num(idle) : Pure(At(idle, k)) /\ SoundIn(At(idle, k), heap)
  BY <1>2, <1>3 DEF Pure, SoundIn
<1>7. ApartIn(idle, reader.pc)
  BY <1>2, <1>3 DEF ApartIn
<1>8. CopyIn(idle, heap, reader) /\ ReadIn(heap, reader, reads)
  BY <1>4 DEF CopyIn, ReadIn
<1>9. Cached
  BY <1>2, <1>5, <1>6, <1>7, <1>8 DEF Cached, CachesOf
<1> QED
  BY <1>1, <1>9 DEF CacheInv

LEMMA NextCacheInv ==
  ASSUME CacheInv, [Next]_vars
  PROVE  CacheInv'
<1>1. RiseInv /\ RiseInv' /\ Base /\ Base'
  BY NextRiseInv DEF CacheInv, RiseInv
<1>2. CASE mishaps' # {}
  BY <1>1, <1>2 DEF CacheInv
<1>3. CASE mishaps' = {}
  <2>1. mishaps = {}
    BY <1>3, OtherFrames
  <2>2. Shape /\ Numbered /\ Cached
    BY <1>1, <2>1 DEF CacheInv, RiseInv, Torn
  <2>3. Cached'
    BY <1>1, <1>3, <2>2, NextCached
  <2> QED
    BY <1>1, <2>3 DEF CacheInv
<1> QED
  BY <1>2, <1>3

-----------------------------------------------------------------------------
LEMMA PairedApart ==
  ASSUME NEW p \in Seq(Unit), Paired(p),
         \A k, l \in 1 .. Num(p) :
            k < l /\ At(p, k).cache = At(p, l).cache => At(p, k).cache = NoCache,
         NEW i \in DOMAIN p, NEW j \in DOMAIN p, i < j, p[i][2] = p[j][2],
         p[i][1].cache = p[j][1].cache
  PROVE  p[i][1].cache = NoCache
<1> DEFINE n == Num(p)
<1>1. n \in Nat /\ Len(p) = 2 * n /\ DOMAIN p = 1 .. Len(p)
  BY NumOf DEF Paired
<1>2. \A k \in 1 .. n : p[2 * k - 1] = <<At(p, k), 1>> /\ p[2 * k] = <<At(p, k), 2>>
  BY DEF Paired
<1>3. i \in 1 .. 2 * n /\ j \in 1 .. 2 * n
  BY <1>1
<1> HIDE DEF n
<1>4. \A m \in 1 .. 2 * n : \E k \in 1 .. n : m = 2 * k - 1 \/ m = 2 * k
  <2> SUFFICES ASSUME NEW m \in 1 .. 2 * n
               PROVE  \E k \in 1 .. n : m = 2 * k - 1 \/ m = 2 * k
    OBVIOUS
  <2>1. (m + 1) \div 2 \in 1 .. n
        /\ (m = 2 * ((m + 1) \div 2) - 1 \/ m = 2 * ((m + 1) \div 2))
    BY <1>1, Z3
  <2> QED
    BY <2>1
<1>5. PICK k \in 1 .. n : i = 2 * k - 1 \/ i = 2 * k
  BY <1>3, <1>4
<1>6. PICK l \in 1 .. n : j = 2 * l - 1 \/ j = 2 * l
  BY <1>3, <1>4
<1>7. /\ p[i][1] = At(p, k) /\ (i = 2 * k - 1 => p[i][2] = 1) /\ (i = 2 * k => p[i][2] = 2)
  BY <1>2, <1>5
<1>8. /\ p[j][1] = At(p, l) /\ (j = 2 * l - 1 => p[j][2] = 1) /\ (j = 2 * l => p[j][2] = 2)
  BY <1>2, <1>6
<1>9. k < l
  <2>1. (i = 2 * k - 1 /\ j = 2 * l - 1) \/ (i = 2 * k /\ j = 2 * l)
    <3>1. CASE i = 2 * k - 1
      <4>1. p[j][2] = 1
        BY <1>7, <3>1
      <4>2. j # 2 * l
        BY <1>8, <4>1
      <4> QED
        BY <1>6, <3>1, <4>2
    <3>2. CASE i = 2 * k
      <4>1. p[j][2] = 2
        BY <1>7, <3>2
      <4>2. j # 2 * l - 1
        BY <1>8, <4>1
      <4> QED
        BY <1>6, <3>2, <4>2
    <3> QED
      BY <1>5, <3>1, <3>2
  <2>2. i < j
    OBVIOUS
  <2> QED
    BY <1>1, <2>1, <2>2
<1> QED
  BY <1>7, <1>8, <1>9 DEF n

(* No cache is in two slots of the circle, and so no slot in two places, as  *)
(* long as there was no mishap: whatever stops and restarts there are, and   *)
(* wherever realloc puts the caches.                                         *)
THEOREM SlotsDoNotMultiply == Spec => []SlotsNeverMultiply
<1>1. CacheInv => SlotsNeverMultiply
  <2> SUFFICES ASSUME CacheInv, mishaps = {}, NEW i \in DOMAIN Places, NEW j \in DOMAIN Places,
                      i < j, Places[i][2] = Places[j][2],
                      Places[i][1].cache = Places[j][1].cache
               PROVE  Places[i][1].cache = NoCache
    BY DEF SlotsNeverMultiply
  <2>1. Types /\ HoldsHead /\ Shape /\ Cached
    BY DEF CacheInv, RiseInv, Base, Torn
  <2>2. Circle \in Seq(Unit) /\ Paired(Circle) /\ Num(Circle) \in Nat
    BY <2>1, CircleIs, NumOf DEF Paired
  <2>3. \A k, l \in 1 .. Num(Circle) :
           k < l /\ k > Lead(reader.pc) /\ At(Circle, k).cache = At(Circle, l).cache
             => At(Circle, k).cache = NoCache
    BY <2>1 DEF Cached, CachesOf, ApartIn
  <2>4. CASE reader.pc = "erase"
    <3> DEFINE p == Rest(Circle, 2)
    <3>1. Len(Circle) >= 2
      <4>1. Num(Circle) >= 1 /\ Len(Circle) = 2 * Num(Circle)
        BY <2>1, <2>2, <2>4, HeadOfCircle, NumOf DEF HoldsHead, Filling, Paired
      <4> DEFINE n == Num(Circle)  l == Len(Circle)
      <4>2. n \in Nat /\ n >= 1 /\ l = 2 * n
        BY <2>2, <4>1
      <4> HIDE DEF n, l
      <4>3. l >= 2
        BY <4>2
      <4> QED
        BY <4>3 DEF l
    <3>2. p \in Seq(Unit) /\ Paired(p)
      BY <2>2, <3>1, ThinRest
    <3>3. PICK f : Thinned(f, p, Circle) /\ \A k \in 1 .. Num(p) : f[k] = k + 1
      BY <2>2, <3>1, ThinRest
    <3>4. Num(p) \in Nat /\ Lead(reader.pc) = 1
      BY <2>4, <3>2, NumOf DEF Paired, Lead
    <3> HIDE DEF p
    <3>5. ASSUME NEW k \in 1 .. Num(p), NEW l \in 1 .. Num(p), k < l,
                 At(p, k).cache = At(p, l).cache
          PROVE  At(p, k).cache = NoCache
      <4>1. /\ f[k] \in 1 .. Num(Circle) /\ f[l] \in 1 .. Num(Circle)
            /\ At(p, k) = At(Circle, f[k]) /\ At(p, l) = At(Circle, f[l])
        BY <3>3 DEF Thinned
      <4>2. f[k] < f[l] /\ f[k] > 1
        BY <3>3, <3>4, <3>5
      <4> QED
        BY <2>3, <3>4, <3>5, <4>1, <4>2
    <3>6. Places = p
      BY <2>4 DEF Places, p
    <3> QED
      BY <3>2, <3>5, <3>6, PairedApart
  <2>5. CASE reader.pc # "erase"
    <3>1. Places = Circle /\ Lead(reader.pc) = 0
      BY <2>5 DEF Places, Lead
    <3>2. \A k, l \in 1 .. Num(Circle) :
             k < l /\ At(Circle, k).cache = At(Circle, l).cache => At(Circle, k).cache = NoCache
      <4>1. \A k \in 1 .. Num(Circle) : k > 0
        BY <2>2
      <4> QED
        BY <2>3, <3>1, <4>1
    <3> QED
      BY <2>2, <3>1, <3>2, PairedApart
  <2> QED
    BY <2>4, <2>5
<1> QED
  BY <1>1, InitCached, NextCacheInv, PTL DEF Spec

(* th_read writes to a live cache that is as long as the block it reads, for *)
(* plots of any sizes in any order, as long as there was no mishap.          *)
THEOREM CacheIsEnough == Spec => []CacheEnough
<1>1. CacheInv => CacheEnough
  <2> SUFFICES ASSUME CacheInv, mishaps = {}, reader.pc = "read"
               PROVE  /\ reader.slot.cache \in DOMAIN heap
                      /\ heap[reader.slot.cache].size >= reader.want
    BY DEF CacheEnough
  <2>1. CopyIn(Circle, heap, reader)
    BY DEF CacheInv, Cached, CachesOf
  <2> QED
    BY <2>1 DEF CopyIn
<1> QED
  BY <1>1, InitCached, NextCacheInv, PTL DEF Spec

(* What th_hash works on is what th_read read for that job, in a live cache  *)
(* into which the reader is not reading, as long as there was no mishap.     *)
THEOREM JobSeen == Spec => []HashSeesItsJob
<1>1. CacheInv => HashSeesItsJob
  <2> SUFFICES ASSUME CacheInv, mishaps = {}, hasher.pc = "hash"
               PROVE  /\ hasher.slot.cache \in DOMAIN heap
                      /\ heap[hasher.slot.cache].data = hasher.slot.job
                      /\ ~(reader.pc = "read" /\ reader.slot.cache = hasher.slot.cache)
    BY DEF HashSeesItsJob
  <2>1. Types /\ HoldsHead /\ Shape /\ Cached
    BY DEF CacheInv, RiseInv, Base, Torn
  <2>2. CachesOf(Circle, Len(idle), heap, reader, reads)
    BY <2>1 DEF Cached
  <2> DEFINE s == hasher.slot  u == Units(s)  n == Num(idle)
  <2>3. s \in Slot
    BY <2>1 DEF Types, HasherType
  <2>4. InHand = u
    BY DEF InHand
  <2>5. Paired(idle) /\ Paired(job) /\ Circle = (idle \o u) \o job
    BY <2>1, <2>4, WholeLists
  <2>6. idle \in Seq(Unit) /\ job \in Seq(Unit) /\ n \in Nat /\ Len(idle) = 2 * n
        /\ Num(job) \in Nat
    BY <2>1, <2>5, CircleParts, NumOf DEF Paired
  <2>7. u \in Seq(Unit) /\ Paired(u) /\ Num(u) = 1 /\ At(u, 1) = s
    BY <2>3, PairedUnits
  <2> HIDE DEF s, u
  <2>8. /\ idle \o u \in Seq(Unit) /\ Paired(idle \o u) /\ Num(idle \o u) = n + 1
        /\ At(idle \o u, n + 1) = s
    <3>1. /\ Num(idle \o u) = n + Num(u)
          /\ \A k \in 1 .. Num(u) : At(idle \o u, n + k) = At(u, k)
      BY <2>5, <2>6, <2>7, PairedConcat
    <3>2. 1 \in 1 .. 1
      OBVIOUS
    <3> QED
      BY <2>5, <2>6, <2>7, <3>1, <3>2, PairedConcat
  <2> DEFINE w == idle \o u
  <2>9. /\ Num(w \o job) = Num(w) + Num(job)
        /\ \A k \in 1 .. Num(w) : At(w \o job, k) = At(w, k)
    <3>1. w \in Seq(Unit) /\ Paired(w)
      BY <2>8
    <3> HIDE DEF w
    <3> QED
      BY <2>5, <2>6, <3>1, PairedConcat
  <2>10. n + 1 \in 1 .. Num(Circle) /\ At(Circle, n + 1) = s
    <3> HIDE DEF n
    <3>1. Num(w) = n + 1 /\ At(w, n + 1) = s
      BY <2>8
    <3>2. n + 1 \in 1 .. Num(w) /\ n + 1 \in 1 .. Num(w) + Num(job)
      <4> HIDE DEF w
      <4> QED
        BY <2>6, <3>1
    <3>3. Circle = w \o job
      BY <2>5
    <3> HIDE DEF w
    <3> QED
      BY <2>9, <3>1, <3>2, <3>3
  <2>11. Behind(n + 1, Len(idle))
    <3> HIDE DEF n
    <3> QED
      BY <2>6 DEF Behind
  <2>12. FilledIn(s, heap)
    BY <2>2, <2>10, <2>11 DEF CachesOf
  <2>13. ~(reader.pc = "read" /\ reader.slot.cache = s.cache)
    <3> SUFFICES ASSUME reader.pc = "read" PROVE reader.slot.cache # s.cache
      OBVIOUS
    <3>1. n + 1 >= 2
      BY <2>1, <2>10, <2>11, HeadOfCircle DEF HoldsHead, Filling
    <3>2. \A k \in 1 .. Num(Circle) : k >= 2 => At(Circle, k).cache # reader.slot.cache
      BY <2>2 DEF CachesOf, CopyIn
    <3> QED
      BY <2>10, <3>1, <3>2
  <2> QED
    BY <2>12, <2>13 DEF FilledIn, s
<1> QED
  BY <1>1, InitCached, NextCacheInv, PTL DEF Spec
=============================================================================

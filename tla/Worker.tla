------------------------------- MODULE Worker -------------------------------
(***************************************************************************)
(* One worker of miner/scheduler.c: the reader, a call of sche_runnew that *)
(* reads plot files into the caches, and the hash thread, which work_create*)
(* starts once and work_cleanup stops.  NCache job slots travel around two *)
(* rings: the reader takes a slot at the head of idle_list, fills its      *)
(* cache, puts it on job_list and only then erases it from idle_list; the  *)
(* hash thread gets it from job_list, hashes it and puts it back.          *)
(*                                                                         *)
(* The rings hold bytes and a slot is a jobarg_t.  One put or get of a     *)
(* slot appears at once (module RBuff), but rbuff_move copies in two puts, *)
(* which split where the ring of job_list wraps: in the middle of a slot,  *)
(* as the ring has one byte more than NCache slots.  So a slot is two      *)
(* units here, its first and its second part.                              *)
(***************************************************************************)
EXTENDS Naturals, Sequences, FiniteSets

CONSTANTS
    NCache,          \* slots, the macro NCACHE
    CacheSizes,      \* the sizes real_cache_bytes takes
    Block,           \* addresses realloc can return
    MaxJobs,         \* bound: iterations of the read loop, over all runs
    MaxStarts,       \* bound: runs started
    Straddle         \* may a slot on job_list lie across the end of the ring?

ASSUME NCacheAssumption == NCache \in Nat \ {0}
ASSUME SizeAssumption == CacheSizes \subseteq Nat
ASSUME BoundAssumption == MaxJobs \in Nat /\ MaxStarts \in Nat
ASSUME VariantAssumption == Straddle \in BOOLEAN

(* Program points of hash_thread.  "flag" and "gap" are both the test of   *)
(* sche_runflag after the wait: with a job there, and after the wait ended *)
(* because sche_runflag was read clear.                                    *)
HasherPoints == {"top", "poll", "flag", "gap", "move", "move2", "erase", "get", "hash",
                 "return", "done", "freed"}

VARIABLES
    runflag,         \* sche_runflag
    cancel,          \* thread_stop was called on the hash thread
    idle, job,       \* idle_list and job_list, as sequences of units
    heap,            \* the live caches: address |-> [size, data]
    reader,          \* program counter and locals of sche_runnew
    hasher,          \* program counter and locals of hash_thread
    starts, reads,   \* runs started, iterations of the read loop made
    mishaps          \* history: which of the Mishaps have happened

vars == <<runflag, cancel, idle, job, heap, reader, hasher, starts, reads, mishaps>>

(* What the code lets happen to its slots, and the properties speak of:    *)
(* "short get"   hash_thread finds no whole slot on job_list, logs it and  *)
(*               hashes and gives back what its local job holds;           *)
(* "cut"         idle_list was too full for the first part of what         *)
(*               rbuff_move moves, and the second part goes there after all;*)
(* "cache left"  the reader gives up after realloc has moved the cache of  *)
(*               the slot that stays on idle_list with the old pointer.    *)
Mishaps == {"short get", "cut", "cache left"}

NoCache == "NULL"
Wild    == "wild"    \* the bytes of two different pointers, or of no pointer
ASSUME AddressAssumption == {NoCache, Wild} \cap Block = {}

(* jobarg_t: the cache, cache_size_orig and, in place of readarg and       *)
(* hasharg, the number of the job it was last filled for.                  *)
Slot   == [cache : Block \cup {NoCache, Wild}, size : CacheSizes \cup {0}, job : 0..MaxJobs]
Blank  == [cache |-> NoCache, size |-> 0, job |-> 0]
Mixed  == [cache |-> Wild, size |-> 0, job |-> 0]

Unit == Slot \X {1, 2}
Units(s) == << <<s, 1>>, <<s, 2>> >>
SlotOf(u) == IF Len(u) = 2 /\ u = Units(u[1][1]) THEN u[1][1] ELSE Mixed

Lesser(a, b) == IF a < b THEN a ELSE b
First(q, n) == SubSeq(q, 1, Lesser(n, Len(q)))

Free(q) == 2 * NCache - Len(q)

(* rbuff_put: whatever does not fit is cut off, and nobody looks at the    *)
(* returned length.  (Faulty variants: no clip; an erase that only peeks.) *)
PutUnclipped(q, u) == q \o u
RestKept(q, n) == q
Rest(q, n) == SubSeq(q, Lesser(n, Len(q)) + 1, Len(q))
Put(q, u) == q \o First(u, Free(q))

-----------------------------------------------------------------------------
(* work_create: NCache zeroed slots go to idle_list, then the hash thread  *)
(* is started; its local job is not initialised.                           *)
Init == /\ runflag = FALSE /\ cancel = FALSE
        /\ idle = [i \in 1..2*NCache |-> <<Blank, IF i % 2 = 1 THEN 1 ELSE 2>>]
        /\ job = <<>>
        /\ heap = [b \in {} |-> 0]
        /\ reader = [pc |-> "off", slot |-> Mixed, want |-> 0]
        /\ hasher = [pc |-> "top", slot |-> Mixed, rest |-> <<>>, moved |-> 0,
                     short |-> FALSE, exit |-> FALSE]
        /\ starts = 0 /\ reads = 0 /\ mishaps = {}

-----------------------------------------------------------------------------
(* The callers, see module MinerRun: a new block clears sche_runflag at    *)
(* any time; a run begins when no other is active, with the flag set.      *)
Stop == /\ runflag
        /\ runflag' = FALSE
        /\ UNCHANGED <<cancel, idle, job, heap, reader, hasher, starts, reads, mishaps>>

Start == /\ ~cancel /\ reader.pc = "off" /\ starts < MaxStarts
         /\ runflag' = TRUE
         /\ starts' = starts + 1
         /\ reader' = [reader EXCEPT !.pc = "loop"]
         /\ UNCHANGED <<cancel, idle, job, heap, hasher, reads, mishaps>>

(* Close: the flag is cleared, the run that was active is over, and        *)
(* work_cleanup stops the hash thread.                                     *)
Close == /\ ~cancel /\ reader.pc = "off"
         /\ cancel' = TRUE /\ runflag' = FALSE
         /\ UNCHANGED <<idle, job, heap, reader, hasher, starts, reads, mishaps>>

-----------------------------------------------------------------------------
(* The reader, sche_runnew.                                                *)
ReaderTo(pc) == reader' = [reader EXCEPT !.pc = pc]

(* The loop conditions: out of files, out of stagger, or stopped.          *)
ReadLoop ==
    /\ reader.pc = "loop"
    /\ \/ ReaderTo("off") /\ UNCHANGED reads
       \/ /\ runflag /\ reads < MaxJobs
          /\ \E size \in CacheSizes : reader' = [reader EXCEPT !.pc = "wait", !.want = size]
          /\ reads' = reads + 1
    /\ UNCHANGED <<runflag, cancel, idle, job, heap, hasher, starts, mishaps>>

(* while (rbuff_datacount(idle_list) == 0 && sche_runflag) sleep           *)
WaitIdle == /\ reader.pc = "wait"
            /\ idle # <<>> \/ ~runflag
            /\ ReaderTo("check")
            /\ UNCHANGED <<runflag, cancel, idle, job, heap, hasher, starts, reads, mishaps>>

CheckFlag == /\ reader.pc = "check"
             /\ ReaderTo(IF runflag THEN "peek" ELSE "off")
             /\ UNCHANGED <<runflag, cancel, idle, job, heap, hasher, starts, reads, mishaps>>

(* The slot is copied and stays on idle_list; a short read ends the run.   *)
PeekIdle == /\ reader.pc = "peek"
            /\ reader' = IF Len(idle) < 2
                         THEN [reader EXCEPT !.pc = "off"]
                         ELSE [reader EXCEPT !.pc = "alloc", !.slot = SlotOf(First(idle, 2))]
            /\ UNCHANGED <<runflag, cancel, idle, job, heap, hasher, starts, reads, mishaps>>

(* Where realloc can put a cache: where it is, at a dead address that some *)
(* slot still names, or elsewhere, where one address is like another.      *)
CachesIn(q) == {q[i][1].cache : i \in DOMAIN q}
Named == CachesIn(idle) \cup CachesIn(job) \cup CachesIn(hasher.rest)
         \cup {reader.slot.cache, hasher.slot.cache}
Unnamed == Block \ (DOMAIN heap \cup Named)
Addresses == ({reader.slot.cache} \cap Block) \cup ((Named \cap Block) \ DOMAIN heap)
             \cup (IF Unnamed = {} THEN {} ELSE {CHOOSE b \in Unnamed : TRUE})

(* realloc moves the cache or not, or fails; what changes is the copy.     *)
EnoughUnchecked(s, size) == s.cache # NoCache    \* faulty variant
Enough(s, size) == s.cache # NoCache /\ s.size >= size
Realloc(new) ==
    LET old == reader.slot.cache IN
    /\ heap' = [b \in (DOMAIN heap \ {old}) \cup {new} |->
                  IF b = new
                  THEN [size |-> reader.want,
                        data |-> IF old \in DOMAIN heap THEN heap[old].data ELSE 0]
                  ELSE heap[b]]
    /\ reader' = [reader EXCEPT !.pc = "read", !.slot.cache = new, !.slot.size = reader.want]

EnsureCache ==
    /\ reader.pc = "alloc"
    /\ \/ /\ Enough(reader.slot, reader.want) \/ reader.slot.cache = Wild
          /\ ReaderTo("read") /\ UNCHANGED heap
       \/ /\ ~Enough(reader.slot, reader.want)
          /\ \/ \E new \in Addresses : Realloc(new)
             \/ ReaderTo("off") /\ UNCHANGED heap
    /\ UNCHANGED <<runflag, cancel, idle, job, hasher, starts, reads, mishaps>>

(* The slot stays at the head of idle_list as it was, with the cache that  *)
(* realloc may have freed.                                                 *)
CacheLeft == SlotOf(First(idle, 2)).cache \notin {NoCache, reader.slot.cache}
GiveUp(pc) == /\ ReaderTo(pc)
              /\ mishaps' = mishaps \cup (IF CacheLeft THEN {"cache left"} ELSE {})

(* th_read fills the cache; when it cannot seek, cont breaks out of the    *)
(* loop.                                                                   *)
ReadBlock ==
    /\ reader.pc = "read"
    /\ \/ /\ ReaderTo("check2") /\ UNCHANGED mishaps
          /\ heap' = [b \in DOMAIN heap |-> IF b = reader.slot.cache
                                            THEN [heap[b] EXCEPT !.data = reads] ELSE heap[b]]
       \/ GiveUp("loop") /\ UNCHANGED heap
    /\ UNCHANGED <<runflag, cancel, idle, job, hasher, starts, reads>>

(* The flag again, then hasharg is filled.                                 *)
FillJob ==
    /\ reader.pc = "check2"
    /\ \/ /\ runflag /\ reader' = [reader EXCEPT !.pc = "put", !.slot.job = reads]
          /\ UNCHANGED mishaps
       \/ ~runflag /\ GiveUp("off")
    /\ UNCHANGED <<runflag, cancel, idle, job, heap, hasher, starts, reads>>

PutJob == /\ reader.pc = "put"
          /\ job' = Put(job, Units(reader.slot))
          /\ ReaderTo("erase")
          /\ UNCHANGED <<runflag, cancel, idle, heap, hasher, starts, reads, mishaps>>

EraseIdle == /\ reader.pc = "erase"
             /\ idle' = Rest(idle, 2)
             /\ ReaderTo("loop")
             /\ UNCHANGED <<runflag, cancel, job, heap, hasher, starts, reads, mishaps>>

-----------------------------------------------------------------------------
(* The hash thread, hash_thread.                                           *)
HasherTo(pc) == hasher' = [hasher EXCEPT !.pc = pc]

TestCancel == /\ hasher.pc = "top"
              /\ hasher' = IF cancel THEN [hasher EXCEPT !.pc = "move", !.exit = TRUE]
                                     ELSE [hasher EXCEPT !.pc = "poll"]
              /\ UNCHANGED <<runflag, cancel, idle, job, heap, reader, starts, reads, mishaps>>


PollJob == /\ hasher.pc = "poll"
           /\ \/ job # <<>> /\ HasherTo("flag")
              \/ job = <<>> /\ ~runflag /\ HasherTo("gap")
           /\ UNCHANGED <<runflag, cancel, idle, job, heap, reader, starts, reads, mishaps>>

TestFlag == /\ hasher.pc \in {"flag", "gap"}
            /\ HasherTo(IF runflag THEN "get" ELSE "move")
            /\ UNCHANGED <<runflag, cancel, idle, job, heap, reader, starts, reads, mishaps>>

(* rbuff_move(idle_list, job_list, all): the data up to the end of the     *)
(* ring, the data from its start, then one erase of what was taken.        *)
EndsOfRing(n) == {c \in 0..n : (n > 0 => c > 0) /\ (Straddle \/ c % 2 = 0)}

MoveFirst ==
    /\ hasher.pc = "move"
    /\ \E c \in EndsOfRing(Len(job)) :
          /\ idle' = Put(idle, First(job, c))
          /\ hasher' = [hasher EXCEPT !.pc = "move2", !.rest = Rest(job, c),
                                      !.moved = Lesser(c, Free(idle)),
                                      !.short = c > Free(idle)]
    /\ UNCHANGED <<runflag, cancel, job, heap, reader, starts, reads, mishaps>>

MoveSecond ==
    /\ hasher.pc = "move2"
    /\ idle' = Put(idle, hasher.rest)
    /\ hasher' = [hasher EXCEPT !.pc = "erase", !.rest = <<>>,
                                !.moved = @ + Lesser(Len(hasher.rest), Free(idle)),
                                !.short = FALSE]
    /\ mishaps' = mishaps \cup (IF hasher.short /\ First(hasher.rest, Free(idle)) # <<>>
                                THEN {"cut"} ELSE {})
    /\ UNCHANGED <<runflag, cancel, job, heap, reader, starts, reads>>

MoveErase ==
    /\ hasher.pc = "erase"
    /\ job' = Rest(job, hasher.moved)
    /\ hasher' = [hasher EXCEPT !.pc = IF hasher.exit THEN "done" ELSE "top", !.moved = 0]
    /\ UNCHANGED <<runflag, cancel, idle, heap, reader, starts, reads, mishaps>>

(* A get that finds no whole slot is logged, and the local job is hashed   *)
(* as it stands.  (Faulty variant: the slot is given back at once.)        *)
GetJobReturned ==
    /\ hasher.pc = "get"
    /\ job' = Rest(job, 2)
    /\ idle' = Put(idle, First(job, 2))
    /\ hasher' = [hasher EXCEPT !.pc = "hash", !.slot = SlotOf(First(job, 2))]
    /\ UNCHANGED <<runflag, cancel, heap, reader, starts, reads, mishaps>>

GetJob ==
    /\ hasher.pc = "get"
    /\ job' = Rest(job, 2)
    /\ hasher' = [hasher EXCEPT !.pc = "hash",
                     !.slot = IF Len(job) >= 2 THEN SlotOf(First(job, 2))
                              ELSE IF job = <<>> THEN @ ELSE Mixed]
    /\ mishaps' = mishaps \cup (IF Len(job) < 2 THEN {"short get"} ELSE {})
    /\ UNCHANGED <<runflag, cancel, idle, heap, reader, starts, reads>>

Hash == /\ hasher.pc = "hash"
        /\ HasherTo("return")
        /\ UNCHANGED <<runflag, cancel, idle, job, heap, reader, starts, reads, mishaps>>

PutIdle == /\ hasher.pc = "return"
           /\ idle' = Put(idle, Units(hasher.slot))
           /\ HasherTo("top")
           /\ UNCHANGED <<runflag, cancel, job, heap, reader, starts, reads, mishaps>>

(* work_cleanup, once thread_destroy has joined the hash thread: free the  *)
(* caches of the whole slots on idle_list, then the lists.                 *)
FreeCache ==
    /\ hasher.pc = "done"
    /\ IF Len(idle) >= 2
       THEN LET b == SlotOf(First(idle, 2)).cache IN
            /\ heap' = [x \in DOMAIN heap \ {b} |-> heap[x]]
            /\ idle' = Rest(idle, 2)
            /\ UNCHANGED <<job, hasher>>
       ELSE /\ HasherTo("freed")
            /\ idle' = <<>> /\ job' = <<>>
            /\ UNCHANGED heap
    /\ UNCHANGED <<runflag, cancel, reader, starts, reads, mishaps>>

-----------------------------------------------------------------------------
ReaderStep == ReadLoop \/ WaitIdle \/ CheckFlag \/ PeekIdle \/ EnsureCache
              \/ ReadBlock \/ FillJob \/ PutJob \/ EraseIdle
HasherStep == TestCancel \/ PollJob \/ TestFlag \/ MoveFirst \/ MoveSecond
              \/ MoveErase \/ GetJob \/ Hash \/ PutIdle \/ FreeCache
Ended == hasher.pc = "freed" /\ UNCHANGED vars

Next == Stop \/ Start \/ Close \/ ReaderStep \/ HasherStep \/ Ended

(* Both are threads of the operating system.  Nobody has to stop a run.    *)
Fairness == WF_vars(ReaderStep) /\ WF_vars(HasherStep)

Spec == Init /\ [][Next]_vars /\ Fairness

-----------------------------------------------------------------------------
TypeOK ==
    /\ runflag \in BOOLEAN /\ cancel \in BOOLEAN
    /\ idle \in Seq(Unit) /\ Len(idle) <= 2 * NCache
    /\ job \in Seq(Unit) /\ Len(job) <= 2 * NCache
    /\ DOMAIN heap \subseteq Block
    /\ \A b \in DOMAIN heap : heap[b] \in [size : CacheSizes, data : 0..MaxJobs]
    /\ reader.slot \in Slot /\ reader.want \in CacheSizes \cup {0}
    /\ reader.pc \in {"off", "loop", "wait", "check", "peek", "alloc", "read", "check2",
                      "put", "erase"}
    /\ hasher.pc \in HasherPoints
    /\ hasher.slot \in Slot /\ hasher.moved \in 0..2*NCache
    /\ mishaps \subseteq Mishaps

(* The slots in the order they will be filled again: those on idle_list,   *)
(* the one in hand, and those on job_list that rbuff_move has not put on   *)
(* idle_list yet.  The reader's, from its put to its erase, counts once.   *)
InHand == IF hasher.pc \in {"hash", "return"} THEN Units(hasher.slot) ELSE <<>>
Circle == idle \o InHand \o Rest(job, hasher.moved)
Places == IF reader.pc = "erase" THEN Rest(Circle, 2) ELSE Circle

(* What th_hash works on is the block th_read read for this very job: the  *)
(* cache is alive, holds the data of the job, and the reader is not        *)
(* already reading the next block into it.  Only after a mishap it is not. *)
HashSeesItsJob ==
    mishaps = {} /\ hasher.pc = "hash" =>
        /\ hasher.slot.cache \in DOMAIN heap
        /\ heap[hasher.slot.cache].data = hasher.slot.job
        /\ ~(reader.pc = "read" /\ reader.slot.cache = hasher.slot.cache)

(* A block is hashed at most once, and blocks in the order they were read, *)
(* until a get finds no whole slot or a move was cut: whatever caches the  *)
(* reader has left behind, stops and restarts there are.                   *)
HashedInOrder ==
    [][hasher.pc = "get" /\ hasher'.pc = "hash" /\ mishaps' \subseteq {"cache left"}
         => hasher'.slot.job > hasher.slot.job]_vars

(* No cache is in two slots, and no slot in two places, but for those the  *)
(* reader or rbuff_move is handing over, as long as there was no mishap.   *)
SlotsNeverMultiply ==
    mishaps = {} =>
        \A i, j \in DOMAIN Places :
           i < j /\ Places[i][2] = Places[j][2] /\ Places[i][1].cache = Places[j][1].cache
              => Places[i][1].cache = NoCache

(* th_read writes only to a live cache that is long enough (the comment    *)
(* before the realloc in sche_runnew: make sure the cache is enough), for  *)
(* plots of any size in any order, as long as there was no mishap.         *)
CacheEnough ==
    mishaps = {} /\ reader.pc = "read" =>
        /\ reader.slot.cache \in DOMAIN heap
        /\ heap[reader.slot.cache].size >= reader.want

(* When nothing is under way every slot is on a list again (the comment in *)
(* hash_thread: in the end it has to be given back).                       *)
SlotsReturned ==
    reader.pc = "off" /\ hasher.pc \in {"top", "poll"} => Len(idle) + Len(job) = 2 * NCache

(* Once the stop is for good, the run returns and job_list runs empty,     *)
(* unless slots have been doubled by then and fill idle_list.              *)
StopDrains ==
    <>[]~runflag => <>[](reader.pc = "off" /\ (mishaps \subseteq {"cache left"} => job = <<>>))

=============================================================================

--------------------------- MODULE PlotScanProofs ---------------------------
(* Theorems about PlotScan, for all directories of well-formed plots, all    *)
(* scoops and sizes, any number of failing calls and a stop at any time.     *)
EXTENDS PlotScan, TLAPS

-----------------------------------------------------------------------------
(* The inductive invariant *)

InBlock == {"seek front", "read front", "seek back", "read back", "merge", "put"}
InFile == InBlock \union {"group", "block"}
Places == {"list", "file", "group", "block", "seek front", "read front",
           "seek back", "read back", "merge", "put", "returned", "given up"}

Place == [front : Int, back : Int]
Content == UNION {[0 .. c - 1 -> Place] : c \in Nat}
JobType == [file : Nat, nonce : Int, n : Nat, failed : BOOLEAN,
            cache_size_local : Nat, cache : Content]

Numbers ==
  /\ dir \in Directories /\ scoop \in 0 .. NumScoops - 1
  /\ sche_runflag \in BOOLEAN /\ pc \in Places
  /\ files \in Seq(PlotFile) /\ j \in 1 .. Len(files) + 1
  /\ nonces \in Nat /\ cache_size_local \in Nat /\ cache_size_local_backup \in Nat
  /\ n \in Nat /\ i \in Nat /\ pos \in Nat /\ bytes \in Nat
  /\ left_bytes \in Nat /\ sent \in Nat /\ read \in Nat /\ faults \in Nat
  /\ flip \in BOOLEAN /\ cont \in BOOLEAN /\ failed \in BOOLEAN
  /\ jobs \in Seq(JobType)
  /\ pc = "list" => jobs = <<>> /\ j = 1

\* bytes belongs to the block at hand, and not to the one before it
Reading ==
  \/ pc \in {"read front", "read back", "merge"}
  \/ pc = "seek back" /\ flip = FALSE

\* the file at hand, and where its blocks stand
AtFile ==
  /\ j <= Len(files) /\ nonces = NoncesOf(file)
  /\ \E q \in Nat : n = q * file.Stagger
  /\ cache_size_local_backup = BlockSize(file)
  /\ cache_size_local <= cache_size_local_backup
  /\ Converted(file) => MirrorCache \in [0 .. cache_size_local_backup - 1 -> Int]
  /\ cont => faults > 0

Position ==
  /\ pc \in InFile => AtFile
  /\ pc \in InBlock \union {"block"} => i <= file.Stagger /\ n < nonces
  /\ pc \in InBlock =>
       /\ i + cache_size_local <= file.Stagger
       /\ cache \in [0 .. cache_size_local - 1 -> Place]
  /\ Reading => bytes <= cache_size_local
  /\ pc = "read back" => Converted(file)

\* the first k units of the two buffers
FrontRead(k) ==
  \A t \in 0 .. k - 1 : cache[t] = [front |-> start + i + t, back |-> start + i + t]
BackRead(k) == \A t \in 0 .. k - 1 : MirrorCache[t] = MirrorStart + i + t

\* what a block holds as long as nothing has failed: what was read last is
\* read up to bytes, what was read before is complete
FrontBehind ==
  \/ pc = "merge"
  \/ pc \in {"seek back", "read back"} /\ flip = FALSE
BackBehind ==
  \/ pc = "merge"
  \/ pc \in {"seek front", "read front"} /\ flip = TRUE
Full ==
  \/ pc = "merge"
  \/ pc = "seek back" /\ flip = FALSE

Merged ==
  \A t \in 0 .. cache_size_local - 1 :
    cache[t] = [front |-> start + i + t,
                back |-> IF Converted(file) THEN MirrorStart + i + t ELSE start + i + t]

Buffers ==
  failed = FALSE =>
    /\ pc = "read front" => pos = start + i + bytes /\ FrontRead(bytes)
    /\ pc = "read back" => pos = MirrorStart + i + bytes /\ BackRead(bytes)
    /\ FrontBehind => FrontRead(cache_size_local)
    /\ BackBehind /\ Converted(file) => BackRead(cache_size_local)
    /\ Full => bytes = cache_size_local
    /\ pc = "put" => Merged

RightJob(job) ==
  LET f == files[job.file]
      back == IF Converted(f) THEN NumScoops - 1 - scoop ELSE scoop
  IN  ~job.failed =>
        \A t \in 0 .. job.cache_size_local - 1 :
          LET x == job.nonce + t - f.StartNonce
          IN  job.cache[t] = [front |-> Address(f, x, scoop),
                              back |-> Address(f, x, back)]

RightJobs == \A k \in DOMAIN jobs : RightJob(jobs[k])

-----------------------------------------------------------------------------
(* Lemmas on numbers *)

\* Multiples of a stagger: what RoundDown and the remainder give for a nonce.
LEMMA DivMod ==
  ASSUME NEW S \in Nat \ {0}, NEW q \in Nat, NEW r \in 0 .. S - 1
  PROVE  /\ RoundDown(q * S + r, S) = q * S
         /\ (q * S + r) % S = r
<1> DEFINE x == q * S + r
<1>1. x \in Nat
  BY Z3
<1>2. S * (x \div S) <= x /\ x < S * (x \div S) + S /\ x \div S \in Int
  BY <1>1, Z3
<1>3. x % S = x - S * (x \div S)
  BY <1>1, Z3
<1>4. x \div S = q
  BY <1>1, <1>2, Z3
<1>5. RoundDown(x, S) = q * S
  BY <1>4 DEF RoundDown
<1>6. x % S = r
  BY <1>1, <1>3, <1>4, Z3
<1> QED
  BY <1>5, <1>6

\* Rounding down gives a natural number that is not larger, and at least d if
\* there is room for one d.
LEMMA RoundDownFacts ==
  ASSUME NEW x \in Nat, NEW d \in Nat \ {0}
  PROVE  /\ RoundDown(x, d) \in Nat /\ RoundDown(x, d) <= x
         /\ x >= d => RoundDown(x, d) >= d
<1>1. x \div d \in Nat /\ (x \div d) * d <= x
  BY Z3
<1>2. x >= d => x \div d >= 1
  BY Z3
<1>3. (x \div d) * d \in Nat
  BY <1>1, Z3
<1>4. x >= d => (x \div d) * d >= d
  BY <1>1, <1>2, Z3
<1> QED
  BY <1>1, <1>3, <1>4 DEF RoundDown

LEMMA NextMultiple ==
  ASSUME NEW S \in Nat, NEW m \in Nat, \E q \in Nat : m = q * S
  PROVE  \E q \in Nat : m + S = q * S
<1> PICK q \in Nat : m = q * S
  OBVIOUS
<1>1. m + S = (q + 1) * S
  BY Z3
<1> QED
  BY <1>1

LEMMA FirstMultiple ==
  ASSUME NEW S \in Nat, NEW m \in Nat, \E q \in Nat : m = q * S, m < S
  PROVE  m = 0
<1> PICK q \in Nat : m = q * S
  OBVIOUS
<1>1. q = 0
  BY Z3
<1> QED
  BY <1>1

LEMMA Product == ASSUME NEW a \in Nat, NEW b \in Nat PROVE a * b \in Nat
  BY Z3

\* What the arithmetic on one file yields.
LEMMA FileFacts ==
  ASSUME NEW f \in PlotFile
  PROVE  /\ f.StartNonce \in Nat /\ f.Stagger \in Nat \ {0} /\ f.Offset \in Nat
         /\ f.Nonces \in Nat /\ f.Size \in Nat
         /\ BytesPerSector(f) \in Nat \ {0}
         /\ NoncesOf(f) \in Nat /\ CacheSize(f) \in Nat /\ BlockSize(f) \in Nat
<1>1. /\ f.StartNonce \in Nat /\ f.Stagger \in Nat \ {0} /\ f.Offset \in Nat
      /\ f.Nonces \in Nat /\ f.Size \in Nat
  BY DEF PlotFile, AnyFile
<1>2. BytesPerSector(f) \in Nat \ {0}
  BY UnitsAssumption DEF BytesPerSector
<1>3. f.Size \div NumScoops \in Nat
  BY <1>1, UnitsAssumption, Z3
<1>4. NoncesOf(f) \in Nat
  BY <1>1, <1>3, RoundDownFacts DEF NoncesOf
<1>5. CacheSize(f) \in Nat
  BY <1>1, UnitsAssumption DEF CacheSize
<1>6. BlockSize(f) \in Nat
  BY <1>2, <1>5, RoundDownFacts DEF BlockSize
<1> QED
  BY <1>1, <1>2, <1>4, <1>5, <1>6

\* The positions of a group of nonces on the disk.
LEMMA StartFacts ==
  ASSUME Numbers, j <= Len(files)
  PROVE  /\ file \in PlotFile /\ PlotStart \in Nat
         /\ start \in Nat /\ MirrorStart \in Nat
<1>1. file \in PlotFile
  BY DEF Numbers, file
<1>2. file.Offset \in Nat /\ file.Stagger \in Nat
  BY <1>1, FileFacts
<1>3. BfsSector \in Nat /\ NumScoops \in Nat
  BY UnitsAssumption
<1>4. PlotStart \in Nat
  BY <1>2, <1>3, Product DEF PlotStart
<1>5. n \in Nat /\ scoop \in Nat /\ NumScoops - 1 - scoop \in Nat
  BY <1>3 DEF Numbers
<1>6. /\ n * NumScoops \in Nat /\ scoop * file.Stagger \in Nat
      /\ (NumScoops - 1 - scoop) * file.Stagger \in Nat
  BY <1>2, <1>3, <1>5, Product
<1>7. start \in Nat
  BY <1>4, <1>6 DEF start
<1>8. MirrorStart \in Nat
  BY <1>4, <1>6 DEF MirrorStart
<1> QED
  BY <1>1, <1>4, <1>7, <1>8

\* A read delivers at most what is asked for, never a negative number of units.
LEMMA GotFacts ==
  ASSUME Numbers, j <= Len(files), bytes <= cache_size_local
  PROVE  Got \in Nat /\ bytes + Got <= cache_size_local
<1>1. EndOfFile \in Nat
  BY DirectoriesAssumption, StartFacts, FileFacts DEF EndOfFile, Numbers
<1>2. readChunkSize \in Nat
  BY UnitsAssumption DEF readChunkSize
<1>3. MinOf(readChunkSize, cache_size_local - bytes) \in 0 .. cache_size_local - bytes
  BY <1>2 DEF MinOf, Numbers
<1> QED
  BY <1>1, <1>3 DEF Got, Numbers

-----------------------------------------------------------------------------
(* Types and positions *)

LEMMA NumbersInit == Init => Numbers /\ Position
<1> SUFFICES ASSUME Init PROVE Numbers /\ Position
  OBVIOUS
<1>1. dir \in Directories /\ scoop \in 0 .. NumScoops - 1 /\ sche_runflag \in BOOLEAN
  BY DEF Init
<1>2. pc \in Places /\ pc \notin InFile /\ pc # "returned"
  BY DEF Init, Places, InFile, InBlock
<1>3. files \in Seq(PlotFile) /\ j \in 1 .. Len(files) + 1
  BY DEF Init
<1>4. jobs \in Seq(JobType) /\ jobs = <<>> /\ j = 1
  BY DEF Init
<1>5. Numbers
  BY <1>1, <1>2, <1>3, <1>4 DEF Init, Numbers
<1>6. Position
  BY <1>2 DEF Init, Position, Reading, InFile, InBlock
<1> QED
  BY <1>5, <1>6

LEMMA NumbersStep ==
  ASSUME Numbers, Position, [Next]_vars
  PROVE  Numbers'
<1>1. /\ pc \in InFile => j <= Len(files)
      /\ pc = "block" => i <= file.Stagger
      /\ pc = "put" => cache \in [0 .. cache_size_local - 1 -> Place]
  BY DEF Position, AtFile, InFile, InBlock
<1>2. j <= Len(files) =>
        /\ file \in PlotFile /\ start \in Nat /\ MirrorStart \in Nat
        /\ file.Stagger \in Nat /\ file.StartNonce \in Nat
        /\ NoncesOf(file) \in Nat /\ BlockSize(file) \in Nat
  BY StartFacts, FileFacts
<1>3. j <= Len(files) =>
        start + i \in Nat /\ MirrorStart + i \in Nat /\ n + file.Stagger \in Nat
  <2> SUFFICES ASSUME start \in Nat, MirrorStart \in Nat, file.Stagger \in Nat
               PROVE  start + i \in Nat /\ MirrorStart + i \in Nat /\ n + file.Stagger \in Nat
    BY <1>2
  <2> QED
    BY DEF Numbers
<1>4. ASSUME pc \in {"read front", "read back"}
      PROVE  Got \in Nat /\ bytes + Got \in Nat /\ pos + Got \in Nat
  <2>1. j <= Len(files)
    BY <1>1, <1>4 DEF InFile, InBlock
  <2>1a. Reading
    BY <1>4 DEF Reading
  <2>1b. bytes <= cache_size_local
    BY <2>1a DEF Position
  <2>2. Got \in Nat
    BY <2>1, <2>1b, GotFacts
  <2>3. bytes \in Nat /\ pos \in Nat
    BY DEF Numbers
  <2> QED
    BY <2>2, <2>3
<1>5. CASE GetFiles
  BY <1>5, DirectoriesAssumption DEF GetFiles, Numbers, Places
<1>6. CASE SkipFile
  BY <1>6 DEF SkipFile, Fault, Numbers
<1>7. CASE OpenFile
  <2>1. pc = "file" /\ j <= Len(files)
    BY <1>7 DEF OpenFile
  <2> QED
    BY <1>7, <1>2, <2>1 DEF OpenFile, Numbers, Places
<1>8. CASE NoMoreFiles
  BY <1>8 DEF NoMoreFiles, Numbers, Places
<1>9. CASE NextGroup
  <2>1. /\ pc = "group"
        /\ j' = j \/ j' = j + 1
        /\ cache_size_local' = cache_size_local_backup \/ cache_size_local' = cache_size_local
        /\ i' = 0 \/ i' = i
        /\ pc' \in {"block", "file"}
        /\ UNCHANGED <<dir, scoop, sche_runflag, files, nonces,
                       cache_size_local_backup, n, flip, cont, pos, bytes, cache,
                       MirrorCache, left_bytes, sent, read, failed, faults, jobs>>
    BY <1>9 DEF NextGroup
  <2>2. j <= Len(files)
    BY <2>1, <1>1 DEF InFile
  <2>3. j' \in 1 .. Len(files') + 1
    BY <2>1, <2>2 DEF Numbers
  <2>4. i' \in Nat /\ cache_size_local' \in Nat
    BY <2>1 DEF Numbers
  <2>5. pc' \in Places /\ pc' # "list"
    BY <2>1 DEF Places
  <2> QED
    BY <2>1, <2>3, <2>4, <2>5 DEF Numbers
<1>10. CASE NextBlock
  <2>1. pc = "block" /\ i <= file.Stagger /\ file.Stagger \in Nat
    BY <1>10, <1>1, <1>2 DEF NextBlock, InFile
  <2>2. cache_size_local' = IF i + cache_size_local > file.Stagger
                            THEN file.Stagger - i ELSE cache_size_local
    BY <1>10 DEF NextBlock
  <2>3. cache_size_local' \in Nat
    BY <2>1, <2>2 DEF Numbers
  <2>4. pc' \in Places /\ pc' # "list"
    BY <1>10 DEF NextBlock, Places
  <2> QED
    BY <1>10, <2>3, <2>4 DEF NextBlock, Numbers
<1>11. CASE EndGroup
  <2>1. n + file.Stagger \in Nat
    BY <1>11, <1>1, <1>3 DEF EndGroup, InFile
  <2> QED
    BY <1>11, <2>1 DEF EndGroup, Numbers, Places
<1>4a. ASSUME NEW to \in Nat, NEW next, next \in {"read front", "read back"}, Seek(to, next)
       PROVE  Numbers'
  <2>1. /\ bytes' = 0 /\ pos' \in {to, pos} /\ pc' \in {next, "put"}
        /\ faults' = faults \/ faults' = faults + 1
        /\ cont' \in {cont, TRUE} /\ failed' \in {failed, TRUE}
        /\ UNCHANGED flip /\ UNCHANGED_th_read
    BY <1>4a DEF Seek, Fault
  <2>2. faults' \in Nat
    BY <2>1 DEF Numbers
  <2>3. pos' \in Nat /\ pc' \in Places /\ pc' # "list"
    BY <1>4a, <2>1 DEF Numbers, Places
  <2> QED
    BY <2>1, <2>2, <2>3 DEF UNCHANGED_th_read, Numbers
<1>12. CASE SeekFront
  <2>1. pc = "seek front" /\ Seek(start + i, "read front")
    BY <1>12 DEF SeekFront
  <2>2. start + i \in Nat
    BY <1>1, <1>3, <2>1 DEF InFile, InBlock
  <2> QED
    BY <1>4a, <2>1, <2>2
<1>13. CASE SeekBack
  <2>1. pc = "seek back"
    BY <1>13 DEF SeekBack
  <2>2. MirrorStart + i \in Nat
    BY <1>1, <1>3, <2>1 DEF InFile, InBlock
  <2>3. CASE Converted(file)
    BY <1>4a, <1>13, <2>2, <2>3 DEF SeekBack
  <2>4. CASE ~Converted(file)
    BY <1>13, <2>4 DEF SeekBack, UNCHANGED_th_read, Numbers, Places
  <2> QED
    BY <2>3, <2>4
<1>14. ASSUME pc \in {"read front", "read back"},
              \/ ReadOne("read front", "merge") \/ ReadOne("read front", "seek back")
              \/ ReadOne("read back", "merge") \/ ReadOne("read back", "seek front")
       PROVE  Numbers'
  <2>1. bytes + Got \in Nat /\ pos + Got \in Nat
    BY <1>4, <1>14
  <2>2. /\ \/ bytes' = bytes + Got /\ pos' = pos + Got
           \/ UNCHANGED <<bytes, pos>>
        /\ faults' = faults \/ faults' = faults + 1
    BY <1>14 DEF ReadOne, ReadFails, Fault
  <2>3. /\ pc' \in {"read front", "seek back", "read back", "seek front", "merge"}
        /\ failed' \in {failed, TRUE}
        /\ UNCHANGED <<flip, cont>> /\ UNCHANGED_th_read
    BY <1>14 DEF ReadOne
  <2>4. bytes' \in Nat /\ pos' \in Nat /\ faults' \in Nat
    BY <2>1, <2>2 DEF Numbers
  <2>5. pc' \in Places /\ pc' # "list"
    BY <2>3 DEF Places
  <2> QED
    BY <2>3, <2>4, <2>5 DEF UNCHANGED_th_read, Numbers
<1>15. CASE ReadFront
  <2>1. /\ pc \in {"read front", "read back"}
        /\ ReadOne("read front", "merge") \/ ReadOne("read front", "seek back")
    BY <1>15 DEF ReadFront
  <2> QED
    BY <1>14, <2>1
<1>16. CASE ReadBack
  <2>1. /\ pc \in {"read front", "read back"}
        /\ ReadOne("read back", "merge") \/ ReadOne("read back", "seek front")
    BY <1>16 DEF ReadBack
  <2> QED
    BY <1>14, <2>1
<1>17. CASE Merge
  BY <1>17 DEF Merge, UNCHANGED_th_read, Numbers, Places
<1>18. CASE PutBlock
  <2>1. pc = "put" /\ file.StartNonce \in Nat
    BY <1>18, <1>1, <1>2 DEF PutBlock, InFile, InBlock
  <2>2. cache \in Content
    BY <1>1, <2>1 DEF Content, Numbers
  <2>3. Job \in JobType
    BY <2>1, <2>2 DEF Job, JobType, Numbers
  <2>4. jobs' = Append(jobs, Job)
    BY <1>18 DEF PutBlock
  <2>5. jobs' \in Seq(JobType)
    BY <2>3, <2>4 DEF Numbers
  <2>6. left_bytes' \in Nat /\ sent' \in Nat /\ read' \in Nat /\ i' \in Nat
    BY <1>18 DEF PutBlock, Numbers
  <2> QED
    BY <1>18, <2>5, <2>6 DEF PutBlock, Numbers, Places
<1>19. CASE BreakOff
  <2>1. n + file.Stagger \in Nat
    BY <1>19, <1>1, <1>3 DEF BreakOff, InFile, InBlock
  <2> QED
    BY <1>19, <2>1 DEF BreakOff, Numbers, Places
<1>20. CASE GiveUp \/ NoMirror \/ NoSlot
  <2>1. faults' = faults \/ faults' = faults + 1
    BY <1>20 DEF GiveUp, NoMirror, NoSlot, Fault
  <2>2. faults' \in Nat
    BY <2>1 DEF Numbers
  <2>3. /\ pc' = "given up"
        /\ UNCHANGED <<dir, scoop, sche_runflag, j, files, nonces, cache_size_local,
                       cache_size_local_backup, n, i, flip, cont, pos, bytes,
                       left_bytes, sent, read, failed, jobs>>
    BY <1>20 DEF GiveUp, NoMirror, NoSlot
  <2> QED
    BY <2>2, <2>3 DEF Numbers, Places
<1>21. CASE sche_set_runflag
  BY <1>21 DEF sche_set_runflag, Numbers
<1>22. CASE UNCHANGED vars
  BY <1>22 DEF vars, Numbers
<1> QED
  BY <1>5, <1>6, <1>7, <1>8, <1>9, <1>10, <1>11, <1>12, <1>13, <1>15,
     <1>16, <1>17, <1>18, <1>19, <1>20, <1>21, <1>22 DEF Next, Reader

\* The steps of th_read: they touch the buffers, and stay in the block.
ThRead == SeekFront \/ ReadFront \/ SeekBack \/ ReadBack \/ Merge

LEMMA ThReadStep ==
  ASSUME Numbers, Position, ThRead
  PROVE  /\ pc \in InBlock /\ pc' \in InBlock /\ UNCHANGED_th_read
         /\ cache' \in [0 .. cache_size_local - 1 -> Place]
         /\ Converted(file) => MirrorCache' \in [0 .. cache_size_local_backup - 1 -> Int]
         /\ cont' => faults' > 0
         /\ Reading' => bytes' <= cache_size_local
         /\ pc' = "read back" => Converted(file)
<1>1. pc \in InBlock /\ pc' \in InBlock /\ UNCHANGED_th_read
  BY DEF ThRead, SeekFront, SeekBack, ReadFront, ReadBack, Merge, Seek, ReadOne, InBlock
<1>2. /\ cache \in [0 .. cache_size_local - 1 -> Place]
      /\ Converted(file) => MirrorCache \in [0 .. cache_size_local_backup - 1 -> Int]
      /\ cont => faults > 0
      /\ cache_size_local <= cache_size_local_backup
      /\ j <= Len(files)
  BY <1>1 DEF Position, AtFile, InFile
<1>3. cache' \in [0 .. cache_size_local - 1 -> Place]
  <2>1. CASE cache' = cache
    BY <1>2, <2>1
  <2>2. CASE cache' = [t \in DOMAIN cache |->
                     IF Into(t) THEN [front |-> pos + t - bytes, back |-> pos + t - bytes]
                     ELSE cache[t]]
    <3>1. \A t \in 0 .. cache_size_local - 1 :
            [front |-> pos + t - bytes, back |-> pos + t - bytes] \in Place
      BY DEF Numbers, Place
    <3> QED
      BY <1>2, <2>2, <3>1
  <2>3. CASE Merge /\ Converted(file)
    <3>1. cache' = [t \in DOMAIN cache |->
                     IF t < bytes THEN [cache[t] EXCEPT !.back = MirrorCache[t]]
                     ELSE cache[t]]
      BY <2>3 DEF Merge
    <3>2. ASSUME NEW t \in 0 .. cache_size_local - 1
          PROVE  [cache[t] EXCEPT !.back = MirrorCache[t]] \in Place
      <4>1. cache[t] \in Place /\ MirrorCache[t] \in Int
        BY <1>2, <2>3 DEF Numbers
      <4> QED
        BY <4>1 DEF Place
    <3> QED
      BY <1>2, <3>1, <3>2
  <2> QED
    BY <2>1, <2>2, <2>3 DEF ThRead, SeekFront, SeekBack, ReadFront, ReadBack, Merge, Seek
<1>4. ASSUME Converted(file)
      PROVE  MirrorCache' \in [0 .. cache_size_local_backup - 1 -> Int]
  <2>1. CASE MirrorCache' = MirrorCache
    BY <1>2, <1>4, <2>1
  <2>2. CASE MirrorCache' = [t \in DOMAIN MirrorCache |->
                           IF Into(t) THEN pos + t - bytes ELSE MirrorCache[t]]
    <3>1. \A t \in 0 .. cache_size_local_backup - 1 : pos + t - bytes \in Int
      BY DEF Numbers
    <3> QED
      BY <1>2, <1>4, <2>2, <3>1
  <2> QED
    BY <2>1, <2>2 DEF ThRead, SeekFront, SeekBack, ReadFront, ReadBack, Merge, Seek
<1>5. cont' => faults' > 0
  <2>1. \/ (cont' => cont) /\ faults' = faults
        \/ faults' = faults + 1
    BY DEF ThRead, SeekFront, SeekBack, ReadFront, ReadBack, Merge, Seek, ReadOne,
           ReadFails, Fault
  <2>2. cont => faults > 0
    BY <1>2
  <2>3. faults \in Nat
    BY DEF Numbers
  <2> QED
    BY <2>1, <2>2, <2>3
<1>6. Reading' => bytes' <= cache_size_local
  <2>1. CASE SeekFront \/ SeekBack
    <3>0. flip \in BOOLEAN
      BY DEF Numbers
    <3>1. \/ bytes' = 0
          \/ ~Reading'
          \/ Reading /\ bytes' = bytes
      BY <2>1, <3>0 DEF SeekFront, SeekBack, Seek, Reading
    <3>2. cache_size_local \in Nat
      BY DEF Numbers
    <3>3. Reading => bytes <= cache_size_local
      BY DEF Position
    <3> QED
      BY <3>1, <3>2, <3>3
  <2>2. CASE ReadFront \/ ReadBack
    <3>1. Reading
      BY <2>2 DEF ReadFront, ReadBack, Reading
    <3>2. bytes <= cache_size_local
      BY <3>1 DEF Position
    <3>3. bytes + Got <= cache_size_local
      BY <1>2, <3>2, GotFacts
    <3>4. bytes' = bytes \/ bytes' = bytes + Got
      BY <2>2 DEF ReadFront, ReadBack, ReadOne
    <3> QED
      BY <3>2, <3>3, <3>4
  <2>3. CASE Merge
    BY <2>3 DEF Merge, Position, Reading
  <2> QED
    BY <2>1, <2>2, <2>3 DEF ThRead
<1>7. pc' = "read back" => Converted(file)
  BY DEF ThRead, SeekFront, SeekBack, ReadFront, ReadBack, Merge, Seek, ReadOne, Position
<1> QED
  BY <1>1, <1>3, <1>4, <1>5, <1>6, <1>7

\* What depends on the file alone stays while the file does.
LEMMA SameFile ==
  ASSUME j' = j, files' = files
  PROVE  /\ file' = file /\ PlotStart' = PlotStart
         /\ NoncesOf(file)' = NoncesOf(file) /\ BlockSize(file)' = BlockSize(file)
         /\ Converted(file)' = Converted(file)
<1>1. file' = file
  BY DEF file
<1> QED
  BY <1>1 DEF PlotStart, NoncesOf, Mismatch, BlockSize, CacheSize, BytesPerSector,
              RoundDown, Converted

LEMMA AtFileKept ==
  ASSUME Numbers, AtFile,
         UNCHANGED <<j, files, nonces, cache_size_local_backup>>,
         n' = n \/ n' = n + file.Stagger,
         cache_size_local' <= cache_size_local_backup,
         Converted(file) => MirrorCache' \in [0 .. cache_size_local_backup - 1 -> Int],
         cont' => faults' > 0
  PROVE  AtFile'
<1>1. \E q \in Nat : n' = q * file.Stagger
  <2>1. file.Stagger \in Nat
    BY StartFacts, FileFacts DEF AtFile
  <2>2. n \in Nat /\ \E q \in Nat : n = q * file.Stagger
    BY DEF Numbers, AtFile
  <2> QED
    BY <2>1, <2>2, NextMultiple
<1> QED
  BY <1>1, SameFile DEF AtFile

LEMMA PositionStep ==
  ASSUME Numbers, Position, [Next]_vars
  PROVE  Position'
<1>1. CASE GetFiles \/ SkipFile \/ NoMoreFiles \/ GiveUp \/ NoMirror \/ NoSlot
  BY <1>1 DEF GetFiles, SkipFile, NoMoreFiles, GiveUp, NoMirror, NoSlot, Position, Reading,
              InFile, InBlock
<1>2. CASE OpenFile
  <2>1. /\ pc' = "group" /\ j <= Len(files) /\ UNCHANGED <<j, files>>
        /\ nonces' = NoncesOf(file) /\ n' = 0 /\ cont' = FALSE
        /\ cache_size_local_backup' = BlockSize(file) /\ cache_size_local' = BlockSize(file)
        /\ Converted(file) => MirrorCache' = Blank(BlockSize(file))
    BY <1>2 DEF OpenFile
  <2>2. file.Stagger \in Nat /\ BlockSize(file) \in Nat
    BY <2>1, StartFacts, FileFacts
  <2>3. 0 = 0 * file.Stagger
    BY <2>2
  <2>4. \E q \in Nat : n' = q * file.Stagger'
    BY <2>1, <2>3, SameFile
  <2>5. Converted(file) => MirrorCache' \in [0 .. BlockSize(file) - 1 -> Int]
    BY <2>1 DEF Blank, Stale
  <2>6. cache_size_local' <= cache_size_local_backup'
    BY <2>1, <2>2
  <2>7. AtFile'
    BY <2>1, <2>4, <2>5, <2>6, SameFile DEF AtFile
  <2> QED
    BY <2>1, <2>7 DEF Position, Reading, InBlock
<1>3. CASE NextGroup
  <2>1. AtFile
    BY <1>3 DEF NextGroup, Position, InFile
  <2>2. CASE n < nonces /\ sche_runflag
    <3>1. /\ pc' = "block" /\ cache_size_local' = cache_size_local_backup /\ i' = 0
          /\ UNCHANGED <<j, files, nonces, cache_size_local_backup, n, MirrorCache, cont, faults>>
      BY <1>3, <2>2 DEF NextGroup
    <3>2. AtFile'
      BY <2>1, <3>1, AtFileKept DEF AtFile, Numbers
    <3>3. file'.Stagger \in Nat
      BY <2>1, <3>1, SameFile, StartFacts, FileFacts DEF AtFile
    <3>4. i' <= file'.Stagger /\ n' < nonces'
      BY <2>2, <3>1, <3>3
    <3> QED
      BY <3>1, <3>2, <3>4 DEF Position, Reading, InBlock
  <2>3. CASE ~(n < nonces /\ sche_runflag)
    <3>1. pc' = "file"
      BY <1>3, <2>3 DEF NextGroup
    <3> QED
      BY <3>1 DEF Position, Reading, InFile, InBlock
  <2> QED
    BY <2>2, <2>3
<1>4. CASE NextBlock
  <2>1. AtFile /\ i <= file.Stagger /\ n < nonces
    BY <1>4 DEF NextBlock, Position, InFile
  <2>2. /\ cache' = BlankScoops(cache_size_local') /\ pc' \in {"seek back", "seek front"}
        /\ pc' = "seek back" => flip
        /\ UNCHANGED <<j, files, nonces, cache_size_local_backup, n, i, MirrorCache,
                       cont, faults, flip>>
    BY <1>4 DEF NextBlock
  <2>3. cache_size_local' = IF i + cache_size_local > file.Stagger
                            THEN file.Stagger - i ELSE cache_size_local
    BY <1>4 DEF NextBlock
  <2>4. file.Stagger \in Nat
    BY <2>1, StartFacts, FileFacts DEF AtFile
  <2>5. cache_size_local' \in Nat
    BY <2>1, <2>3, <2>4 DEF Numbers
  <2>6. cache_size_local' <= cache_size_local /\ i + cache_size_local' <= file.Stagger
    BY <2>1, <2>3, <2>4 DEF Numbers
  <2>7. cache_size_local' <= cache_size_local_backup
    <3>1. cache_size_local <= cache_size_local_backup
      BY <2>1 DEF AtFile
    <3> QED
      BY <3>1, <2>5, <2>6 DEF Numbers
  <2>8. AtFile'
    BY <2>1, <2>2, <2>7, AtFileKept DEF AtFile
  <2>9. cache' \in [0 .. cache_size_local' - 1 -> Place]
    <3>1. [front |-> Stale, back |-> Stale] \in Place
      BY DEF Stale, Place
    <3>2. cache' = [t \in 0 .. cache_size_local' - 1 |-> [front |-> Stale, back |-> Stale]]
      BY <2>2 DEF BlankScoops
    <3> QED
      BY <3>1, <3>2
  <2>10. i' <= file'.Stagger /\ n' < nonces' /\ i' + cache_size_local' <= file'.Stagger
    BY <2>1, <2>2, <2>6, SameFile
  <2> QED
    BY <2>2, <2>8, <2>9, <2>10 DEF Position, Reading, InFile, InBlock
<1>5. CASE EndGroup \/ BreakOff
  <2>1. AtFile
    BY <1>5 DEF EndGroup, BreakOff, Position, InFile, InBlock
  <2>2. /\ pc' = "group" /\ n' = n + file.Stagger
        /\ UNCHANGED <<j, files, nonces, cache_size_local, cache_size_local_backup,
                       MirrorCache, cont, faults>>
    BY <1>5 DEF EndGroup, BreakOff
  <2>3. AtFile'
    BY <2>1, <2>2, AtFileKept DEF AtFile
  <2> QED
    BY <2>2, <2>3 DEF Position, Reading, InBlock
<1>6. CASE ThRead
  <2>1. /\ pc \in InBlock /\ pc' \in InBlock /\ UNCHANGED_th_read
        /\ cache' \in [0 .. cache_size_local - 1 -> Place]
        /\ Converted(file) => MirrorCache' \in [0 .. cache_size_local_backup - 1 -> Int]
        /\ cont' => faults' > 0
        /\ Reading' => bytes' <= cache_size_local
        /\ pc' = "read back" => Converted(file)
    BY <1>6, ThReadStep
  <2>2. /\ AtFile /\ i <= file.Stagger /\ n < nonces
        /\ i + cache_size_local <= file.Stagger
    BY <2>1 DEF Position, InFile
  <2>3. UNCHANGED <<j, files, nonces, cache_size_local, cache_size_local_backup, n, i>>
    BY <2>1 DEF UNCHANGED_th_read
  <2>4. AtFile'
    BY <2>1, <2>2, <2>3, AtFileKept DEF AtFile
  <2> QED
    BY <2>1, <2>2, <2>3, <2>4, SameFile DEF Position
<1>7. CASE PutBlock
  <2>1. /\ AtFile /\ n < nonces /\ i + cache_size_local <= file.Stagger
    BY <1>7 DEF PutBlock, Position, InFile, InBlock
  <2>2. /\ pc' = "block" /\ i' = i + cache_size_local
        /\ UNCHANGED <<j, files, nonces, cache_size_local, cache_size_local_backup,
                       MirrorCache, cont, faults, n>>
    BY <1>7 DEF PutBlock
  <2>3. AtFile'
    BY <2>1, <2>2, AtFileKept DEF AtFile
  <2> QED
    BY <2>1, <2>2, <2>3, SameFile DEF Position, Reading, InBlock
<1>8. CASE sche_set_runflag \/ UNCHANGED vars
  <2>1. UNCHANGED <<pc, j, files, nonces, cache_size_local, cache_size_local_backup, n, i,
                    flip, cont, bytes, cache, MirrorCache, faults>>
    BY <1>8 DEF sche_set_runflag, vars
  <2>2. AtFile => AtFile'
    BY <2>1, AtFileKept DEF AtFile
  <2> QED
    BY <2>1, <2>2, SameFile DEF Position, Reading
<1> QED
  BY <1>1, <1>2, <1>3, <1>4, <1>5, <1>6, <1>7, <1>8 DEF Next, Reader, ThRead

-----------------------------------------------------------------------------
(* The buffers *)

LEMMA StartKept ==
  ASSUME UNCHANGED <<j, files, scoop, n>>
  PROVE  start' = start /\ MirrorStart' = MirrorStart
  BY SameFile DEF start, MirrorStart

\* A read puts the units that follow the file pointer behind what it has read.
LEMMA ReadFrontFacts ==
  ASSUME Numbers, Position, ReadFront, failed' = FALSE, pos = start + i + bytes
  PROVE  /\ pos' = start + i + bytes'
         /\ FrontRead(bytes) =>
              \A t \in 0 .. bytes' - 1 :
                cache'[t] = [front |-> start + i + t, back |-> start + i + t]
<1>0. pc = "read front"
  BY DEF ReadFront
<1>1. bytes' = bytes + Got /\ pos' = pos + Got
  BY DEF ReadFront, ReadOne
<1>2. bytes' # bytes => cache' = [t \in DOMAIN cache |->
               IF Into(t) THEN [front |-> pos + t - bytes, back |-> pos + t - bytes]
               ELSE cache[t]]
  BY DEF ReadFront, ReadOne
<1>3. j <= Len(files) /\ cache \in [0 .. cache_size_local - 1 -> Place]
  BY <1>0 DEF Position, AtFile, InFile, InBlock
<1>4. bytes <= cache_size_local
  BY <1>0 DEF Position, Reading
<1>5. Got \in Nat /\ bytes + Got <= cache_size_local
  BY <1>3, <1>4, GotFacts
<1>6. start \in Nat /\ i \in Nat /\ bytes \in Nat /\ cache_size_local \in Nat
  BY <1>3, StartFacts DEF Numbers
<1>7. pos' = start + i + bytes'
  BY <1>1, <1>5, <1>6
<1>8. ASSUME FrontRead(bytes), bytes' # bytes, NEW t \in 0 .. bytes' - 1
      PROVE  cache'[t] = [front |-> start + i + t, back |-> start + i + t]
  <2>1. t \in 0 .. cache_size_local - 1
    BY <1>1, <1>5, <1>6
  <2>2. cache'[t] = IF Into(t) THEN [front |-> pos + t - bytes, back |-> pos + t - bytes]
                    ELSE cache[t]
    BY <1>2, <1>3, <1>8, <2>1
  <2>3. CASE Into(t)
    <3>1. pos + t - bytes = start + i + t
      BY <1>6
    <3> QED
      BY <2>2, <2>3, <3>1
  <2>4. CASE ~Into(t)
    <3>1. t \in 0 .. bytes - 1
      BY <1>1, <1>5, <1>6, <2>4 DEF Into
    <3> QED
      BY <1>8, <2>2, <2>4, <3>1 DEF FrontRead
  <2> QED
    BY <2>3, <2>4
<1>9. bytes' = bytes => cache' = cache
  BY DEF ReadFront
<1> QED
  BY <1>7, <1>8, <1>9 DEF FrontRead

LEMMA ReadBackFacts ==
  ASSUME Numbers, Position, ReadBack, failed' = FALSE, pos = MirrorStart + i + bytes
  PROVE  /\ pos' = MirrorStart + i + bytes'
         /\ BackRead(bytes) =>
              \A t \in 0 .. bytes' - 1 : MirrorCache'[t] = MirrorStart + i + t
<1>0. pc = "read back"
  BY DEF ReadBack
<1>1. bytes' = bytes + Got /\ pos' = pos + Got
  BY DEF ReadBack, ReadOne
<1>2. bytes' # bytes => MirrorCache' = [t \in DOMAIN MirrorCache |->
                       IF Into(t) THEN pos + t - bytes ELSE MirrorCache[t]]
  BY DEF ReadBack, ReadOne
<1>3. /\ j <= Len(files) /\ MirrorCache \in [0 .. cache_size_local_backup - 1 -> Int]
      /\ cache_size_local <= cache_size_local_backup
  BY <1>0 DEF Position, AtFile, InFile, InBlock
<1>4. bytes <= cache_size_local
  BY <1>0 DEF Position, Reading
<1>5. Got \in Nat /\ bytes + Got <= cache_size_local
  BY <1>3, <1>4, GotFacts
<1>6. /\ MirrorStart \in Nat /\ i \in Nat /\ bytes \in Nat
      /\ cache_size_local \in Nat /\ cache_size_local_backup \in Nat
  BY <1>3, StartFacts DEF Numbers
<1>7. pos' = MirrorStart + i + bytes'
  BY <1>1, <1>5, <1>6
<1>8. ASSUME BackRead(bytes), bytes' # bytes, NEW t \in 0 .. bytes' - 1
      PROVE  MirrorCache'[t] = MirrorStart + i + t
  <2>1. t \in 0 .. cache_size_local_backup - 1
    BY <1>1, <1>3, <1>5, <1>6
  <2>2. MirrorCache'[t] = IF Into(t) THEN pos + t - bytes ELSE MirrorCache[t]
    BY <1>2, <1>3, <1>8, <2>1
  <2>3. CASE Into(t)
    <3>1. pos + t - bytes = MirrorStart + i + t
      BY <1>6
    <3> QED
      BY <2>2, <2>3, <3>1
  <2>4. CASE ~Into(t)
    <3>1. t \in 0 .. bytes - 1
      BY <1>1, <1>5, <1>6, <2>4 DEF Into
    <3> QED
      BY <1>8, <2>2, <2>4, <3>1 DEF BackRead
  <2> QED
    BY <2>3, <2>4
<1>9. bytes' = bytes => MirrorCache' = MirrorCache
  BY DEF ReadBack
<1> QED
  BY <1>7, <1>8, <1>9 DEF BackRead

LEMMA BuffersThRead ==
  ASSUME Numbers, Position, Buffers, ThRead
  PROVE  Buffers'
<1> SUFFICES ASSUME failed' = FALSE
             PROVE  /\ pc' = "read front" => pos' = start' + i' + bytes' /\ FrontRead(bytes)'
                    /\ pc' = "read back" => pos' = MirrorStart' + i' + bytes' /\ BackRead(bytes)'
                    /\ FrontBehind' => FrontRead(cache_size_local)'
                    /\ BackBehind' /\ Converted(file)' => BackRead(cache_size_local)'
                    /\ Full' => bytes' = cache_size_local'
                    /\ pc' = "put" => Merged'
  BY DEF Buffers
<1>1. UNCHANGED_th_read
  BY ThReadStep
<1>2. /\ start' = start /\ MirrorStart' = MirrorStart /\ Converted(file)' = Converted(file)
      /\ i' = i /\ cache_size_local' = cache_size_local
  BY <1>1, StartKept, SameFile DEF UNCHANGED_th_read
<1>3. flip \in BOOLEAN /\ failed = FALSE
  BY DEF ThRead, SeekFront, SeekBack, ReadFront, ReadBack, Merge, Seek, ReadOne, Numbers
<1>4. /\ pc = "read front" => pos = start + i + bytes /\ FrontRead(bytes)
      /\ pc = "read back" => pos = MirrorStart + i + bytes /\ BackRead(bytes)
      /\ FrontBehind => FrontRead(cache_size_local)
      /\ BackBehind /\ Converted(file) => BackRead(cache_size_local)
      /\ Full => bytes = cache_size_local
  BY <1>3 DEF Buffers
<1>5. j <= Len(files)
  BY ThReadStep DEF Position, AtFile, InFile
<1>6. start + i \in Nat /\ MirrorStart + i \in Nat
  BY <1>5, StartFacts DEF Numbers
<1>7. cache' = cache => (FrontRead(cache_size_local) => FrontRead(cache_size_local)')
  BY <1>2 DEF FrontRead
<1>8. MirrorCache' = MirrorCache => (BackRead(cache_size_local) => BackRead(cache_size_local)')
  BY <1>2 DEF BackRead
<1>8a. bytes' \in Nat /\ cache_size_local \in Nat
  BY NumbersStep DEF ThRead, Next, Reader, Numbers
<1>8b. Reading' => bytes' <= cache_size_local
  BY ThReadStep
<1>9. CASE SeekFront
  <2>1. /\ pc = "seek front" /\ pc' = "read front"
        /\ UNCHANGED <<flip, cache, MirrorCache>>
    BY <1>9 DEF SeekFront, Seek
  <2>0. bytes' = 0 /\ pos' = start + i
    BY <1>9 DEF SeekFront, Seek
  <2>2. FrontRead(bytes)'
    BY <2>0 DEF FrontRead
  <2>3. pos' = start' + i' + bytes'
    <3>1. start' + i' + bytes' = start + i + 0
      BY <1>2, <2>0
    <3> QED
      BY <1>6, <2>0, <3>1
  <2>4. BackBehind' => BackBehind
    BY <2>1 DEF BackBehind
  <2> QED
    BY <1>2, <1>4, <1>8, <2>1, <2>2, <2>3, <2>4 DEF FrontBehind, Full
<1>10. CASE SeekBack /\ Converted(file)
  <2>1. /\ pc = "seek back" /\ pc' = "read back"
        /\ UNCHANGED <<flip, cache, MirrorCache>>
    BY <1>10 DEF SeekBack, Seek
  <2>0. bytes' = 0 /\ pos' = MirrorStart + i
    BY <1>10 DEF SeekBack, Seek
  <2>2. BackRead(bytes)'
    BY <2>0 DEF BackRead
  <2>3. pos' = MirrorStart' + i' + bytes'
    <3>1. MirrorStart' + i' + bytes' = MirrorStart + i + 0
      BY <1>2, <2>0
    <3> QED
      BY <1>6, <2>0, <3>1
  <2>4. FrontBehind' => FrontBehind
    BY <2>1 DEF FrontBehind
  <2> QED
    BY <1>2, <1>4, <1>7, <2>1, <2>2, <2>3, <2>4 DEF BackBehind, Full
<1>11. CASE SeekBack /\ ~Converted(file)
  <2>1. /\ pc = "seek back" /\ pc' = IF flip THEN "seek front" ELSE "merge"
        /\ UNCHANGED <<flip, cache, MirrorCache, bytes>>
    BY <1>11 DEF SeekBack
  <2>2. FrontBehind' => FrontBehind
    BY <1>3, <2>1 DEF FrontBehind
  <2>3. Full' => Full
    BY <1>3, <2>1 DEF Full
  <2> QED
    BY <1>2, <1>4, <1>7, <1>11, <2>1, <2>2, <2>3
<1>12. CASE ReadFront
  <2>1. /\ pc = "read front"
        /\ pc' \in {"read front", IF flip THEN "merge" ELSE "seek back"}
        /\ pc' # "read front" => ~(bytes' < cache_size_local)
        /\ UNCHANGED <<flip, MirrorCache>>
    BY <1>3, <1>12 DEF ReadFront, ReadOne
  <2>2. pos' = start + i + bytes' /\ FrontRead(bytes)'
    BY <1>2, <1>4, <1>12, <2>1, ReadFrontFacts DEF FrontRead
  <2>3. pos' = start' + i' + bytes'
    BY <1>2, <2>2
  <2>4. ASSUME pc' # "read front" PROVE bytes' = cache_size_local
    <3>1. Reading' /\ ~(bytes' < cache_size_local)
      BY <1>3, <2>1, <2>4 DEF Reading
    <3> QED
      BY <1>8a, <1>8b, <3>1
  <2>5. FrontBehind' => FrontRead(cache_size_local)'
    BY <1>2, <2>1, <2>2, <2>4 DEF FrontBehind
  <2>6. BackBehind' => BackBehind
    BY <1>3, <2>1 DEF BackBehind
  <2> QED
    BY <1>2, <1>3, <1>4, <1>8, <2>1, <2>2, <2>3, <2>4, <2>5, <2>6 DEF Full
<1>13. CASE ReadBack
  <2>1. /\ pc = "read back"
        /\ pc' \in {"read back", IF flip THEN "seek front" ELSE "merge"}
        /\ pc' # "read back" => ~(bytes' < cache_size_local)
        /\ UNCHANGED <<flip, cache>>
    BY <1>3, <1>13 DEF ReadBack, ReadOne
  <2>2. pos' = MirrorStart + i + bytes' /\ BackRead(bytes)'
    BY <1>2, <1>3, <1>4, <1>13, <2>1, ReadBackFacts DEF BackRead
  <2>3. pos' = MirrorStart' + i' + bytes'
    BY <1>2, <2>2
  <2>4. bytes' <= cache_size_local
    <3>1. bytes <= cache_size_local /\ (bytes' = bytes \/ bytes' = bytes + Got)
      <4>1. Reading
        BY <2>1 DEF Reading
      <4> QED
        BY <1>13, <4>1 DEF Position, ReadBack, ReadOne
    <3>2. bytes + Got <= cache_size_local
      BY <1>5, <3>1, GotFacts
    <3> QED
      BY <3>1, <3>2
  <2>5. ASSUME pc' # "read back" PROVE bytes' = cache_size_local
    <3>1. ~(bytes' < cache_size_local)
      BY <2>1, <2>5
    <3> QED
      BY <1>8a, <2>4, <3>1
  <2>6. BackBehind' => BackRead(cache_size_local)'
    BY <1>2, <2>1, <2>2, <2>5 DEF BackBehind
  <2>7. FrontBehind' => FrontBehind
    BY <1>3, <2>1 DEF FrontBehind
  <2> QED
    BY <1>2, <1>3, <1>4, <1>7, <2>1, <2>2, <2>3, <2>5, <2>6, <2>7 DEF Full
<1>14. CASE Merge
  <2>1. /\ pc = "merge" /\ pc' = "put"
        /\ cache' = IF Converted(file)
                    THEN [t \in DOMAIN cache |->
                           IF t < bytes THEN [cache[t] EXCEPT !.back = MirrorCache[t]]
                           ELSE cache[t]]
                    ELSE cache
    BY <1>14 DEF Merge
  <2>2. /\ FrontRead(cache_size_local) /\ bytes = cache_size_local
        /\ Converted(file) => BackRead(cache_size_local)
    BY <1>4, <2>1 DEF FrontBehind, BackBehind, Full
  <2>3. cache \in [0 .. cache_size_local - 1 -> Place]
    BY <2>1 DEF Position, InBlock
  <2>4. ASSUME NEW t \in 0 .. cache_size_local - 1
        PROVE  cache'[t] = [front |-> start + i + t,
                            back |-> IF Converted(file) THEN MirrorStart + i + t
                                     ELSE start + i + t]
    <3>1. cache[t] = [front |-> start + i + t, back |-> start + i + t]
      BY <2>2 DEF FrontRead
    <3>2. CASE Converted(file)
      <4>1. t < bytes
        BY <1>8a, <2>2
      <4>2. cache'[t] = [cache[t] EXCEPT !.back = MirrorCache[t]]
        BY <2>1, <2>3, <3>2, <4>1
      <4>3. MirrorCache[t] = MirrorStart + i + t
        BY <2>2, <3>2 DEF BackRead
      <4> QED
        BY <3>1, <3>2, <4>2, <4>3
    <3> QED
      BY <2>1, <3>1, <3>2
  <2>5. Merged'
    BY <1>2, <2>4 DEF Merged
  <2> QED
    BY <2>1, <2>5 DEF FrontBehind, BackBehind, Full
<1> QED
  BY <1>9, <1>10, <1>11, <1>12, <1>13, <1>14 DEF ThRead

LEMMA BuffersStep ==
  ASSUME Numbers, Position, Buffers, [Next]_vars
  PROVE  Buffers'
<1>1. CASE ThRead
  BY <1>1, BuffersThRead
<1>2. CASE GetFiles \/ SkipFile \/ OpenFile \/ NoMoreFiles \/ NextGroup \/ EndGroup
           \/ PutBlock \/ BreakOff \/ GiveUp \/ NoMirror \/ NoSlot
  <2>1. pc' \notin InBlock
    BY <1>2 DEF GetFiles, SkipFile, OpenFile, NoMoreFiles, NextGroup, EndGroup,
                PutBlock, BreakOff, GiveUp, NoMirror, NoSlot, InBlock
  <2> QED
    BY <2>1 DEF Buffers, FrontBehind, BackBehind, Full, InBlock
<1>3. CASE NextBlock
  <2>1. /\ pc' = IF flip THEN "seek back" ELSE "seek front"
        /\ flip' = flip /\ flip \in BOOLEAN
    BY <1>3 DEF NextBlock, Numbers
  <2> QED
    BY <2>1 DEF Buffers, FrontBehind, BackBehind, Full
<1>4. CASE sche_set_runflag \/ UNCHANGED vars
  <2>1. UNCHANGED <<pc, j, files, scoop, n, i, flip, pos, bytes, cache, MirrorCache,
                    cache_size_local, failed>>
    BY <1>4 DEF sche_set_runflag, vars
  <2>2. /\ start' = start /\ MirrorStart' = MirrorStart
        /\ Converted(file)' = Converted(file)
    BY <2>1, StartKept, SameFile
  <2> QED
    BY <2>1, <2>2 DEF Buffers, FrontBehind, BackBehind, Full, FrontRead, BackRead, Merged
<1> QED
  BY <1>1, <1>2, <1>3, <1>4 DEF Next, Reader, ThRead

-----------------------------------------------------------------------------
(* The blocks *)

\* What a block without an error holds, in the addresses of the plot: a group
\* of nonces begins at a multiple of the stagger, and a block lies in a group.
LEMMA AddressOfBlock ==
  ASSUME Numbers, AtFile, i + cache_size_local <= file.Stagger,
         NEW t \in 0 .. cache_size_local - 1
  PROVE  /\ Address(file, n + i + t, scoop) = start + i + t
         /\ Address(file, n + i + t, NumScoops - 1 - scoop) = MirrorStart + i + t
<1>1. j <= Len(files)
  BY DEF AtFile
<1>2. file.Stagger \in Nat \ {0} /\ file.Offset \in Nat /\ PlotStart \in Nat
  BY <1>1, StartFacts, FileFacts
<1>3. /\ i \in Nat /\ n \in Nat /\ scoop \in Nat /\ NumScoops \in Nat
      /\ NumScoops - 1 - scoop \in Nat /\ cache_size_local \in Nat
  <2>1. /\ i \in Nat /\ n \in Nat /\ cache_size_local \in Nat
        /\ scoop \in 0 .. NumScoops - 1
    BY DEF Numbers
  <2>2. NumScoops \in Nat
    BY UnitsAssumption
  <2> QED
    BY <2>1, <2>2
<1>4. i + t \in 0 .. file.Stagger - 1
  BY <1>2, <1>3
<1>5. PICK q \in Nat : n = q * file.Stagger
  BY DEF AtFile
<1>6. /\ RoundDown(q * file.Stagger + (i + t), file.Stagger) = q * file.Stagger
      /\ (q * file.Stagger + (i + t)) % file.Stagger = i + t
  BY <1>2, <1>4, DivMod
<1>7. n + i + t = n + (i + t)
  BY <1>3
<1>8. RoundDown(n + i + t, file.Stagger) = n /\ (n + i + t) % file.Stagger = i + t
  BY <1>5, <1>6, <1>7
<1>9. \A s \in Int : Address(file, n + i + t, s)
                       = PlotStart + n * NumScoops + s * file.Stagger + (i + t)
  BY <1>8 DEF Address, PlotStart
<1>10. \A a, b, c \in Nat : a + b + c + (i + t) = b + c + a + i + t
  BY <1>3
<1>11. /\ n * NumScoops \in Nat /\ scoop * file.Stagger \in Nat
       /\ (NumScoops - 1 - scoop) * file.Stagger \in Nat
  BY <1>2, <1>3, Product
<1>12. Address(file, n + i + t, scoop) = start + i + t
  BY <1>2, <1>3, <1>9, <1>10, <1>11 DEF start
<1>13. Address(file, n + i + t, NumScoops - 1 - scoop) = MirrorStart + i + t
  BY <1>2, <1>3, <1>9, <1>10, <1>11 DEF MirrorStart
<1> QED
  BY <1>12, <1>13

LEMMA RightJobsStep ==
  ASSUME Numbers, Position, Buffers, RightJobs, [Next]_vars
  PROVE  RightJobs'
<1>1. CASE jobs' = jobs /\ files' = files /\ scoop' = scoop
  BY <1>1 DEF RightJobs, RightJob
<1>2. CASE GetFiles
  <2>1. jobs' = <<>>
    BY <1>2 DEF GetFiles, Numbers
  <2> QED
    BY <2>1 DEF RightJobs
<1>3. CASE PutBlock
  <2>1. /\ pc = "put" /\ files' = files /\ scoop' = scoop
        /\ jobs' = Append(jobs, Job)
    BY <1>3 DEF PutBlock
  <2>2. /\ AtFile /\ i + cache_size_local <= file.Stagger
        /\ failed = FALSE => Merged
    BY <2>1 DEF Position, Buffers, InFile, InBlock
  <2>3. file.StartNonce \in Nat
    BY <2>2, StartFacts, FileFacts DEF AtFile
  <2>4. ASSUME failed = FALSE, NEW t \in 0 .. cache_size_local - 1
        PROVE  cache[t] =
                 [front |-> Address(file, n + file.StartNonce + i + t - file.StartNonce, scoop),
                  back |-> Address(file, n + file.StartNonce + i + t - file.StartNonce,
                             IF Converted(file) THEN NumScoops - 1 - scoop ELSE scoop)]
    <3>1. n + file.StartNonce + i + t - file.StartNonce = n + i + t
      BY <2>3 DEF Numbers
    <3>2. cache[t] = [front |-> start + i + t,
                      back |-> IF Converted(file) THEN MirrorStart + i + t ELSE start + i + t]
      BY <2>2, <2>4 DEF Merged
    <3> QED
      BY <2>2, <3>1, <3>2, AddressOfBlock
  <2>5. RightJob(Job)
    BY <2>4 DEF RightJob, Job, file, Numbers
  <2>6. \A k \in DOMAIN jobs' : jobs'[k] = Job \/ (k \in DOMAIN jobs /\ jobs'[k] = jobs[k])
    BY <2>1 DEF Numbers
  <2>7. \A k \in DOMAIN jobs' : RightJob(jobs'[k])
    BY <2>5, <2>6 DEF RightJobs
  <2> QED
    BY <2>1, <2>7 DEF RightJobs, RightJob
<1> QED
  BY <1>1, <1>2, <1>3
  DEF Next, Reader, vars, SkipFile, OpenFile, NoMoreFiles, NextGroup, NextBlock, EndGroup,
      SeekFront, ReadFront, SeekBack, ReadBack, Merge, Seek, ReadOne, UNCHANGED_th_read,
      BreakOff, GiveUp, NoMirror, NoSlot, sche_set_runflag

\* A block without an error holds, for every nonce it is hashed under, the
\* right halves of the scoop of the round, in PoC2 and in PoC1 plots, in
\* whatever order they were read (th_read). For every directory, every scoop,
\* all sizes of the caches, and any number of failing calls.
THEOREM ScoopsAreRight == Spec => []RightScoops
<1> DEFINE IInv == Numbers /\ Position /\ Buffers /\ RightJobs
<1>1. Init => IInv
  <2> SUFFICES ASSUME Init PROVE IInv
    OBVIOUS
  <2>1. Buffers
    BY DEF Init, Buffers, FrontBehind, BackBehind, Full
  <2>2. RightJobs
    BY DEF Init, RightJobs
  <2> QED
    BY <2>1, <2>2, NumbersInit
<1>2. IInv /\ [Next]_vars => IInv'
  BY NumbersStep, PositionStep, BuffersStep, RightJobsStep
<1>3. IInv => RightScoops
  BY DEF RightScoops, RightJobs, RightJob
<1> QED
  BY <1>1, <1>2, <1>3, PTL DEF Spec

-----------------------------------------------------------------------------
(* Progress *)

Sums == sent + left_bytes = read /\ left_bytes <= ScanUnits
Ends == /\ pc = "returned" => left_bytes = 0
        /\ pc = "given up" => ~sche_runflag \/ faults > 0

\* A reader that comes to the end of its loops has sent every unit it has read
\* as progress (left_bytes of sche_runnew); one that gives up was told to stop
\* or met a failure, and keeps at most ScanUnits back. For every directory, and
\* with the error returns for the memory and the slot.
THEOREM ProgressIsSent == Spec => []ProgressSent
<1> DEFINE IInv == Numbers /\ Position /\ Sums /\ Ends
<1>1. Init => IInv
  BY NumbersInit, UnitsAssumption DEF Init, Sums, Ends
<1>2. IInv /\ [Next]_vars => IInv'
  <2> SUFFICES ASSUME IInv, [Next]_vars PROVE IInv'
    OBVIOUS
  <2>1. /\ sent \in Nat /\ left_bytes \in Nat /\ read \in Nat /\ bytes \in Nat
        /\ faults \in Nat /\ ScanUnits \in Nat
    BY UnitsAssumption DEF Numbers
  <2>2. Sums'
    <3>1. CASE NoMoreFiles
      <4>1. sent' = sent + left_bytes /\ left_bytes' = 0 /\ read' = read
        BY <3>1 DEF NoMoreFiles
      <4> QED
        BY <2>1, <4>1 DEF Sums
    <3>2. CASE PutBlock
      <4>1. /\ \/ sent' = sent + (left_bytes + bytes) /\ left_bytes' = 0
               \/ /\ sent' = sent /\ left_bytes' = left_bytes + bytes
                  /\ ~(left_bytes + bytes > ScanUnits)
            /\ read' = read + bytes
        BY <3>2 DEF PutBlock
      <4> QED
        BY <2>1, <4>1 DEF Sums
    <3>3. CASE UNCHANGED <<sent, left_bytes, read>>
      BY <3>3 DEF Sums
    <3> QED
      BY <3>1, <3>2, <3>3
      DEF Next, Reader, vars, GetFiles, SkipFile, OpenFile, NextGroup, NextBlock, EndGroup,
          SeekFront, ReadFront, SeekBack, ReadBack, Merge, Seek, ReadOne, UNCHANGED_th_read,
          BreakOff, GiveUp, NoMirror, NoSlot, sche_set_runflag
  <2>3. (pc = "returned" => left_bytes = 0)'
    <3>1. CASE pc' = "returned"
      <4>1. left_bytes' = 0 \/ UNCHANGED <<pc, left_bytes>>
        BY <3>1
        DEF Next, Reader, vars, GetFiles, SkipFile, OpenFile, NoMoreFiles, NextGroup,
            NextBlock, EndGroup, SeekFront, ReadFront, SeekBack, ReadBack, Merge, Seek,
            ReadOne, PutBlock, BreakOff, GiveUp, NoMirror, NoSlot, sche_set_runflag
      <4> QED
        BY <3>1, <4>1 DEF Ends
    <3> QED
      BY <3>1
  <2>4. (pc = "given up" => ~sche_runflag \/ faults > 0)'
    <3>0. pc = "given up" => sche_runflag = FALSE \/ faults > 0
      BY DEF Ends, Numbers
    <3>1. CASE pc' = "given up"
      <4>1. \/ ~sche_runflag'
            \/ faults' = faults + 1
            \/ pc' = pc /\ sche_runflag' = sche_runflag /\ faults' = faults
        BY <3>1
        DEF Next, Reader, vars, GetFiles, SkipFile, OpenFile, NoMoreFiles, NextGroup,
            NextBlock, EndGroup, SeekFront, ReadFront, SeekBack, ReadBack, Merge, Seek,
            ReadOne, PutBlock, BreakOff, GiveUp, NoMirror, NoSlot, Fault, sche_set_runflag
      <4> QED
        <5>1. CASE ~sche_runflag'
          BY <5>1
        <5>2. CASE faults' = faults + 1
          <6>1. faults' > 0
            BY <2>1, <5>2
          <6> QED
            BY <6>1
        <5>3. CASE pc' = pc /\ sche_runflag' = sche_runflag /\ faults' = faults
          <6>1. CASE sche_runflag = FALSE
            BY <5>3, <6>1
          <6>2. CASE faults > 0
            BY <5>3, <6>2
          <6> QED
            BY <3>0, <3>1, <5>3, <6>1, <6>2
        <5> QED
          BY <4>1, <5>1, <5>2, <5>3
    <3> QED
      BY <3>1
  <2> QED
    BY <2>2, <2>3, <2>4, NumbersStep, PositionStep DEF Ends
<1>3. IInv => ProgressSent
  <2> SUFFICES ASSUME IInv PROVE ProgressSent
    OBVIOUS
  <2>1. sent \in Nat /\ left_bytes \in Nat /\ read \in Nat
    BY DEF Numbers
  <2>2. left_bytes = 0 => sent = read
    BY <2>1 DEF Sums
  <2> QED
    BY <2>2 DEF ProgressSent, Sums, Ends
<1> QED
  BY <1>1, <1>2, <1>3, PTL DEF Spec

-----------------------------------------------------------------------------
(* Every nonce once *)

\* nonces of the file at hand before this one are done
Reached == IF pc \in InBlock \union {"block"} THEN n + i ELSE n

\* the blocks lie before the front
Behind ==
  \A k \in DOMAIN jobs :
    /\ jobs[k].file <= j
    /\ pc = "file" => jobs[k].file < j
    /\ pc \in InFile /\ jobs[k].file = j =>
         jobs[k].nonce + jobs[k].cache_size_local <= file.StartNonce + Reached

NoncesOfJob(job) == job.nonce .. job.nonce + job.cache_size_local - 1
Disjoint ==
  \A k, m \in DOMAIN jobs :
    k # m /\ jobs[k].file = jobs[m].file => NoncesOfJob(jobs[k]) \cap NoncesOfJob(jobs[m]) = {}

Done(js, f, x) == \E k \in DOMAIN js : js[k].file = f /\ x \in NoncesOfJob(js[k])
AllDone(f) == ~Skipped(files[f]) => \A x \in OwnNonces(files[f]) : Done(jobs, f, x)

\* and without a stop or an error nothing before the front is missing
Complete ==
  sche_runflag /\ faults = 0 =>
    /\ \A f \in 1 .. j - 1 : AllDone(f)
    /\ pc \in InFile =>
         \A x \in OwnNonces(file) : x < file.StartNonce + Reached => Done(jobs, j, x)
    /\ pc = "returned" => j = Len(files) + 1

\* What a step is for the count of the nonces.
Same == UNCHANGED <<j, files, scoop, jobs>>
Lists == jobs' = <<>> /\ pc' = "file" /\ j' = 1
Skips == /\ pc = "file" /\ pc' = "file" /\ j' = j + 1 /\ UNCHANGED <<files, scoop, jobs>>
         /\ Skipped(file) \/ faults' # 0
Opens == pc = "file" /\ pc' \in InFile /\ Reached' = 0 /\ Same
Returns == /\ pc' \in {"returned", "given up"} /\ Same
           /\ pc' = "returned" /\ sche_runflag' => j = Len(files) + 1
Leaves == /\ pc \in InFile /\ pc' = "file" /\ j' = j + 1 /\ UNCHANGED <<files, scoop, jobs>>
          /\ sche_runflag' => nonces <= Reached
Goes == /\ pc \in InFile /\ pc' \in InFile /\ Same /\ Reached <= Reached'
        /\ sche_runflag' /\ faults' = 0 => Reached' = Reached \/ nonces <= Reached
Puts == /\ pc \in InFile /\ pc' \in InFile /\ UNCHANGED <<j, files, scoop>>
        /\ jobs' = Append(jobs, Job) /\ Job.nonce = file.StartNonce + Reached
        /\ Reached' = Reached + cache_size_local
Stays == UNCHANGED <<pc, n, i>> /\ Same

LEMMA Steps ==
  ASSUME Numbers, Position, [Next]_vars
  PROVE  /\ Lists \/ Skips \/ Opens \/ Returns \/ Leaves \/ Goes \/ Puts \/ Stays
         /\ sche_runflag' => sche_runflag
         /\ faults' = 0 => faults = 0
<1>1. sche_runflag' => sche_runflag
  BY DEF Next, Reader, vars, GetFiles, SkipFile, OpenFile, NoMoreFiles, NextGroup,
         NextBlock, EndGroup, SeekFront, ReadFront, SeekBack, ReadBack, Merge, Seek,
         ReadOne, UNCHANGED_th_read, PutBlock, BreakOff, GiveUp, NoMirror, NoSlot,
         sche_set_runflag
<1>2. faults' = 0 => faults = 0
  <2>1. faults' = faults \/ faults' = faults + 1
    BY DEF Next, Reader, vars, GetFiles, SkipFile, OpenFile, NoMoreFiles, NextGroup,
           NextBlock, EndGroup, SeekFront, ReadFront, SeekBack, ReadBack, Merge, Seek,
           ReadOne, ReadFails, Fault, PutBlock, BreakOff, GiveUp, NoMirror, NoSlot,
           sche_set_runflag
  <2> QED
    BY <2>1 DEF Numbers
<1> SUFFICES Lists \/ Skips \/ Opens \/ Returns \/ Leaves \/ Goes \/ Puts \/ Stays
  BY <1>1, <1>2
<1>3. n \in Nat /\ i \in Nat /\ cache_size_local \in Nat
  BY DEF Numbers
<1>4. pc \in InFile => AtFile /\ file.Stagger \in Nat
  BY StartFacts, FileFacts DEF Position, AtFile
<1>5. CASE GetFiles
  BY <1>5 DEF GetFiles, Numbers, Lists
<1>6. CASE SkipFile
  <2>1. Skipped(file) \/ faults' = faults + 1
    BY <1>6 DEF SkipFile, Fault
  <2>2. Skipped(file) \/ faults' # 0
    BY <2>1 DEF Numbers
  <2> QED
    BY <1>6, <2>2 DEF SkipFile, Skips
<1>7. CASE OpenFile
  BY <1>7 DEF OpenFile, Opens, Same, Reached, InFile, InBlock
<1>8. CASE NoMoreFiles
  <2>1. sche_runflag => j > Len(files)
    BY <1>8 DEF NoMoreFiles
  <2>2. sche_runflag => j = Len(files) + 1
    BY <2>1 DEF Numbers
  <2> QED
    BY <1>1, <1>8, <2>2 DEF NoMoreFiles, Returns, Same
<1>9. CASE NextGroup
  <2>1. CASE n < nonces /\ sche_runflag
    <3>1. /\ pc \in InFile /\ pc' \in InFile /\ Same
          /\ pc \notin InBlock \union {"block"} /\ pc' \in InBlock \union {"block"}
      BY <1>9, <2>1 DEF NextGroup, Same, InFile, InBlock
    <3>2. n' = n /\ i' = 0
      BY <1>9, <2>1 DEF NextGroup
    <3>3. Reached = n /\ Reached' = n' + i'
      BY <3>1 DEF Reached
    <3>4. Reached' = Reached /\ Reached <= Reached'
      BY <1>3, <3>2, <3>3
    <3> QED
      BY <3>1, <3>4 DEF Goes
  <2>2. CASE ~(n < nonces /\ sche_runflag)
    <3>1. /\ pc = "group" /\ pc' = "file" /\ j' = j + 1 /\ UNCHANGED <<files, scoop, jobs>>
      BY <1>9, <2>2 DEF NextGroup
    <3>2. Reached = n
      BY <3>1 DEF Reached, InBlock
    <3>3. nonces \in Nat
      BY DEF Numbers
    <3>4. sche_runflag => nonces <= Reached
      <4>1. sche_runflag => ~(n < nonces)
        BY <2>2
      <4> QED
        BY <1>3, <3>2, <3>3, <4>1
    <3> QED
      BY <1>1, <3>1, <3>4 DEF Leaves, InFile
  <2> QED
    BY <2>1, <2>2
<1>10. CASE NextBlock \/ ThRead
  <2>1. /\ pc \in InBlock \union {"block"} /\ pc' \in InBlock \union {"block"}
        /\ n' = n /\ i' = i /\ Same
    BY <1>10, ThReadStep DEF NextBlock, UNCHANGED_th_read, Same, InBlock
  <2>2. Reached = n + i /\ Reached' = n' + i'
    BY <2>1 DEF Reached
  <2>3. Reached' = Reached /\ Reached <= Reached'
    BY <1>3, <2>1, <2>2
  <2> QED
    BY <2>1, <2>3 DEF Goes, InFile
<1>11. CASE EndGroup \/ BreakOff
  <2>1. /\ pc \in InBlock \union {"block"} /\ pc' = "group" /\ Same
    BY <1>11 DEF EndGroup, BreakOff, Same, InBlock
  <2>2. n' = n + file.Stagger
    BY <1>11 DEF EndGroup, BreakOff
  <2>3. Reached = n + i /\ Reached' = n'
    BY <2>1 DEF Reached, InBlock
  <2>4. i <= file.Stagger /\ AtFile /\ file.Stagger \in Nat
    BY <1>4, <2>1 DEF Position, InFile
  <2>5. Reached <= Reached'
    BY <1>3, <2>2, <2>3, <2>4
  <2>6. nonces \in Nat
    BY DEF Numbers
  <2>7. sche_runflag' /\ faults' = 0 => Reached' = Reached \/ nonces <= Reached
    <3>1. CASE EndGroup
      <4>1. sche_runflag => ~(i < MinOf(nonces, file.Stagger))
        BY <3>1 DEF EndGroup
      <4>2. sche_runflag => i = file.Stagger \/ nonces <= i
        BY <1>3, <2>4, <2>6, <4>1 DEF MinOf
      <4>3. (i = file.Stagger => Reached' = Reached) /\ (nonces <= i => nonces <= Reached)
        BY <1>3, <2>2, <2>3, <2>4, <2>6
      <4> QED
        BY <1>1, <4>2, <4>3
    <3>2. CASE BreakOff
      <4>1. faults > 0
        BY <2>4, <3>2 DEF BreakOff, AtFile
      <4>2. faults' = faults
        BY <3>2 DEF BreakOff
      <4> QED
        BY <4>1, <4>2 DEF Numbers
    <3> QED
      BY <1>11, <3>1, <3>2
  <2> QED
    BY <2>1, <2>5, <2>7 DEF Goes, InFile
<1>13. CASE PutBlock
  <2>1. /\ pc \in InBlock \union {"block"} /\ pc' \in InBlock \union {"block"}
        /\ UNCHANGED <<j, files, scoop>> /\ jobs' = Append(jobs, Job)
    BY <1>13 DEF PutBlock, InBlock
  <2>2. n' = n /\ i' = i + cache_size_local
    BY <1>13 DEF PutBlock
  <2>3. Reached = n + i /\ Reached' = n' + i'
    BY <2>1 DEF Reached
  <2>4. Reached' = Reached + cache_size_local
    BY <1>3, <2>2, <2>3
  <2>5. file.StartNonce \in Nat
    BY <1>4, <2>1, StartFacts, FileFacts DEF AtFile, InFile
  <2>6. n + file.StartNonce + i = file.StartNonce + (n + i)
    BY <1>3, <2>5
  <2>7. Job.nonce = file.StartNonce + Reached
    BY <2>3, <2>6 DEF Job
  <2> QED
    BY <2>1, <2>4, <2>7 DEF Puts, InFile
<1>15. CASE GiveUp \/ NoMirror \/ NoSlot
  BY <1>15 DEF GiveUp, NoMirror, NoSlot, Returns, Same
<1>16. CASE sche_set_runflag \/ UNCHANGED vars
  BY <1>16 DEF sche_set_runflag, vars, Stays, Same
<1> QED
  BY <1>1, <1>2, <1>5, <1>6, <1>7, <1>8, <1>9, <1>10, <1>11, <1>13, <1>15, <1>16
  DEF Next, Reader, ThRead

LEMMA CountFacts ==
  ASSUME Numbers
  PROVE  /\ Reached \in Nat /\ j \in Nat
         /\ \A k \in DOMAIN jobs : jobs[k].file \in Nat /\ jobs[k].nonce \in Int
                                   /\ jobs[k].cache_size_local \in Nat
<1>1. \A k \in DOMAIN jobs : jobs[k] \in JobType
  BY DEF Numbers
<1>2. j \in Nat
  BY DEF Numbers
<1>3. n \in Nat /\ i \in Nat
  BY DEF Numbers
<1>4. n + i \in Nat
  BY <1>3
<1> QED
  BY <1>1, <1>2, <1>3, <1>4 DEF JobType, Reached

\* the blocks after a block was put
LEMMA PutFacts ==
  ASSUME Numbers, Puts
  PROVE  /\ DOMAIN jobs \subseteq DOMAIN jobs'
         /\ Len(jobs) + 1 \in DOMAIN jobs' /\ jobs'[Len(jobs) + 1] = Job
         /\ \A k \in DOMAIN jobs' : k \in DOMAIN jobs \/ k = Len(jobs) + 1
         /\ \A k \in DOMAIN jobs : jobs'[k] = jobs[k] /\ k # Len(jobs) + 1
  BY DEF Numbers, Puts

LEMMA BehindStep ==
  ASSUME Numbers, Position, Behind, [Next]_vars
  PROVE  Behind'
<1>1. CASE Lists
  BY <1>1 DEF Lists, Behind
<1>2. CASE Skips \/ Leaves
  <2>1. /\ pc' = "file" /\ j' = j + 1 /\ jobs' = jobs
    BY <1>2 DEF Skips, Leaves
  <2>2. \A k \in DOMAIN jobs : jobs[k].file <= j
    BY DEF Behind
  <2>3. j' = j + 1
    BY <2>1
  <2>4. \A k \in DOMAIN jobs : jobs[k].file <= j' /\ jobs[k].file < j'
    BY <2>2, <2>3, CountFacts
  <2> QED
    BY <2>1, <2>4 DEF Behind, InFile, InBlock
<1>3. CASE Opens
  <2>1. \A k \in DOMAIN jobs : jobs[k].file < j
    BY <1>3 DEF Opens, Behind
  <2>2. \A k \in DOMAIN jobs : jobs[k].file <= j /\ jobs[k].file # j
    BY <2>1, CountFacts
  <2> QED
    BY <1>3, <2>2 DEF Opens, Same, Behind, InFile, InBlock
<1>4. CASE Returns
  BY <1>4 DEF Returns, Same, Behind, InFile, InBlock
<1>5. CASE Goes
  <2>1. file' = file /\ j <= Len(files)
    BY <1>5, SameFile DEF Goes, Same, Position, AtFile
  <2>2. Reached <= Reached' /\ Reached' \in Nat /\ file.StartNonce \in Nat
    <3>1. n' \in Nat /\ i' \in Nat
      BY NumbersStep DEF Numbers
    <3>2. \A a, b \in Nat : a + b \in Nat
      OBVIOUS
    <3>3. Reached' \in Nat
      BY <3>1, <3>2 DEF Reached
    <3> QED
      BY <1>5, <2>1, <3>3, StartFacts, FileFacts DEF Goes
  <2>3. ASSUME NEW k \in DOMAIN jobs, jobs[k].file = j
        PROVE  jobs[k].nonce + jobs[k].cache_size_local <= file.StartNonce + Reached'
    <3>1. jobs[k].nonce + jobs[k].cache_size_local <= file.StartNonce + Reached
      BY <1>5, <2>3 DEF Goes, Behind
    <3> QED
      BY <2>2, <3>1, CountFacts
  <2> QED
    BY <1>5, <2>1, <2>3 DEF Goes, Same, Behind, InFile, InBlock
<1>6. CASE Puts
  <2>1. file' = file /\ j <= Len(files)
    BY <1>6, SameFile DEF Puts, Position, AtFile
  <2>2. /\ Reached' = Reached + cache_size_local /\ file.StartNonce \in Nat
        /\ Reached \in Nat /\ cache_size_local \in Nat
    BY <1>6, <2>1, CountFacts, StartFacts, FileFacts DEF Puts, Numbers
  <2>3. ASSUME NEW k \in DOMAIN jobs', jobs'[k].file = j
        PROVE  jobs'[k].nonce + jobs'[k].cache_size_local <= file.StartNonce + Reached'
    <3>1. CASE k \in DOMAIN jobs
      <4>1. jobs[k].nonce + jobs[k].cache_size_local <= file.StartNonce + Reached
        BY <1>6, <2>3, <3>1, PutFacts DEF Puts, Behind
      <4>2. jobs'[k] = jobs[k]
        BY <1>6, <3>1, PutFacts
      <4> QED
        BY <2>2, <3>1, <4>1, <4>2, CountFacts
    <3>2. CASE k = Len(jobs) + 1
      <4>1. /\ jobs'[k].nonce = file.StartNonce + Reached
            /\ jobs'[k].cache_size_local = cache_size_local
        BY <1>6, <3>2, PutFacts DEF Puts, Job
      <4> QED
        BY <2>2, <4>1
    <3> QED
      BY <1>6, <2>3, <3>1, <3>2, PutFacts
  <2>4. ASSUME NEW k \in DOMAIN jobs' PROVE jobs'[k].file <= j
    <3>1. Job.file = j /\ j \in Nat
      BY CountFacts DEF Job
    <3> QED
      BY <1>6, <2>4, <3>1, PutFacts DEF Behind
  <2> QED
    BY <1>6, <2>1, <2>3, <2>4 DEF Puts, Behind, InFile, InBlock
<1>7. CASE Stays
  <2>1. file' = file /\ Reached' = Reached
    BY <1>7, SameFile DEF Stays, Same, Reached
  <2> QED
    BY <1>7, <2>1 DEF Stays, Same, Behind
<1> QED
  BY <1>1, <1>2, <1>3, <1>4, <1>5, <1>6, <1>7, Steps

LEMMA DisjointStep ==
  ASSUME Numbers, Position, Behind, Disjoint, [Next]_vars
  PROVE  Disjoint'
<1>1. CASE jobs' = jobs
  BY <1>1 DEF Disjoint
<1>2. CASE Lists
  BY <1>2 DEF Lists, Disjoint
<1>3. CASE Puts
  <2>1. Reached \in Nat /\ j <= Len(files)
    BY <1>3, CountFacts DEF Puts, Position, AtFile
  <2>2. file.StartNonce \in Nat
    BY <2>1, StartFacts, FileFacts
  <2>3. ASSUME NEW k \in DOMAIN jobs, jobs[k].file = j
        PROVE  NoncesOfJob(jobs[k]) \cap NoncesOfJob(Job) = {}
    <3>1. jobs[k].nonce + jobs[k].cache_size_local <= file.StartNonce + Reached
      BY <1>3, <2>3 DEF Puts, Behind
    <3>2. Job.nonce = file.StartNonce + Reached
      BY <1>3 DEF Puts
    <3>3. Job.cache_size_local \in Nat
      BY DEF Job, Numbers
    <3>4. jobs[k].nonce \in Int /\ jobs[k].cache_size_local \in Nat
      BY CountFacts
    <3> QED
      BY <2>1, <2>2, <3>1, <3>2, <3>3, <3>4 DEF NoncesOfJob
  <2>4. Job.file = j
    BY DEF Job
  <2> SUFFICES ASSUME NEW k \in DOMAIN jobs', NEW m \in DOMAIN jobs', k # m,
                      jobs'[k].file = jobs'[m].file
               PROVE  NoncesOfJob(jobs'[k]) \cap NoncesOfJob(jobs'[m]) = {}
    BY DEF Disjoint
  <2>5. CASE k \in DOMAIN jobs /\ m \in DOMAIN jobs
    BY <1>3, <2>5, PutFacts DEF Disjoint
  <2>6. CASE k \in DOMAIN jobs /\ m = Len(jobs) + 1
    BY <1>3, <2>3, <2>4, <2>6, PutFacts
  <2>7. CASE k = Len(jobs) + 1 /\ m \in DOMAIN jobs
    BY <1>3, <2>3, <2>4, <2>7, PutFacts
  <2> QED
    BY <1>3, <2>5, <2>6, <2>7, PutFacts
<1> QED
  BY <1>1, <1>2, <1>3, Steps DEF Skips, Opens, Returns, Leaves, Goes, Stays, Same

\* What is done stays done.
LEMMA DoneKept ==
  ASSUME Numbers, jobs' = jobs \/ Puts, NEW f, NEW x, Done(jobs, f, x)
  PROVE  Done(jobs', f, x)
<1>1. CASE jobs' = jobs
  BY <1>1
<1>2. CASE Puts
  <2>1. PICK k \in DOMAIN jobs :
          jobs[k].file = f /\ x \in NoncesOfJob(jobs[k])
    BY DEF Done
  <2>2. k \in DOMAIN jobs' /\ jobs'[k] = jobs[k]
    BY <1>2, PutFacts
  <2> QED
    BY <2>1, <2>2 DEF Done
<1> QED
  BY <1>1, <1>2

LEMMA AllDoneKept ==
  ASSUME Numbers, jobs' = jobs \/ Puts, files' = files, scoop' = scoop,
         NEW f, AllDone(f)
  PROVE  AllDone(f)'
<1>1. Skipped(files[f])' = Skipped(files[f]) /\ OwnNonces(files[f])' = OwnNonces(files[f])
  BY DEF Skipped, Damaged, Mismatch, NoncesOf, RoundDown, BytesPerSector, OwnNonces
<1> QED
  BY <1>1, DoneKept DEF AllDone

LEMMA CompleteStep ==
  ASSUME Numbers, Position, Complete, [Next]_vars
  PROVE  Complete'
<1> SUFFICES ASSUME sche_runflag', faults' = 0
             PROVE  /\ \A f \in 1 .. j' - 1 : AllDone(f)'
                    /\ pc' \in InFile =>
                         \A x \in OwnNonces(file)' :
                           x < file.StartNonce' + Reached' => Done(jobs', j', x)
                    /\ pc' = "returned" => j' = Len(files') + 1
  BY DEF Complete
<1>1. /\ \A f \in 1 .. j - 1 : AllDone(f)
      /\ pc \in InFile =>
           \A x \in OwnNonces(file) : x < file.StartNonce + Reached => Done(jobs, j, x)
      /\ pc = "returned" => j = Len(files) + 1
  BY Steps DEF Complete
<1>2. pc \in InFile => /\ nonces = NoncesOf(file) /\ nonces \in Nat
                       /\ file.StartNonce \in Nat /\ Reached \in Nat /\ file = files[j]
  BY CountFacts, StartFacts, FileFacts DEF Position, AtFile, Numbers, file
<1>3. ASSUME pc \in InFile, nonces <= Reached, NEW x \in OwnNonces(file)
      PROVE  Done(jobs, j, x)
  <2>1. x < file.StartNonce + Reached
    BY <1>2, <1>3 DEF OwnNonces
  <2> QED
    BY <1>1, <1>3, <2>1
<1>4. files' = files => OwnNonces(file)' = OwnNonces(file) \/ j' # j
  BY SameFile DEF OwnNonces
<1>5. CASE Lists
  BY <1>5 DEF Lists, InFile, InBlock
<1>6. CASE Skips
  <2>1. ASSUME NEW f \in 1 .. j' - 1 PROVE AllDone(f)'
    <3>1. f \in 1 .. j - 1 \/ f = j
      BY <1>6, CountFacts DEF Skips
    <3>2. f = j => AllDone(f)
      BY <1>6 DEF Skips, AllDone, file
    <3> QED
      BY <1>1, <1>6, <3>1, <3>2, AllDoneKept DEF Skips
  <2> QED
    BY <1>6, <2>1 DEF Skips, InFile, InBlock
<1>7. CASE Leaves
  <2>1. ASSUME NEW f \in 1 .. j' - 1 PROVE AllDone(f)'
    <3>1. f \in 1 .. j - 1 \/ f = j
      BY <1>7, CountFacts DEF Leaves
    <3>2. f = j => AllDone(f)
      BY <1>2, <1>3, <1>7 DEF Leaves, AllDone
    <3> QED
      BY <1>1, <1>7, <3>1, <3>2, AllDoneKept DEF Leaves
  <2> QED
    BY <1>7, <2>1 DEF Leaves, InFile, InBlock
<1>8. CASE Opens
  <2>1. \A f \in 1 .. j' - 1 : AllDone(f)'
    BY <1>1, <1>8, AllDoneKept DEF Opens, Same
  <2>2. ASSUME NEW x \in OwnNonces(file)' PROVE ~(x < file.StartNonce' + Reached')
    <3>1. file' = file /\ j <= Len(files) /\ Reached' = 0
      BY <1>8, SameFile, PositionStep DEF Opens, Same, Position, AtFile
    <3>2. file.StartNonce \in Nat /\ NoncesOf(file) \in Nat
      BY <3>1, StartFacts, FileFacts
    <3>3. x \in OwnNonces(file)
      BY <1>4, <1>8, <2>2 DEF Opens, Same
    <3>4. x >= file.StartNonce
      BY <3>2, <3>3 DEF OwnNonces
    <3>5. x \in Int
      BY <3>2, <3>3 DEF OwnNonces
    <3>6. file.StartNonce' + Reached' = file.StartNonce + 0
      BY <3>1
    <3> QED
      BY <3>2, <3>4, <3>5, <3>6
  <2> QED
    BY <1>8, <2>1, <2>2 DEF Opens, InFile, InBlock
<1>9. CASE Returns
  BY <1>1, <1>9, AllDoneKept DEF Returns, Same, InFile, InBlock
<1>10. CASE Goes
  <2>1. \A f \in 1 .. j' - 1 : AllDone(f)'
    BY <1>1, <1>10, AllDoneKept DEF Goes, Same
  <2>2. ASSUME NEW x \in OwnNonces(file)', x < file.StartNonce' + Reached'
        PROVE  Done(jobs', j', x)
    <3>1. file' = file /\ x \in OwnNonces(file)
      BY <1>4, <1>10, <2>2, SameFile DEF Goes, Same
    <3>2. CASE Reached' = Reached
      BY <1>1, <1>10, <2>2, <3>1, <3>2 DEF Goes, Same
    <3>3. CASE nonces <= Reached
      BY <1>3, <1>10, <3>1, <3>3 DEF Goes, Same
    <3> QED
      BY <1>10, <3>2, <3>3 DEF Goes
  <2> QED
    BY <1>10, <2>1, <2>2 DEF Goes, InFile, InBlock
<1>11. CASE Puts
  <2>1. \A f \in 1 .. j' - 1 : AllDone(f)'
    BY <1>1, <1>11, AllDoneKept DEF Puts
  <2>2. ASSUME NEW x \in OwnNonces(file)', x < file.StartNonce' + Reached'
        PROVE  Done(jobs', j', x)
    <3>1. file' = file /\ x \in OwnNonces(file) /\ j' = j
      BY <1>4, <1>11, SameFile DEF Puts
    <3>2. CASE x < file.StartNonce + Reached
      BY <1>1, <1>11, <3>1, <3>2, DoneKept DEF Puts
    <3>3. CASE ~(x < file.StartNonce + Reached)
      <4> DEFINE last == Len(jobs) + 1
      <4>1. /\ last \in DOMAIN jobs' /\ jobs'[last].file = j
            /\ jobs'[last].nonce = file.StartNonce + Reached
            /\ jobs'[last].cache_size_local = cache_size_local
        BY <1>11, PutFacts DEF Puts, Job
      <4>2. x \in Int /\ cache_size_local \in Nat /\ Reached' = Reached + cache_size_local
        BY <1>2, <1>11, <3>1 DEF Puts, OwnNonces, Numbers
      <4>3. x \in file.StartNonce + Reached .. file.StartNonce + Reached + cache_size_local - 1
        BY <1>2, <1>11, <2>2, <3>1, <3>3, <4>2 DEF Puts
      <4> QED
        BY <3>1, <4>1, <4>3 DEF Done, NoncesOfJob
    <3> QED
      BY <3>2, <3>3
  <2> QED
    BY <1>11, <2>1, <2>2 DEF Puts, InFile, InBlock
<1>12. CASE Stays
  <2>1. file' = file /\ Reached' = Reached /\ OwnNonces(file)' = OwnNonces(file)
    BY <1>4, <1>12, SameFile DEF Stays, Same, Reached
  <2> QED
    BY <1>1, <1>12, <2>1, AllDoneKept DEF Stays, Same
<1> QED
  BY <1>5, <1>6, <1>7, <1>8, <1>9, <1>10, <1>11, <1>12, Steps

\* No nonce of a plot is hashed twice in a round, and a round without a stop
\* or an error leaves no nonce of a usable plot out: the two nested loops of
\* sche_runnew with their cut blocks cover every plot exactly. For every
\* directory and every size of the caches.
THEOREM EveryNonceOnce == Spec => []EachNonceOnce
<1> DEFINE IInv == Numbers /\ Position /\ Behind /\ Disjoint /\ Complete
<1>1. Init => IInv
  <2> SUFFICES ASSUME Init PROVE IInv
    OBVIOUS
  <2>1. Behind /\ Disjoint
    BY DEF Init, Behind, Disjoint
  <2>2. Complete
    BY DEF Init, Complete, InFile, InBlock
  <2> QED
    BY <2>1, <2>2, NumbersInit
<1>2. IInv /\ [Next]_vars => IInv'
  BY NumbersStep, PositionStep, BehindStep, DisjointStep, CompleteStep
<1>3. IInv => EachNonceOnce
  <2> SUFFICES ASSUME IInv PROVE EachNonceOnce
    OBVIOUS
  <2>1. ASSUME pc = "returned", sche_runflag, faults = 0,
               NEW f \in DOMAIN files, ~Skipped(files[f]), NEW x \in OwnNonces(files[f])
        PROVE  \E k \in DOMAIN jobs : jobs[k].file = f /\ x \in Hashed(k)
    <3>1. j = Len(files) + 1
      BY <2>1 DEF Complete
    <3>2. f \in 1 .. j - 1
      BY <3>1 DEF Numbers
    <3> QED
      BY <2>1, <3>2 DEF Complete, AllDone, Done, NoncesOfJob, Hashed
  <2> QED
    BY <2>1 DEF EachNonceOnce, Disjoint, NoncesOfJob, Hashed
<1> QED
  BY <1>1, <1>2, <1>3, PTL DEF Spec

-----------------------------------------------------------------------------
(* No nonce of another plot *)

Multiple(a, b) == \E q \in Nat : a = q * b

LEMMA WholeIsMultiple ==
  ASSUME NEW a \in Nat, NEW b \in Nat
  PROVE  Whole(a, b) => Multiple(a, b)
BY DEF Whole, Multiple

\* a plot that ends inside a stagger is cut into whole blocks
WholeBlocks ==
  /\ nonces <= file.Stagger /\ Multiple(nonces, cache_size_local_backup)
  /\ cache_size_local = cache_size_local_backup
  /\ Multiple(i, cache_size_local_backup)

\* the block at hand begins in a plot that ends in its first stagger, and
\* ends before a whole plot does
Ahead ==
  /\ pc \in InBlock /\ nonces <= file.Stagger => n + i < nonces
  /\ pc \in InBlock /\ WholePlot(file) => n + i + cache_size_local <= nonces
  /\ pc \in InBlock \union {"block"} /\ WholePlot(file) =>
       Multiple(nonces, file.Stagger) \/ WholeBlocks

\* Between two multiples there is room for one step.
LEMMA RoomForOne ==
  ASSUME NEW S \in Nat, NEW a \in Nat, NEW b \in Nat, Multiple(a, S), Multiple(b, S), a < b
  PROVE  a + S <= b
<1>1. PICK q \in Nat : a = q * S
  BY DEF Multiple
<1>2. PICK r \in Nat : b = r * S
  BY DEF Multiple
<1>3. ASSUME r <= q PROVE FALSE
  <2>1. r * S <= q * S
    BY <1>3, Z3
  <2> QED
    BY <1>1, <1>2, <2>1
<1>4. q + 1 <= r
  BY <1>3
<1>5. (q + 1) * S <= r * S
  BY <1>4, Z3
<1>6. (q + 1) * S = q * S + S
  BY Z3
<1> QED
  BY <1>1, <1>2, <1>5, <1>6

LEMMA WholeKept ==
  ASSUME j' = j, files' = files
  PROVE  WholePlot(file)' = WholePlot(file)
BY SameFile DEF WholePlot, Whole

LEMMA AheadStep ==
  ASSUME Numbers, Position, Ahead, [Next]_vars
  PROVE  Ahead'
<1>1. /\ n \in Nat /\ i \in Nat /\ nonces \in Nat
      /\ cache_size_local \in Nat /\ cache_size_local_backup \in Nat
  BY DEF Numbers
<1>2. pc \in InFile =>
        /\ AtFile /\ j <= Len(files) /\ file \in PlotFile /\ file.Stagger \in Nat
        /\ Multiple(n, file.Stagger)
  BY StartFacts, FileFacts DEF Position, AtFile, Multiple
<1>3. CASE \/ GetFiles \/ SkipFile \/ OpenFile \/ NoMoreFiles \/ EndGroup \/ BreakOff
           \/ GiveUp \/ NoMirror \/ NoSlot
  BY <1>3 DEF GetFiles, SkipFile, OpenFile, NoMoreFiles, EndGroup, BreakOff, GiveUp,
              NoMirror, NoSlot,
              Ahead, InBlock
<1>4. CASE NextGroup
  <2>1. CASE pc' = "block"
    <3>1. /\ i' = 0 /\ cache_size_local' = cache_size_local_backup
          /\ UNCHANGED <<j, files, nonces, cache_size_local_backup>>
      BY <1>4, <2>1 DEF NextGroup
    <3>2. AtFile /\ j \in DOMAIN files
      BY <1>2, <1>4 DEF NextGroup, InFile, Numbers
    <3>3. file.Stagger \in Nat /\ BlockSize(file) \in Nat /\ NoncesOf(file) \in Nat
      BY <1>2, <3>2, FileFacts, StartFacts DEF AtFile
    <3>4. WholePlot(file) =>
            \/ Multiple(nonces, file.Stagger)
            \/ nonces <= file.Stagger /\ Multiple(nonces, cache_size_local_backup)
      BY <3>2, <3>3, WholeIsMultiple DEF AtFile, WholePlot
    <3>5. 0 = 0 * cache_size_local_backup
      BY <1>1
    <3>6. Multiple(i', cache_size_local_backup)
      BY <3>1, <3>5 DEF Multiple
    <3>7. file' = file
      BY <3>1, SameFile
    <3>8. WholePlot(file)' => (Multiple(nonces, file.Stagger) \/ WholeBlocks)'
      BY <3>1, <3>4, <3>6, <3>7, WholeKept DEF WholeBlocks, Multiple
    <3> QED
      BY <2>1, <3>8 DEF Ahead, InBlock
  <2>2. CASE pc' # "block"
    BY <1>4, <2>2 DEF NextGroup, Ahead, InBlock
  <2> QED
    BY <2>1, <2>2
<1>5. CASE NextBlock
  <2>1. /\ pc = "block" /\ pc' \in InBlock
        /\ UNCHANGED <<j, files, nonces, cache_size_local_backup, n, i>>
    BY <1>5 DEF NextBlock, InBlock
  <2>2. cache_size_local' = IF i + cache_size_local > file.Stagger
                            THEN file.Stagger - i ELSE cache_size_local
    BY <1>5 DEF NextBlock
  <2>3. /\ file.Stagger \in Nat /\ Multiple(n, file.Stagger)
        /\ i <= file.Stagger /\ n < nonces
    BY <1>2, <2>1 DEF Position, InFile
  <2>3a. file.Stagger \in Nat /\ i <= file.Stagger /\ n < nonces
    BY <2>3
  <2>3b. i < MinOf(nonces, file.Stagger)
    BY <1>5 DEF NextBlock
  <2>4. i < nonces
    BY <1>1, <2>3a, <2>3b DEF MinOf
  <2>5. file' = file /\ WholePlot(file)' = WholePlot(file)
    BY <2>1, SameFile, WholeKept
  <2>5a. nonces <= file.Stagger => n + i < nonces
    <3> SUFFICES ASSUME nonces <= file.Stagger PROVE n + i < nonces
      OBVIOUS
    <3>1. n < file.Stagger
      BY <1>1, <2>3a
    <3>2. n = 0
      BY <1>1, <2>3, <3>1, FirstMultiple DEF Multiple
    <3> QED
      BY <1>1, <2>4, <3>2
  <2>5b. (pc \in InBlock /\ nonces <= file.Stagger => n + i < nonces)'
    BY <2>1, <2>5, <2>5a
  <2>5c. CASE ~WholePlot(file)
    BY <2>5, <2>5b, <2>5c DEF Ahead
  <2>6. CASE WholePlot(file) /\ Multiple(nonces, file.Stagger)
    <3>1. n + file.Stagger <= nonces
      BY <1>1, <2>3, <2>6, RoomForOne
    <3>2. cache_size_local' \in Nat /\ i + cache_size_local' <= file.Stagger
      BY <1>1, <2>2, <2>3
    <3> DEFINE size == cache_size_local'
               S == file.Stagger
    <3>2a. size \in Nat /\ i + size <= S /\ S \in Nat /\ n + S <= nonces
      BY <2>3a, <3>1, <3>2
    <3> HIDE DEF size, S
    <3>2b. n + i + size <= nonces
      BY <1>1, <3>2a
    <3>3. n + i + cache_size_local' <= nonces
      BY <3>2b DEF size
    <3> QED
      BY <2>1, <2>5, <2>5b, <2>6, <3>3 DEF Ahead, Multiple
  <2>7. CASE WholePlot(file) /\ ~Multiple(nonces, file.Stagger)
    <3>1. WholeBlocks
      BY <2>1, <2>7 DEF Ahead
    <3>2. i + cache_size_local_backup <= nonces
      BY <1>1, <2>4, <3>1, RoomForOne DEF WholeBlocks
    <3>3. nonces <= file.Stagger /\ cache_size_local = cache_size_local_backup
      BY <3>1 DEF WholeBlocks
    <3>4. cache_size_local' = cache_size_local
      BY <1>1, <2>2, <2>3, <3>2, <3>3
    <3>5. n = 0
      BY <1>1, <2>3, <3>3, FirstMultiple DEF Multiple
    <3>6. n + i + cache_size_local' <= nonces
      BY <1>1, <3>2, <3>3, <3>4, <3>5
    <3>7. WholeBlocks'
      BY <2>1, <2>5, <3>1, <3>4 DEF WholeBlocks, Multiple
    <3> QED
      BY <2>1, <2>5b, <3>6, <3>7 DEF Ahead
  <2> QED
    BY <2>5c, <2>6, <2>7
<1>6. CASE ThRead
  <2>1. pc \in InBlock /\ pc' \in InBlock /\ UNCHANGED_th_read
    BY <1>6, ThReadStep
  <2>2. UNCHANGED <<j, files, nonces, cache_size_local, cache_size_local_backup, n, i>>
    BY <2>1 DEF UNCHANGED_th_read
  <2> QED
    BY <2>1, <2>2, SameFile, WholeKept DEF Ahead, WholeBlocks, Multiple
<1>7. CASE PutBlock
  <2>1. /\ pc \in InBlock /\ pc' = "block" /\ i' = i + cache_size_local
        /\ UNCHANGED <<j, files, nonces, cache_size_local, cache_size_local_backup, n>>
    BY <1>7 DEF PutBlock, InBlock
  <2>2. file' = file /\ WholePlot(file)' = WholePlot(file)
    BY <2>1, SameFile, WholeKept
  <2>2a. CASE ~WholePlot(file)
    BY <2>1, <2>2, <2>2a DEF Ahead, InBlock
  <2>3. CASE Multiple(nonces, file.Stagger)
    BY <2>1, <2>2, <2>3 DEF Ahead, InBlock, Multiple
  <2>4. CASE WholePlot(file) /\ ~Multiple(nonces, file.Stagger)
    <3>1. WholeBlocks
      BY <2>1, <2>4 DEF Ahead
    <3>2. Multiple(i', cache_size_local_backup)
      BY <1>1, <2>1, <3>1, NextMultiple DEF WholeBlocks, Multiple
    <3>3. WholeBlocks'
      BY <2>1, <2>2, <3>1, <3>2 DEF WholeBlocks, Multiple
    <3> QED
      BY <2>1, <3>3 DEF Ahead, InBlock
  <2> QED
    BY <2>2a, <2>3, <2>4
<1>8. CASE sche_set_runflag \/ UNCHANGED vars
  <2>1. UNCHANGED <<pc, j, files, nonces, cache_size_local, cache_size_local_backup, n, i>>
    BY <1>8 DEF sche_set_runflag, vars
  <2> QED
    BY <2>1, SameFile, WholeKept DEF Ahead, WholeBlocks, Multiple
<1> QED
  BY <1>3, <1>4, <1>5, <1>6, <1>7, <1>8 DEF Next, Reader, ThRead

\* What the property says of one block.
OwnBlock(job, f) ==
  \/ NoncesOfJob(job) \subseteq OwnNonces(f)
  \/ ~WholePlot(f) /\ (NoncesOf(f) <= f.Stagger => job.nonce \in OwnNonces(f))

LEMMA OwnStep ==
  ASSUME Numbers, Position, Ahead, OnlyOwnNonces, [Next]_vars
  PROVE  OnlyOwnNonces'
<1>1. CASE jobs' = jobs /\ files' = files
  BY <1>1 DEF OnlyOwnNonces, Hashed, OwnNonces, NoncesOf, Mismatch, RoundDown, WholePlot,
              Whole, BlockSize, CacheSize, Converted, BytesPerSector
<1>2. CASE jobs' = <<>>
  BY <1>2 DEF OnlyOwnNonces
<1>3. CASE PutBlock
  <2>1. pc \in InBlock /\ files' = files /\ jobs' = Append(jobs, Job)
    BY <1>3 DEF PutBlock, InBlock
  <2>2. /\ AtFile
        /\ nonces <= file.Stagger => n + i < nonces
        /\ WholePlot(file) => n + i + cache_size_local <= nonces
    BY <2>1 DEF Position, InFile, Ahead
  <2>3. file.StartNonce \in Nat /\ file.Stagger \in Nat
    BY <2>2, StartFacts, FileFacts DEF AtFile
  <2>4. /\ n \in Nat /\ i \in Nat /\ nonces \in Nat /\ cache_size_local \in Nat
    BY DEF Numbers
  <2>6. Job.nonce = n + file.StartNonce + i /\ Job.cache_size_local = cache_size_local
        /\ Job.file = j
    BY DEF Job
  <2>6a. files[Job.file] = file
    BY <2>6 DEF file
  <2>6b. nonces = NoncesOf(file)
    BY <2>2 DEF AtFile
  <2>7. ASSUME WholePlot(file) PROVE OwnBlock(Job, file)
    <3>1. n + file.StartNonce + i .. n + file.StartNonce + i + cache_size_local - 1
            \subseteq file.StartNonce .. file.StartNonce + nonces - 1
      BY <2>2, <2>3, <2>4, <2>7
    <3> QED
      BY <2>6, <2>6b, <3>1 DEF OwnBlock, NoncesOfJob, OwnNonces
  <2>8. ASSUME ~WholePlot(file) PROVE OwnBlock(Job, file)
    <3>1. nonces <= file.Stagger =>
            n + file.StartNonce + i \in file.StartNonce .. file.StartNonce + nonces - 1
      BY <2>2, <2>3, <2>4
    <3> QED
      BY <2>6, <2>6b, <2>8, <3>1 DEF OwnBlock, OwnNonces
  <2>8a. OwnBlock(Job, files[Job.file])
    BY <2>6a, <2>7, <2>8
  <2>9. /\ \A k \in DOMAIN jobs' : k \in DOMAIN jobs \/ k = Len(jobs) + 1
        /\ jobs'[Len(jobs) + 1] = Job /\ \A k \in DOMAIN jobs : jobs'[k] = jobs[k]
    BY <2>1 DEF Numbers
  <2>10. \A k \in DOMAIN jobs : OwnBlock(jobs[k], files[jobs[k].file])
    BY DEF OnlyOwnNonces, OwnBlock, Hashed, NoncesOfJob
  <2>11. \A k \in DOMAIN jobs' : OwnBlock(jobs'[k], files[jobs'[k].file])
    BY <2>8a, <2>9, <2>10
  <2> QED
    BY <2>1, <2>11 DEF OnlyOwnNonces, OwnBlock, Hashed, NoncesOfJob
<1>4. CASE GetFiles
  BY <1>2, <1>4 DEF GetFiles, Numbers
<1> QED
  BY <1>1, <1>3, <1>4
  DEF Next, Reader, vars, SkipFile, OpenFile, NoMoreFiles, NextGroup, NextBlock, EndGroup,
      SeekFront, ReadFront, SeekBack, ReadBack, Merge, Seek, ReadOne, UNCHANGED_th_read,
      BreakOff, GiveUp, NoMirror, NoSlot, sche_set_runflag

\* No block goes past the nonces of a whole plot; and in a plot that ends
\* inside its first stagger every block begins with a nonce of the plot, so that
\* only its last one goes on into what follows it. For every directory.
THEOREM NoForeignNonces == Spec => []OnlyOwnNonces
<1> DEFINE IInv == Numbers /\ Position /\ Ahead /\ OnlyOwnNonces
<1>1. Init => IInv
  BY NumbersInit DEF Init, Ahead, InBlock, OnlyOwnNonces
<1>2. IInv /\ [Next]_vars => IInv'
  BY NumbersStep, PositionStep, AheadStep, OwnStep
<1> QED
  BY <1>1, <1>2, PTL DEF Spec

-----------------------------------------------------------------------------
(* Every read inside the file *)

\* what the property asks of the plot at hand
Good == WholePlot(file) /\ OnDisk(file) /\ readChunkSize % BytesPerSector(file) = 0

Grid == BytesPerSector(file)

\* where the file pointer is, and that it lies on a sector
OnGrid ==
  /\ pc \in InFile => Multiple(file.Stagger, Grid)
  /\ pc \in InBlock \union {"block"} => Multiple(i, Grid) /\ Multiple(cache_size_local, Grid)
  /\ pc = "read front" => pos = start + i + bytes
  /\ pc = "read back" => pos = MirrorStart + i + bytes
  /\ pc \in {"read front", "read back"} /\ Good => Multiple(bytes, Grid)

LEMMA GoodKept ==
  ASSUME UNCHANGED <<j, files, dir, scoop>>
  PROVE  Good' = Good
BY SameFile, WholeKept DEF Good, OnDisk, EndOfFile, BytesPerSector, Address, RoundDown

LEMMA MultipleSum ==
  ASSUME NEW d \in Nat, NEW a \in Nat, NEW b \in Nat, Multiple(a, d), Multiple(b, d)
  PROVE  Multiple(a + b, d) /\ (b <= a => Multiple(a - b, d))
<1>1. PICK q \in Nat : a = q * d
  BY DEF Multiple
<1>2. PICK r \in Nat : b = r * d
  BY DEF Multiple
<1>3. a + b = (q + r) * d
  <2>1. (q + r) * d = q * d + r * d
    BY Z3
  <2> QED
    BY <1>1, <1>2, <2>1
<1>4. b <= a => Multiple(a - b, d)
  <2> SUFFICES ASSUME b <= a PROVE Multiple(a - b, d)
    OBVIOUS
  <2>1. CASE r <= q
    <3>1. (q - r) * d = q * d - r * d
      BY Z3
    <3>2. a - b = (q - r) * d
      BY <1>1, <1>2, <3>1
    <3>3. q - r \in Nat
      BY <2>1
    <3> QED
      BY <3>2, <3>3 DEF Multiple
  <2>2. CASE ~(r <= q)
    <3>1. q * d <= r * d
      BY <2>2, Z3
    <3>2. a - b = 0 /\ 0 = 0 * d
      BY <1>1, <1>2, <3>1
    <3> QED
      BY <3>2 DEF Multiple
  <2> QED
    BY <2>1, <2>2
<1>5. q + r \in Nat
  OBVIOUS
<1> QED
  BY <1>3, <1>4, <1>5 DEF Multiple

LEMMA MultipleProduct ==
  ASSUME NEW d \in Nat, NEW a \in Nat, NEW b \in Nat, Multiple(b, d)
  PROVE  Multiple(a * b, d)
<1>1. PICK r \in Nat : b = r * d
  BY DEF Multiple
<1>2. a * (r * d) = (a * r) * d
  BY Z3
<1>3. a * r \in Nat
  BY Product
<1> QED
  BY <1>1, <1>2, <1>3 DEF Multiple

LEMMA MultipleMod ==
  ASSUME NEW d \in Nat \ {0}, NEW a \in Nat
  PROVE  Multiple(a, d) <=> a % d = 0
<1>1. ASSUME Multiple(a, d) PROVE a % d = 0
  <2>1. PICK q \in Nat : a = q * d
    BY <1>1 DEF Multiple
  <2>2. (q * d + 0) % d = 0
    BY DivMod
  <2>3. q * d + 0 = a
    BY <2>1
  <2> QED
    BY <2>2, <2>3
<1>2. ASSUME a % d = 0 PROVE Multiple(a, d)
  <2>1. a = (a \div d) * d /\ a \div d \in Nat
    BY <1>2, Z3
  <2> QED
    BY <2>1 DEF Multiple
<1> QED
  BY <1>1, <1>2

\* A block of a group that is not behind the last one, M, ends before E.
LEMMA InsideStaggers ==
  ASSUME NEW NS \in Nat, NEW S \in Nat, NEW m \in Nat, NEW s \in Nat, NEW x \in Nat,
         NEW P \in Nat, NEW M \in Nat, NEW E \in Nat, NEW y \in Nat,
         m <= M, x <= y + 1, P + M * NS + s * S + y < E
  PROVE  m * NS + s * S + P + x <= E
<1>1. m * NS <= M * NS
  BY Z3
<1>2. m * NS \in Nat /\ s * S \in Nat /\ M * NS \in Nat
  BY Product
<1> DEFINE a == m * NS
           b == s * S
           c == M * NS
<1>3. a \in Nat /\ b \in Nat /\ c \in Nat /\ a <= c /\ P + c + b + y < E
  BY <1>1, <1>2
<1> HIDE DEF a, b, c
<1>4. a + b + P + x <= E
  BY <1>3
<1> QED
  BY <1>4 DEF a, b, c

\* The block at hand ends before the disk does, where the last nonce does.
LEMMA BlockInside ==
  ASSUME Numbers, Position, Ahead, WholePlot(file), pc \in InBlock,
         NEW s \in Nat, Address(file, NoncesOf(file) - 1, s) < EndOfFile
  PROVE  n * NumScoops + s * file.Stagger + PlotStart + (i + cache_size_local) <= EndOfFile
<1>0. pc \in InFile /\ pc \in InBlock \union {"block"}
  BY DEF InFile
<1>0a. AtFile /\ i + cache_size_local <= file.Stagger /\ n < nonces
  BY <1>0 DEF Position
<1>0b. j \in DOMAIN files /\ j <= Len(files)
  BY <1>0a DEF AtFile, Numbers
<1>3. /\ file.Stagger \in Nat \ {0} /\ PlotStart \in Nat
      /\ EndOfFile \in Nat /\ nonces = NoncesOf(file) /\ PlotStart = file.Offset * BfsSector
  BY <1>0a, <1>0b, DirectoriesAssumption, StartFacts, FileFacts
  DEF EndOfFile, AtFile, Numbers, PlotStart
<1>4. NumScoops \in Nat
  BY UnitsAssumption
<1> DEFINE S == file.Stagger
           x == i + cache_size_local
           E == EndOfFile
           P == PlotStart
           m == n
           N == nonces
<1>5. /\ S \in Nat \ {0} /\ x \in Nat /\ E \in Nat /\ P \in Nat /\ m \in Nat /\ N \in Nat
      /\ x <= S /\ m < N
  BY <1>0a, <1>3 DEF Numbers
<1>6. n + i + cache_size_local <= nonces /\ (Multiple(nonces, file.Stagger) \/ WholeBlocks)
  BY <1>0 DEF Ahead
<1>7. m + x <= N
  BY <1>6 DEF Numbers
<1>8. Multiple(m, S)
  BY <1>0a DEF AtFile, Multiple
<1>9. P + RoundDown(N - 1, S) * NumScoops + s * S + ((N - 1) % S) < E
  BY <1>3 DEF Address
<1>10. CASE Multiple(nonces, file.Stagger)
  <2>1. PICK q \in Nat : N = q * S
    BY <1>10 DEF Multiple
  <2>2. m + S <= N
    BY <1>5, <1>8, <1>10, RoomForOne
  <2> DEFINE M == (q - 1) * S
  <2> HIDE DEF S, x, E, P, m, N
  <2>3. q # 0
    <3>1. q = 0 => q * S = 0
      BY <1>5, Z3
    <3> QED
      BY <1>5, <2>1, <3>1
  <2>4. q - 1 \in Nat
    BY <2>3
  <2>5. M \in Nat
    BY <1>5, <2>4, Product
  <2>6. q * S = (q - 1) * S + S
    BY <1>5, <2>4, Z3
  <2>7. N = M + S
    BY <2>1, <2>6
  <2> HIDE DEF M
  <2>8. m <= M /\ N - 1 = M + (S - 1) /\ S - 1 \in 0 .. S - 1 /\ S - 1 \in Nat /\ x <= (S - 1) + 1
    BY <1>5, <2>2, <2>5, <2>7
  <2>9. RoundDown(M + (S - 1), S) = M /\ (M + (S - 1)) % S = S - 1
    BY <1>5, <2>4, <2>8, DivMod DEF M
  <2>10. P + M * NumScoops + s * S + (S - 1) < E
    BY <1>9, <2>8, <2>9
  <2>11. m * NumScoops + s * S + P + x <= E
    BY <1>4, <1>5, <2>5, <2>8, <2>10, InsideStaggers
  <2> QED
    BY <2>11 DEF S, x, E, P, m, N
<1>11. CASE ~Multiple(nonces, file.Stagger)
  <2>1. N <= S
    BY <1>6, <1>11 DEF WholeBlocks
  <2>2. N # S
    <3>1. S = 1 * S
      BY <1>5
    <3> QED
      BY <1>11, <3>1 DEF Multiple
  <2>3. m < S /\ N < S
    BY <1>5, <2>1, <2>2
  <2>4. m = 0
    BY <1>5, <1>8, <2>3, FirstMultiple DEF Multiple
  <2> HIDE DEF S, x, E, P, m, N
  <2>5. N - 1 \in 0 .. S - 1 /\ N - 1 \in Nat /\ x <= (N - 1) + 1
    BY <1>5, <1>7, <2>3, <2>4
  <2>6. 0 * S = 0 /\ 0 * S + (N - 1) = N - 1
    BY <1>5, <2>5
  <2>7. RoundDown(0 * S + (N - 1), S) = 0 * S /\ (0 * S + (N - 1)) % S = N - 1
    BY <1>5, <2>5, DivMod
  <2>8. P + 0 * NumScoops + s * S + (N - 1) < E
    BY <1>9, <2>6, <2>7
  <2>9. m * NumScoops + s * S + P + x <= E
    BY <1>4, <1>5, <2>4, <2>5, <2>8, InsideStaggers
  <2> QED
    BY <2>9 DEF S, x, E, P, m, N
<1> QED
  BY <1>10, <1>11

\* Both places of the block at hand.
LEMMA PlacesInside ==
  ASSUME Numbers, Position, Ahead, Good, pc \in InBlock
  PROVE  /\ start + i + cache_size_local <= EndOfFile
         /\ Converted(file) => MirrorStart + i + cache_size_local <= EndOfFile
<1>1. j <= Len(files)
  BY DEF Position, InFile, AtFile
<1>2. /\ scoop \in 0 .. NumScoops - 1 /\ i \in Nat /\ cache_size_local \in Nat
      /\ NumScoops \in Nat
  BY UnitsAssumption DEF Numbers
<1>3. scoop \in Nat /\ NumScoops - 1 - scoop \in Nat
  BY <1>2
<1>4. /\ Address(file, NoncesOf(file) - 1, scoop) < EndOfFile
      /\ Converted(file) => Address(file, NoncesOf(file) - 1, NumScoops - 1 - scoop) < EndOfFile
  BY DEF Good, OnDisk
<1>5. WholePlot(file)
  BY DEF Good
<1>6. start + (i + cache_size_local) <= EndOfFile
  BY <1>3, <1>4, <1>5, BlockInside DEF start
<1>7. Converted(file) => MirrorStart + (i + cache_size_local) <= EndOfFile
  BY <1>3, <1>4, <1>5, BlockInside DEF MirrorStart
<1>8. start \in Nat /\ MirrorStart \in Nat
  BY <1>1, StartFacts
<1> QED
  BY <1>2, <1>6, <1>7, <1>8

InRead == pc \in {"read front", "read back"}

\* The size of a read: whole sectors, and it comes whole.
LEMMA ReadSize ==
  ASSUME Numbers, Position, Ahead, Good, OnGrid, InRead
  PROVE  LET len == MinOf(readChunkSize, cache_size_local - bytes)
         IN  /\ len \in Nat /\ Multiple(len, Grid) /\ Got = len
             /\ pos + len <= EndOfFile
<1> DEFINE len == MinOf(readChunkSize, cache_size_local - bytes)
<1>1. pc \in InBlock /\ Reading /\ j <= Len(files) /\ (pc = "read back" => Converted(file))
  BY DEF InRead, InBlock, Reading, Position, InFile, AtFile
<1>2. /\ bytes <= cache_size_local /\ bytes \in Nat /\ cache_size_local \in Nat /\ i \in Nat
      /\ pos \in Nat
  BY <1>1 DEF Position, Numbers
<1>3. readChunkSize \in Nat
  BY UnitsAssumption DEF readChunkSize
<1>4. len \in Nat /\ len <= cache_size_local - bytes
  BY <1>2, <1>3 DEF MinOf
<1>5. start \in Nat /\ MirrorStart \in Nat /\ EndOfFile \in Nat /\ Grid \in Nat \ {0}
  BY <1>1, DirectoriesAssumption, StartFacts, FileFacts DEF EndOfFile, Numbers, Grid
<1>6. \/ pos = start + i + bytes
      \/ pos = MirrorStart + i + bytes /\ Converted(file)
  BY <1>1 DEF OnGrid, InRead
<1>7. /\ start + i + cache_size_local <= EndOfFile
      /\ Converted(file) => MirrorStart + i + cache_size_local <= EndOfFile
  BY <1>1, PlacesInside
<1> HIDE DEF len
<1>8. pos + len <= EndOfFile
  BY <1>2, <1>4, <1>5, <1>6, <1>7
<1>9. Got = len
  BY <1>8 DEF Got, len
<1>10. Multiple(cache_size_local, Grid) /\ Multiple(bytes, Grid)
  BY <1>1 DEF OnGrid, InRead
<1>11. Multiple(cache_size_local - bytes, Grid)
  BY <1>2, <1>5, <1>10, MultipleSum
<1>12. Multiple(readChunkSize, Grid)
  BY <1>3, <1>5, MultipleMod DEF Good, Grid
<1>13. len = readChunkSize \/ len = cache_size_local - bytes
  BY DEF len, MinOf
<1>14. Multiple(len, Grid)
  BY <1>11, <1>12, <1>13
<1> QED
  BY <1>4, <1>8, <1>9, <1>14 DEF len

LEMMA MultipleSums ==
  ASSUME NEW d \in Nat, NEW a \in Nat, NEW b \in Nat, NEW c \in Nat, NEW e \in Nat,
         NEW f \in Nat, Multiple(a, d), Multiple(b, d), Multiple(c, d), Multiple(e, d),
         Multiple(f, d)
  PROVE  Multiple(a + b + c + e + f, d)
<1>1. a + b \in Nat /\ a + b + c \in Nat /\ a + b + c + e \in Nat
  OBVIOUS
<1>2. Multiple(a + b, d)
  BY MultipleSum
<1>3. Multiple(a + b + c, d)
  BY <1>1, <1>2, MultipleSum
<1>4. Multiple(a + b + c + e, d)
  BY <1>1, <1>3, MultipleSum
<1> QED
  BY <1>1, <1>4, MultipleSum

\* A read begins at a sector and asks for whole sectors.
LEMMA OnSectors ==
  ASSUME Numbers, Position, Ahead, Good, OnGrid, InRead
  PROVE  LET len == MinOf(readChunkSize, cache_size_local - bytes)
         IN  pos % Grid = 0 /\ len % Grid = 0
<1> DEFINE len == MinOf(readChunkSize, cache_size_local - bytes)
<1>1. len \in Nat /\ Multiple(len, Grid)
  BY ReadSize
<1> HIDE DEF len
<1>2. pc \in InFile /\ pc \in InBlock \union {"block"}
  BY DEF InRead, InFile, InBlock
<1>3. AtFile /\ Multiple(file.Stagger, Grid) /\ Multiple(i, Grid)
  BY <1>2 DEF Position, OnGrid
<1>4. Multiple(bytes, Grid)
  BY DEF OnGrid, InRead
<1>5. j \in DOMAIN files /\ j <= Len(files)
  BY <1>3 DEF AtFile, Numbers
<1>6. /\ n \in Nat /\ i \in Nat /\ bytes \in Nat /\ pos \in Nat
      /\ scoop \in 0 .. NumScoops - 1
  BY DEF Numbers
<1>7. NumScoops \in Nat
  BY UnitsAssumption
<1>8. scoop \in Nat /\ NumScoops - 1 - scoop \in Nat
  BY <1>6, <1>7
<1>9. file.Stagger \in Nat /\ PlotStart \in Nat /\ Grid \in Nat \ {0}
  BY <1>5, StartFacts, FileFacts DEF Grid
<1>10. Multiple(PlotStart, Grid)
  <2>1. file \in PlotFile /\ file.Offset \in Nat /\ BfsSector \in Nat
    BY <1>5, StartFacts, FileFacts, UnitsAssumption
  <2>2. CASE file.BFS
    BY <2>1, <2>2 DEF PlotStart, Grid, BytesPerSector, Multiple
  <2>3. CASE ~file.BFS
    <3>1. PlotStart = 0 * BfsSector
      BY <2>1, <2>3 DEF PlotFile, PlotStart
    <3>2. PlotStart = 0 * Grid
      BY <1>9, <2>1, <3>1
    <3> QED
      BY <3>2 DEF Multiple
  <2> QED
    BY <2>2, <2>3
<1>11. Multiple(n * NumScoops, Grid)
  <2>1. PICK q \in Nat : n = q * file.Stagger
    BY <1>3 DEF AtFile
  <2>2. Multiple(q * file.Stagger, Grid)
    BY <1>3, <1>9, MultipleProduct
  <2>3. Multiple(n, Grid)
    BY <2>1, <2>2
  <2>4. Multiple(NumScoops * n, Grid)
    BY <1>6, <1>7, <1>9, <2>3, MultipleProduct
  <2>5. \A a, b \in Nat : a * b = b * a
    BY Z3
  <2>6. n * NumScoops = NumScoops * n
    BY <1>6, <1>7, <2>5
  <2> QED
    BY <2>4, <2>6
<1>12. ASSUME NEW s \in Nat
       PROVE  Multiple(n * NumScoops + s * file.Stagger + PlotStart + i + bytes, Grid)
  <2>1. Multiple(s * file.Stagger, Grid)
    BY <1>3, <1>9, MultipleProduct
  <2>2. s * file.Stagger \in Nat /\ n * NumScoops \in Nat
    BY <1>6, <1>7, <1>9, Product
  <2> QED
    BY <1>3, <1>4, <1>6, <1>9, <1>10, <1>11, <2>1, <2>2, MultipleSums
<1>13. /\ Multiple(start + i + bytes, Grid)
       /\ Multiple(MirrorStart + i + bytes, Grid)
  BY <1>8, <1>12 DEF start, MirrorStart
<1>14. pos = start + i + bytes \/ pos = MirrorStart + i + bytes
  BY DEF OnGrid, InRead
<1>15. Multiple(pos, Grid)
  BY <1>13, <1>14
<1>16. pos % Grid = 0 /\ len % Grid = 0
  BY <1>1, <1>6, <1>9, <1>15, MultipleMod
<1> QED
  BY <1>16 DEF len

LEMMA OnGridStep ==
  ASSUME Numbers, Position, Ahead, OnGrid, [Next]_vars
  PROVE  OnGrid'
<1>1. /\ n \in Nat /\ i \in Nat /\ nonces \in Nat /\ bytes \in Nat /\ pos \in Nat
      /\ cache_size_local \in Nat /\ cache_size_local_backup \in Nat
  BY DEF Numbers
<1>2. j <= Len(files) =>
        /\ file \in PlotFile /\ file.Stagger \in Nat /\ Grid \in Nat \ {0}
        /\ start \in Nat /\ MirrorStart \in Nat
  BY StartFacts, FileFacts DEF Grid
<1>3. pc \in InFile => AtFile /\ j <= Len(files) /\ Multiple(file.Stagger, Grid)
  BY DEF Position, AtFile, OnGrid
<1>4. UNCHANGED <<j, files>> => file' = file /\ Grid' = Grid
  BY SameFile DEF Grid, BytesPerSector
<1>5. CASE GetFiles \/ SkipFile \/ NoMoreFiles \/ GiveUp \/ NoMirror \/ NoSlot
  BY <1>5 DEF GetFiles, SkipFile, NoMoreFiles, GiveUp, NoMirror, NoSlot, OnGrid, InFile, InBlock
<1>6. CASE OpenFile
  <2>1. pc' = "group" /\ UNCHANGED <<j, files>> /\ j <= Len(files) /\ ~Skipped(file)
    BY <1>6 DEF OpenFile
  <2>2. file.Stagger % Grid = 0
    BY <2>1 DEF Skipped, Grid
  <2>3. Multiple(file.Stagger, Grid)
    BY <1>2, <2>1, <2>2, MultipleMod
  <2> QED
    BY <1>4, <2>1, <2>3 DEF OnGrid, InBlock, Multiple
<1>7. CASE NextGroup
  <2>1. CASE pc' = "block"
    <3>1. /\ i' = 0 /\ cache_size_local' = cache_size_local_backup /\ UNCHANGED <<j, files>>
      BY <1>7, <2>1 DEF NextGroup
    <3>2. AtFile /\ j <= Len(files) /\ Multiple(file.Stagger, Grid)
      BY <1>3, <1>7 DEF NextGroup, InFile
    <3>3. CacheSize(file) \in Nat /\ Grid \in Nat \ {0}
      BY <1>2, <3>2, FileFacts
    <3>4. CacheSize(file) \div Grid \in Nat
      BY <3>3, Z3
    <3>5. cache_size_local_backup = (CacheSize(file) \div Grid) * Grid
      BY <3>2 DEF AtFile, BlockSize, RoundDown, Grid
    <3>6. Multiple(cache_size_local_backup, Grid)
      BY <3>4, <3>5 DEF Multiple
    <3>7. 0 = 0 * Grid
      BY <3>3
    <3>8. Multiple(i', Grid)
      BY <3>1, <3>7 DEF Multiple
    <3> QED
      BY <1>4, <2>1, <3>1, <3>2, <3>6, <3>8 DEF OnGrid, InFile, Multiple
  <2>2. CASE pc' # "block"
    <3>1. pc' = "file"
      BY <1>7, <2>2 DEF NextGroup
    <3> QED
      BY <3>1 DEF OnGrid, InFile, InBlock
  <2> QED
    BY <2>1, <2>2
<1>8. CASE NextBlock
  <2>1. pc = "block" /\ pc' \in {"seek front", "seek back"} /\ UNCHANGED <<j, files, i>>
    BY <1>8 DEF NextBlock
  <2>2. /\ AtFile /\ j <= Len(files) /\ Multiple(file.Stagger, Grid) /\ Multiple(i, Grid)
        /\ Multiple(cache_size_local, Grid) /\ i <= file.Stagger
    BY <1>3, <2>1 DEF OnGrid, InFile, Position
  <2>3. Multiple(file.Stagger - i, Grid)
    BY <1>1, <1>2, <2>2, MultipleSum
  <2>4. cache_size_local' = file.Stagger - i \/ cache_size_local' = cache_size_local
    BY <1>8 DEF NextBlock
  <2>5. Multiple(cache_size_local', Grid)
    BY <2>2, <2>3, <2>4
  <2> QED
    BY <1>4, <2>1, <2>2, <2>5 DEF OnGrid, InFile, InBlock, Multiple
<1>9. CASE EndGroup \/ BreakOff
  <2>1. pc \in InFile /\ pc' = "group" /\ UNCHANGED <<j, files>>
    BY <1>9 DEF EndGroup, BreakOff, InFile, InBlock
  <2> QED
    BY <1>3, <1>4, <2>1 DEF OnGrid, InBlock, Multiple
<1>10. CASE ThRead
  <2>1. pc \in InBlock /\ pc' \in InBlock /\ UNCHANGED_th_read
    BY <1>10, ThReadStep
  <2>2. UNCHANGED <<j, files, dir, scoop, n, i, cache_size_local>>
    BY <2>1 DEF UNCHANGED_th_read
  <2>3. /\ AtFile /\ j <= Len(files) /\ Multiple(file.Stagger, Grid) /\ Multiple(i, Grid)
        /\ Multiple(cache_size_local, Grid)
    BY <1>3, <2>1 DEF OnGrid, InFile
  <2>4. start' = start /\ MirrorStart' = MirrorStart /\ Good' = Good
    BY <2>2, StartKept, GoodKept
  <2>5. start \in Nat /\ MirrorStart \in Nat /\ Grid \in Nat \ {0}
    BY <1>2, <2>3
  <2>6. /\ pc' = "read front" => pos' = start + i + bytes'
        /\ pc' = "read back" => pos' = MirrorStart + i + bytes'
        /\ pc' \in {"read front", "read back"} /\ Good => Multiple(bytes', Grid)
    <3>1. CASE SeekFront \/ SeekBack
      <4>1. pc' \in {"read front", "read back"} =>
              bytes' = 0 /\ pos' = IF pc' = "read front" THEN start + i ELSE MirrorStart + i
        BY <3>1 DEF SeekFront, SeekBack, Seek
      <4>2. start + i + 0 = start + i /\ MirrorStart + i + 0 = MirrorStart + i
        BY <1>1, <2>5
      <4>3. 0 = 0 * Grid
        BY <2>5
      <4>4. Multiple(0, Grid)
        BY <4>3 DEF Multiple
      <4> QED
        BY <4>1, <4>2, <4>4
    <3>2. CASE ReadFront \/ ReadBack
      <4>1. pc \in {"read front", "read back"}
        BY <3>2 DEF ReadFront, ReadBack
      <4>2. Good => Got \in Nat /\ Multiple(Got, Grid) /\ Multiple(bytes, Grid)
        BY <4>1, ReadSize DEF OnGrid, InRead
      <4>2a. Got \in Nat
        <5>1. Reading
          BY <4>1 DEF Reading
        <5>2. bytes <= cache_size_local
          BY <5>1 DEF Position
        <5> QED
          BY <2>3, <5>2, GotFacts
      <4>3. Good => Multiple(bytes + Got, Grid)
        BY <1>1, <2>5, <4>2, MultipleSum
      <4>4. pc' \in {"read front", "read back"} =>
              pc' = pc /\ bytes' = bytes + Got /\ pos' = pos + Got
        BY <3>2 DEF ReadFront, ReadBack, ReadOne
      <4>5. /\ start + i + (bytes + Got) = start + i + bytes + Got
            /\ MirrorStart + i + (bytes + Got) = MirrorStart + i + bytes + Got
        BY <1>1, <2>5, <4>2a
      <4> QED
        BY <4>3, <4>4, <4>5 DEF OnGrid
    <3>3. CASE Merge
      BY <3>3 DEF Merge
    <3> QED
      BY <1>10, <3>1, <3>2, <3>3 DEF ThRead
  <2> QED
    BY <1>4, <2>2, <2>3, <2>4, <2>6 DEF OnGrid, Multiple
<1>11. CASE PutBlock
  <2>1. /\ pc \in InBlock /\ pc' = "block" /\ i' = i + cache_size_local
        /\ UNCHANGED <<j, files, cache_size_local>>
    BY <1>11 DEF PutBlock, InBlock
  <2>2. /\ j <= Len(files) /\ Multiple(file.Stagger, Grid) /\ Multiple(i, Grid)
        /\ Multiple(cache_size_local, Grid)
    BY <1>3, <2>1 DEF OnGrid, InFile
  <2>3. Multiple(i', Grid)
    BY <1>1, <1>2, <2>1, <2>2, MultipleSum
  <2> QED
    BY <1>4, <2>1, <2>2, <2>3 DEF OnGrid, InFile, InBlock, Multiple
<1>12. CASE sche_set_runflag \/ UNCHANGED vars
  <2>1. UNCHANGED <<pc, j, files, dir, scoop, n, i, cache_size_local, pos, bytes>>
    BY <1>12 DEF sche_set_runflag, vars
  <2>2. start' = start /\ MirrorStart' = MirrorStart /\ Good' = Good
    BY <2>1, StartKept, GoodKept
  <2> QED
    BY <1>4, <2>1, <2>2 DEF OnGrid, Multiple
<1> QED
  BY <1>5, <1>6, <1>7, <1>8, <1>9, <1>10, <1>11, <1>12 DEF Next, Reader, ThRead

\* Of a whole plot whose scoops of the round are on the disk every read lies
\* inside the file, on whole sectors; also after a read or a seek has failed.
\* So a read leaves its file, where the loop of ReadFile does not end, only for
\* a scoop that a truncated plot lacks, or behind a plot that is not whole.
THEOREM ReadsStayInside == Spec => []ReadsInsideFile
<1> DEFINE IInv == Numbers /\ Position /\ Ahead /\ OnGrid
<1>1. Init => IInv
  BY NumbersInit DEF Init, Ahead, OnGrid, InFile, InBlock
<1>2. IInv /\ [Next]_vars => IInv'
  BY NumbersStep, PositionStep, AheadStep, OnGridStep
<1>3. IInv => ReadsInsideFile
  BY ReadSize, OnSectors DEF ReadsInsideFile, InRead, Aligned, Grid, Good
<1> QED
  BY <1>1, <1>2, <1>3, PTL DEF Spec
=============================================================================

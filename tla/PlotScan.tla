------------------------------ MODULE PlotScan ------------------------------
(* The reading of the plot files of one directory by sche_runnew, GetFiles   *)
(* and th_read: which files are taken, how a file is cut into blocks of      *)
(* nonces, and where on the disk the two halves of every scoop come from.    *)
(*                                                                           *)
(* Lengths and positions are counted in units of 64 bytes, the size of a     *)
(* scoop; the content of a unit of memory is the unit of the disk that was   *)
(* read into it. The waiting for an idle slot and the hashing are in Worker. *)
EXTENDS Integers, Sequences, FiniteSets, SequencesExt

CONSTANTS
  NumScoops,      \* scoops of a nonce, 4096 in the code
  Sector,         \* units of a sector of the disk
  BfsSector,      \* units of 4096 bytes, 64 in the code
  MaxFiles,       \* files of a directory that are remembered, 2048 in the code
  cache_size1, cache_size2,   \* in nonces, for native and for converted plots
  ScanUnits,      \* progress is sent when more units than this were read
  Directories,    \* the directories that may be scanned
  MaxFaults       \* bound on the opens, seeks and reads that fail

ASSUME UnitsAssumption ==
  /\ {NumScoops, Sector, BfsSector, cache_size1, cache_size2} \subseteq Nat \ {0}
  /\ {MaxFiles, ScanUnits} \subseteq Nat
ASSUME FaultsAssumption == MaxFaults \in Nat

VARIABLES
  dir, scoop,       \* the arguments: the directory, and the scoop of the round
  sche_runflag,
  pc, j,            \* the next step, and the index of the file
  files,            \* wk->files
  nonces, cache_size_local, cache_size_local_backup, n, i, flip, cont,
  pos,              \* the position of the file pointer
  bytes,            \* the units read by the running loop of ReadFile
  cache, MirrorCache,
  MirrorCacheLen,   \* the units allocated for MirrorCache
  left_bytes, sent, \* progress not yet sent, and the units sent in all
  read,             \* the units read by the blocks that count as progress
  failed,           \* whether a seek or a read of this block failed
  faults,           \* the opens, seeks and reads that failed so far
  jobs              \* the blocks put into job_list

vars == <<dir, scoop, sche_runflag, pc, j, files, nonces, cache_size_local,
          cache_size_local_backup, n, i, flip, cont, pos, bytes, cache,
          MirrorCache, MirrorCacheLen, left_bytes, sent, read, failed, faults, jobs>>

readChunkSize == cache_size1
POC2 == 1
Stale == -1   \* no unit of the disk
MinOf(a, b) == IF a < b THEN a ELSE b
RoundDown(x, d) == (x \div d) * d

-----------------------------------------------------------------------------
(* The files of a directory *)

\* a finished plot of the table of contents of a BFS drive, whose space is
\* given in sectors, diskspace/64 nonces in the code
SectorsOfNonce == NumScoops \div BfsSector
BfsFile(toc, e) ==
  [StartNonce |-> e.startNonce, Nonces |-> e.nonces,
   Stagger |-> toc.diskspace \div SectorsOfNonce,
   Offset |-> e.startPos, P2 |-> 1, BFS |-> TRUE, Size |-> e.nonces * NumScoops]

\* entries up to the first with status 0; status 1 is a finished plot
BfsFiles(toc) ==
  LET stop == {k \in DOMAIN toc.plotFiles : toc.plotFiles[k].status = 0}
      listed == SelectInSeq(toc.plotFiles, LAMBDA e : e.status = 0)
      used == IF stop = {} THEN toc.plotFiles ELSE SubSeq(toc.plotFiles, 1, listed - 1)
      finished == SelectSeq(used, LAMBDA e : e.status = 1)
  IN  [k \in DOMAIN finished |-> BfsFile(toc, finished[k])]

\* key_nonce_nonces is an optimized PoC2 plot, key_nonce_nonces_stagger PoC1
NamedFile(e) ==
  [StartNonce |-> e.name[2], Nonces |-> e.name[3],
   Stagger |-> IF Len(e.name) = 3 THEN e.name[3] ELSE e.name[4],
   Offset |-> 0, P2 |-> IF Len(e.name) = 3 THEN 1 ELSE 0, BFS |-> FALSE,
   Size |-> e.size]

NamedFiles(entries) ==
  LET plots == SelectSeq(entries, LAMBDA e : Len(e.name) \in {3, 4})
      kept == SubSeq(plots, 1, MinOf(Len(plots), MaxFiles))
  IN  [k \in DOMAIN kept |-> NamedFile(kept[k])]

FilesOf(d) == IF d.bfs THEN BfsFiles(d) ELSE NamedFiles(d.entries)

\* what is listed are plots: names of numbers, a stagger of at least one nonce
AnyFile == [StartNonce : Nat, Nonces : Nat, Stagger : Nat \ {0}, Offset : Nat,
            P2 : {0, 1}, BFS : BOOLEAN, Size : Nat]
PlotFile == {f \in AnyFile : ~f.BFS => f.Offset = 0}
ASSUME DirectoriesAssumption ==
  \A d \in Directories : FilesOf(d) \in Seq(PlotFile) /\ d.size \in Nat

GetFiles ==
  /\ pc = "list"
  /\ files' = FilesOf(dir)
  /\ pc' = "file"
  /\ UNCHANGED <<dir, scoop, sche_runflag, j, nonces, cache_size_local,
                 cache_size_local_backup, n, i, flip, cont, pos, bytes, cache,
                 MirrorCache, MirrorCacheLen, left_bytes, sent, read, failed, faults, jobs>>

-----------------------------------------------------------------------------
(* The choice of a file and of the size of its blocks *)

file == files[j]
BytesPerSector(f) == IF f.BFS THEN BfsSector ELSE Sector
Converted(f) == f.P2 # POC2

\* a size that the name does not give: the plot is cut to whole staggers, an
\* optimized one is used unless the scoop lies behind its end
Mismatch(f) == f.Nonces # f.Size \div NumScoops
\* Faulty variant: the name is trusted.
NoncesOfName(f) == f.Nonces
NoncesOf(f) ==
  IF Mismatch(f) /\ f.Nonces # f.Stagger
  THEN RoundDown(f.Size \div NumScoops, f.Stagger) ELSE f.Nonces
Damaged(f) == Mismatch(f) /\ f.Nonces = f.Stagger /\ scoop > f.Size \div f.Stagger

Skipped(f) ==
  \/ Damaged(f)
  \/ f.Stagger < BytesPerSector(f)
  \/ NoncesOf(f) < BytesPerSector(f)
  \/ f.Stagger % BytesPerSector(f) # 0

CacheSize(f) ==
  LET optimized == f.Stagger = NoncesOf(f)
  IN  IF Converted(f)
      THEN IF optimized /\ cache_size2 < f.Stagger THEN cache_size2 ELSE f.Stagger
      ELSE IF optimized /\ cache_size1 < f.Stagger THEN cache_size1
      ELSE IF f.BFS THEN cache_size1 ELSE f.Stagger
\* Faulty variant: not rounded to sectors.
BlockSizeUnrounded(f) == CacheSize(f)
BlockSize(f) == RoundDown(CacheSize(f), BytesPerSector(f))

Blank(size) == [t \in 0 .. size - 1 |-> Stale]
BlankScoops(size) == [t \in 0 .. size - 1 |-> [front |-> Stale, back |-> Stale]]

\* something of the operating system fails
Fault == faults < MaxFaults /\ faults' = faults + 1

\* MirrorCache is allocated anew when it is too small for this file
Grow(f) == Converted(f) /\ MirrorCacheLen < BlockSize(f)
SizeMirror(f) == MirrorCacheLen' = IF Grow(f) THEN BlockSize(f) ELSE MirrorCacheLen

\* not usable, or its disk cannot be asked, or it cannot be opened
SkipFile ==
  /\ pc = "file" /\ j <= Len(files) /\ sche_runflag
  /\ \/ Skipped(file) /\ UNCHANGED <<faults, MirrorCacheLen>>
     \/ ~file.BFS /\ Fault /\ UNCHANGED MirrorCacheLen
     \/ ~Skipped(file) /\ Fault /\ SizeMirror(file)
  /\ j' = j + 1
  /\ UNCHANGED <<dir, scoop, sche_runflag, pc, files, nonces, cache_size_local,
                 cache_size_local_backup, n, i, flip, cont, pos, bytes, cache,
                 MirrorCache, left_bytes, sent, read, failed, jobs>>

\* no memory for MirrorCache: the round ends, and what is left is not sent
NoMirror ==
  /\ pc = "file" /\ j <= Len(files) /\ sche_runflag
  /\ ~Skipped(file) /\ Grow(file) /\ Fault
  /\ SizeMirror(file) /\ MirrorCache' = <<>>
  /\ pc' = "given up"
  /\ UNCHANGED <<dir, scoop, sche_runflag, j, files, nonces, cache_size_local,
                 cache_size_local_backup, n, i, flip, cont, pos, bytes, cache,
                 left_bytes, sent, read, failed, jobs>>

OpenFile ==
  /\ pc = "file" /\ j <= Len(files) /\ sche_runflag
  /\ ~Skipped(file)
  /\ nonces' = NoncesOf(file)
  /\ cache_size_local_backup' = BlockSize(file)
  /\ cache_size_local' = BlockSize(file)
  /\ SizeMirror(file)
  /\ MirrorCache' = IF Converted(file) THEN Blank(BlockSize(file)) ELSE MirrorCache
  /\ n' = 0 /\ flip' = FALSE /\ cont' = FALSE
  /\ pc' = "group"
  /\ UNCHANGED <<dir, scoop, sche_runflag, j, files, i, pos, bytes, cache,
                 left_bytes, sent, read, failed, faults, jobs>>

\* Faulty variant: what is left is not sent.
NoMoreFilesSilent ==
  /\ pc = "file" /\ (j > Len(files) \/ ~sche_runflag)
  /\ pc' = "returned"
  /\ UNCHANGED <<dir, scoop, sche_runflag, j, files, nonces, cache_size_local,
                 cache_size_local_backup, n, i, flip, cont, pos, bytes, cache,
                 MirrorCache, MirrorCacheLen, left_bytes, sent, read, failed, faults, jobs>>

\* after the last file, or told to stop between two files
NoMoreFiles ==
  /\ pc = "file" /\ (j > Len(files) \/ ~sche_runflag)
  /\ sent' = sent + left_bytes /\ left_bytes' = 0
  /\ pc' = "returned"
  /\ UNCHANGED <<dir, scoop, sche_runflag, j, files, nonces, cache_size_local,
                 cache_size_local_backup, n, i, flip, cont, pos, bytes, cache,
                 MirrorCache, MirrorCacheLen, read, failed, faults, jobs>>

-----------------------------------------------------------------------------
(* The two loops over the nonces of a file *)

PlotStart == file.Offset * BfsSector
start == n * NumScoops + scoop * file.Stagger + PlotStart
\* Faulty variant: one scoop too far.
MirrorStartOff == n * NumScoops + (NumScoops - scoop) * file.Stagger + PlotStart
MirrorStart == n * NumScoops + (NumScoops - 1 - scoop) * file.Stagger + PlotStart

NextGroup ==
  /\ pc = "group"
  /\ IF n < nonces /\ sche_runflag
     THEN /\ cache_size_local' = cache_size_local_backup /\ i' = 0
          /\ pc' = "block" /\ UNCHANGED j
     ELSE /\ j' = j + 1 /\ pc' = "file" /\ UNCHANGED <<cache_size_local, i>>
  /\ UNCHANGED <<dir, scoop, sche_runflag, files, nonces,
                 cache_size_local_backup, n, flip, cont, pos, bytes, cache,
                 MirrorCache, MirrorCacheLen, left_bytes, sent, read, failed, faults, jobs>>

\* Faulty variant: the last block of a stagger is not cut.
NextBlockUncut ==
  /\ pc = "block" /\ i < MinOf(nonces, file.Stagger) /\ sche_runflag
  /\ cache' = BlankScoops(cache_size_local)
  /\ failed' = FALSE
  /\ pc' = IF flip THEN "seek back" ELSE "seek front"
  /\ UNCHANGED <<dir, scoop, sche_runflag, j, files, nonces, cache_size_local,
                 cache_size_local_backup, n, i, flip, cont, pos, bytes,
                 MirrorCache, MirrorCacheLen, left_bytes, sent, read, faults, jobs>>

\* no slot: told to stop while it waits for one; or the one it has is cut
\* short, or there is no memory for its cache
NoSlot ==
  /\ pc = "block" /\ i < MinOf(nonces, file.Stagger)
  /\ \/ ~sche_runflag /\ UNCHANGED faults
     \/ sche_runflag /\ Fault
  /\ pc' = "given up"
  /\ UNCHANGED <<dir, scoop, sche_runflag, j, files, nonces, cache_size_local,
                 cache_size_local_backup, n, i, flip, cont, pos, bytes, cache,
                 MirrorCache, MirrorCacheLen, left_bytes, sent, read, failed, jobs>>

\* an idle slot is taken, and th_read cuts the block at the end of the stagger
NextBlock ==
  /\ pc = "block" /\ i < MinOf(nonces, file.Stagger) /\ sche_runflag
  /\ cache_size_local' = IF i + cache_size_local > file.Stagger
                         THEN file.Stagger - i ELSE cache_size_local
  /\ cache' = BlankScoops(cache_size_local')
  /\ failed' = FALSE
  /\ pc' = IF flip THEN "seek back" ELSE "seek front"
  /\ UNCHANGED <<dir, scoop, sche_runflag, j, files, nonces,
                 cache_size_local_backup, n, i, flip, cont, pos, bytes,
                 MirrorCache, MirrorCacheLen, left_bytes, sent, read, faults, jobs>>

\* Faulty variant: every plot is taken for an optimized one.
EndGroupByNonces ==
  /\ pc = "block" /\ ~(i < MinOf(nonces, file.Stagger) /\ sche_runflag)
  /\ n' = n + nonces
  /\ pc' = "group"
  /\ UNCHANGED <<dir, scoop, sche_runflag, j, files, nonces, cache_size_local,
                 cache_size_local_backup, i, flip, cont, pos, bytes, cache,
                 MirrorCache, MirrorCacheLen, left_bytes, sent, read, failed, faults, jobs>>

EndGroup ==
  /\ pc = "block" /\ ~(i < MinOf(nonces, file.Stagger) /\ sche_runflag)
  /\ n' = n + file.Stagger
  /\ pc' = "group"
  /\ UNCHANGED <<dir, scoop, sche_runflag, j, files, nonces, cache_size_local,
                 cache_size_local_backup, i, flip, cont, pos, bytes, cache,
                 MirrorCache, MirrorCacheLen, left_bytes, sent, read, failed, faults, jobs>>

-----------------------------------------------------------------------------
(* th_read *)

\* the disk: nothing lies behind the end of a file, and an unbuffered read
\* must be aligned to sectors
EndOfFile == IF file.BFS THEN dir.size ELSE file.Size
Aligned(p, len) ==
  p % BytesPerSector(file) = 0 /\ len % BytesPerSector(file) = 0
ReadFails ==
  IF Aligned(pos, MinOf(readChunkSize, cache_size_local - bytes)) THEN Fault
  ELSE UNCHANGED faults
Got == LET len == MinOf(readChunkSize, cache_size_local - bytes)
       IN  IF pos + len <= EndOfFile THEN len
           ELSE IF pos < EndOfFile THEN EndOfFile - pos ELSE 0
Into(t) == t \in bytes .. bytes + Got - 1

UNCHANGED_th_read ==
  UNCHANGED <<dir, scoop, sche_runflag, j, files, nonces, cache_size_local,
              cache_size_local_backup, n, i, MirrorCacheLen, left_bytes, sent, read, jobs>>

Seek(to, next) ==
  /\ bytes' = 0
  /\ \/ pos' = to /\ pc' = next /\ UNCHANGED <<cont, failed, faults>>
     \/ Fault /\ cont' = TRUE /\ failed' = TRUE /\ pc' = "put" /\ UNCHANGED pos
  /\ UNCHANGED <<flip, cache, MirrorCache>> /\ UNCHANGED_th_read

SeekFront == pc = "seek front" /\ Seek(start + i, "read front")
\* a PoC2 plot has no second read
SeekBack ==
  /\ pc = "seek back"
  /\ IF Converted(file) THEN Seek(MirrorStart + i, "read back")
     ELSE /\ pc' = IF flip THEN "seek front" ELSE "merge"
          /\ UNCHANGED <<bytes, pos, cont, failed, faults, flip, cache, MirrorCache>>
          /\ UNCHANGED_th_read

\* one ReadFile of a do-while loop; a failure breaks the loop
ReadOne(at, next) ==
  /\ \/ /\ Aligned(pos, MinOf(readChunkSize, cache_size_local - bytes))
        /\ bytes' = bytes + Got /\ pos' = pos + Got
        /\ pc' = IF bytes' < cache_size_local THEN at ELSE next
        /\ UNCHANGED <<failed, faults>>
     \/ ReadFails /\ failed' = TRUE /\ pc' = next /\ UNCHANGED <<bytes, pos>>
  /\ UNCHANGED <<flip, cont>> /\ UNCHANGED_th_read

\* a scoop of the cache is read whole; its second half may be replaced later
ReadFront ==
  /\ pc = "read front" /\ ReadOne("read front", IF flip THEN "merge" ELSE "seek back")
  /\ cache' = IF bytes' = bytes THEN cache
              ELSE [t \in DOMAIN cache |->
                     IF Into(t) THEN [front |-> pos + t - bytes, back |-> pos + t - bytes]
                     ELSE cache[t]]
  /\ UNCHANGED MirrorCache

ReadBack ==
  /\ pc = "read back" /\ ReadOne("read back", IF flip THEN "seek front" ELSE "merge")
  /\ MirrorCache' = IF bytes' = bytes THEN MirrorCache
                    ELSE [t \in DOMAIN MirrorCache |->
                           IF Into(t) THEN pos + t - bytes ELSE MirrorCache[t]]
  /\ UNCHANGED cache

\* readend: as many halves as the last loop has read
Merge ==
  /\ pc = "merge"
  /\ flip' = ~flip
  /\ cache' = IF Converted(file)
              THEN [t \in DOMAIN cache |->
                     IF t < bytes THEN [cache[t] EXCEPT !.back = MirrorCache[t]]
                     ELSE cache[t]]
              ELSE cache
  /\ pc' = "put"
  /\ UNCHANGED <<bytes, pos, cont, failed, faults, MirrorCache>> /\ UNCHANGED_th_read

-----------------------------------------------------------------------------
(* After th_read *)

Job == [file |-> j, nonce |-> n + file.StartNonce + i, n |-> n, failed |-> failed,
        cache_size_local |-> cache_size_local, cache |-> cache]

PutBlock ==
  /\ pc = "put" /\ ~cont /\ sche_runflag
  /\ LET left == left_bytes + bytes
     IN  IF left > ScanUnits
         THEN sent' = sent + left /\ left_bytes' = 0
         ELSE left_bytes' = left /\ UNCHANGED sent
  /\ read' = read + bytes
  /\ jobs' = Append(jobs, Job)
  /\ i' = i + cache_size_local
  /\ pc' = "block"
  /\ UNCHANGED <<dir, scoop, sche_runflag, j, files, nonces, cache_size_local,
                 cache_size_local_backup, n, flip, cont, pos, bytes, cache,
                 MirrorCache, MirrorCacheLen, failed, faults>>

\* break: the rest of the stagger is left out
BreakOff ==
  /\ pc = "put" /\ cont
  /\ n' = n + file.Stagger
  /\ pc' = "group"
  /\ UNCHANGED <<dir, scoop, sche_runflag, j, files, nonces, cache_size_local,
                 cache_size_local_backup, i, flip, cont, pos, bytes, cache,
                 MirrorCache, MirrorCacheLen, left_bytes, sent, read, failed, faults, jobs>>

GiveUp ==
  /\ pc = "put" /\ ~cont /\ ~sche_runflag
  /\ pc' = "given up"
  /\ UNCHANGED <<dir, scoop, sche_runflag, j, files, nonces, cache_size_local,
                 cache_size_local_backup, n, i, flip, cont, pos, bytes, cache,
                 MirrorCache, MirrorCacheLen, left_bytes, sent, read, failed, faults, jobs>>

-----------------------------------------------------------------------------
sche_set_runflag ==
  /\ sche_runflag /\ sche_runflag' = FALSE
  /\ UNCHANGED <<dir, scoop, pc, j, files, nonces, cache_size_local,
                 cache_size_local_backup, n, i, flip, cont, pos, bytes, cache,
                 MirrorCache, MirrorCacheLen, left_bytes, sent, read, failed, faults, jobs>>

Init ==
  /\ dir \in Directories /\ scoop \in 0 .. NumScoops - 1
  /\ sche_runflag = TRUE /\ pc = "list" /\ j = 1 /\ files = <<>>
  /\ nonces = 0 /\ cache_size_local = 0 /\ cache_size_local_backup = 0
  /\ n = 0 /\ i = 0 /\ flip = FALSE /\ cont = FALSE /\ pos = 0 /\ bytes = 0
  /\ cache = <<>> /\ MirrorCache = <<>> /\ MirrorCacheLen = 0
  /\ left_bytes = 0 /\ sent = 0 /\ read = 0 /\ failed = FALSE /\ faults = 0 /\ jobs = <<>>

Reader ==
  \/ GetFiles \/ SkipFile \/ NoMirror \/ OpenFile \/ NoMoreFiles
  \/ NextGroup \/ NoSlot \/ NextBlock \/ EndGroup
  \/ SeekFront \/ ReadFront \/ SeekBack \/ ReadBack \/ Merge
  \/ PutBlock \/ BreakOff \/ GiveUp

Next == Reader \/ sche_set_runflag

\* the reader thread runs whenever it can
Spec == Init /\ [][Next]_vars /\ WF_vars(Reader)

-----------------------------------------------------------------------------
(* Properties *)

\* Where a plot holds the half scoop s of its nonce number x: the nonces lie
\* in groups of Stagger, and a group holds scoop after scoop.
Address(f, x, s) ==
  f.Offset * BfsSector + RoundDown(x, f.Stagger) * NumScoops + s * f.Stagger
    + (x % f.Stagger)

\* A block without an error holds, for every nonce it is hashed under, the
\* two halves of this nonce's scoop: the first half of the scoop of the
\* round, and the second half of the same scoop in a PoC2 plot, of the mirror
\* scoop in a PoC1 plot, whichever was read first (th_read).
RightScoops ==
  \A k \in DOMAIN jobs :
    LET f == files[jobs[k].file]
        back == IF Converted(f) THEN NumScoops - 1 - scoop ELSE scoop
    IN  ~jobs[k].failed =>
          \A t \in 0 .. jobs[k].cache_size_local - 1 :
            LET x == jobs[k].nonce + t - f.StartNonce
            IN  jobs[k].cache[t] = [front |-> Address(f, x, scoop),
                                    back |-> Address(f, x, back)]

Hashed(k) == jobs[k].nonce .. jobs[k].nonce + jobs[k].cache_size_local - 1
OwnNonces(f) == f.StartNonce .. f.StartNonce + NoncesOf(f) - 1

\* A plot of whole staggers; or one that ends inside its first stagger, as
\* on a BFS drive, where the stagger is that of the drive, with whole blocks.
Whole(a, b) == \E q \in 0 .. a : a = q * b
WholePlot(f) ==
  \/ Whole(NoncesOf(f), f.Stagger)
  \/ NoncesOf(f) <= f.Stagger /\ Whole(NoncesOf(f), BlockSize(f))

\* No block goes past the nonces of a whole plot (the loop over i). As a block
\* is cut at the stagger only, a BFS plot that is not whole has one that goes
\* on into what follows the plot; it begins with a nonce of the plot.
OnlyOwnNonces ==
  \A k \in DOMAIN jobs :
    LET f == files[jobs[k].file]
    IN  \/ Hashed(k) \subseteq OwnNonces(f)
        \/ ~WholePlot(f) /\ (NoncesOf(f) <= f.Stagger => jobs[k].nonce \in OwnNonces(f))

\* No nonce of a plot is hashed twice in a round, and when the directory is
\* done without a stop or an error, every nonce of every usable plot was
\* hashed (n += stagger, i += cache_size_local).
EachNonceOnce ==
  /\ \A k, m \in DOMAIN jobs :
       k # m /\ jobs[k].file = jobs[m].file => Hashed(k) \cap Hashed(m) = {}
  /\ pc = "returned" /\ sche_runflag /\ faults = 0 =>
       \A f \in DOMAIN files :
         ~Skipped(files[f]) =>
           OwnNonces(files[f]) \subseteq
             UNION {Hashed(k) : k \in {m \in DOMAIN jobs : jobs[m].file = f}}

\* The scoops of the round are on the disk, up to the last nonce.
OnDisk(f) ==
  LET back == IF Converted(f) THEN NumScoops - 1 - scoop ELSE scoop
  IN  \A s \in {scoop, back} : Address(f, NoncesOf(f) - 1, s) < EndOfFile

\* Of a whole plot whose scoops of the round are on the disk, which a
\* truncated one may lack, every read lies inside the file and is aligned to
\* the sectors of the disk, as a handle without buffering demands, if the
\* chunks are whole sectors (start, MirrorStart, the rounding of
\* cache_size_local).
ReadsInsideFile ==
  /\ pc \in {"read front", "read back"}
  /\ WholePlot(file) /\ OnDisk(file) /\ readChunkSize % BytesPerSector(file) = 0
  => LET len == MinOf(readChunkSize, cache_size_local - bytes)
     IN  pos + len <= EndOfFile /\ Aligned(pos, len)

\* A reader that comes to the end of its loops, stopped or not, has sent the
\* units of all its blocks as progress (left_bytes). One that gives up, which
\* only a stop or a failure makes it do, has kept no more than ScanUnits back.
ProgressSent ==
  /\ sent + left_bytes = read /\ left_bytes <= ScanUnits
  /\ pc = "returned" => sent = read
  /\ pc = "given up" => ~sche_runflag \/ faults > 0

\* The reader comes to its end, with or without a stop, and so the round's
\* waiter is released: no file keeps it for ever.
ReaderReturns == <>(pc \in {"returned", "given up"})
=============================================================================

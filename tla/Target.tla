------------------------------- MODULE Target -------------------------------
(***************************************************************************)
(* s_height and s_dl of miner/scheduler.c: the height of the block that is *)
(* mined and the best deadline known for it, shared by the readers and the *)
(* hash threads of all workers without a lock.  A nonce is reported only   *)
(* when its deadline beats s_dl as the hash thread loaded it, so s_dl      *)
(* decides which results are never sent.                                   *)
(*                                                                         *)
(* A round is one call of OnNewMiningInfo: the readers of all workers run  *)
(* sche_runnew with its height and target, and the next round begins when  *)
(* they have all returned (module MinerRun).  Jobs of an old round may     *)
(* still be on job_list or being hashed when the next one begins (module   *)
(* Worker).  th_hash goes through the nonces of a block with a shrinking   *)
(* threshold, so it reports the best deadline d of the block exactly when  *)
(* d is below the target it was given, which it then lowers to d.          *)
(*                                                                         *)
(* None of this is locked.  overtaken is a history variable: the heights   *)
(* hit by one of three interleavings.  A hash thread loads s_dl for a job  *)
(* of the height between the two stores of a reset; it loads it for a job  *)
(* of an earlier round, of another height than s_height; or a reset to the *)
(* height comes between the tests and the store of a hash thread whose job *)
(* has another height.  The properties say that nothing else loses a       *)
(* result.                                                                 *)
(***************************************************************************)
EXTENDS Naturals, Sequences

CONSTANTS
    Worker,          \* the plot directories, one worker each
    Deadline,        \* the deadlines the model tells apart
    Rounds,          \* the rounds, each [height, target]
    MaxBlocks        \* bound: blocks each worker reads per round

ASSUME DeadlineAssumption == Deadline \subseteq Nat
Round == [height : Nat \ {0}, target : Nat]
ASSUME RoundsAssumption == Rounds \in Seq(Round)
ASSUME MaxBlocksAssumption == MaxBlocks \in Nat

VARIABLES
    round,           \* the round the readers work for; 0 before the first
    s_height, s_dl,  \* the two shared variables
    reader,          \* per worker: program counter of sche_runnew
    blocks,          \* per worker: blocks read in this round
    job,             \* per worker: the round of the job on job_list, 0 if none
    hasher,          \* per worker: program counter and locals of hash_thread
    reported,        \* history: <<round, deadline>> of every report
    silent,          \* history: <<round, deadline>> of every block that was
                     \* hashed and not reported
    overtaken        \* history: the heights that were overtaken by another

vars == <<round, s_height, s_dl, reader, blocks, job, hasher, reported, silent, overtaken>>

Height(r) == Rounds[r].height
TargetOf(r) == Rounds[r].target

HasherIdle == [pc |-> "top", round |-> 0, target_dl |-> 0]

Init == /\ round = 0
        /\ s_height = 0 /\ s_dl = 0
        /\ reader = [w \in Worker |-> "off"]
        /\ blocks = [w \in Worker |-> 0]
        /\ job = [w \in Worker |-> 0]
        /\ hasher = [w \in Worker |-> HasherIdle]
        /\ reported = {} /\ silent = {} /\ overtaken = {}

-----------------------------------------------------------------------------
(* OnNewMiningInfo starts the readers, each when it gets to run.           *)
NewRound == /\ round < Len(Rounds)
            /\ \A w \in Worker : reader[w] = "off"
            /\ round' = round + 1
            /\ reader' = [w \in Worker |-> "start"]
            /\ blocks' = [w \in Worker |-> 0]
            /\ UNCHANGED <<s_height, s_dl, job, hasher, reported, silent, overtaken>>

ReaderTo(w, pc) == reader' = [reader EXCEPT ![w] = pc]

(* if (s_height != height) { s_height = height; s_dl = target_dl; }        *)
NeedsReset(r) == s_height # Height(r)

Compare(w) ==
    /\ reader[w] = "start"
    /\ ReaderTo(w, IF NeedsReset(round) THEN "reset" ELSE "scan")
    /\ UNCHANGED <<round, s_height, s_dl, blocks, job, hasher, reported, silent, overtaken>>

SetHeightTo(w, pc) ==
    /\ reader[w] = "reset"
    /\ s_height' = Height(round)
    /\ overtaken' = IF \E v \in Worker : /\ hasher[v].pc = "store"
                                        /\ Height(hasher[v].round) # Height(round)
                 THEN overtaken \cup {Height(round)} ELSE overtaken
    /\ ReaderTo(w, pc)
    /\ UNCHANGED <<round, s_dl, blocks, job, hasher, reported, silent>>

(* (Faulty variant: s_dl is not reset with s_height.)                      *)
SetHeightOnly(w) == SetHeightTo(w, "scan")

SetHeight(w) == SetHeightTo(w, "setdl")

SetDl(w) ==
    /\ reader[w] = "setdl"
    /\ s_dl' = TargetOf(round)
    /\ ReaderTo(w, "scan")
    /\ UNCHANGED <<round, s_height, blocks, job, hasher, reported, silent, overtaken>>

(* A block is read and put on job_list.                                    *)
Scan(w) ==
    /\ reader[w] = "scan" /\ job[w] = 0 /\ blocks[w] < MaxBlocks
    /\ job' = [job EXCEPT ![w] = round]
    /\ blocks' = [blocks EXCEPT ![w] = @ + 1]
    /\ UNCHANGED <<round, s_height, s_dl, reader, hasher, reported, silent, overtaken>>

(* sche_runnew returns, at the end of its files or stopped.                *)
EndScan(w) ==
    /\ reader[w] = "scan"
    /\ ReaderTo(w, "off")
    /\ UNCHANGED <<round, s_height, s_dl, blocks, job, hasher, reported, silent, overtaken>>

(* A stopped hash thread moves the job back to idle_list, unhashed.        *)
DropJob(w) ==
    /\ hasher[w].pc = "top" /\ job[w] # 0
    /\ job' = [job EXCEPT ![w] = 0]
    /\ UNCHANGED <<round, s_height, s_dl, reader, blocks, hasher, reported, silent, overtaken>>

-----------------------------------------------------------------------------
NoResetUnderWay == \A v \in Worker : reader[v] # "setdl"

(* pjob->hasharg.target_dl = s_dl.  (Faulty variant: without a job.)       *)
LoadJob(w) ==
    /\ hasher' = [hasher EXCEPT ![w] = [pc |-> "hash", round |-> job[w], target_dl |-> s_dl]]
    /\ job' = [job EXCEPT ![w] = 0]
    /\ UNCHANGED <<round, s_height, s_dl, reader, blocks, reported, silent>>

LoadUnguarded(w) == hasher[w].pc = "top" /\ LoadJob(w) /\ UNCHANGED overtaken

LoadOvertaken(w) == ~NoResetUnderWay \/ (job[w] # round /\ Height(job[w]) # s_height)

Load(w) ==
    /\ hasher[w].pc = "top" /\ job[w] # 0
    /\ LoadJob(w)
    /\ overtaken' = IF LoadOvertaken(w) THEN overtaken \cup {Height(job[w])} ELSE overtaken

(* th_hash on a block whose best deadline is d.  (Faulty variant: it       *)
(* lowers the target without sending the report.)                          *)
ReportLost(r, d) == silent' = silent \cup {<<r, d>>} /\ UNCHANGED reported
Report(r, d) == reported' = reported \cup {<<r, d>>} /\ UNCHANGED silent
Beats(w, d) == d < hasher[w].target_dl

HashBlock(w) ==
    /\ hasher[w].pc = "hash"
    /\ \E d \in Deadline :
          IF Beats(w, d)
          THEN /\ Report(hasher[w].round, d)
               /\ hasher' = [hasher EXCEPT ![w].pc = "test", ![w].target_dl = d]
          ELSE /\ silent' = silent \cup {<<hasher[w].round, d>>}
               /\ hasher' = [hasher EXCEPT ![w].pc = "test"]
               /\ UNCHANGED reported
    /\ UNCHANGED <<round, s_height, s_dl, reader, blocks, job, overtaken>>

(* if (s_dl > target_dl && height == s_height) s_dl = target_dl: two loads *)
(* and a store.                                                            *)
TestDl(w) ==
    /\ hasher[w].pc = "test"
    /\ hasher' = [hasher EXCEPT ![w].pc = IF s_dl > hasher[w].target_dl THEN "height" ELSE "top"]
    /\ UNCHANGED <<round, s_height, s_dl, reader, blocks, job, reported, silent, overtaken>>

(* (Faulty variant: the heights are not compared.)                         *)
TestHeightSkipped(w) ==
    /\ hasher[w].pc = "height"
    /\ hasher' = [hasher EXCEPT ![w].pc = "store"]
    /\ UNCHANGED <<round, s_height, s_dl, reader, blocks, job, reported, silent, overtaken>>

TestHeight(w) ==
    /\ hasher[w].pc = "height"
    /\ hasher' = [hasher EXCEPT ![w].pc =
                     IF Height(hasher[w].round) = s_height THEN "store" ELSE "top"]
    /\ UNCHANGED <<round, s_height, s_dl, reader, blocks, job, reported, silent, overtaken>>

Store(w) ==
    /\ hasher[w].pc = "store"
    /\ s_dl' = hasher[w].target_dl
    /\ hasher' = [hasher EXCEPT ![w].pc = "top"]
    /\ UNCHANGED <<round, s_height, reader, blocks, job, reported, silent, overtaken>>

-----------------------------------------------------------------------------
ReaderStep(w) == Compare(w) \/ SetHeight(w) \/ SetDl(w) \/ Scan(w) \/ EndScan(w)
HasherStep(w) == DropJob(w) \/ Load(w) \/ HashBlock(w) \/ TestDl(w) \/ TestHeight(w) \/ Store(w)

Next == NewRound \/ \E w \in Worker : ReaderStep(w) \/ HasherStep(w)

Spec == Init /\ [][Next]_vars

-----------------------------------------------------------------------------
HasherState == [pc : {"top", "hash", "test", "height", "store"},
                round : 0..round, target_dl : Nat]

TypeOK ==
    /\ round \in 0..Len(Rounds)
    /\ s_height \in Nat /\ s_dl \in Nat
    /\ reader \in [Worker -> {"off", "start", "reset", "setdl", "scan"}]
    /\ blocks \in [Worker -> 0..MaxBlocks]
    /\ job \in [Worker -> 0..round]
    /\ hasher \in [Worker -> HasherState]
    /\ reported \subseteq (1..round) \X Deadline
    /\ silent \subseteq (1..round) \X Deadline
    /\ overtaken \subseteq Nat

(* A deadline of round r that need not be reported: it misses the target,  *)
(* or one as good was reported for the same round.                         *)
Justified(v, r) == v >= TargetOf(r) \/ \E e \in reported : e[1] = r /\ e[2] <= v

(* The same for a height, whose rounds share s_dl, unless it was overtaken *)
RightFor(v, h) == h \in overtaken \/ \E k \in 1..round : Height(k) = h /\ Justified(v, k)

(* No block that was hashed and not reported was better than the target of *)
(* its round and than all the reports of that round.  Rounds of one height *)
(* share s_dl: the code violates this (run target_same_height).            *)
NoBetterSuppressed == \A m \in silent : Justified(m[2], m[1])

(* A result is lost to the filter only by being overtaken: unless one of   *)
(* the three unlocked interleavings of scheduler.c:394-396 and 772-775 hit *)
(* its height, a block that was not reported, of whatever round and hashed *)
(* whenever, missed the target of a round of its height, or was no better  *)
(* than a deadline reported for one.                                       *)
OnlyOvertakenLost == \A m \in silent : RightFor(m[2], Height(m[1]))

(* Outside a reset s_dl belongs to s_height, and its copy in a hash thread *)
(* to the height of the job: it holds the target of a round of that height *)
(* or a deadline reported for one, or the height has been overtaken.  The  *)
(* store of a hash thread, and the jobs of the current round, find         *)
(* s_height at their own height, or the height they find is overtaken.     *)
FilterJustified ==
    /\ s_height # 0 /\ NoResetUnderWay => RightFor(s_dl, s_height)
    /\ \A w \in Worker :
          /\ reader[w] # "off" => round > 0
          /\ reader[w] \in {"setdl", "scan"} => s_height = Height(round)
          /\ job[w] = round /\ round > 0 => s_height = Height(round)
          /\ hasher[w].pc # "top" =>
                hasher[w].round > 0 /\ RightFor(hasher[w].target_dl, Height(hasher[w].round))
          /\ hasher[w].pc = "store" =>
                Height(hasher[w].round) = s_height \/ s_height \in overtaken
=============================================================================

------------------------------ MODULE MinerRun ------------------------------
(***************************************************************************)
(* How the calls of OnNewMiningInfo, one goroutine for every new block,    *)
(* and Close take turns (miner_em.go): each clears sche_runflag so that    *)
(* the run in progress ends early, then waits for closedch, a channel of   *)
(* capacity 1 used as a lock.  The one that gets it sets the flag again,   *)
(* starts one sche_runnew per worker, and waits for all of them on         *)
(* wait_chs.  The flag is one plain int for everybody.                     *)
(*                                                                         *)
(* Caller 0 is Close, the others are numbered in the order in which        *)
(* GetNewMiningInfo starts them.  A worker is reduced to what it does with *)
(* sche_runflag and thread_stop; module Worker has the rest.               *)
(***************************************************************************)
EXTENDS Naturals, Sequences, FiniteSets

CONSTANTS
    NWorker,         \* len(m.paths)
    MaxCalls,        \* bound: new blocks
    MaxBlocks,       \* bound: blocks one sche_runnew has to read
    Closes           \* may Close be called?

ASSUME NWorkerAssumption == NWorker \in Nat
ASSUME BoundsAssumption == MaxCalls \in Nat /\ MaxBlocks \in Nat
ASSUME ScenarioAssumption == Closes \in BOOLEAN

Worker == 0..NWorker-1
Call   == 1..MaxCalls
Caller == 0..MaxCalls

VARIABLES
    runflag,         \* sche_runflag
    full,            \* closedch: is its one place taken?
    senders,         \* closedch: the goroutines blocked in their send, oldest first
    closed,          \* closedch was closed
    wait_chs,        \* the channel of that name: <<call, worker>>
    arrived,         \* calls started so far
    call,            \* program counter of each caller
    waited,          \* results the call that holds closedch has received
    scan,            \* program counter of each sche_runnew goroutine
    left,            \* per worker: blocks still to be read
    job,             \* per worker: is there a job on job_list?
    hash,            \* per worker: program counter of hash_thread
    cancel           \* per worker: was thread_stop called?

callVars == <<arrived, call, waited>>
chanVars == <<full, senders, closed>>
workVars == <<left, job, hash, cancel>>
vars == <<runflag, chanVars, wait_chs, callVars, scan, workVars>>

Init == /\ runflag = FALSE
        /\ full = FALSE /\ senders = <<>> /\ closed = FALSE
        /\ wait_chs = <<>>
        /\ arrived = 0 /\ waited = 0
        /\ call = [c \in Caller |-> "none"]
        /\ scan = [c \in Call |-> [w \in Worker |-> "none"]]
        /\ left = [w \in Worker |-> 0]
        /\ job = [w \in Worker |-> FALSE]
        /\ hash = [w \in Worker |-> "top"]
        /\ cancel = [w \in Worker |-> FALSE]

-----------------------------------------------------------------------------
CallTo(c, pc) == call' = [call EXCEPT ![c] = pc]
Entered(c) == IF c = 0 THEN "stop" ELSE "set"

(* GetNewMiningInfo starts the goroutine; shutdown calls Close.            *)
Arrive == /\ arrived < MaxCalls
          /\ arrived' = arrived + 1
          /\ CallTo(arrived + 1, "clear")
          /\ UNCHANGED <<runflag, chanVars, wait_chs, waited, scan, workVars>>

Close == /\ Closes /\ call[0] = "none"
         /\ CallTo(0, "clear")
         /\ UNCHANGED <<runflag, chanVars, wait_chs, arrived, waited, scan, workVars>>

(* ScheSetRunFlag(0).  (Faulty variant: left out.)                         *)
ClearFlagNone(c) == /\ call[c] = "clear"
                    /\ CallTo(c, "send")
                    /\ UNCHANGED <<runflag, chanVars, wait_chs, arrived, waited, scan, workVars>>

ClearFlag(c) == /\ call[c] = "clear"
                /\ runflag' = FALSE
                /\ CallTo(c, "send")
                /\ UNCHANGED <<chanVars, wait_chs, arrived, waited, scan, workVars>>

(* m.closedch <- struct{}{}: blocks while the place is taken, panics (and  *)
(* is recovered) on a closed channel.  (Faulty variant: the channel has no *)
(* limit.)                                                                 *)
SendUnlimited(c) == /\ call[c] = "send"
                    /\ full' = TRUE /\ CallTo(c, Entered(c))
                    /\ UNCHANGED <<runflag, senders, closed, wait_chs, arrived, waited,
                                   scan, workVars>>
Send(c) ==
    /\ call[c] = "send"
    /\ \/ closed /\ CallTo(c, "panicked") /\ UNCHANGED <<full, senders>>
       \/ ~closed /\ ~full /\ full' = TRUE /\ CallTo(c, Entered(c)) /\ UNCHANGED senders
       \/ ~closed /\ full /\ senders' = Append(senders, c) /\ CallTo(c, "queued")
                  /\ UNCHANGED full
    /\ UNCHANGED <<runflag, closed, wait_chs, arrived, waited, scan, workVars>>

(* ScheSetRunFlag(1), then one goroutine per worker.                       *)
SetFlag(c) == /\ call[c] = "set"
              /\ runflag' = TRUE
              /\ CallTo(c, "spawn")
              /\ UNCHANGED <<chanVars, wait_chs, arrived, waited, scan, workVars>>

Spawn(c) == /\ call[c] = "spawn"
            /\ scan' = [scan EXCEPT ![c] = [w \in Worker |-> "new"]]
            /\ waited' = 0
            /\ CallTo(c, "collect")
            /\ UNCHANGED <<runflag, chanVars, wait_chs, arrived, workVars>>

(* <-m.wait_chs, len(m.paths) times.  (Faulty variant: once too few.)      *)
AllWaitedShort == waited + 1 >= NWorker
AllWaited == waited = NWorker

Collect(c) == /\ call[c] = "collect"
              /\ ~AllWaited /\ wait_chs # <<>>
              /\ wait_chs' = Tail(wait_chs)
              /\ waited' = waited + 1
              /\ UNCHANGED <<runflag, chanVars, arrived, call, scan, workVars>>

(* <-m.closedch: the oldest blocked sender takes the place.  (A closed     *)
(* channel would let everybody pass, but it is closed only by its holder.) *)
(* (Faulty variant: the holder forgets to receive.)                        *)
ReleaseKept(c) ==
    /\ call[c] = "collect" /\ AllWaited
    /\ CallTo(c, "done")
    /\ UNCHANGED <<runflag, chanVars, wait_chs, arrived, waited, scan, workVars>>

Release(c) ==
    /\ call[c] = "collect" /\ AllWaited
    /\ IF senders = <<>>
       THEN full' = FALSE /\ CallTo(c, "done") /\ UNCHANGED senders
       ELSE /\ call' = [call EXCEPT ![c] = "done", ![Head(senders)] = Entered(Head(senders))]
            /\ senders' = Tail(senders)
            /\ UNCHANGED full
    /\ UNCHANGED <<runflag, closed, wait_chs, arrived, waited, scan, workVars>>

-----------------------------------------------------------------------------
(* sche_runnew, called by the goroutine of call c and worker w.            *)
ScanTo(c, w, pc) == scan' = [scan EXCEPT ![c][w] = pc]

ScanBegin(c, w) ==
    /\ scan[c][w] = "new"
    /\ ScanTo(c, w, "read")
    /\ \E n \in 0..MaxBlocks : left' = [left EXCEPT ![w] = n]
    /\ UNCHANGED <<runflag, chanVars, wait_chs, callVars, job, hash, cancel>>

(* A block is read and put on job_list, when there is room for it.         *)
(* (Faulty variant: the loop goes on at its end.)                          *)
ScanReadBeyond(c, w) ==
    /\ scan[c][w] = "read" /\ runflag /\ ~job[w]
    /\ job' = [job EXCEPT ![w] = TRUE]
    /\ left' = [left EXCEPT ![w] = @ - 1]
    /\ UNCHANGED <<runflag, chanVars, wait_chs, callVars, scan, hash, cancel>>

ScanRead(c, w) ==
    /\ scan[c][w] = "read" /\ runflag /\ left[w] > 0 /\ ~job[w]
    /\ job' = [job EXCEPT ![w] = TRUE]
    /\ left' = [left EXCEPT ![w] = @ - 1]
    /\ UNCHANGED <<runflag, chanVars, wait_chs, callVars, scan, hash, cancel>>

(* All loops of sche_runnew end when the flag is clear.                    *)
ScanEnd(c, w) ==
    /\ scan[c][w] = "read" /\ (left[w] = 0 \/ ~runflag)
    /\ ScanTo(c, w, "send")
    /\ UNCHANGED <<runflag, chanVars, wait_chs, callVars, workVars>>

(* m.wait_chs <- i                                                         *)
ScanSend(c, w) ==
    /\ scan[c][w] = "send" /\ Len(wait_chs) < NWorker
    /\ wait_chs' = Append(wait_chs, <<c, w>>)
    /\ ScanTo(c, w, "done")
    /\ UNCHANGED <<runflag, chanVars, callVars, workVars>>

-----------------------------------------------------------------------------
(* hash_thread: the test for cancel, the wait, the test of the flag, and   *)
(* then the job is hashed or given back.                                   *)
HashTo(w, pc) == hash' = [hash EXCEPT ![w] = pc]

HashTop(w) == /\ hash[w] = "top"
              /\ HashTo(w, IF cancel[w] THEN "exited" ELSE "poll")
              /\ UNCHANGED <<runflag, chanVars, wait_chs, callVars, scan, left, job, cancel>>

HashPoll(w) == /\ hash[w] = "poll"
               /\ job[w] \/ ~runflag
               /\ HashTo(w, "test")
               /\ UNCHANGED <<runflag, chanVars, wait_chs, callVars, scan, left, job, cancel>>

HashJob(w) == /\ hash[w] = "test"
              /\ job' = [job EXCEPT ![w] = FALSE]
              /\ HashTo(w, "top")
              /\ UNCHANGED <<runflag, chanVars, wait_chs, callVars, scan, left, cancel>>

-----------------------------------------------------------------------------
(* sche_cleanup: for each worker in turn thread_stop, then thread_destroy, *)
(* which joins the hash thread.                                            *)
Cleaned(w) == cancel[w] /\ hash[w] = "exited"

StopHash(w) == /\ call[0] = "stop"
               /\ ~cancel[w] /\ \A v \in 0..w-1 : Cleaned(v)
               /\ cancel' = [cancel EXCEPT ![w] = TRUE]
               /\ UNCHANGED <<runflag, chanVars, wait_chs, callVars, scan, left, job, hash>>

(* close(m.wait_chs), close(m.closedch): blocked senders panic.            *)
CloseChannels ==
    /\ call[0] = "stop" /\ \A w \in Worker : Cleaned(w)
    /\ closed' = TRUE /\ senders' = <<>>
    /\ call' = [c \in Caller |-> IF c = 0 THEN "done"
                                 ELSE IF call[c] = "queued" THEN "panicked" ELSE call[c]]
    /\ UNCHANGED <<runflag, full, wait_chs, arrived, waited, scan, workVars>>

-----------------------------------------------------------------------------
CallStep(c) == ClearFlag(c) \/ Send(c) \/ SetFlag(c) \/ Spawn(c) \/ Collect(c) \/ Release(c)
ScanStep(c, w) == ScanBegin(c, w) \/ ScanRead(c, w) \/ ScanEnd(c, w) \/ ScanSend(c, w)
HashStep(w) == HashTop(w) \/ HashPoll(w) \/ HashJob(w)
CloseStep == CloseChannels \/ \E w \in Worker : StopHash(w)

(* Close has closedch while the flag is set: a hash thread without a job   *)
(* then waits on, without a look at thread_stop, and Close waits for it.   *)
Stuck == call[0] = "stop" /\ runflag

(* Nothing more to do but for hash threads that wait; or Close waits for a *)
(* hash thread that waits for a job.                                       *)
Quiet == /\ \/ \A c \in Caller : call[c] \in {"none", "done", "panicked"}
            \/ Stuck /\ \E w \in Worker : cancel[w] /\ hash[w] = "poll" /\ ~job[w]
         /\ UNCHANGED vars

Next == \/ Arrive \/ Close \/ CloseStep \/ Quiet
        \/ \E c \in Caller : CallStep(c)
        \/ \E c \in Call, w \in Worker : ScanStep(c, w)
        \/ \E w \in Worker : HashStep(w)

(* Goroutines and threads all get to run; blocks arrive and Close is       *)
(* called, or not.                                                         *)
Fairness == /\ \A c \in Caller : WF_vars(CallStep(c))
            /\ \A c \in Call, w \in Worker : WF_vars(ScanStep(c, w))
            /\ \A w \in Worker : WF_vars(HashStep(w))
            /\ WF_vars(CloseStep)

Spec == Init /\ [][Next]_vars /\ Fairness

-----------------------------------------------------------------------------
CallPoint == {"none", "clear", "send", "queued", "set", "spawn", "collect", "stop",
              "done", "panicked"}

TypeOK ==
    /\ runflag \in BOOLEAN /\ full \in BOOLEAN /\ closed \in BOOLEAN
    /\ senders \in Seq(Caller)
    /\ wait_chs \in Seq(Call \X Worker) /\ Len(wait_chs) <= NWorker
    /\ arrived \in 0..MaxCalls /\ waited \in 0..NWorker
    /\ call \in [Caller -> CallPoint]
    /\ scan \in [Call -> [Worker -> {"none", "new", "read", "send", "done"}]]
    /\ left \in [Worker -> 0..MaxBlocks]
    /\ job \in [Worker -> BOOLEAN]
    /\ hash \in [Worker -> {"top", "poll", "test", "exited"}]
    /\ cancel \in [Worker -> BOOLEAN]

Holds(c) == call[c] \in {"set", "spawn", "collect", "stop"}
Running(c) == c # 0 /\ \E w \in Worker : scan[c][w] \notin {"none", "done"}

(* The lock works: of all callers at most one is between its send to       *)
(* closedch and its receive, and goroutines of sche_runnew run only for    *)
(* that one.  So each worker has one reader at a time, as its rings need   *)
(* (module RBuff), and sche_cleanup frees no worker that is still read.    *)
Exclusive ==
    /\ \A c, d \in Caller : Holds(c) /\ Holds(d) => c = d
    /\ \A c, d \in Caller : Holds(c) /\ Running(d) => c = d /\ call[c] = "collect"
    /\ \A c \in Caller : Running(c) => Holds(c)

(* A call receives from wait_chs only what its own goroutines sent.        *)
OwnResults ==
    \A i \in 1..Len(wait_chs) : call[wait_chs[i][1]] = "collect"

(* A caller that is ahead of Close sets the flag which Close has cleared.  *)
Overtaken == call[0] \in {"send", "queued"} /\ \E c \in Call : call[c] = "set"

(* Every call comes to an end: it mined its block, was stopped by a newer  *)
(* one, or panicked on the closed channel; except behind a Close that is   *)
(* stuck for good.                                                         *)
CallsEnd ==
    \A c \in Call : call[c] = "clear" ~> (call[c] \in {"done", "panicked"} \/ []Stuck)

(* Close returns, unless a caller that was ahead of it set the flag again  *)
(* after Close had cleared it; and even then it comes to hold closedch and *)
(* returns as soon as the flag is clear, as the next new block makes it.   *)
CloseReturns == /\ call[0] = "clear" ~> (call[0] = "done" \/ Overtaken)
                /\ call[0] = "clear" ~> (call[0] = "done" \/ []Stuck)

=============================================================================

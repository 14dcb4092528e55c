--------------------------- MODULE MinerRunProofs ---------------------------
(***************************************************************************)
(* Proofs about MinerRun for any number of workers, of new blocks and of   *)
(* blocks to read, and for every moment at which Close may be called.      *)
(***************************************************************************)
EXTENDS MinerRun, FiniteSetTheorems, TLAPS

(* Calls that have not arrived do nothing.                                 *)
Fresh == \A c \in Call : c > arrived => call[c] = "none"

(* Only Close stops the workers, and only the others run them.             *)
Roles == /\ call[0] \notin {"set", "spawn", "collect"}
         /\ \A c \in Call : call[c] # "stop"

(* closedch as a lock: its place is taken while somebody holds it, and the *)
(* blocked senders are waiting, each once.                                 *)
Lock == /\ \A c, d \in Caller : Holds(c) /\ Holds(d) => c = d
        /\ \A c \in Caller : Holds(c) => full
        /\ \A i \in 1..Len(senders) : call[senders[i]] = "queued"
        /\ \A i, j \in 1..Len(senders) : senders[i] = senders[j] => i = j

(* The goroutines of a call live while it collects their results.          *)
Scans == \A c \in Call, w \in Worker :
            /\ scan[c][w] # "none" => call[c] \in {"collect", "done"}
            /\ scan[c][w] \in {"new", "read", "send"} => call[c] = "collect"

(* A result is either still in the channel or was received: this is why a  *)
(* call that has received one for each worker has no goroutine left.       *)
Finished(c) == {w \in Worker : scan[c][w] = "done"}
Count == /\ \A c \in Call : call[c] = "collect" =>
               waited + Len(wait_chs) = Cardinality(Finished(c))
         /\ (\A c \in Call : call[c] # "collect") => wait_chs = <<>>

IInv == TypeOK /\ Fresh /\ Roles /\ Lock /\ Scans /\ Count /\ OwnResults

LEMMA Ranges == /\ NWorker \in Nat /\ MaxCalls \in Nat /\ MaxBlocks \in Nat
                /\ Call \subseteq Caller /\ 0 \in Caller /\ 0 \notin Call
                /\ \A c \in Caller : c # 0 => c \in Call
BY NWorkerAssumption, BoundsAssumption DEF Call, Caller

LEMMA Workers == /\ IsFiniteSet(Worker) /\ Cardinality(Worker) = NWorker
<1>1. IsFiniteSet(0..NWorker-1)
      /\ Cardinality(0..NWorker-1) = IF 0 > NWorker-1 THEN 0 ELSE NWorker-1-0+1
  BY NWorkerAssumption, FS_Interval
<1> QED BY <1>1, NWorkerAssumption DEF Worker

LEMMA InitIInv == Init => IInv
<1> SUFFICES ASSUME Init PROVE IInv
  OBVIOUS
<1>1. TypeOK
  <2>1. senders \in Seq(Caller) /\ wait_chs \in Seq(Call \X Worker) /\ Len(wait_chs) = 0
    BY DEF Init
  <2>2. scan \in [Call -> [Worker -> {"none", "new", "read", "send", "done"}]]
    BY DEF Init
  <2>3. call \in [Caller -> CallPoint]
    BY DEF Init, CallPoint
  <2>4. left \in [Worker -> 0..MaxBlocks] /\ job \in [Worker -> BOOLEAN]
        /\ hash \in [Worker -> {"top", "poll", "test", "exited"}] /\ cancel \in [Worker -> BOOLEAN]
    BY Ranges DEF Init
  <2>5. arrived \in 0..MaxCalls /\ waited \in 0..NWorker /\ Len(wait_chs) <= NWorker
    BY <2>1, Ranges DEF Init
  <2> QED BY <2>1, <2>2, <2>3, <2>4, <2>5 DEF Init, TypeOK
<1>2. Fresh /\ Roles /\ Lock /\ Scans /\ Count /\ OwnResults
  BY Ranges DEF Init, Fresh, Roles, Lock, Scans, Count, OwnResults, Holds
<1> QED BY <1>1, <1>2 DEF IInv

-----------------------------------------------------------------------------
(* Types.                                                                  *)
LEMMA NextTypeOK == IInv /\ [Next]_vars => TypeOK'
<1> SUFFICES ASSUME IInv, [Next]_vars PROVE TypeOK'
  OBVIOUS
<1>t. TypeOK /\ Roles
  BY DEF IInv
<1> USE Ranges
<1>1. CASE Arrive
  <2>1. arrived' \in 0..MaxCalls /\ call' \in [Caller -> CallPoint]
    BY <1>1, <1>t DEF Arrive, CallTo, TypeOK, CallPoint, Caller
  <2> QED BY <1>1, <1>t, <2>1 DEF Arrive, TypeOK, chanVars, workVars
<1>2. CASE Close
  BY <1>2, <1>t DEF Close, CallTo, TypeOK, chanVars, workVars, CallPoint
<1>3. ASSUME NEW c \in Caller, ClearFlag(c) PROVE TypeOK'
  BY <1>3, <1>t DEF ClearFlag, CallTo, TypeOK, chanVars, workVars, CallPoint
<1>4. ASSUME NEW c \in Caller, Send(c) PROVE TypeOK'
  <2>1. call' \in [Caller -> CallPoint]
    BY <1>4, <1>t DEF Send, CallTo, Entered, TypeOK, CallPoint
  <2>2. full' \in BOOLEAN
    <3>1. full' = full \/ full' = TRUE
      BY <1>4 DEF Send
    <3> QED BY <1>t, <3>1 DEF TypeOK
  <2>3. senders' = senders \/ senders' = Append(senders, c)
    BY <1>4 DEF Send
  <2>4. senders' \in Seq(Caller)
    <3>1. senders \in Seq(Caller)
      BY <1>t DEF TypeOK
    <3> QED BY <2>3, <3>1
  <2>5. UNCHANGED <<runflag, closed, wait_chs, arrived, waited, scan, left, job, hash, cancel>>
    BY <1>4 DEF Send, workVars
  <2> QED BY <1>t, <2>1, <2>2, <2>4, <2>5 DEF TypeOK
<1>5. ASSUME NEW c \in Caller, SetFlag(c) PROVE TypeOK'
  BY <1>5, <1>t DEF SetFlag, CallTo, TypeOK, chanVars, workVars, CallPoint
<1>6. ASSUME NEW c \in Caller, Spawn(c) PROVE TypeOK'
  <2>1. c \in Call
    BY <1>6, <1>t DEF Spawn, Roles
  <2>2. scan' \in [Call -> [Worker -> {"none", "new", "read", "send", "done"}]]
    BY <1>6, <1>t, <2>1 DEF Spawn, TypeOK
  <2> QED BY <1>6, <1>t, <2>2 DEF Spawn, CallTo, TypeOK, chanVars, workVars, CallPoint
<1>7. ASSUME NEW c \in Caller, Collect(c) PROVE TypeOK'
  <2>1. waited' \in 0..NWorker
    BY <1>7, <1>t DEF Collect, AllWaited, TypeOK
  <2>2. wait_chs' \in Seq(Call \X Worker) /\ Len(wait_chs') <= NWorker
    BY <1>7, <1>t DEF Collect, TypeOK
  <2> QED BY <1>7, <1>t, <2>1, <2>2 DEF Collect, TypeOK, chanVars, workVars
<1>8. ASSUME NEW c \in Caller, Release(c) PROVE TypeOK'
  <2>1. senders # <<>> => Head(senders) \in Caller /\ Tail(senders) \in Seq(Caller)
    BY <1>t DEF TypeOK
  <2>2. full' \in BOOLEAN /\ senders' \in Seq(Caller) /\ call' \in [Caller -> CallPoint]
    BY <1>8, <1>t, <2>1 DEF Release, CallTo, Entered, TypeOK, CallPoint
  <2> QED BY <1>8, <1>t, <2>2 DEF Release, TypeOK, workVars
<1>9. ASSUME NEW c \in Call, NEW w \in Worker, ScanStep(c, w) PROVE TypeOK'
  <2>1. CASE ScanBegin(c, w)
    BY <2>1, <1>t DEF ScanBegin, ScanTo, TypeOK, chanVars, callVars
  <2>2. CASE ScanRead(c, w)
    BY <2>2, <1>t DEF ScanRead, TypeOK, chanVars, callVars
  <2>3. CASE ScanEnd(c, w)
    BY <2>3, <1>t DEF ScanEnd, ScanTo, TypeOK, chanVars, callVars, workVars
  <2>4. CASE ScanSend(c, w)
    <3>1. wait_chs' \in Seq(Call \X Worker) /\ Len(wait_chs') <= NWorker
      BY <2>4, <1>t DEF ScanSend, TypeOK
    <3> QED BY <2>4, <1>t, <3>1 DEF ScanSend, ScanTo, TypeOK, chanVars, callVars, workVars
  <2> QED BY <1>9, <2>1, <2>2, <2>3, <2>4 DEF ScanStep
<1>10. ASSUME NEW w \in Worker, HashStep(w) PROVE TypeOK'
  BY <1>10, <1>t DEF HashStep, HashTop, HashPoll, HashJob, HashTo, TypeOK, chanVars, callVars
<1>11. CASE CloseStep
  <2>1. CASE CloseChannels
    <3>1. call' \in [Caller -> CallPoint] /\ senders' \in Seq(Caller)
      BY <2>1, <1>t DEF CloseChannels, TypeOK, CallPoint
    <3> QED BY <2>1, <1>t, <3>1 DEF CloseChannels, TypeOK, workVars
  <2>2. ASSUME NEW w \in Worker, StopHash(w) PROVE TypeOK'
    BY <2>2, <1>t DEF StopHash, TypeOK, chanVars, callVars
  <2> QED BY <1>11, <2>1, <2>2 DEF CloseStep
<1>12. CASE UNCHANGED vars
  BY <1>12, <1>t DEF vars, TypeOK, chanVars, callVars, workVars
<1> QED BY <1>1, <1>2, <1>3, <1>4, <1>5, <1>6, <1>7, <1>8, <1>9, <1>10, <1>11, <1>12
        DEF Next, CallStep, Quiet

-----------------------------------------------------------------------------
(* The lock.  A step touches it through call, full and senders only.       *)
lockVars == <<call, full, senders>>

LEMMA LockUntouched ==
    ASSUME Roles, Lock, UNCHANGED lockVars
    PROVE  Roles' /\ Lock'
BY DEF Roles, Lock, lockVars, Holds

(* A caller that does not hold closedch, before and after, and is not one  *)
(* of the blocked senders.                                                 *)
LEMMA LockBystander ==
    ASSUME TypeOK, Roles, Lock, NEW c \in Caller, NEW pc, CallTo(c, pc),
           UNCHANGED <<full, senders>>, call[c] # "queued",
           pc \notin {"set", "spawn", "collect", "stop"}
    PROVE  Roles' /\ Lock'
<1>1. \A d \in Caller : d # c => call'[d] = call[d]
  BY DEF CallTo, TypeOK
<1>2. call'[c] = pc
  BY DEF CallTo, TypeOK
<1>3. \A i \in 1..Len(senders) : senders[i] \in Caller /\ senders[i] # c
  BY DEF TypeOK, Lock
<1>4. Roles'
  BY <1>1, <1>2, Ranges DEF Roles
<1>5. Lock'
  BY <1>1, <1>2, <1>3 DEF Lock, Holds
<1> QED BY <1>4, <1>5

(* The holder stays the holder.                                            *)
LEMMA LockHeld ==
    ASSUME TypeOK, Roles, Lock, NEW c \in Caller, NEW pc \in {"spawn", "collect"}, CallTo(c, pc),
           UNCHANGED <<full, senders>>, Holds(c), c # 0
    PROVE  Roles' /\ Lock'
<1>1. \A d \in Caller : d # c => call'[d] = call[d]
  BY DEF CallTo, TypeOK
<1>2. call'[c] = pc
  BY DEF CallTo, TypeOK
<1>3. \A i \in 1..Len(senders) : senders[i] \in Caller /\ senders[i] # c
  BY DEF TypeOK, Lock, Holds
<1>4. Roles'
  BY <1>1, <1>2, Ranges DEF Roles
<1>5. \A d \in Caller : Holds(d)' <=> Holds(d)
  BY <1>1, <1>2 DEF Holds
<1>6. Lock'
  BY <1>1, <1>3, <1>5 DEF Lock
<1> QED BY <1>4, <1>6

LEMMA NextLock == IInv /\ [Next]_vars => Roles' /\ Lock'
<1> SUFFICES ASSUME IInv, [Next]_vars PROVE Roles' /\ Lock'
  OBVIOUS
<1>t. TypeOK /\ Fresh /\ Roles /\ Lock
  BY DEF IInv
<1> USE Ranges
<1>1. CASE Arrive
  <2>1. arrived + 1 \in Call
    BY <1>1, <1>t DEF Arrive, TypeOK, Call
  <2>2. call[arrived + 1] = "none"
    BY <1>t, <2>1 DEF Fresh, TypeOK
  <2> QED BY <1>1, <1>t, <2>1, <2>2, LockBystander DEF Arrive, chanVars
<1>2. CASE Close
  BY <1>2, <1>t, LockBystander DEF Close, chanVars
<1>3. ASSUME NEW c \in Caller, ClearFlag(c) PROVE Roles' /\ Lock'
  BY <1>3, <1>t, LockBystander DEF ClearFlag, chanVars
<1>4. ASSUME NEW c \in Caller, Send(c) PROVE Roles' /\ Lock'
  <2>1. CASE closed
    BY <1>4, <1>t, <2>1, LockBystander DEF Send
  <2>2. CASE ~closed /\ ~full
    <3>1. full' /\ CallTo(c, Entered(c)) /\ senders' = senders /\ call[c] = "send"
      BY <1>4, <2>2 DEF Send
    <3>2. call' = [call EXCEPT ![c] = Entered(c)] /\ Entered(c) \in {"set", "stop"}
      BY <3>1 DEF CallTo, Entered
    <3>3. \A d \in Caller : d # c => call'[d] = call[d] /\ ~Holds(d)
      BY <1>t, <2>2, <3>2 DEF TypeOK, Lock
    <3>4. call'[c] = Entered(c)
      BY <1>t, <3>2 DEF TypeOK
    <3>5. Roles'
      BY <1>t, <3>3, <3>4 DEF Roles, Entered
    <3>6. \A i \in 1..Len(senders) : senders[i] \in Caller /\ senders[i] # c
      BY <1>t, <3>1 DEF TypeOK, Lock
    <3>7. \A d \in Caller : Holds(d)' => d = c
      BY <3>3 DEF Holds
    <3>8. Lock'
      BY <1>t, <3>1, <3>3, <3>6, <3>7 DEF Lock
    <3> QED BY <3>5, <3>8
  <2>3. CASE ~closed /\ full
    <3>1. call' = [call EXCEPT ![c] = "queued"] /\ senders' = Append(senders, c)
          /\ full' = full /\ call[c] = "send"
      BY <1>4, <2>3 DEF Send, CallTo
    <3>2. \A d \in Caller : d # c => call'[d] = call[d]
      BY <1>t, <3>1 DEF TypeOK
    <3>3. call'[c] = "queued"
      BY <1>t, <3>1 DEF TypeOK
    <3>4. Roles'
      BY <1>t, <3>2, <3>3 DEF Roles
    <3>5. \A d \in Caller : Holds(d)' <=> Holds(d)
      BY <3>1, <3>2, <3>3 DEF Holds
    <3>6. /\ Len(senders') = Len(senders) + 1 /\ Len(senders) \in Nat
          /\ senders'[Len(senders) + 1] = c
          /\ \A i \in 1..Len(senders) : senders'[i] = senders[i]
      BY <1>t, <3>1 DEF TypeOK
    <3>7. \A i \in 1..Len(senders) : senders[i] \in Caller /\ senders[i] # c
      BY <1>t, <3>1 DEF TypeOK, Lock
    <3>8. \A i \in 1..Len(senders') : i \in 1..Len(senders) \/ i = Len(senders) + 1
      BY <3>6
    <3>9. \A i \in 1..Len(senders') : call'[senders'[i]] = "queued"
      BY <1>t, <3>2, <3>3, <3>6, <3>7, <3>8 DEF Lock
    <3>10. \A i, j \in 1..Len(senders') : senders'[i] = senders'[j] => i = j
      BY <1>t, <3>6, <3>7, <3>8 DEF Lock
    <3>11. Lock'
      BY <1>t, <3>1, <3>5, <3>9, <3>10 DEF Lock
    <3> QED BY <3>4, <3>11
  <2> QED BY <1>t, <2>1, <2>2, <2>3 DEF TypeOK
<1>5. ASSUME NEW c \in Caller, SetFlag(c) PROVE Roles' /\ Lock'
  BY <1>5, <1>t, LockHeld DEF SetFlag, chanVars, Holds, Roles
<1>6. ASSUME NEW c \in Caller, Spawn(c) PROVE Roles' /\ Lock'
  BY <1>6, <1>t, LockHeld DEF Spawn, chanVars, Holds, Roles
<1>7. ASSUME NEW c \in Caller, Collect(c) PROVE Roles' /\ Lock'
  BY <1>7, <1>t, LockUntouched DEF Collect, chanVars, lockVars
<1>8. ASSUME NEW c \in Caller, Release(c) PROVE Roles' /\ Lock'
  <2>1. Holds(c) /\ call[c] = "collect"
    BY <1>8 DEF Release, Holds
  <2>2. \A d \in Caller : d # c => ~Holds(d)
    BY <1>t, <2>1 DEF Lock
  <2>3. CASE senders = <<>>
    <3>1. call' = [call EXCEPT ![c] = "done"] /\ senders' = senders
      BY <1>8, <2>3 DEF Release, CallTo
    <3>2. call'[c] = "done" /\ \A d \in Caller : d # c => call'[d] = call[d]
      BY <1>t, <3>1 DEF TypeOK
    <3>3. \A d \in Caller : ~Holds(d)'
      BY <2>2, <3>2 DEF Holds
    <3> QED BY <1>t, <2>3, <3>1, <3>2, <3>3 DEF Roles, Lock
  <2>4. CASE senders # <<>>
    <3> DEFINE h == Head(senders)
    <3>1. call' = [call EXCEPT ![c] = "done", ![h] = Entered(h)]
          /\ senders' = Tail(senders) /\ full' = full
      BY <1>8, <2>4 DEF Release
    <3>2. /\ Len(senders) \in Nat \ {0} /\ h = senders[1] /\ h \in Caller
          /\ Len(senders') = Len(senders) - 1
          /\ \A i \in 1..Len(senders') : senders'[i] = senders[i + 1]
      BY <1>t, <2>4, <3>1 DEF TypeOK
    <3>3. call[h] = "queued" /\ h # c
      BY <1>t, <2>1, <3>2 DEF Lock
    <3>4. call'[c] = "done" /\ call'[h] = Entered(h)
          /\ \A d \in Caller : d # c /\ d # h => call'[d] = call[d]
      BY <1>t, <3>1, <3>2, <3>3 DEF TypeOK
    <3>5. Roles'
      BY <1>t, <3>4 DEF Roles, Entered
    <3>6. \A d \in Caller : Holds(d)' => d = h
      BY <2>2, <3>4 DEF Holds
    <3>7. full'
      BY <1>t, <2>1, <3>1 DEF Lock
    <3>8. \A i \in 1..Len(senders') :
             senders'[i] \in Caller /\ senders'[i] # h /\ call[senders'[i]] = "queued"
      <4>1. \A i \in 1..Len(senders') : i + 1 \in 1..Len(senders) /\ 1 \in 1..Len(senders) /\ i + 1 # 1
        BY <3>2
      <4>2. \A i \in 1..Len(senders) : senders[i] \in Caller
        BY <1>t DEF TypeOK
      <4> QED BY <1>t, <3>2, <4>1, <4>2 DEF Lock
    <3>9. \A i \in 1..Len(senders') : call'[senders'[i]] = "queued"
      BY <2>1, <3>4, <3>8
    <3>10. \A i, j \in 1..Len(senders') : senders'[i] = senders'[j] => i = j
      <4> TAKE i, j \in 1..Len(senders')
      <4>1. i + 1 \in 1..Len(senders) /\ j + 1 \in 1..Len(senders) /\ i \in Int /\ j \in Int
        BY <3>2
      <4>2. senders[i + 1] = senders[j + 1] => i + 1 = j + 1
        BY <1>t, <4>1 DEF Lock
      <4> QED BY <3>2, <4>1, <4>2
    <3>11. Lock'
      BY <3>6, <3>7, <3>9, <3>10 DEF Lock
    <3> QED BY <3>5, <3>11
  <2> QED BY <2>3, <2>4
<1>9. ASSUME NEW c \in Call, NEW w \in Worker, ScanStep(c, w) PROVE Roles' /\ Lock'
  BY <1>9, <1>t, LockUntouched DEF ScanStep, ScanBegin, ScanRead, ScanEnd, ScanSend,
     chanVars, callVars, lockVars
<1>10. ASSUME NEW w \in Worker, HashStep(w) PROVE Roles' /\ Lock'
  BY <1>10, <1>t, LockUntouched DEF HashStep, HashTop, HashPoll, HashJob,
     chanVars, callVars, lockVars
<1>11. CASE CloseStep
  <2>1. CASE CloseChannels
    <3>1. senders' = <<>> /\ call[0] = "stop" /\ call'[0] = "done"
          /\ \A d \in Caller : d # 0 => call'[d] = IF call[d] = "queued" THEN "panicked" ELSE call[d]
      BY <2>1 DEF CloseChannels
    <3>2. \A d \in Caller : d # 0 => ~Holds(d)
      BY <1>t, <3>1 DEF Lock, Holds
    <3>3. \A d \in Caller : ~Holds(d)'
      BY <3>1, <3>2 DEF Holds
    <3>4. Roles'
      BY <1>t, <3>1 DEF Roles
    <3> QED BY <3>1, <3>3, <3>4 DEF Lock
  <2>2. ASSUME NEW w \in Worker, StopHash(w) PROVE Roles' /\ Lock'
    BY <2>2, <1>t, LockUntouched DEF StopHash, chanVars, callVars, lockVars
  <2> QED BY <1>11, <2>1, <2>2 DEF CloseStep
<1>12. CASE UNCHANGED vars
  BY <1>12, <1>t, LockUntouched DEF vars, chanVars, callVars, lockVars
<1> QED BY <1>1, <1>2, <1>3, <1>4, <1>5, <1>6, <1>7, <1>8, <1>9, <1>10, <1>11, <1>12
        DEF Next, CallStep, Quiet

-----------------------------------------------------------------------------
(* A step of a caller that has arrived, or of Close.                       *)
LEMMA FreshKept ==
    ASSUME Fresh, UNCHANGED arrived,
           \A c \in Call : call[c] = "none" => call'[c] = "none"
    PROVE  Fresh'
BY DEF Fresh

LEMMA NextFresh == IInv /\ [Next]_vars => Fresh'
<1> SUFFICES ASSUME IInv, [Next]_vars PROVE Fresh'
  OBVIOUS
<1>t. TypeOK /\ Fresh /\ Roles /\ Lock
  BY DEF IInv
<1> USE Ranges
<1>1. CASE Arrive
  <2>1. call' = [call EXCEPT ![arrived + 1] = "clear"] /\ arrived' = arrived + 1
        /\ arrived \in Nat
    BY <1>1, <1>t DEF Arrive, CallTo, TypeOK
  <2>2. ASSUME NEW c \in Call, c > arrived' PROVE call'[c] = "none"
    <3>1. c # arrived + 1 /\ c > arrived
      BY <2>1, <2>2 DEF Call
    <3> QED BY <1>t, <2>1, <3>1 DEF Fresh, TypeOK
  <2> QED BY <2>2 DEF Fresh
<1>2. CASE Close
  BY <1>2, <1>t, FreshKept DEF Close, CallTo, TypeOK
<1>3. ASSUME NEW c \in Caller, CallStep(c) PROVE Fresh'
  <2>1. CASE Release(c)
    <3>1. CASE senders = <<>>
      BY <2>1, <3>1, <1>t, FreshKept DEF Release, CallTo, TypeOK
    <3>2. CASE senders # <<>>
      <4> DEFINE h == Head(senders)
      <4>1. h \in Caller /\ call[h] = "queued"
        <5>1. Len(senders) \in Nat \ {0} /\ h = senders[1] /\ h \in Caller
          BY <1>t, <3>2 DEF TypeOK
        <5> QED BY <1>t, <5>1 DEF Lock
      <4>2. call' = [call EXCEPT ![c] = "done", ![h] = Entered(h)] /\ call[c] = "collect"
            /\ arrived' = arrived
        BY <2>1, <3>2 DEF Release
      <4>3. \A d \in Caller : call[d] = "none" => call'[d] = "none"
        BY <1>t, <4>1, <4>2 DEF TypeOK
      <4> QED BY <1>t, <4>2, <4>3, FreshKept
    <3> QED BY <3>1, <3>2
  <2>2. CASE ~Release(c)
    BY <1>3, <2>2, <1>t, FreshKept DEF CallStep, ClearFlag, Send, SetFlag, Spawn, Collect,
       CallTo, TypeOK
  <2> QED BY <2>1, <2>2
<1>4. ASSUME NEW c \in Call, NEW w \in Worker, ScanStep(c, w) PROVE Fresh'
  BY <1>4, <1>t, FreshKept DEF ScanStep, ScanBegin, ScanRead, ScanEnd, ScanSend, callVars
<1>5. ASSUME NEW w \in Worker, HashStep(w) PROVE Fresh'
  BY <1>5, <1>t, FreshKept DEF HashStep, HashTop, HashPoll, HashJob, callVars
<1>6. CASE CloseStep
  BY <1>6, <1>t, FreshKept DEF CloseStep, CloseChannels, StopHash, callVars
<1>7. CASE UNCHANGED vars
  BY <1>7, <1>t, FreshKept DEF vars, callVars
<1> QED BY <1>1, <1>2, <1>3, <1>4, <1>5, <1>6, <1>7 DEF Next, Quiet

-----------------------------------------------------------------------------
(* The results.                                                            *)
LEMMA ResultsKept ==
    ASSUME Scans, Count, OwnResults, TypeOK, UNCHANGED <<scan, waited, wait_chs>>,
           \A c \in Call : call[c] \in {"collect", "done"} => call'[c] = call[c],
           \A c \in Call : call'[c] = "collect" => call[c] = "collect"
    PROVE  Scans' /\ Count' /\ OwnResults'
<1>1. Scans'
  BY DEF Scans
<1>2. Count'
  BY DEF Count, Finished
<1>3. \A i \in 1..Len(wait_chs) : wait_chs[i][1] \in Call
  BY DEF TypeOK
<1>4. OwnResults'
  BY <1>3 DEF OwnResults
<1> QED BY <1>1, <1>2, <1>4

(* When all results were received, every goroutine of the call is through. *)
LEMMA AllFinished ==
    ASSUME IInv, NEW c \in Call, call[c] = "collect", AllWaited
    PROVE  (\A w \in Worker : scan[c][w] = "done") /\ wait_chs = <<>>
<1>1. waited + Len(wait_chs) = Cardinality(Finished(c)) /\ waited = NWorker
  BY DEF IInv, Count, AllWaited
<1>2. Finished(c) \in SUBSET Worker
  BY DEF Finished
<1>3. /\ Cardinality(Finished(c)) <= NWorker
      /\ Cardinality(Finished(c)) = NWorker => Finished(c) = Worker
  BY <1>2, Workers, FS_Subset
<1>4. wait_chs \in Seq(Call \X Worker) /\ Len(wait_chs) \in Nat
  BY DEF IInv, TypeOK
<1>5. Len(wait_chs) = 0 /\ Cardinality(Finished(c)) = NWorker
  <2>1. Cardinality(Finished(c)) \in Nat
    BY <1>2, Workers, FS_Subset, FS_CardinalityType
  <2> QED BY <1>1, <1>3, <1>4, <2>1, Ranges
<1>6. Finished(c) = Worker
  BY <1>3, <1>5
<1> QED BY <1>4, <1>5, <1>6 DEF Finished

LEMMA NextResults == IInv /\ [Next]_vars => Scans' /\ Count' /\ OwnResults'
<1> SUFFICES ASSUME IInv, [Next]_vars PROVE Scans' /\ Count' /\ OwnResults'
  OBVIOUS
<1>t. TypeOK /\ Fresh /\ Roles /\ Lock /\ Scans /\ Count /\ OwnResults
  BY DEF IInv
<1> USE Ranges
<1>c. \A i \in 1..Len(wait_chs) : wait_chs[i] \in Call \X Worker
  BY <1>t DEF TypeOK
<1>1. CASE Arrive
  <2>1. call' = [call EXCEPT ![arrived + 1] = "clear"] /\ arrived + 1 \in Call
    BY <1>1, <1>t DEF Arrive, CallTo, TypeOK, Call
  <2>2. call[arrived + 1] = "none"
    BY <1>t, <2>1 DEF Fresh, TypeOK
  <2> QED BY <1>1, <1>t, <2>1, <2>2, ResultsKept DEF Arrive, TypeOK
<1>2. CASE Close
  BY <1>2, <1>t, ResultsKept DEF Close, CallTo, TypeOK
<1>3. ASSUME NEW c \in Caller, ClearFlag(c) \/ Send(c) \/ SetFlag(c)
      PROVE  Scans' /\ Count' /\ OwnResults'
  BY <1>3, <1>t, ResultsKept DEF ClearFlag, Send, SetFlag, CallTo, Entered, TypeOK
<1>4. ASSUME NEW c \in Caller, Spawn(c) PROVE Scans' /\ Count' /\ OwnResults'
  <2>1. c \in Call /\ Holds(c) /\ call[c] = "spawn"
    BY <1>4, <1>t DEF Spawn, Roles, Holds
  <2>2. \A d \in Call : call[d] # "collect"
    BY <1>t, <2>1 DEF Lock, Holds
  <2>3. wait_chs' = <<>> /\ waited' = 0
    BY <1>4, <1>t, <2>2 DEF Count, Spawn
  <2>4. call'[c] = "collect" /\ (\A d \in Call : d # c => call'[d] = call[d])
        /\ (\A w \in Worker : scan'[c][w] = "new") /\ (\A d \in Call : d # c => scan'[d] = scan[d])
    BY <1>4, <1>t, <2>1 DEF Spawn, CallTo, TypeOK
  <2>5. Scans'
    BY <1>t, <2>4 DEF Scans
  <2>6. Finished(c)' = {}
    BY <2>4 DEF Finished
  <2>7. Count'
    <3>1. Cardinality(Finished(c)') = 0
      BY <2>6, FS_EmptySet
    <3>2. Len(wait_chs') = 0
      BY <2>3
    <3> QED BY <2>1, <2>2, <2>3, <2>4, <3>1, <3>2 DEF Count
  <2> QED BY <2>3, <2>5, <2>7 DEF OwnResults
<1>5. ASSUME NEW c \in Caller, Collect(c) PROVE Scans' /\ Count' /\ OwnResults'
  <2>1. c \in Call /\ call[c] = "collect" /\ wait_chs # <<>> /\ wait_chs' = Tail(wait_chs)
        /\ waited' = waited + 1 /\ UNCHANGED <<call, scan>>
    BY <1>5, <1>t DEF Collect, Roles, callVars
  <2>2. Scans'
    BY <1>t, <2>1 DEF Scans
  <2>3. /\ Len(wait_chs) \in Nat \ {0} /\ Len(wait_chs') = Len(wait_chs) - 1
        /\ \A i \in 1..Len(wait_chs') : wait_chs'[i] = wait_chs[i + 1] /\ i + 1 \in 1..Len(wait_chs)
    BY <1>t, <2>1 DEF TypeOK
  <2>4. waited' + Len(wait_chs') = waited + Len(wait_chs)
    BY <1>t, <2>1, <2>3 DEF TypeOK
  <2>5. Count'
    BY <1>t, <2>1, <2>4 DEF Count, Finished
  <2>6. OwnResults'
    BY <1>t, <2>1, <2>3 DEF OwnResults
  <2> QED BY <2>2, <2>5, <2>6
<1>6. ASSUME NEW c \in Caller, Release(c) PROVE Scans' /\ Count' /\ OwnResults'
  <2>1. c \in Call /\ call[c] = "collect" /\ AllWaited /\ Holds(c)
        /\ UNCHANGED <<scan, waited, wait_chs>>
    BY <1>6, <1>t DEF Release, Roles, Holds
  <2>2. (\A w \in Worker : scan[c][w] = "done") /\ wait_chs = <<>>
    BY <2>1, AllFinished
  <2>3. call'[c] = "done" /\ \A d \in Call : d # c /\ call[d] # "queued" => call'[d] = call[d]
    <3>1. CASE senders = <<>>
      BY <1>6, <1>t, <3>1 DEF Release, CallTo, TypeOK
    <3>2. CASE senders # <<>>
      <4> DEFINE h == Head(senders)
      <4>1. Len(senders) \in Nat \ {0} /\ h = senders[1] /\ h \in Caller
        BY <1>t, <3>2 DEF TypeOK
      <4>2. call[h] = "queued" /\ h # c
        BY <1>t, <2>1, <4>1 DEF Lock
      <4>3. call' = [call EXCEPT ![c] = "done", ![h] = Entered(h)]
        BY <1>6, <3>2 DEF Release
      <4> QED BY <1>t, <4>1, <4>2, <4>3 DEF TypeOK
    <3> QED BY <3>1, <3>2
  <2>4. \A d \in Call : d # c => call'[d] # "collect"
    <3>1. \A d \in Call : d # c => call[d] # "collect"
      BY <1>t, <2>1 DEF Lock, Holds
    <3>2. CASE senders = <<>>
      BY <1>6, <1>t, <3>1, <3>2 DEF Release, CallTo, TypeOK
    <3>3. CASE senders # <<>>
      <4>1. call' = [call EXCEPT ![c] = "done", ![Head(senders)] = Entered(Head(senders))]
        BY <1>6, <3>3 DEF Release
      <4> QED BY <1>t, <3>1, <4>1 DEF TypeOK, Entered
    <3> QED BY <3>2, <3>3
  <2>5. Scans'
    BY <1>t, <2>1, <2>2, <2>3 DEF Scans
  <2> QED BY <2>1, <2>2, <2>3, <2>4, <2>5 DEF Count, OwnResults
<1>7. ASSUME NEW c \in Call, NEW w \in Worker, ScanBegin(c, w) \/ ScanRead(c, w) \/ ScanEnd(c, w)
      PROVE  Scans' /\ Count' /\ OwnResults'
  <2>1. UNCHANGED <<call, waited, wait_chs>>
    BY <1>7 DEF ScanBegin, ScanRead, ScanEnd, callVars
  <2>2. \/ scan' = scan
        \/ /\ scan[c][w] \in {"new", "read"}
           /\ scan' = [scan EXCEPT ![c][w] = "read"] \/ scan' = [scan EXCEPT ![c][w] = "send"]
    BY <1>7 DEF ScanBegin, ScanRead, ScanEnd, ScanTo
  <2>3. \A d \in Call, v \in Worker :
           \/ scan'[d][v] = scan[d][v]
           \/ scan[d][v] \in {"new", "read"} /\ scan'[d][v] \in {"read", "send"}
    BY <1>t, <2>2 DEF TypeOK
  <2>4. Scans'
    BY <1>t, <2>1, <2>3 DEF Scans
  <2>5. \A d \in Call : Finished(d)' = Finished(d)
    BY <2>3 DEF Finished
  <2>6. Count'
    BY <1>t, <2>1, <2>5 DEF Count
  <2>7. OwnResults'
    BY <1>t, <2>1 DEF OwnResults
  <2> QED BY <2>4, <2>6, <2>7
<1>8. ASSUME NEW c \in Call, NEW w \in Worker, ScanSend(c, w)
      PROVE  Scans' /\ Count' /\ OwnResults'
  <2>1. scan[c][w] = "send" /\ scan' = [scan EXCEPT ![c][w] = "done"]
        /\ wait_chs' = Append(wait_chs, <<c, w>>) /\ UNCHANGED <<call, waited>>
    BY <1>8 DEF ScanSend, ScanTo, callVars
  <2>2. call[c] = "collect"
    BY <1>t, <2>1 DEF Scans
  <2>3. \A d \in Call : call[d] = "collect" => d = c
    BY <1>t, <2>2 DEF Lock, Holds
  <2>4. \A d \in Call, v \in Worker :
           scan'[d][v] = IF d = c /\ v = w THEN "done" ELSE scan[d][v]
    BY <1>t, <2>1 DEF TypeOK
  <2>5. Scans'
    BY <1>t, <2>1, <2>2, <2>4 DEF Scans
  <2>6. Finished(c)' = Finished(c) \cup {w} /\ w \notin Finished(c)
    BY <2>1, <2>4 DEF Finished
  <2>7. IsFiniteSet(Finished(c)) /\ Cardinality(Finished(c)) \in Nat
    <3>1. Finished(c) \in SUBSET Worker
      BY DEF Finished
    <3> QED BY <3>1, Workers, FS_Subset, FS_CardinalityType
  <2>8. Cardinality(Finished(c)') = Cardinality(Finished(c)) + 1
    BY <2>6, <2>7, FS_AddElement
  <2>9. /\ Len(wait_chs) \in Nat /\ Len(wait_chs') = Len(wait_chs) + 1
        /\ \A i \in 1..Len(wait_chs) : wait_chs'[i] = wait_chs[i]
        /\ wait_chs'[Len(wait_chs) + 1] = <<c, w>>
    BY <1>t, <2>1 DEF TypeOK
  <2>10. Count'
    <3>1. waited + Len(wait_chs) = Cardinality(Finished(c))
      BY <1>t, <2>2 DEF Count
    <3>2. waited' + Len(wait_chs') = Cardinality(Finished(c)')
      BY <1>t, <2>1, <2>8, <2>9, <3>1 DEF TypeOK
    <3> QED BY <2>1, <2>2, <2>3, <3>2 DEF Count
  <2>11. \A i \in 1..Len(wait_chs') : i \in 1..Len(wait_chs) \/ i = Len(wait_chs) + 1
    BY <2>9
  <2>12. OwnResults'
    BY <1>t, <2>1, <2>2, <2>9, <2>11 DEF OwnResults
  <2> QED BY <2>5, <2>10, <2>12
<1>9. ASSUME NEW w \in Worker, HashStep(w) PROVE Scans' /\ Count' /\ OwnResults'
  BY <1>9, <1>t, ResultsKept DEF HashStep, HashTop, HashPoll, HashJob, callVars
<1>10. CASE CloseStep
  BY <1>10, <1>t, ResultsKept DEF CloseStep, CloseChannels, StopHash, callVars
<1>11. CASE UNCHANGED vars
  BY <1>11, <1>t, ResultsKept DEF vars, callVars
<1> QED BY <1>1, <1>2, <1>3, <1>4, <1>5, <1>6, <1>7, <1>8, <1>9, <1>10, <1>11
        DEF Next, CallStep, ScanStep, Quiet

-----------------------------------------------------------------------------
LEMMA IInvExclusive == IInv => Exclusive
<1> SUFFICES ASSUME IInv PROVE Exclusive
  OBVIOUS
<1>1. \A c \in Caller : Running(c) => call[c] = "collect"
  BY Ranges DEF IInv, Running, Scans, TypeOK
<1>2. \A c \in Caller : call[c] = "collect" => Holds(c)
  BY DEF Holds
<1>3. \A c, d \in Caller : Holds(c) /\ Holds(d) => c = d
  BY DEF IInv, Lock
<1> QED BY <1>1, <1>2, <1>3 DEF Exclusive

LEMMA Inductive == Spec => []IInv
<1>1. Init => IInv
  BY InitIInv
<1>2. IInv /\ [Next]_vars => IInv'
  BY NextTypeOK, NextFresh, NextLock, NextResults DEF IInv
<1> QED BY <1>1, <1>2, PTL DEF Spec

(* The variables keep their types; wait_chs never holds more than it has   *)
(* room for.                                                               *)
THEOREM TypeCorrect == Spec => []TypeOK
<1>1. IInv => TypeOK
  BY DEF IInv
<1> QED BY <1>1, Inductive, PTL

(* closedch works as a lock for OnNewMiningInfo and Close: one holder at a *)
(* time, and sche_runnew runs only for it.                                 *)
THEOREM ExclusiveHolds == Spec => []Exclusive
<1> QED BY IInvExclusive, Inductive, PTL

(* A call of OnNewMiningInfo never receives a result of another call from  *)
(* wait_chs, so it has waited for its own goroutines when it goes on.      *)
THEOREM OwnResultsHold == Spec => []OwnResults
<1>1. IInv => OwnResults
  BY DEF IInv
<1> QED BY <1>1, Inductive, PTL
=============================================================================

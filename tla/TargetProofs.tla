---------------------------- MODULE TargetProofs ----------------------------
(***************************************************************************)
(* Proofs about Target for any set of workers and deadlines, any rounds,   *)
(* of equal or different heights, and every interleaving of the threads.   *)
(***************************************************************************)
EXTENDS Target, TLAPS

IInv == TypeOK /\ FilterJustified /\ OnlyOvertakenLost

LEMMA RoundFields ==
    /\ Len(Rounds) \in Nat
    /\ \A r \in 1..Len(Rounds) : Height(r) \in Nat \ {0} /\ TargetOf(r) \in Nat
<1>1. Len(Rounds) \in Nat
  BY RoundsAssumption
<1>2. ASSUME NEW r \in 1..Len(Rounds) PROVE Height(r) \in Nat \ {0} /\ TargetOf(r) \in Nat
  <2>1. Rounds[r] \in Round
    BY RoundsAssumption
  <2> QED BY <2>1 DEF Height, TargetOf, Round
<1> QED BY <1>1, <1>2

(* Once right for a height, a deadline stays so, and so is every worse one. *)
LEMMA RightStays ==
    ASSUME round \in Nat, round' \in Nat, round <= round',
           reported \subseteq reported', overtaken \subseteq overtaken'
    PROVE  \A v, h : RightFor(v, h) => RightFor(v, h)'
BY DEF RightFor, Justified, TargetOf, Height

LEMMA RightUp ==
    ASSUME TypeOK, NEW v \in Nat, NEW u \in Nat, NEW h, RightFor(v, h), v <= u
    PROVE  RightFor(u, h)
<1>1. \A k \in 1..round : TargetOf(k) \in Nat
  BY RoundFields DEF TypeOK
<1>2. \A e \in reported : e[2] \in Nat
  BY DeadlineAssumption DEF TypeOK
<1>3. ASSUME NEW k \in 1..round, Justified(v, k) PROVE Justified(u, k)
  BY <1>1, <1>2, <1>3 DEF Justified
<1> QED BY <1>3 DEF RightFor

LEMMA InitIInv == Init => IInv
<1> SUFFICES ASSUME Init PROVE IInv
  OBVIOUS
<1>1. TypeOK
  BY RoundFields, MaxBlocksAssumption DEF Init, TypeOK, HasherState, HasherIdle
<1>2. FilterJustified /\ OnlyOvertakenLost
  BY DEF Init, FilterJustified, OnlyOvertakenLost, HasherIdle
<1> QED BY <1>1, <1>2 DEF IInv

-----------------------------------------------------------------------------
(* Types.                                                                  *)
LEMMA NextTypeOK == TypeOK /\ FilterJustified /\ [Next]_vars => TypeOK'
<1> SUFFICES ASSUME TypeOK, FilterJustified, [Next]_vars PROVE TypeOK'
  OBVIOUS
<1>a. Len(Rounds) \in Nat
  BY RoundFields
<1>b. round \in 0..Len(Rounds) /\ round \in Nat
  BY <1>a DEF TypeOK
<1>c. ASSUME NEW w \in Worker, UNCHANGED round, NEW h \in HasherState,
             hasher' = [hasher EXCEPT ![w] = h]
      PROVE  hasher' \in [Worker -> HasherState']
  BY <1>c DEF TypeOK, HasherState
<1>1. CASE NewRound
  <2>1. round' \in 0..Len(Rounds) /\ 0..round \subseteq 0..round' /\ 1..round \subseteq 1..round'
    BY <1>1, <1>a, <1>b DEF NewRound
  <2>2. job' \in [Worker -> 0..round']
    BY <1>1, <2>1 DEF NewRound, TypeOK
  <2>3. HasherState \subseteq HasherState'
    BY <2>1 DEF HasherState
  <2>4. hasher' \in [Worker -> HasherState']
    BY <1>1, <2>3 DEF NewRound, TypeOK
  <2>5. reported' \subseteq (1..round') \X Deadline /\ silent' \subseteq (1..round') \X Deadline
    BY <1>1, <2>1 DEF NewRound, TypeOK
  <2> QED BY <1>1, <2>1, <2>2, <2>4, <2>5, MaxBlocksAssumption DEF NewRound, TypeOK
<1>2. ASSUME NEW w \in Worker, Compare(w) PROVE TypeOK'
  BY <1>2 DEF Compare, ReaderTo, TypeOK, HasherState
<1>3. ASSUME NEW w \in Worker, SetHeight(w) PROVE TypeOK'
  <2>1. round \in 1..Len(Rounds)
    BY <1>3, <1>b DEF SetHeight, SetHeightTo, FilterJustified
  <2>2. s_height' \in Nat /\ overtaken' \subseteq Nat
    BY <1>3, <2>1, RoundFields DEF SetHeight, SetHeightTo, TypeOK
  <2>3. reader' \in [Worker -> {"off", "start", "reset", "setdl", "scan"}]
    BY <1>3 DEF SetHeight, SetHeightTo, ReaderTo, TypeOK
  <2> QED BY <1>3, <2>2, <2>3 DEF SetHeight, SetHeightTo, TypeOK, HasherState
<1>4. ASSUME NEW w \in Worker, SetDl(w) PROVE TypeOK'
  <2>1. round \in 1..Len(Rounds)
    BY <1>4, <1>b DEF SetDl, FilterJustified
  <2>2. s_dl' \in Nat
    BY <1>4, <2>1, RoundFields DEF SetDl
  <2>3. reader' \in [Worker -> {"off", "start", "reset", "setdl", "scan"}]
    BY <1>4 DEF SetDl, ReaderTo, TypeOK
  <2> QED BY <1>4, <2>2, <2>3 DEF SetDl, TypeOK, HasherState
<1>5. ASSUME NEW w \in Worker, Scan(w) PROVE TypeOK'
  <2>1. job' \in [Worker -> 0..round]
    BY <1>5, <1>b DEF Scan, TypeOK
  <2>2. blocks' \in [Worker -> 0..MaxBlocks]
    BY <1>5, MaxBlocksAssumption DEF Scan, TypeOK
  <2> QED BY <1>5, <2>1, <2>2 DEF Scan, TypeOK, HasherState
<1>6. ASSUME NEW w \in Worker, EndScan(w) PROVE TypeOK'
  BY <1>6 DEF EndScan, ReaderTo, TypeOK, HasherState
<1>7. ASSUME NEW w \in Worker, DropJob(w) PROVE TypeOK'
  BY <1>7, <1>b DEF DropJob, TypeOK, HasherState
<1>8. ASSUME NEW w \in Worker, Load(w) PROVE TypeOK'
  <2>1. [pc |-> "hash", round |-> job[w], target_dl |-> s_dl] \in HasherState
    BY DEF TypeOK, HasherState
  <2>2. hasher' \in [Worker -> HasherState']
    BY <1>8, <2>1, <1>c DEF Load, LoadJob
  <2>3. job' \in [Worker -> 0..round]
    BY <1>8, <1>b DEF Load, LoadJob, TypeOK
  <2>4. job[w] \in 1..Len(Rounds)
    BY <1>8, <1>a, <1>b DEF Load, TypeOK
  <2>5. overtaken' \subseteq Nat
    BY <1>8, <2>4, RoundFields DEF Load, TypeOK
  <2> QED BY <1>8, <2>2, <2>3, <2>5 DEF Load, LoadJob, TypeOK
<1>9. ASSUME NEW w \in Worker, HashBlock(w) PROVE TypeOK'
  <2>1. hasher[w] \in HasherState /\ hasher[w].round \in 1..round
    BY <1>9, <1>b DEF HashBlock, TypeOK, FilterJustified, HasherState
  <2>2. PICK d \in Deadline :
          \/ Report(hasher[w].round, d)
             /\ hasher' = [hasher EXCEPT ![w].pc = "test", ![w].target_dl = d]
          \/ /\ silent' = silent \cup {<<hasher[w].round, d>>}
             /\ hasher' = [hasher EXCEPT ![w].pc = "test"]
             /\ UNCHANGED reported
    BY <1>9 DEF HashBlock
  <2>3. d \in Nat
    BY DeadlineAssumption
  <2>4. [hasher[w] EXCEPT !.pc = "test", !.target_dl = d] \in HasherState
        /\ [hasher[w] EXCEPT !.pc = "test"] \in HasherState
    BY <2>1, <2>3 DEF HasherState
  <2>5. UNCHANGED <<round, s_height, s_dl, reader, blocks, job, overtaken>>
    BY <1>9 DEF HashBlock
  <2>6. hasher' \in [Worker -> HasherState']
    BY <2>2, <2>4, <2>5, <1>c
  <2>7. reported' \subseteq (1..round) \X Deadline /\ silent' \subseteq (1..round) \X Deadline
    BY <2>1, <2>2 DEF Report, TypeOK
  <2> QED BY <2>5, <2>6, <2>7 DEF TypeOK
<1>10. ASSUME NEW w \in Worker, TestDl(w) PROVE TypeOK'
  <2>1. hasher[w] \in HasherState
    BY DEF TypeOK
  <2>2. PICK pc \in {"height", "top"} : hasher' = [hasher EXCEPT ![w].pc = pc]
    BY <1>10 DEF TestDl
  <2>3. [hasher[w] EXCEPT !.pc = pc] \in HasherState
    BY <2>1 DEF HasherState
  <2>4. hasher' \in [Worker -> HasherState']
    BY <1>10, <2>2, <2>3, <1>c DEF TestDl
  <2> QED BY <1>10, <2>4 DEF TestDl, TypeOK
<1>11. ASSUME NEW w \in Worker, TestHeight(w) PROVE TypeOK'
  <2>1. hasher[w] \in HasherState /\ hasher[w].target_dl \in Nat
    BY DEF TypeOK, HasherState
  <2>2. PICK pc \in {"store", "top"} : hasher' = [hasher EXCEPT ![w].pc = pc]
    BY <1>11 DEF TestHeight
  <2>3. [hasher[w] EXCEPT !.pc = pc] \in HasherState
    BY <2>1 DEF HasherState
  <2>4. hasher' \in [Worker -> HasherState']
    BY <1>11, <2>2, <2>3, <1>c DEF TestHeight
  <2> QED BY <1>11, <2>4 DEF TestHeight, TypeOK
<1>12. ASSUME NEW w \in Worker, Store(w) PROVE TypeOK'
  <2>1. hasher[w] \in HasherState /\ hasher[w].target_dl \in Nat
    BY DEF TypeOK, HasherState
  <2>2. [hasher[w] EXCEPT !.pc = "top"] \in HasherState
    BY <2>1 DEF HasherState
  <2>3. hasher' \in [Worker -> HasherState']
    BY <1>12, <2>2, <1>c DEF Store
  <2> QED BY <1>12, <2>1, <2>3 DEF Store, TypeOK
<1>13. CASE UNCHANGED vars
  BY <1>13 DEF vars, TypeOK, HasherState
<1> QED BY <1>1, <1>2, <1>3, <1>4, <1>5, <1>6, <1>7, <1>8, <1>9, <1>10, <1>11, <1>12, <1>13
        DEF Next, ReaderStep, HasherStep

-----------------------------------------------------------------------------
(* The part of FilterJustified about one worker, and the part about the    *)
(* shared variables.                                                       *)
WorkerRight(w) ==
    /\ reader[w] # "off" => round > 0
    /\ reader[w] \in {"setdl", "scan"} => s_height = Height(round)
    /\ job[w] = round /\ round > 0 => s_height = Height(round)
    /\ hasher[w].pc # "top" =>
          hasher[w].round > 0 /\ RightFor(hasher[w].target_dl, Height(hasher[w].round))
    /\ hasher[w].pc = "store" => Height(hasher[w].round) = s_height \/ s_height \in overtaken

SharedRight == s_height # 0 /\ NoResetUnderWay => RightFor(s_dl, s_height)

LEMMA Split == FilterJustified <=> SharedRight /\ \A w \in Worker : WorkerRight(w)
BY DEF FilterJustified, SharedRight, WorkerRight

(* No step takes anything back from the histories or from round.           *)
LEMMA Grows ==
    ASSUME TypeOK, [Next]_vars
    PROVE  /\ round \in Nat /\ round' \in Nat /\ round <= round'
           /\ reported \subseteq reported' /\ overtaken \subseteq overtaken'
<1>1. round \in Nat
  BY RoundFields DEF TypeOK
<1>2. CASE NewRound
  BY <1>1, <1>2 DEF NewRound
<1>3. ASSUME NEW w \in Worker, ReaderStep(w)
      PROVE  UNCHANGED <<round, reported>> /\ overtaken \subseteq overtaken'
  BY <1>3 DEF ReaderStep, Compare, SetHeight, SetHeightTo, SetDl, Scan, EndScan
<1>4. ASSUME NEW w \in Worker, HasherStep(w)
      PROVE  /\ UNCHANGED round /\ reported \subseteq reported'
             /\ overtaken \subseteq overtaken'
  <2>1. CASE HashBlock(w)
    BY <2>1 DEF HashBlock, Report
  <2>2. CASE Load(w)
    BY <2>2 DEF Load, LoadJob
  <2>3. CASE DropJob(w) \/ TestDl(w) \/ TestHeight(w) \/ Store(w)
    BY <2>3 DEF DropJob, TestDl, TestHeight, Store
  <2> QED BY <1>4, <2>1, <2>2, <2>3 DEF HasherStep
<1>5. CASE UNCHANGED vars
  BY <1>1, <1>5 DEF vars
<1> QED BY <1>1, <1>2, <1>3, <1>4, <1>5 DEF Next

(* A step that leaves round, the shared variables and the histories of     *)
(* what was lost alone has to be looked at only for its own worker.        *)
LEMMA OtherWorkers ==
    ASSUME IInv, NEW w \in Worker, [Next]_vars,
           UNCHANGED <<round, s_height, s_dl, silent>>,
           reader[w] # "setdl" \/ UNCHANGED reader,
           \A v \in Worker \ {w} : UNCHANGED <<reader[v], job[v], hasher[v]>>,
           WorkerRight(w)'
    PROVE  FilterJustified' /\ OnlyOvertakenLost'
<1>s. SharedRight /\ \A v \in Worker : WorkerRight(v)
  BY Split DEF IInv
<1>g. \A v, h : RightFor(v, h) => RightFor(v, h)'
  BY Grows, RightStays DEF IInv
<1>o. overtaken \subseteq overtaken'
  BY Grows DEF IInv
<1>1. SharedRight'
  <2>1. NoResetUnderWay' => NoResetUnderWay
    BY DEF NoResetUnderWay
  <2> QED BY <2>1, <1>s, <1>g DEF SharedRight
<1>2. ASSUME NEW v \in Worker PROVE WorkerRight(v)'
  <2>1. CASE v # w
    BY <2>1, <1>s, <1>g, <1>o DEF WorkerRight, Height
  <2> QED BY <2>1
<1>3. FilterJustified'
  BY <1>1, <1>2 DEF FilterJustified, SharedRight, WorkerRight
<1>4. OnlyOvertakenLost'
  BY <1>g DEF IInv, OnlyOvertakenLost, Height
<1> QED BY <1>3, <1>4

LEMMA NextFilter == IInv /\ [Next]_vars => FilterJustified' /\ OnlyOvertakenLost'
<1> SUFFICES ASSUME IInv, [Next]_vars PROVE FilterJustified' /\ OnlyOvertakenLost'
  OBVIOUS
<1>t. TypeOK /\ SharedRight /\ (\A w \in Worker : WorkerRight(w)) /\ OnlyOvertakenLost
  BY Split DEF IInv
<1>r. round \in 0..Len(Rounds) /\ round \in Nat /\ Len(Rounds) \in Nat
  BY <1>t, RoundFields DEF TypeOK
<1>h. \A w \in Worker : hasher[w] \in HasherState
  BY <1>t DEF TypeOK
<1>g. \A v, h : RightFor(v, h) => RightFor(v, h)'
  BY <1>t, Grows, RightStays
<1>o. overtaken \subseteq overtaken'
  BY <1>t, Grows
<1>m. UNCHANGED silent => OnlyOvertakenLost'
  BY <1>t, <1>g DEF OnlyOvertakenLost, Height
<1>1. CASE NewRound
  <2>1. round' = round + 1 /\ UNCHANGED <<s_height, s_dl, job, hasher, silent>>
    BY <1>1 DEF NewRound
  <2>2. \A w \in Worker : reader[w] = "off" /\ reader'[w] = "start"
    BY <1>1 DEF NewRound
  <2>3. SharedRight'
    BY <1>t, <2>1, <2>2, <1>g DEF SharedRight, NoResetUnderWay
  <2>4. ASSUME NEW w \in Worker PROVE WorkerRight(w)'
    <3>1. job[w] # round' /\ round' > 0
      BY <1>t, <1>r, <2>1 DEF TypeOK
    <3> QED BY <1>t, <3>1, <2>1, <2>2, <1>g, <1>o DEF WorkerRight, Height
  <2> QED BY <2>1, <2>3, <2>4, <1>m DEF FilterJustified, SharedRight, WorkerRight
<1>2. ASSUME NEW w \in Worker, Compare(w) PROVE FilterJustified' /\ OnlyOvertakenLost'
  <2>1. WorkerRight(w)'
    BY <1>2, <1>t, <1>g, <1>o DEF Compare, ReaderTo, NeedsReset, WorkerRight, TypeOK, Height
  <2>2. \A v \in Worker \ {w} : UNCHANGED <<reader[v], job[v], hasher[v]>>
    BY <1>2, <1>t DEF Compare, ReaderTo, TypeOK
  <2> QED BY <1>2, <2>1, <2>2, OtherWorkers DEF Compare
<1>3. ASSUME NEW w \in Worker, SetHeight(w) PROVE FilterJustified' /\ OnlyOvertakenLost'
  <2>1. s_height' = Height(round) /\ reader' = [reader EXCEPT ![w] = "setdl"]
        /\ UNCHANGED <<round, s_dl, job, hasher, silent>> /\ round > 0
    BY <1>3, <1>t DEF SetHeight, SetHeightTo, ReaderTo, WorkerRight
  <2>2. SharedRight'
    <3>1. ~NoResetUnderWay'
      BY <2>1, <1>t DEF NoResetUnderWay, TypeOK
    <3> QED BY <3>1 DEF SharedRight
  <2>3. ASSUME NEW v \in Worker PROVE WorkerRight(v)'
    <3>1. WorkerRight(v) /\ reader \in [Worker -> {"off", "start", "reset", "setdl", "scan"}]
      BY <1>t DEF TypeOK
    <3>2. hasher[v].pc = "store" /\ Height(hasher[v].round) # Height(round)
             => Height(round) \in overtaken'
      BY <1>3 DEF SetHeight, SetHeightTo
    <3> QED BY <2>1, <3>1, <3>2, <1>g DEF WorkerRight, Height
  <2> QED BY <2>1, <2>2, <2>3, <1>m DEF FilterJustified, SharedRight, WorkerRight
<1>4. ASSUME NEW w \in Worker, SetDl(w) PROVE FilterJustified' /\ OnlyOvertakenLost'
  <2>1. round \in 1..round /\ round \in 1..Len(Rounds) /\ s_height = Height(round)
    BY <1>4, <1>t, <1>r DEF SetDl, WorkerRight
  <2>2. s_dl' = TargetOf(round) /\ reader' = [reader EXCEPT ![w] = "scan"]
        /\ UNCHANGED <<round, s_height, job, hasher, silent>>
    BY <1>4 DEF SetDl, ReaderTo
  <2>3. RightFor(TargetOf(round), s_height)
    BY <2>1, RoundFields DEF Justified, RightFor
  <2>4. SharedRight'
    BY <2>2, <2>3, <1>g DEF SharedRight
  <2>5. ASSUME NEW v \in Worker PROVE WorkerRight(v)'
    <3>1. WorkerRight(v) /\ reader \in [Worker -> {"off", "start", "reset", "setdl", "scan"}]
      BY <1>t DEF TypeOK
    <3> QED BY <2>1, <2>2, <3>1, <1>g, <1>o DEF WorkerRight, Height
  <2> QED BY <2>2, <2>4, <2>5, <1>m DEF FilterJustified, SharedRight, WorkerRight
<1>5. ASSUME NEW w \in Worker, Scan(w) PROVE FilterJustified' /\ OnlyOvertakenLost'
  <2>1. WorkerRight(w)'
    BY <1>5, <1>t, <1>g, <1>o DEF Scan, WorkerRight, TypeOK, Height
  <2>2. \A v \in Worker \ {w} : UNCHANGED <<reader[v], job[v], hasher[v]>>
    BY <1>5, <1>t DEF Scan, TypeOK
  <2> QED BY <1>5, <2>1, <2>2, OtherWorkers DEF Scan
<1>6. ASSUME NEW w \in Worker, EndScan(w) PROVE FilterJustified' /\ OnlyOvertakenLost'
  <2>1. WorkerRight(w)'
    BY <1>6, <1>t, <1>g, <1>o DEF EndScan, ReaderTo, WorkerRight, TypeOK, Height
  <2>2. \A v \in Worker \ {w} : UNCHANGED <<reader[v], job[v], hasher[v]>>
    BY <1>6, <1>t DEF EndScan, ReaderTo, TypeOK
  <2> QED BY <1>6, <2>1, <2>2, OtherWorkers DEF EndScan
<1>7. ASSUME NEW w \in Worker, DropJob(w) PROVE FilterJustified' /\ OnlyOvertakenLost'
  <2>1. WorkerRight(w)'
    BY <1>7, <1>t, <1>g, <1>o DEF DropJob, WorkerRight, TypeOK, Height
  <2>2. \A v \in Worker \ {w} : UNCHANGED <<reader[v], job[v], hasher[v]>>
    BY <1>7, <1>t DEF DropJob, TypeOK
  <2> QED BY <1>7, <2>1, <2>2, OtherWorkers DEF DropJob
<1>8. ASSUME NEW w \in Worker, Load(w) PROVE FilterJustified' /\ OnlyOvertakenLost'
  <2>1. job[w] \in 1..Len(Rounds) /\ job[w] # 0
    BY <1>8, <1>t, <1>r DEF TypeOK, Load
  <2>2. hasher'[w] = [pc |-> "hash", round |-> job[w], target_dl |-> s_dl] /\ job'[w] = 0
        /\ UNCHANGED <<round, s_height, s_dl, reader, silent>>
    BY <1>8, <1>t DEF Load, LoadJob, TypeOK
  <2>3. PICK t, h : t = s_dl /\ h = Height(job[w])
    OBVIOUS
  <2>4. RightFor(t, h)'
    <3>1. CASE LoadOvertaken(w)
      <4>1. h \in overtaken'
        BY <1>8, <2>3, <3>1 DEF Load
      <4> QED BY <4>1 DEF RightFor
    <3>2. CASE ~LoadOvertaken(w)
      <4>1. NoResetUnderWay /\ s_height = h
        BY <3>2, <2>1, <2>3, <1>t DEF LoadOvertaken, WorkerRight
      <4>2. RightFor(t, h)
        BY <4>1, <2>1, <2>3, <1>t, RoundFields DEF SharedRight
      <4> QED BY <4>2, <1>g
    <3> QED BY <3>1, <3>2
  <2>5. WorkerRight(w)'
    BY <1>t, <2>1, <2>2, <2>3, <2>4 DEF WorkerRight, Height
  <2>6. \A v \in Worker \ {w} : UNCHANGED <<reader[v], job[v], hasher[v]>>
    BY <1>8, <1>t DEF Load, LoadJob, TypeOK
  <2> QED BY <2>2, <2>5, <2>6, OtherWorkers
<1>9. ASSUME NEW w \in Worker, HashBlock(w) PROVE FilterJustified' /\ OnlyOvertakenLost'
  <2>1. WorkerRight(w) /\ hasher[w] \in HasherState /\ hasher[w].pc = "hash"
        /\ hasher[w].round \in 1..round /\ hasher[w].target_dl \in Nat
    BY <1>9, <1>t, <1>h, <1>r DEF HashBlock, WorkerRight, HasherState
  <2>2. UNCHANGED <<round, s_height, s_dl, reader, job>>
    BY <1>9 DEF HashBlock
  <2>3. PICK d \in Deadline :
          \/ /\ Beats(w, d) /\ Report(hasher[w].round, d)
             /\ hasher' = [hasher EXCEPT ![w].pc = "test", ![w].target_dl = d]
          \/ /\ ~Beats(w, d)
             /\ silent' = silent \cup {<<hasher[w].round, d>>}
             /\ hasher' = [hasher EXCEPT ![w].pc = "test"]
             /\ UNCHANGED reported
    BY <1>9 DEF HashBlock
  <2>4. d \in Nat
    BY DeadlineAssumption
  <2>5. \A v \in Worker \ {w} : hasher'[v] = hasher[v]
    BY <2>3, <1>t DEF TypeOK
  <2>6. hasher'[w].pc = "test" /\ hasher'[w].round = hasher[w].round
    BY <2>1, <2>3, <1>t DEF TypeOK, HasherState
  <2>7. RightFor(hasher[w].target_dl, Height(hasher[w].round))
    BY <2>1 DEF WorkerRight
  <2>8. PICK t, h, k : t = hasher'[w].target_dl /\ k = hasher[w].round /\ h = Height(k)
    OBVIOUS
  <2>9. RightFor(t, h)'
    <3>1. CASE Beats(w, d)
      <4>1. <<k, d>> \in reported' /\ t = d /\ k \in 1..round' /\ Height(k)' = h
        BY <2>1, <2>2, <2>3, <2>8, <3>1, <1>t DEF Report, TypeOK, HasherState, Height
      <4>2. Justified(d, k)'
        BY <4>1, <2>4 DEF Justified
      <4> QED BY <4>1, <4>2 DEF RightFor
    <3>2. CASE ~Beats(w, d)
      <4>1. t = hasher[w].target_dl
        BY <2>1, <2>3, <2>8, <3>2, <1>t DEF TypeOK, HasherState
      <4> QED BY <4>1, <2>7, <2>8, <1>g
    <3> QED BY <3>1, <3>2
  <2>10. SharedRight'
    BY <1>t, <2>2, <1>g DEF SharedRight, NoResetUnderWay
  <2>11. ASSUME NEW v \in Worker PROVE WorkerRight(v)'
    <3>1. CASE v = w
      BY <3>1, <2>1, <2>2, <2>6, <2>8, <2>9 DEF WorkerRight, Height
    <3>2. CASE v # w
      BY <3>2, <1>t, <2>2, <2>5, <1>g, <1>o DEF WorkerRight, Height
    <3> QED BY <3>1, <3>2
  <2>12. ASSUME NEW m \in silent' PROVE RightFor(m[2], Height(m[1]))'
    <3>1. CASE m \in silent
      BY <3>1, <1>t, <1>g DEF OnlyOvertakenLost, Height
    <3>2. CASE m \notin silent
      <4>1. ~Beats(w, d) /\ m = <<hasher[w].round, d>>
        BY <2>3, <3>2 DEF Report
      <4>2. hasher[w].target_dl <= d
        BY <4>1, <2>1, <2>4 DEF Beats
      <4>3. RightFor(d, Height(hasher[w].round))
        BY <4>2, <2>1, <2>4, <2>7, <1>t, RightUp
      <4> QED BY <4>1, <4>3, <1>g DEF Height
    <3> QED BY <3>1, <3>2
  <2> QED BY <2>10, <2>11, <2>12 DEF FilterJustified, SharedRight, WorkerRight, OnlyOvertakenLost
<1>10. ASSUME NEW w \in Worker, TestDl(w) PROVE FilterJustified' /\ OnlyOvertakenLost'
  <2>1. hasher[w].pc = "test" /\ hasher[w] \in HasherState
    BY <1>10, <1>h DEF TestDl
  <2>2. PICK pc \in {"height", "top"} : hasher' = [hasher EXCEPT ![w].pc = pc]
    BY <1>10 DEF TestDl
  <2>3. hasher'[w].pc = pc /\ hasher'[w].round = hasher[w].round
        /\ hasher'[w].target_dl = hasher[w].target_dl
    BY <2>1, <2>2, <1>t DEF TypeOK, HasherState
  <2>4. UNCHANGED <<round, s_height, s_dl, reader, job, silent>>
    BY <1>10 DEF TestDl
  <2>5. WorkerRight(w)'
    BY <1>t, <2>1, <2>3, <2>4, <1>g DEF WorkerRight, Height
  <2>6. \A v \in Worker \ {w} : UNCHANGED <<reader[v], job[v], hasher[v]>>
    BY <2>2, <2>4, <1>t DEF TypeOK
  <2> QED BY <2>4, <2>5, <2>6, OtherWorkers
<1>11. ASSUME NEW w \in Worker, TestHeight(w) PROVE FilterJustified' /\ OnlyOvertakenLost'
  <2>1. hasher[w].pc = "height" /\ hasher[w] \in HasherState
    BY <1>11, <1>h DEF TestHeight
  <2>2. PICK pc \in {"store", "top"} :
          /\ hasher' = [hasher EXCEPT ![w].pc = pc]
          /\ pc = "store" => Height(hasher[w].round) = s_height
    BY <1>11 DEF TestHeight
  <2>3. hasher'[w].pc = pc /\ hasher'[w].round = hasher[w].round
        /\ hasher'[w].target_dl = hasher[w].target_dl
    BY <2>1, <2>2, <1>t DEF TypeOK, HasherState
  <2>4. UNCHANGED <<round, s_height, s_dl, reader, job, silent>>
    BY <1>11 DEF TestHeight
  <2>5. WorkerRight(w)'
    BY <1>t, <2>1, <2>2, <2>3, <2>4, <1>g DEF WorkerRight, Height
  <2>6. \A v \in Worker \ {w} : UNCHANGED <<reader[v], job[v], hasher[v]>>
    BY <2>2, <2>4, <1>t DEF TypeOK
  <2> QED BY <2>4, <2>5, <2>6, OtherWorkers
<1>12. ASSUME NEW w \in Worker, Store(w) PROVE FilterJustified' /\ OnlyOvertakenLost'
  <2>1. UNCHANGED <<round, s_height, reader, job, silent, overtaken>>
        /\ s_dl' = hasher[w].target_dl /\ hasher' = [hasher EXCEPT ![w].pc = "top"]
    BY <1>12 DEF Store
  <2>2. hasher[w].pc = "store" /\ WorkerRight(w)
    BY <1>12, <1>t DEF Store
  <2>3. RightFor(hasher[w].target_dl, s_height)
    BY <2>2 DEF WorkerRight, RightFor
  <2>4. SharedRight'
    BY <2>1, <2>3, <1>g DEF SharedRight
  <2>5. ASSUME NEW v \in Worker PROVE WorkerRight(v)'
    <3>1. hasher'[v] = hasher[v] \/ hasher'[v].pc = "top"
      BY <2>1, <1>t, <1>h DEF TypeOK, HasherState
    <3> QED BY <2>1, <3>1, <1>t, <1>g, <1>o DEF WorkerRight, Height
  <2> QED BY <2>1, <2>4, <2>5, <1>m DEF FilterJustified, SharedRight, WorkerRight
<1>13. CASE UNCHANGED vars
  <2>1. \A w \in Worker : WorkerRight(w)'
    BY <1>13, <1>t, <1>g DEF vars, WorkerRight, Height
  <2>2. SharedRight'
    BY <1>13, <1>t, <1>g DEF vars, SharedRight, NoResetUnderWay
  <2> QED BY <1>13, <2>1, <2>2, <1>m DEF vars, FilterJustified, SharedRight, WorkerRight
<1> QED BY <1>1, <1>2, <1>3, <1>4, <1>5, <1>6, <1>7, <1>8, <1>9, <1>10, <1>11, <1>12, <1>13
        DEF Next, ReaderStep, HasherStep

-----------------------------------------------------------------------------
LEMMA Inductive == Spec => []IInv
<1>1. Init => IInv
  BY InitIInv
<1>2. IInv /\ [Next]_vars => IInv'
  BY NextTypeOK, NextFilter DEF IInv
<1> QED BY <1>1, <1>2, PTL DEF Spec

(* The variables keep their types; job, hasher and the histories name      *)
(* rounds that have begun.                                                 *)
THEOREM TypeCorrect == Spec => []TypeOK
<1>1. IInv => TypeOK
  BY DEF IInv
<1> QED BY <1>1, Inductive, PTL

(* Outside a reset s_dl, and always the copy of it each hash thread holds, *)
(* is the target of a round of its height or a deadline reported for one,  *)
(* unless the height was overtaken.                                        *)
THEOREM FilterHolds == Spec => []FilterJustified
<1>1. IInv => FilterJustified
  BY DEF IInv
<1> QED BY <1>1, Inductive, PTL

(* No block hashed by hash_thread loses its result to the filter s_dl      *)
(* unless its height was overtaken: it missed the target of a round of its *)
(* height, or one as good was reported for one.                            *)
THEOREM OnlyOvertakenAreLost == Spec => []OnlyOvertakenLost
<1>1. IInv => OnlyOvertakenLost
  BY DEF IInv
<1> QED BY <1>1, Inductive, PTL
=============================================================================

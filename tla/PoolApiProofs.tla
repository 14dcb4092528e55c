---------------------------- MODULE PoolApiProofs ----------------------------
(* Theorems about PoolApi, for any coins, modes and rates, any number of      *)
(* blocks and broken connections, and results at any time, also between the   *)
(* two looks of poolapi_NewMiningInfo.                                        *)
EXTENDS PoolApi, TLAPS

-----------------------------------------------------------------------------
(* The inductive invariant *)

PoolBlock == [height : Nat, sig : Nat]
Announcement == [coin : PoolCoins, minfo : PoolBlock]

Types ==
  /\ news \in Nat /\ newest \in [PoolCoins -> PoolBlock] /\ ws \in Seq(Announcement)
  /\ handler \in {Idle} \union [pc : {"switch"}, coin : OwnCoins, minfo : PoolBlock]
  /\ MiningCoin \in OwnCoins
  /\ MiningInfos \in [OwnCoins -> [height : Int, sig : Nat]]

\* nothing is higher than what the pool has
Below ==
  /\ \A k \in DOMAIN ws : ws[k].minfo.height <= newest[ws[k].coin].height
  /\ handler # Idle => handler.minfo.height <= newest[handler.coin].height
  /\ \A c \in OwnCoins : MiningInfos[c].height <= newest[c].height

Status == MiningInfos[MiningCoin] = MiningInfo

\* the next announcement of a coin that was interrupted counts as new
OwedIsNew ==
  /\ owed \subseteq OwnCoins \ {MiningCoin}
  /\ \A c \in owed : MiningInfos[c].height < newest[c].height

\* without late progress no more is counted for a block than was read of it
Counted ==
  /\ read \in Nat /\ own \in Nat /\ ScanPercent \in Nat
  /\ stray \/ ScanPercent + own <= read

IInv == Types /\ Below /\ Status /\ OwedIsNew /\ Counted

-----------------------------------------------------------------------------
LEMMA MinOfTwo ==
  ASSUME NEW a \in Nat, NEW b \in Nat
  PROVE  Min({a, b}) \in {a, b} /\ Min({a, b}) <= a
<1>1. \E x \in {a, b} : \A y \in {a, b} : x <= y
  OBVIOUS
<1> QED
  BY <1>1 DEF Min

LEMMA OwnCoinsFacts ==
  /\ OwnCoins \subseteq PoolCoins /\ Coins[1] \in OwnCoins
  /\ \A k \in DOMAIN Coins : Coins[k] \in OwnCoins
<1>1. /\ Coins \in Seq(PoolCoins) /\ 1 \in DOMAIN Coins
  BY CoinsAssumption
<1>2. \A k \in DOMAIN Coins : Coins[k] \in PoolCoins
  BY <1>1
<1> QED
  BY <1>1, <1>2 DEF OwnCoins, ToSet

LEMMA InitIInv == Init => IInv
<1> SUFFICES ASSUME Init PROVE IInv
  OBVIOUS
<1>1. Types
  BY OwnCoinsFacts DEF Init, Types, PoolBlock, Announcement, None
<1>2. Below
  BY OwnCoinsFacts DEF Init, Below, None
<1>3. Status /\ OwedIsNew /\ Counted
  BY OwnCoinsFacts DEF Init, Status, OwedIsNew, Counted
<1> QED
  BY <1>1, <1>2, <1>3 DEF IInv

\* The pool finds a block, and may push it.
LEMMA PoolFindsStep ==
  ASSUME IInv, PoolFinds
  PROVE  IInv'
<1>1. PICK c \in PoolCoins, step \in {0, 1} :
        LET b == [height |-> newest[c].height + step, sig |-> news + 1]
        IN  /\ newest' = [newest EXCEPT ![c] = b]
            /\ \/ ws' = Append(ws, [coin |-> c, minfo |-> b])
               \/ ws' = ws
  BY DEF PoolFinds
<1> DEFINE b == [height |-> newest[c].height + step, sig |-> news + 1]
<1>2. /\ news' = news + 1
      /\ UNCHANGED <<handler, MiningCoin, MiningInfo, MiningInfos, owed, progress>>
  BY DEF PoolFinds, status
<1>3. /\ newest \in [PoolCoins -> PoolBlock] /\ newest[c].height \in Nat /\ news \in Nat
      /\ ws \in Seq(Announcement)
  BY DEF IInv, Types, PoolBlock
<1>4. b \in PoolBlock /\ b.height >= newest[c].height
  BY <1>3 DEF PoolBlock
<1>5. newest' \in [PoolCoins -> PoolBlock] /\ newest'[c] = b
  BY <1>1, <1>3, <1>4
<1>6. \A d \in PoolCoins : /\ newest[d].height \in Nat /\ newest'[d].height \in Nat
                           /\ newest[d].height <= newest'[d].height
  <2> TAKE d \in PoolCoins
  <2>1. newest[d].height \in Nat /\ newest'[d].height \in Nat
    BY <1>3, <1>5 DEF PoolBlock
  <2>2. d = c \/ newest'[d] = newest[d]
    BY <1>1, <1>3
  <2> QED
    BY <1>3, <1>4, <1>5, <2>1, <2>2
<1> HIDE DEF b
<1>7. [coin |-> c, minfo |-> b] \in Announcement
  BY <1>4 DEF Announcement
<1>8. ws' \in Seq(Announcement)
  BY <1>1, <1>3, <1>7 DEF b
<1>9. Types'
  BY <1>2, <1>3, <1>5, <1>8 DEF IInv, Types
<1>10. \A k \in DOMAIN ws' : ws'[k].minfo.height <= newest'[ws'[k].coin].height
  <2> TAKE k \in DOMAIN ws'
  <2>1. CASE k \in DOMAIN ws /\ ws'[k] = ws[k]
    <3>1. ws[k] \in Announcement /\ ws[k].minfo.height <= newest[ws[k].coin].height
      BY <1>3, <2>1 DEF IInv, Below
    <3>2. ws[k].coin \in PoolCoins /\ ws[k].minfo.height \in Nat
      BY <3>1 DEF Announcement, PoolBlock
    <3> QED
      BY <1>6, <2>1, <3>1, <3>2
  <2>2. CASE ws'[k] = [coin |-> c, minfo |-> b]
    BY <1>4, <1>5, <2>2 DEF PoolBlock
  <2>3. \/ k \in DOMAIN ws /\ ws'[k] = ws[k]
        \/ ws'[k] = [coin |-> c, minfo |-> b]
    <3> DEFINE a == [coin |-> c, minfo |-> b]
    <3>1. CASE ws' = ws
      BY <3>1
    <3>2. CASE ws' = Append(ws, a)
      <4> HIDE DEF a
      <4>1. DOMAIN ws = 1 .. Len(ws) /\ DOMAIN ws' = 1 .. Len(ws) + 1 /\ Len(ws) \in Nat
        BY <1>3, <3>2
      <4>2. k = Len(ws) + 1 => ws'[k] = a
        BY <1>3, <3>2
      <4>3. k \in DOMAIN ws => ws'[k] = ws[k]
        BY <1>3, <3>2
      <4> QED
        BY <4>1, <4>2, <4>3 DEF a
    <3> QED
      BY <1>1, <3>1, <3>2 DEF b
  <2> QED
    BY <2>1, <2>2, <2>3
<1>11. handler' # Idle => handler'.minfo.height <= newest'[handler'.coin].height
  <2> SUFFICES ASSUME handler # Idle
               PROVE  handler.minfo.height <= newest'[handler.coin].height
    BY <1>2
  <2>1. handler.coin \in PoolCoins /\ handler.minfo.height \in Nat
    BY OwnCoinsFacts DEF IInv, Types, PoolBlock
  <2>2. handler.minfo.height <= newest[handler.coin].height
    BY DEF IInv, Below
  <2> QED
    BY <1>6, <2>1, <2>2
<1>12. \A d \in OwnCoins : MiningInfos[d].height \in Int
  BY DEF IInv, Types
<1>13. \A d \in OwnCoins : MiningInfos'[d].height <= newest'[d].height
  BY <1>2, <1>6, <1>12, OwnCoinsFacts DEF IInv, Below
<1>14. Below'
  BY <1>10, <1>11, <1>13 DEF Below
<1>15. OwedIsNew'
  <2>1. \A d \in owed : MiningInfos[d].height < newest'[d].height
    BY <1>6, <1>12, OwnCoinsFacts DEF IInv, OwedIsNew
  <2> QED
    BY <1>2, <2>1 DEF IInv, OwedIsNew
<1>16. Status' /\ Counted'
  BY <1>2 DEF IInv, Status, Counted, progress
<1> QED
  BY <1>9, <1>14, <1>15, <1>16 DEF IInv

\* The pool answers for every coin of the configuration.
LEMMA PoolAnswersStep ==
  ASSUME IInv, PoolAnswers
  PROVE  IInv'
<1>1. /\ ws' = [k \in DOMAIN Coins |-> Announce(Coins[k])]
      /\ UNCHANGED <<news, newest, handler, MiningCoin, MiningInfo, MiningInfos, owed,
                     progress>>
  BY DEF PoolAnswers, pool, status
<1>2. Len(Coins) \in Nat /\ DOMAIN Coins = 1 .. Len(Coins)
  BY CoinsAssumption
<1>3. \A k \in DOMAIN Coins : Announce(Coins[k]) \in Announcement
  BY OwnCoinsFacts DEF Announce, Announcement, IInv, Types
<1>4. ws' \in Seq(Announcement)
  BY <1>1, <1>2, <1>3
<1>5. \A k \in DOMAIN ws' : ws'[k].minfo.height <= newest[ws'[k].coin].height
  <2> TAKE k \in DOMAIN ws'
  <2>1. k \in DOMAIN Coins /\ ws'[k] = [coin |-> Coins[k], minfo |-> newest[Coins[k]]]
    BY <1>1 DEF Announce
  <2>2. newest[Coins[k]].height \in Nat
    BY <2>1, OwnCoinsFacts DEF IInv, Types, PoolBlock
  <2> QED
    BY <2>1, <2>2
<1> QED
  BY <1>1, <1>4, <1>5 DEF IInv, Types, Below, Status, OwedIsNew, Counted, progress

\* The first look takes an announcement.
LEMMA LookStep ==
  ASSUME IInv, Look
  PROVE  IInv'
<1>1. /\ ws # <<>> /\ ws' = Tail(ws)
      /\ handler' \in {Idle, [pc |-> "switch", coin |-> ws[1].coin, minfo |-> ws[1].minfo]}
      /\ handler' # Idle => ws[1].coin \in OwnCoins
      /\ UNCHANGED <<news, newest, MiningCoin, MiningInfo, MiningInfos, owed, progress>>
  BY DEF Look, pool, status
<1>2. ws \in Seq(Announcement) /\ ws' \in Seq(Announcement) /\ ws[1] \in Announcement
  BY <1>1 DEF IInv, Types
<1>3. Types'
  BY <1>1, <1>2 DEF IInv, Types, Announcement
<1>4. \A k \in DOMAIN ws' : k + 1 \in DOMAIN ws /\ ws'[k] = ws[k + 1]
  BY <1>1, <1>2
<1>5. 1 \in DOMAIN ws
  BY <1>1, <1>2
<1>6. Below'
  BY <1>1, <1>4, <1>5 DEF IInv, Below
<1> QED
  BY <1>1, <1>3, <1>6 DEF IInv, Status, OwedIsNew, Counted, progress

\* The second look may set the interrupted coin back, and stores the new one.
LEMMA SwitchStep ==
  ASSUME IInv, Switch
  PROVE  IInv'
<1>1. /\ MiningInfos' = [SetBack(MiningInfos) EXCEPT ![handler.coin] = handler.minfo]
      /\ MiningInfo' = handler.minfo /\ MiningCoin' = handler.coin /\ handler' = Idle
      /\ owed' = (IF LittleRead THEN owed \union {MiningCoin} ELSE owed) \ {handler.coin}
      /\ UNCHANGED <<news, newest, ws>>
  BY DEF Switch, Stored, pool, link
<1>2. /\ handler.coin \in OwnCoins /\ handler.minfo \in PoolBlock /\ handler # Idle
      /\ MiningCoin \in OwnCoins /\ newest \in [PoolCoins -> PoolBlock]
      /\ MiningInfos \in [OwnCoins -> [height : Int, sig : Nat]]
  BY DEF Switch, IInv, Types, Idle
<1>3. /\ SetBack(MiningInfos) \in [OwnCoins -> [height : Int, sig : Nat]]
      /\ \A c \in OwnCoins :
           /\ c # MiningCoin => SetBack(MiningInfos)[c] = MiningInfos[c]
           /\ Interrupted =>
                SetBack(MiningInfos)[MiningCoin].height = MiningInfos[MiningCoin].height - 1
           /\ ~Interrupted => SetBack(MiningInfos) = MiningInfos
  <2>1. CASE Interrupted
    <3>1. SetBack(MiningInfos) = [MiningInfos EXCEPT ![MiningCoin] =
                                    [MiningInfos[MiningCoin] EXCEPT !.height = @ - 1]]
      BY <1>2, <2>1 DEF SetBack
    <3>2. [MiningInfos[MiningCoin] EXCEPT !.height = @ - 1] \in [height : Int, sig : Nat]
      BY <1>2
    <3> QED
      BY <1>2, <2>1, <3>1, <3>2
  <2>2. CASE ~Interrupted
    BY <1>2, <2>2 DEF SetBack
  <2> QED
    BY <2>1, <2>2
<1>4. /\ MiningInfos' \in [OwnCoins -> [height : Int, sig : Nat]]
      /\ MiningInfos'[handler.coin] = handler.minfo
      /\ \A c \in OwnCoins \ {handler.coin} : MiningInfos'[c] = SetBack(MiningInfos)[c]
  BY <1>1, <1>2, <1>3 DEF PoolBlock
<1>5. Types'
  BY <1>1, <1>2, <1>4 DEF IInv, Types
<1>6. ASSUME NEW c \in OwnCoins
      PROVE  /\ MiningInfos'[c].height <= newest[c].height
             /\ c \in owed' => MiningInfos'[c].height < newest[c].height
  <2>1. newest[c].height \in Nat /\ MiningInfos[c].height \in Int
        /\ MiningInfos[c].height <= newest[c].height
    BY <1>2, OwnCoinsFacts DEF IInv, Below, PoolBlock
  <2>2. CASE c = handler.coin
    BY <1>1, <1>2, <1>4, <2>2 DEF IInv, Below
  <2>3. CASE c # handler.coin /\ c # MiningCoin
    <3>1. MiningInfos'[c] = MiningInfos[c]
      BY <1>3, <1>4, <2>3
    <3>2. c \in owed' => c \in owed
      BY <1>1, <2>3
    <3> QED
      BY <2>1, <3>1, <3>2 DEF IInv, OwedIsNew
  <2>4. CASE c # handler.coin /\ c = MiningCoin /\ Interrupted
    <3>1. MiningInfos'[c].height = MiningInfos[c].height - 1
      BY <1>3, <1>4, <2>4
    <3> QED
      BY <2>1, <3>1
  <2>5. CASE c # handler.coin /\ c = MiningCoin /\ ~Interrupted
    <3>1. MiningInfos'[c] = MiningInfos[c]
      BY <1>3, <1>4, <2>5
    <3>2. ~LittleRead
      BY <2>5, RatesAssumption DEF Interrupted, LittleRead, IInv, Counted
    <3>3. c \notin owed'
      BY <1>1, <2>5, <3>2 DEF IInv, OwedIsNew
    <3> QED
      BY <2>1, <3>1, <3>3
  <2> QED
    BY <2>2, <2>3, <2>4, <2>5
<1>7. owed' \subseteq OwnCoins \ {MiningCoin'}
  BY <1>1, <1>2 DEF IInv, OwedIsNew
<1>8. Below'
  BY <1>1, <1>6 DEF IInv, Below
<1>9. OwedIsNew'
  BY <1>1, <1>6, <1>7 DEF OwedIsNew
<1>10. Status'
  BY <1>1, <1>4 DEF Status
<1>11. Counted'
  BY DEF Switch, Counted
<1> QED
  BY <1>5, <1>8, <1>9, <1>10, <1>11 DEF IInv

LEMMA NextIInv == IInv /\ [Next]_vars => IInv'
<1> SUFFICES ASSUME IInv, [Next]_vars PROVE IInv'
  OBVIOUS
<1>1. CASE Break \/ Dial \/ Result \/ Lapse \/ Read \/ process_scan
  <2>1. /\ UNCHANGED <<news, newest, handler, MiningCoin, MiningInfo, MiningInfos, owed>>
        /\ ws' = ws \/ ws' = <<>>
    BY <1>1 DEF Break, Dial, Result, Lapse, Read, process_scan, pool, link, status
  <2>2. Types'
    <3>1. ws \in Seq(Announcement)
      BY DEF IInv, Types
    <3>2. <<>> \in Seq(Announcement)
      OBVIOUS
    <3>3. ws' \in Seq(Announcement)
      BY <2>1, <3>1, <3>2, Zenon
    <3> QED
      BY <2>1, <3>3 DEF IInv, Types
  <2>3. Counted'
    <3>1. CASE Read
      BY <3>1 DEF Read, IInv, Counted
    <3>2. CASE process_scan
      <4>1. ScanPercent' \in Nat /\ ScanPercent' <= ScanPercent + 1
        <5>1. ScanPercent + 1 \in Nat /\ Whole \in Nat
          BY RatesAssumption DEF IInv, Counted
        <5>2. ScanPercent' = Min({ScanPercent + 1, Whole})
          BY <3>2 DEF process_scan
        <5> QED
          BY <5>1, <5>2, MinOfTwo
      <4> QED
        BY <3>2, <4>1 DEF process_scan, IInv, Counted
    <3>3. CASE UNCHANGED progress
      BY <3>3 DEF progress, IInv, Counted
    <3> QED
      BY <1>1, <3>1, <3>2, <3>3 DEF Break, Dial, Result, Lapse
  <2>4. CASE ws' = ws
    BY <2>1, <2>2, <2>4, <2>3 DEF IInv, Below, Status, OwedIsNew
  <2>5. CASE ws' = <<>>
    <3>1. DOMAIN ws' = {}
      BY <2>5
    <3> QED
      BY <2>1, <2>2, <2>3, <3>1 DEF IInv, Below, Status, OwedIsNew
  <2> QED
    BY <2>1, <2>4, <2>5
<1>2. CASE UNCHANGED vars
  BY <1>2 DEF vars, pool, link, status, progress, IInv, Types, Below, Status, OwedIsNew,
     Counted
<1> QED
  BY <1>1, <1>2, PoolFindsStep, PoolAnswersStep, LookStep, SwitchStep
     DEF Next, poolapi_NewMiningInfo

-----------------------------------------------------------------------------
(* The theorems *)

\* The status and the entry of the coin that is mined are the same block
\* whenever the handler is not at work, also after a coin was interrupted by
\* itself: GetNewMiningInfo stores what the set-back may have changed.
THEOREM StatusIsKept == Spec => []StatusAgrees
<1>1. IInv => StatusAgrees
  BY DEF IInv, Status, StatusAgrees
<1> QED
  BY <1>1, InitIInv, NextIInv, PTL DEF Spec

\* A coin whose block gave results and was interrupted before much of it was
\* read keeps a height below the pool's newest until it is mined again, whatever
\* is announced, lost and interrupted meanwhile: the next announcement that finds
\* nothing being mined is taken (mold.Height-- in poolapi_NewMiningInfo). The
\* safety part of Resumed.
THEOREM SetBackLasts ==
  Spec => [](\A c \in owed : Newer(newest[c], MiningInfos[c]))
<1>1. IInv => \A c \in owed : Newer(newest[c], MiningInfos[c])
  BY DEF IInv, OwedIsNew, Newer
<1> QED
  BY <1>1, InitIInv, NextIInv, PTL DEF Spec
=============================================================================

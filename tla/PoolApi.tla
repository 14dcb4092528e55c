------------------------------- MODULE PoolApi -------------------------------
(* The choice of the block to mine, pool_api.go: the pool announces the       *)
(* newest block of every coin, again and again, and poolapi_NewMiningInfo     *)
(* decides whether to switch to it. The block it interrupts is mined again    *)
(* later if little of it was read: its height is set back by one, so that the *)
(* next announcement counts as new. Whether something is being mined is only  *)
(* guessed, from the time of the last result.                                 *)
(*                                                                            *)
(* MinerRun has what a switch does to the run in progress, and ReportPath     *)
(* what it does to results on their way.                                      *)
EXTENDS Integers, Sequences, SequencesExt

CONSTANTS
  Coins,        \* conf.Coins, from the highest priority to the lowest
  PoolCoins,    \* the coins that the pool announces
  Modes,        \* values of: is conf.MinerExe = MODE_EMBEDDED?
  RescanRate, Whole,    \* of ScanPercent, in parts
  MaxNews,      \* bound on the blocks that the pool finds
  MaxBreaks,    \* bound on the connections that break
  WsRoom        \* bound on the announcements under way

ASSUME CoinsAssumption ==
  Coins \in Seq(PoolCoins) /\ Len(Coins) > 0 /\ IsInjective(Coins)
ASSUME RatesAssumption ==
  /\ RescanRate \in Nat \ {0} /\ Whole \in Nat /\ RescanRate <= Whole
ASSUME BoundsAssumption == {MaxNews, MaxBreaks, WsRoom} \subseteq Nat
ASSUME ModesAssumption == Modes \subseteq BOOLEAN

VARIABLES
  embedded,
  newest, news,         \* the pool's newest block of each coin; their number
  up, breaks, ws,       \* the connection, and the announcements in it
  scanning,             \* checkScaning()
  MiningCoin, MiningInfo, MiningInfos, ScanPercent,   \* of g_miner_status
  read, own, late,      \* parts read of the block mined now; those of it and of
                        \* the blocks before it whose datagrams are to come
  handler,              \* poolapi_NewMiningInfo
  stray,                \* history: was late progress counted for this block?
  owed                  \* history: coins whose block was interrupted while it
                        \* was mined and little of it was read, and not resumed

pool == <<newest, news>>
link == <<up, breaks, ws>>
status == <<MiningCoin, MiningInfo, MiningInfos>>
progress == <<ScanPercent, read, own, late, stray>>
vars == <<embedded, pool, link, scanning, status, progress, handler, owed>>

OwnCoins == ToSet(Coins)
None == [height |-> 0, sig |-> 0]
Idle == [pc |-> "idle"]

Init ==
  /\ embedded \in Modes
  /\ newest = [c \in PoolCoins |-> [height |-> 1, sig |-> 0]] /\ news = 0
  /\ up = TRUE /\ breaks = 0 /\ ws = <<>>
  /\ scanning = FALSE
  /\ MiningCoin = Coins[1] /\ MiningInfo = None
  /\ MiningInfos = [c \in OwnCoins |-> None]
  /\ ScanPercent = 0 /\ read = 0 /\ own = 0 /\ late = 0 /\ stray = FALSE
  /\ handler = Idle /\ owed = {}

-----------------------------------------------------------------------------
(* The pool and the connection *)

Announce(c) == [coin |-> c, minfo |-> newest[c]]

\* a block of greater height, or another one of the same height; it is pushed
PoolFinds ==
  /\ news < MaxNews /\ news' = news + 1
  /\ \E c \in PoolCoins, step \in {0, 1} :
       LET b == [height |-> newest[c].height + step, sig |-> news + 1]
       IN  /\ newest' = [newest EXCEPT ![c] = b]
           /\ \/ up /\ Len(ws) < WsRoom /\ ws' = Append(ws, [coin |-> c, minfo |-> b])
              \/ ~up /\ UNCHANGED ws
  /\ UNCHANGED <<embedded, up, breaks, scanning, status, progress, handler, owed>>

\* poolapi_Open and poolapi_Interval ask for the block of every coin
PoolAnswers ==
  /\ up /\ ws = <<>>
  /\ ws' = [k \in DOMAIN Coins |-> Announce(Coins[k])]
  /\ UNCHANGED <<embedded, pool, up, breaks, scanning, status, progress, handler, owed>>

Break ==
  /\ up /\ breaks < MaxBreaks
  /\ up' = FALSE /\ breaks' = breaks + 1 /\ ws' = <<>>
  /\ UNCHANGED <<embedded, pool, scanning, status, progress, handler, owed>>
Dial ==
  /\ ~up /\ up' = TRUE
  /\ UNCHANGED <<embedded, pool, breaks, ws, scanning, status, progress, handler, owed>>

-----------------------------------------------------------------------------
(* What other goroutines do to the guess *)

\* doProcMinerSubmit: a result of any miner for the coin and height mined now,
\* also before the first block
Result ==
  /\ ~scanning /\ scanning' = TRUE
  /\ UNCHANGED <<embedded, pool, link, status, progress, handler, owed>>
\* SubmitTimeout seconds without one
Lapse ==
  /\ scanning /\ scanning' = FALSE
  /\ UNCHANGED <<embedded, pool, link, status, progress, handler, owed>>
\* the miner reads a part of the block
Read ==
  /\ embedded /\ MiningInfo # None /\ read < Whole
  /\ read' = read + 1 /\ own' = own + 1
  /\ UNCHANGED <<embedded, pool, link, scanning, status, ScanPercent, late, stray,
                 handler, owed>>
\* process_scan: a datagram names no block, and counts for the one mined now;
\* at and beyond Whole all is alike
process_scan ==
  /\ \/ own > 0 /\ own' = own - 1 /\ UNCHANGED <<late, stray>>
     \/ late > 0 /\ late' = late - 1 /\ stray' = TRUE /\ UNCHANGED own
  /\ ScanPercent' = Min({ScanPercent + 1, Whole})
  /\ UNCHANGED <<embedded, pool, link, scanning, status, read, handler, owed>>

-----------------------------------------------------------------------------
(* poolapi_NewMiningInfo *)

Prio(c) == IF c \in OwnCoins THEN CHOOSE k \in DOMAIN Coins : Coins[k] = c
           ELSE Len(Coins) + 1
\* Faulty variant: the priorities are not looked at.
MayInterruptAny(coin) == coin \in OwnCoins
\* CoinPriorityIntr(MiningCoin, coin) >= 0
MayInterrupt(coin) == Prio(MiningCoin) >= Prio(coin)
Newer(minfo, m) ==
  \/ m.height < minfo.height
  \/ m.height = minfo.height /\ m.sig # minfo.sig

\* the first look
Look ==
  /\ handler.pc = "idle" /\ ws # <<>>
  /\ ws' = Tail(ws)
  /\ LET a == ws[1]
     IN  handler' = IF /\ a.coin \in OwnCoins
                       /\ ~scanning \/ MayInterrupt(a.coin)
                       /\ Newer(a.minfo, MiningInfos[a.coin])
                    THEN [pc |-> "switch", coin |-> a.coin, minfo |-> a.minfo] ELSE Idle
  /\ UNCHANGED <<embedded, pool, up, breaks, scanning, status, progress, owed>>

\* the second look: is the block that is left to be mined again?
Interrupted == scanning /\ (embedded => ScanPercent < RescanRate)
SetBack(infos) ==
  IF Interrupted THEN [infos EXCEPT ![MiningCoin].height = @ - 1] ELSE infos

\* Faulty variant: the height is set back after the new block is stored.
StoredFirst == SetBack([MiningInfos EXCEPT ![handler.coin] = handler.minfo])
Stored == [SetBack(MiningInfos) EXCEPT ![handler.coin] = handler.minfo]

\* Little of a block that gave results was read, and nothing else was counted
\* for it.
LittleRead == scanning /\ MiningInfo # None /\ (embedded => read < RescanRate /\ ~stray)

\* ... and GetNewMiningInfo
Switch ==
  /\ handler.pc = "switch"
  /\ MiningInfos' = Stored
  /\ MiningInfo' = handler.minfo /\ MiningCoin' = handler.coin
  /\ ScanPercent' = 0 /\ read' = 0 /\ own' = 0 /\ stray' = FALSE
  /\ late' = Min({late + own, Whole})
  /\ owed' = (IF LittleRead THEN owed \union {MiningCoin} ELSE owed) \ {handler.coin}
  /\ handler' = Idle
  /\ UNCHANGED <<embedded, pool, link, scanning>>

-----------------------------------------------------------------------------
poolapi_NewMiningInfo == Look \/ Switch
Next ==
  \/ PoolFinds \/ PoolAnswers \/ Break \/ Dial
  \/ Result \/ Lapse \/ Read \/ process_scan \/ poolapi_NewMiningInfo

\* the connection is dialled every second and asks every five, and what comes
\* is handled; nothing makes results come, or stay away
Spec ==
  /\ Init /\ [][Next]_vars
  /\ WF_vars(PoolAnswers) /\ WF_vars(Dial) /\ WF_vars(poolapi_NewMiningInfo)

-----------------------------------------------------------------------------
(* Properties *)

\* The coins are never switched for ever: once the pool finds no more blocks,
\* the miner stays with one, however often results start and cease to come,
\* provided that from some time on none starts between the two looks of the
\* handler (there the code does switch for ever). Priorities keep two coins from
\* interrupting each other in turns although each that is interrupted is set
\* back (CoinPriorityIntr).
NoneBetweenLooks == scanning' => scanning \/ handler = Idle
Settles == <>[][NoneBetweenLooks]_vars => <>[][UNCHANGED MiningInfo]_vars


\* What the page shows as mined is what the next announcement of this coin is
\* compared with, also when a coin was interrupted by itself and set back in
\* between (mold and m of poolapi_NewMiningInfo).
StatusAgrees == handler = Idle => MiningInfos[MiningCoin] = MiningInfo
=============================================================================

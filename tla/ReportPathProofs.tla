-------------------------- MODULE ReportPathProofs --------------------------
(* Theorems about ReportPath, for all sequences of blocks, all miners and    *)
(* deadlines, all capacities of the channels and all bounds on the reports.  *)
EXTENDS ReportPath, TLAPS

-----------------------------------------------------------------------------
(* The inductive invariant *)

SubType == [coin : Coins, height : Nat, miner : Miners, dl : Deadlines,
            b : DOMAIN Blocks, known : BOOLEAN]
\* a result that carries the height of its block
GoodSubs == {s \in SubType : s.height = Blocks[s.b].height}
Datagrams == [type : {"report"}, b : DOMAIN Blocks, dl : Deadlines]
             \union [type : {"log"}, whole : BOOLEAN]
\* what h5TickStatus sends has no mark
Message == [mark : STRING \union {""}, subs : Seq(GoodSubs)]

MonitorStates == {Nobody, [pc |-> "ended"]} \union [pc : {"send"}, sub : GoodSubs]
HttpStates == {Nobody} \union [pc : {"height"}, sub : SubType]
              \union [pc : {"send"}, sub : GoodSubs]
ProcStates == {Nobody, [pc |-> "asleep"]}
              \union [pc : {"divide", "compare", "best", "mark"}, sub : GoodSubs]
              \union [pc : {"push", "cache", "local"}, sub : GoodSubs, mark : STRING]
SenderStates == {Nobody} \union [pc : {"back"}, m : Message]

Mining ==
  /\ block \in DOMAIN Blocks /\ MiningCoin \in Coins
  /\ Height = Blocks[block].height /\ BestDL \in Nat
Arriving ==
  /\ udp \in Seq(Datagrams) /\ Len(udp) <= UdpRoom
  /\ monitor \in MonitorStates /\ http \in HttpStates
  /\ submit_ch \in Seq(GoodSubs) /\ Len(submit_ch) <= SubmitLen
Leaving ==
  /\ proc \in ProcStates /\ sender \in SenderStates
  /\ g_cache_nonce \in Seq(GoodSubs)
  /\ ch \in Seq(Message) /\ Len(ch) <= Chlen
  /\ local \in 0 .. LocalLen

\* an entry of the table is an accepted result
Table ==
  /\ accepted \subseteq GoodSubs
  /\ \A k \in DOMAIN best :
       \E a \in accepted : /\ a.coin = k[1] /\ a.miner = k[2]
                           /\ best[k].height = a.height /\ best[k].dl = a.dl

Types == Mining /\ Arriving /\ Leaving /\ Table

-----------------------------------------------------------------------------
LEMMA ElementOf ==
  ASSUME NEW S, NEW s \in Seq(S), NEW k \in DOMAIN s
  PROVE  s[k] \in S
  OBVIOUS

LEMMA BlockFacts ==
  /\ Len(Blocks) \in Nat /\ DOMAIN Blocks = 1 .. Len(Blocks)
  /\ \A b \in DOMAIN Blocks : /\ Blocks[b].height \in Nat /\ Blocks[b].coin \in STRING
                              /\ Blocks[b].coin \in Coins
<1>1. Blocks \in Seq([coin : STRING, height : Nat, sig : STRING])
  BY BlocksAssumption
<1>2. Len(Blocks) \in Nat /\ DOMAIN Blocks = 1 .. Len(Blocks)
  BY <1>1
<1>3. \A b \in DOMAIN Blocks : Blocks[b] \in [coin : STRING, height : Nat, sig : STRING]
  BY <1>1, ElementOf
<1> QED
  BY <1>2, <1>3 DEF Coins

\* What a step of one part leaves alone, part by part.
LEMMA Frames ==
  ASSUME [Next]_vars
  PROVE  /\ NewHeight \/ NewCoin \/ ShowBest \/ UNCHANGED gms
         /\ \/ send_report \/ send_log \/ process_report \/ process_log \/ UNCHANGED udp
         /\ process_report \/ process_log \/ MonitorSend \/ UNCHANGED monitor
         /\ HttpCoin \/ HttpHeight \/ HttpSend \/ UNCHANGED http
         /\ MonitorSend \/ HttpSend \/ Take \/ UNCHANGED submit_ch
         /\ doProcMinerSubmit \/ UNCHANGED proc
         /\ Accept \/ Divide \/ UNCHANGED <<best, accepted>>
         /\ SenderTake \/ SenderBack \/ UNCHANGED sender
         /\ Push \/ SenderTake \/ SenderBack \/ TickSend \/ UNCHANGED ch
         /\ Cache \/ TickEmpty \/ UNCHANGED g_cache_nonce
         /\ Local \/ procLocalSubmit \/ UNCHANGED local
  BY DEF Next, vars, gms, link, MinerMoniter, minerHandler, doProcMinerSubmit,
      serializedSend, h5TickStatus, NewHeight, NewCoin, send_report, send_log, HttpCoin,
      Break, Dial, process_report, process_log, MonitorSend, HttpHeight, HttpSend, Take,
      Divide, Wake, Skip, Accept, ShowBest, Send, Push, Cache, Local, procLocalSubmit, SenderTake,
      SenderBack, TickSend, TickEmpty, Datagram, Monitor_UNCHANGED, Http_UNCHANGED,
      Proc_UNCHANGED, Compare_UNCHANGED, Link_UNCHANGED, Tick_UNCHANGED

LEMMA TypesInit == Init => Types
<1> SUFFICES ASSUME Init PROVE Types
  OBVIOUS
<1>1. 1 \in DOMAIN Blocks
  BY BlocksAssumption
<1>2. Mining
  BY <1>1, BlockFacts DEF Init, Mining
<1>3. Arriving
  BY NumbersAssumption DEF Init, Arriving, MonitorStates, HttpStates
<1>4. Leaving
  BY NumbersAssumption DEF Init, Leaving, ProcStates, SenderStates
<1>5. Table
  BY DEF Init, Table
<1> QED
  BY <1>2, <1>3, <1>4, <1>5 DEF Types

LEMMA MiningStep ==
  ASSUME Types, [Next]_vars
  PROVE  Mining'
<1>1. CASE NewHeight
  BY <1>1, BlockFacts DEF NewHeight, Types, Mining
<1>2. CASE NewCoin
  BY <1>2, BlockFacts DEF NewCoin, Types, Mining
<1>3. CASE ShowBest
  <2>1. proc.sub \in GoodSubs
    BY <1>3 DEF ShowBest, Types, Leaving, ProcStates, Nobody
  <2>2. proc.sub.dl \in Nat
    BY <2>1, NumbersAssumption DEF GoodSubs, SubType
  <2>3. proc.sub.dl \div BaseTarget \in Nat
    BY <2>2, NumbersAssumption, Z3
  <2> QED
    BY <1>3, <2>3 DEF ShowBest, Proc_UNCHANGED, Types, Mining
<1>4. CASE UNCHANGED gms
  BY <1>4 DEF gms, Types, Mining
<1> QED
  BY <1>1, <1>2, <1>3, <1>4, Frames

LEMMA ArrivingStep ==
  ASSUME Types, [Next]_vars
  PROVE  Arriving'
<1>1. /\ udp \in Seq(Datagrams) /\ Len(udp) <= UdpRoom /\ UdpRoom \in Nat
      /\ monitor \in MonitorStates /\ http \in HttpStates /\ proc \in ProcStates
      /\ submit_ch \in Seq(GoodSubs) /\ Len(submit_ch) <= SubmitLen /\ SubmitLen \in Nat
  BY NumbersAssumption DEF Types, Arriving, Leaving
<1>2. /\ block \in DOMAIN Blocks /\ block \in Nat /\ MiningCoin \in Coins
      /\ Height = Blocks[block].height
  BY BlockFacts DEF Types, Mining
<1>3. udp' \in Seq(Datagrams) /\ Len(udp') <= UdpRoom
  <2>1. CASE send_report
    <3>1. PICK b \in 1 .. block, dl \in Deadlines :
            Datagram([type |-> "report", b |-> b, dl |-> dl])
      BY <2>1 DEF send_report
    <3>2. b \in DOMAIN Blocks
      BY <1>2, BlockFacts
    <3>3. [type |-> "report", b |-> b, dl |-> dl] \in Datagrams
      BY <3>2 DEF Datagrams
    <3> QED
      BY <1>1, <3>1, <3>3 DEF Datagram
  <2>2. CASE send_log
    <3>1. PICK whole \in BOOLEAN : Datagram([type |-> "log", whole |-> whole])
      BY <2>2 DEF send_log
    <3>2. [type |-> "log", whole |-> whole] \in Datagrams
      BY DEF Datagrams
    <3> QED
      BY <1>1, <3>1, <3>2 DEF Datagram
  <2>3. CASE process_report \/ process_log
    <3>1. udp # <<>> /\ udp' = Tail(udp)
      BY <2>3 DEF process_report, process_log
    <3> QED
      BY <1>1, <3>1
  <2> QED
    BY <1>1, <2>1, <2>2, <2>3, Frames
<1>4. monitor' \in MonitorStates
  <2>1. CASE process_report
    <3>1. udp # <<>> /\ udp[1] \in Datagrams /\ udp[1].type = "report"
      BY <1>1, <2>1 DEF process_report
    <3>2. udp[1].b \in DOMAIN Blocks /\ udp[1].dl \in Deadlines
      BY <3>1 DEF Datagrams
    <3>3. Sub(MiningCoin, Blocks[udp[1].b].height, Self, udp[1].dl, udp[1].b) \in GoodSubs
      BY <1>2, <3>2, BlockFacts, MinersAssumption DEF Sub, GoodSubs, SubType
    <3> QED
      BY <2>1, <3>3 DEF process_report, MonitorStates
  <2>2. CASE process_log
    BY <1>1, <2>2 DEF process_log, MonitorStates
  <2>3. CASE MonitorSend
    BY <2>3 DEF MonitorSend, MonitorStates
  <2> QED
    BY <1>1, <2>1, <2>2, <2>3, Frames
<1>5. http' \in HttpStates
  <2>1. CASE HttpCoin
    <3>1. PICK m \in Miners, dl \in Deadlines, known \in BOOLEAN :
            http' = [pc |-> "height",
                     sub |-> [Sub(MiningCoin, 0, m, dl, block) EXCEPT !.known = known]]
      BY <2>1 DEF HttpCoin
    <3>2. [Sub(MiningCoin, 0, m, dl, block) EXCEPT !.known = known] \in SubType
      BY <1>2 DEF Sub, SubType
    <3> QED
      BY <3>1, <3>2 DEF HttpStates
  <2>2. CASE HttpHeight
    <3>1. /\ http.pc = "height"
          /\ http' = [http EXCEPT !.pc = "send", !.sub.height = Height, !.sub.b = block]
      BY <2>2 DEF HttpHeight
    <3>2. http \in [pc : {"height"}, sub : SubType]
      BY <1>1, <3>1 DEF HttpStates, Nobody
    <3>3. [http.sub EXCEPT !.height = Height, !.b = block] \in GoodSubs
      BY <1>2, <3>2, BlockFacts DEF GoodSubs, SubType
    <3>4. http' = [pc |-> "send", sub |-> [http.sub EXCEPT !.height = Height, !.b = block]]
      BY <3>1, <3>2
    <3> QED
      BY <3>3, <3>4 DEF HttpStates
  <2>3. CASE HttpSend
    BY <2>3 DEF HttpSend, HttpStates
  <2> QED
    BY <1>1, <2>1, <2>2, <2>3, Frames
<1>6. submit_ch' \in Seq(GoodSubs) /\ Len(submit_ch') <= SubmitLen
  <2>1. CASE MonitorSend
    <3>1. monitor.sub \in GoodSubs
      BY <1>1, <2>1 DEF MonitorSend, MonitorStates, Nobody
    <3>2. Len(submit_ch) < SubmitLen /\ submit_ch' = Append(submit_ch, monitor.sub)
      BY <2>1 DEF MonitorSend
    <3> QED
      BY <1>1, <3>1, <3>2
  <2>2. CASE HttpSend
    <3>1. http.sub \in GoodSubs
      BY <1>1, <2>2 DEF HttpSend, HttpStates, Nobody
    <3>2. Len(submit_ch) < SubmitLen /\ submit_ch' = Append(submit_ch, http.sub)
      BY <2>2 DEF HttpSend
    <3> QED
      BY <1>1, <3>1, <3>2
  <2>3. CASE Take
    <3>1. submit_ch # <<>> /\ submit_ch' = Tail(submit_ch)
      BY <2>3 DEF Take
    <3> QED
      BY <1>1, <3>1
  <2> QED
    BY <1>1, <2>1, <2>2, <2>3, Frames
<1> QED
  BY <1>3, <1>4, <1>5, <1>6 DEF Arriving

LEMMA LeavingStep ==
  ASSUME Types, [Next]_vars
  PROVE  Leaving'
<1>1. /\ proc \in ProcStates /\ sender \in SenderStates
      /\ g_cache_nonce \in Seq(GoodSubs) /\ submit_ch \in Seq(GoodSubs)
      /\ ch \in Seq(Message) /\ Len(ch) <= Chlen /\ Chlen \in Nat
      /\ local \in 0 .. LocalLen /\ LocalLen \in Nat /\ MiningCoin \in STRING
  BY NumbersAssumption, BlockFacts DEF Types, Arriving, Leaving, Mining, Coins
<1>2. /\ proc.pc \in {"divide", "compare", "best", "mark", "push", "cache", "local"} =>
           proc.sub \in GoodSubs
      /\ proc.pc \in {"push", "cache", "local"} =>
           /\ proc.mark \in STRING
           /\ proc = [pc |-> proc.pc, sub |-> proc.sub, mark |-> proc.mark]
      /\ proc.pc \in {"divide", "compare", "best", "mark"} => proc = [pc |-> proc.pc, sub |-> proc.sub]
  BY <1>1 DEF ProcStates, Nobody
<1>3. proc' \in ProcStates
  <2>1. CASE Take
    <3>1. submit_ch # <<>> /\ submit_ch[1] \in GoodSubs
      BY <1>1, <2>1 DEF Take
    <3>2. proc' \in {Nobody, [pc |-> "divide", sub |-> submit_ch[1]]}
      BY <2>1 DEF Take
    <3> QED
      BY <3>1, <3>2 DEF ProcStates
  <2>2. CASE Skip \/ Local \/ Wake
    BY <2>2 DEF Skip, Local, Wake, ProcStates
  <2>8. CASE Divide
    BY <1>2, <2>8 DEF Divide, ProcTo, ProcStates
  <2>3. CASE Accept
    BY <1>2, <2>3 DEF Accept, ProcTo, ProcStates
  <2>4. CASE ShowBest
    BY <1>2, <2>4 DEF ShowBest, ProcTo, ProcStates
  <2>5. CASE Send
    BY <1>1, <1>2, <2>5 DEF Send, ProcStates
  <2>6. CASE Push
    BY <1>2, <2>6 DEF Push, ProcTo, ProcStates
  <2>7. CASE Cache
    BY <1>2, <2>7 DEF Cache, ProcTo, ProcStates
  <2> QED
    BY <1>1, <2>1, <2>2, <2>3, <2>4, <2>5, <2>6, <2>7, <2>8, Frames
       DEF doProcMinerSubmit
<1>4. g_cache_nonce' \in Seq(GoodSubs)
  <2>1. CASE Cache
    <3>1. proc.sub \in GoodSubs /\ g_cache_nonce' = Append(g_cache_nonce, proc.sub)
      BY <1>2, <2>1 DEF Cache
    <3> QED
      BY <1>1, <3>1
  <2>2. CASE TickEmpty
    BY <2>2 DEF TickEmpty
  <2> QED
    BY <1>1, <2>1, <2>2, Frames
<1>5. /\ sender' \in SenderStates
      /\ ch' \in Seq(Message) /\ Len(ch') <= Chlen
  <2>1. CASE Push
    <3>1. [mark |-> proc.mark, subs |-> <<proc.sub>>] \in Message
      <4>1. proc.mark \in STRING /\ proc.sub \in GoodSubs
        BY <1>2, <2>1 DEF Push
      <4>2. <<proc.sub>> \in Seq(GoodSubs)
        BY <4>1
      <4> QED
        BY <4>1, <4>2 DEF Message
    <3>2. \E m \in Message : Len(ch) < Chlen /\ ch' = Append(ch, m)
      BY <2>1, <3>1 DEF Push
    <3>3. sender' = sender
      BY <2>1 DEF Push, Proc_UNCHANGED
    <3> QED
      BY <1>1, <3>2, <3>3
  <2>2. CASE TickSend
    <3>1. [mark |-> "", subs |-> g_cache_nonce] \in Message
      BY <1>1 DEF Message
    <3>2. \E m \in Message : Len(ch) < Chlen /\ ch' = Append(ch, m)
      BY <2>2, <3>1 DEF TickSend
    <3>3. sender' = sender
      BY <2>2 DEF TickSend, Tick_UNCHANGED
    <3> QED
      BY <1>1, <3>2, <3>3
  <2>3. CASE SenderTake
    <3>1. ch # <<>> /\ ch' = Tail(ch) /\ sender' \in {Nobody, [pc |-> "back", m |-> ch[1]]}
      BY <2>3 DEF SenderTake
    <3>2. ch[1] \in Message
      BY <1>1, <3>1
    <3>3. sender' \in SenderStates
      BY <3>1, <3>2 DEF SenderStates
    <3> QED
      BY <1>1, <3>1, <3>3
  <2>4. CASE SenderBack
    <3>1. Len(ch) < Chlen /\ ch' = Append(ch, sender.m) /\ sender' = Nobody
      BY <2>4 DEF SenderBack
    <3>2. sender.m \in Message
      BY <1>1, <2>4 DEF SenderBack, SenderStates, Nobody
    <3>3. sender' \in SenderStates
      BY <3>1 DEF SenderStates
    <3> QED
      BY <1>1, <3>1, <3>2, <3>3
  <2>5. CASE UNCHANGED ch /\ ~SenderTake /\ ~SenderBack
    BY <1>1, <2>5, Frames
  <2> QED
    BY <2>1, <2>2, <2>3, <2>4, <2>5, Frames
<1>6. local' \in 0 .. LocalLen
  <2>1. CASE Local
    <3>1. local < LocalLen /\ local' = local + 1
      BY <2>1 DEF Local
    <3> QED
      BY <1>1, <3>1
  <2>2. CASE procLocalSubmit
    <3>1. local > 0 /\ local' = local - 1
      BY <2>2 DEF procLocalSubmit
    <3> QED
      BY <1>1, <3>1
  <2> QED
    BY <1>1, <2>1, <2>2, Frames
<1> QED
  BY <1>3, <1>4, <1>5, <1>6 DEF Leaving

LEMMA TableStep ==
  ASSUME Types, [Next]_vars
  PROVE  Table'
<1>1. CASE UNCHANGED <<best, accepted>>
  BY <1>1 DEF Types, Table
<1>2. CASE Accept
  <2>1. proc.sub \in GoodSubs
    BY <1>2 DEF Accept, Types, Leaving, ProcStates, Nobody
  <2> DEFINE key == <<proc.sub.coin, proc.sub.miner>>
  <2>2. /\ accepted' = accepted \union {proc.sub}
        /\ best' = [x \in DOMAIN best \union {key} |->
                     IF x = key THEN [height |-> proc.sub.height, dl |-> proc.sub.dl]
                     ELSE best[x]]
    BY <1>2 DEF Accept
  <2>3. ASSUME NEW k \in DOMAIN best'
        PROVE  \E a \in accepted' : /\ a.coin = k[1] /\ a.miner = k[2]
                                    /\ best'[k].height = a.height /\ best'[k].dl = a.dl
    <3>1. CASE k = key
      <4>1. best'[k] = [height |-> proc.sub.height, dl |-> proc.sub.dl]
        BY <2>2, <3>1
      <4> QED
        BY <2>2, <3>1, <4>1
    <3>2. CASE k # key
      <4>1. k \in DOMAIN best /\ best'[k] = best[k]
        BY <2>2, <2>3, <3>2
      <4> QED
        BY <2>2, <4>1 DEF Types, Table
    <3> QED
      BY <3>1, <3>2
  <2>4. accepted' \subseteq GoodSubs
    BY <2>1, <2>2 DEF Types, Table
  <2> QED
    BY <2>3, <2>4 DEF Table
<1>3. CASE Divide
  <2>1. accepted' = accepted /\ (best' = best \/ best' = [k \in {} |-> 0])
    BY <1>3 DEF Divide
  <2> QED
    BY <2>1 DEF Types, Table
<1> QED
  BY <1>1, <1>2, <1>3, Frames

\* The program's types, and the channels within their capacities, for all
\* capacities and any number of reports, logs, requests and broken connections.
THEOREM TypesHold == Spec => []TypeOK
<1>1. Types /\ [Next]_vars => Types'
  BY MiningStep, ArrivingStep, LeavingStep, TableStep DEF Types
<1>2. Types => TypeOK
  <2> SUFFICES ASSUME Types PROVE TypeOK
    OBVIOUS
  <2>1. Height \in Nat
    BY BlockFacts DEF Types, Mining
  <2>2. monitor.pc \in {"idle", "send", "ended"}
    BY DEF Types, Arriving, MonitorStates, Nobody
  <2>3. proc.pc \in {"idle", "divide", "asleep", "compare", "best", "mark", "push",
                    "cache", "local"}
    BY DEF Types, Leaving, ProcStates, Nobody
  <2> QED
    BY <2>1, <2>2, <2>3 DEF Types, Mining, Arriving, Leaving, TypeOK
<1> QED
  BY TypesInit, <1>1, <1>2, PTL DEF Spec

\* A result for the block that is mined is thrown away as not better only
\* after one of the same miner for a block of the same height, at least as
\* good, was accepted: the comparison of heights in doProcMinerSubmit tells
\* blocks of different heights apart, whatever older entries the table holds
\* and whenever the block changes.
THEOREM BestIsKept == Spec => BestKept
<1>1. Types /\ [Next]_vars => Types'
  BY MiningStep, ArrivingStep, LeavingStep, TableStep DEF Types
<1> DEFINE Step ==
      proc.pc = "compare" /\ proc'.pc = "idle" /\ ~switching
        /\ proc.sub.coin = MiningCoin /\ proc.sub.height = Height =>
      \E a \in accepted : /\ a.coin = proc.sub.coin /\ a.miner = proc.sub.miner
                          /\ Blocks[a.b].height = Blocks[proc.sub.b].height
                          /\ a.dl <= proc.sub.dl
<1>2. Types /\ [Next]_vars => [Step]_vars
  <2> SUFFICES ASSUME Types, Next, proc.pc = "compare", proc'.pc = "idle",
                      proc.sub.coin = MiningCoin, proc.sub.height = Height
               PROVE  \E a \in accepted :
                        /\ a.coin = proc.sub.coin /\ a.miner = proc.sub.miner
                        /\ Blocks[a.b].height = Blocks[proc.sub.b].height
                        /\ a.dl <= proc.sub.dl
    OBVIOUS
  <2>1. Skip
    BY Frames DEF doProcMinerSubmit, Take, Divide, Wake, Accept, ShowBest, Send, Push, Cache, Local,
                  ProcTo, Types, Leaving, ProcStates, Nobody
  <2>2. PICK k \in DOMAIN best : /\ k = <<MiningCoin, proc.sub.miner>>
                                 /\ best[k].height = Height /\ proc.sub.dl >= best[k].dl
    BY <2>1 DEF Skip, NotBetter, Known
  <2>3. PICK a \in accepted : /\ a.coin = k[1] /\ a.miner = k[2]
                              /\ best[k].height = a.height /\ best[k].dl = a.dl
    BY <2>2 DEF Types, Table
  <2>4. a \in GoodSubs /\ proc.sub \in GoodSubs
    BY <2>3 DEF Types, Table, Leaving, ProcStates, Nobody
  <2>5. Blocks[a.b].height = Blocks[proc.sub.b].height
    BY <2>2, <2>3, <2>4 DEF GoodSubs
  <2>6. a.dl <= proc.sub.dl
    BY <2>2, <2>3, <2>4, NumbersAssumption DEF GoodSubs, SubType
  <2> QED
    BY <2>2, <2>3, <2>5, <2>6
<1> QED
  BY TypesInit, <1>1, <1>2, PTL DEF Spec, BestKept
=============================================================================

----------------------------- MODULE ReportPath -----------------------------
(* The way of a result from a hash thread to the pool: the datagrams of      *)
(* send_report and send_log, MinerMoniter, the HTTP handler of other miners, *)
(* submit_ch, doProcMinerSubmit with its table of best deadlines, SendRpc    *)
(* and serializedSend of the pool connection, and the cache of nonces that   *)
(* h5TickStatus flushes. All of them read the coin and the height that       *)
(* GetNewMiningInfo replaces, without a lock.                                *)
EXTENDS Integers, Sequences

CONSTANTS
  Blocks,        \* [coin, height, sig]: the status before the first block, and
                 \* then the blocks that are mined, in order
  Deadlines,     \* raw deadlines
  BaseTarget,    \* of every block; it is 0 before the first
  Miners, Self,  \* the miners of the HTTP interface, and the own name
  Budgets,       \* bounds on reports, logs, requests and lost connections
  UdpRoom,       \* datagrams that the socket keeps
  SubmitLen, LocalLen, Chlen   \* capacities of the channels

ASSUME BlocksAssumption ==
  /\ Blocks \in Seq([coin : STRING, height : Nat, sig : STRING]) /\ Len(Blocks) > 0
  /\ Blocks[1].height = 0
ASSUME NumbersAssumption ==
  /\ Deadlines \subseteq Nat /\ BaseTarget \in Nat \ {0}
  /\ Budgets \subseteq [{"reports", "logs", "requests", "breaks"} -> Nat]
  /\ UdpRoom \in Nat
  /\ {SubmitLen, LocalLen, Chlen} \subseteq Nat \ {0}
ASSUME MinersAssumption == Self \in Miners

VARIABLES
  MiningCoin, Height, BestDL,  \* of g_miner_status
  block, switching,            \* the number of the newest block; between the stores
  udp, budget,                  \* datagrams in the socket; what is left of the bounds
  monitor, http,               \* the goroutine of MinerMoniter, a handler
  submit_ch,
  proc, best,                  \* doProcMinerSubmit, its table, by coin and miner
  accepted,                    \* all that entered the table
  local,                       \* the number of nonces in local_submit_ch
  up, ch, sender,              \* connected; the channel and its serializedSend
  g_cache_nonce, tick          \* h5TickStatus

gms == <<MiningCoin, Height, BestDL, block, switching>>
link == <<up, ch, sender>>
vars == <<gms, udp, budget, monitor, http, submit_ch, proc, best, accepted, local,
          link, g_cache_nonce, tick>>

Nobody == [pc |-> "idle"]
Coins == {Blocks[b].coin : b \in DOMAIN Blocks}
\* b, the block that a result was found for, is not part of the code's records
Sub(coin, height, miner, dl, b) ==
  [coin |-> coin, height |-> height, miner |-> miner, dl |-> dl, b |-> b, known |-> TRUE]

Init ==
  /\ MiningCoin = Blocks[1].coin /\ Height = Blocks[1].height /\ BestDL = 0
  /\ block = 1 /\ switching = FALSE
  /\ udp = <<>> /\ budget \in Budgets
  /\ monitor = Nobody /\ http = Nobody /\ submit_ch = <<>>
  /\ proc = Nobody /\ best = [k \in {} |-> 0] /\ accepted = {} /\ local = 0
  /\ up = TRUE /\ ch = <<>> /\ sender = Nobody
  /\ g_cache_nonce = <<>> /\ tick = Nobody

Spend(what) == budget[what] > 0 /\ budget' = [budget EXCEPT ![what] = @ - 1]

-----------------------------------------------------------------------------
(* GetNewMiningInfo: the height first, the coin last *)

NewHeight ==
  /\ ~switching /\ block < Len(Blocks)
  /\ block' = block + 1 /\ switching' = TRUE
  /\ Height' = Blocks[block + 1].height /\ BestDL' = 0
  /\ UNCHANGED <<MiningCoin, udp, budget, monitor, http, submit_ch, proc, best,
                 accepted, local, link, g_cache_nonce, tick>>
NewCoin ==
  /\ switching /\ switching' = FALSE /\ MiningCoin' = Blocks[block].coin
  /\ UNCHANGED <<Height, BestDL, block, udp, budget, monitor, http, submit_ch, proc,
                 best, accepted, local, link, g_cache_nonce, tick>>

-----------------------------------------------------------------------------
(* Datagrams. The socket drops what it cannot keep. *)

Datagram(d) ==
  /\ udp' = IF Len(udp) < UdpRoom THEN Append(udp, d) ELSE udp
  /\ UNCHANGED <<gms, monitor, http, submit_ch, proc, best, accepted, local, link,
                 g_cache_nonce, tick>>

\* a job of an older block may still be hashed
send_report ==
  /\ Spend("reports")
  /\ \E b \in 1 .. block, dl \in Deadlines :
       b > 1 /\ Datagram([type |-> "report", b |-> b, dl |-> dl])

\* the length byte holds the length modulo 256: a message of more than 245
\* characters arrives without its end
send_log ==
  /\ Spend("logs")
  /\ \E whole \in BOOLEAN : Datagram([type |-> "log", whole |-> whole])

-----------------------------------------------------------------------------
(* MinerMoniter *)

Monitor_UNCHANGED ==
  UNCHANGED <<gms, budget, http, proc, best, accepted, local, link, g_cache_nonce, tick>>

process_report ==
  /\ monitor.pc = "idle" /\ udp # <<>> /\ udp[1].type = "report"
  /\ udp' = Tail(udp)
  /\ monitor' = [pc |-> "send",
                 sub |-> Sub(MiningCoin, Blocks[udp[1].b].height, Self, udp[1].dl, udp[1].b)]
  /\ UNCHANGED submit_ch /\ Monitor_UNCHANGED

\* no terminating 0 is found, and the slice panics: the goroutine ends
process_log ==
  /\ monitor.pc = "idle" /\ udp # <<>> /\ udp[1].type = "log"
  /\ udp' = Tail(udp)
  /\ monitor' = IF udp[1].whole THEN monitor ELSE [pc |-> "ended"]
  /\ UNCHANGED submit_ch /\ Monitor_UNCHANGED

\* Faulty variant: a channel without a bound.
MonitorSendAlways ==
  /\ monitor.pc = "send"
  /\ submit_ch' = Append(submit_ch, monitor.sub)
  /\ monitor' = Nobody /\ UNCHANGED udp /\ Monitor_UNCHANGED
MonitorSend ==
  /\ monitor.pc = "send" /\ Len(submit_ch) < SubmitLen
  /\ submit_ch' = Append(submit_ch, monitor.sub)
  /\ monitor' = Nobody /\ UNCHANGED udp /\ Monitor_UNCHANGED

-----------------------------------------------------------------------------
(* minerHandler, submitNonce: the coin is read first, the height later *)

Http_UNCHANGED ==
  UNCHANGED <<gms, udp, monitor, proc, best, accepted, local, link, g_cache_nonce, tick>>

HttpCoin ==
  /\ http.pc = "idle" /\ Spend("requests")
  /\ \E m \in Miners, dl \in Deadlines, known \in BOOLEAN :
       http' = [pc |-> "height",
                sub |-> [Sub(MiningCoin, 0, m, dl, block) EXCEPT !.known = known]]
  /\ UNCHANGED submit_ch /\ Http_UNCHANGED
HttpHeight ==
  /\ http.pc = "height"
  /\ http' = [http EXCEPT !.pc = "send", !.sub.height = Height, !.sub.b = block]
  /\ UNCHANGED <<budget, submit_ch>> /\ Http_UNCHANGED
HttpSend ==
  /\ http.pc = "send" /\ Len(submit_ch) < SubmitLen
  /\ submit_ch' = Append(submit_ch, http.sub) /\ http' = Nobody
  /\ UNCHANGED budget /\ Http_UNCHANGED

-----------------------------------------------------------------------------
(* doProcMinerSubmit *)

ProcTo(pc) == proc' = [proc EXCEPT !.pc = pc]
Proc_UNCHANGED ==
  UNCHANGED <<MiningCoin, Height, block, switching, udp, budget, monitor, http, up,
              sender, tick>>

\* the sub is dropped unless its coin and height are those mined now, and its
\* plotter id is one of the own
Take ==
  /\ proc.pc = "idle" /\ submit_ch # <<>>
  /\ submit_ch' = Tail(submit_ch)
  /\ LET sub == submit_ch[1]
     IN  proc' = IF sub.coin = MiningCoin /\ sub.height = Height /\ sub.known
                 THEN [pc |-> "divide", sub |-> sub] ELSE Nobody
  /\ UNCHANGED <<BestDL, best, accepted, local, ch, g_cache_nonce>> /\ Proc_UNCHANGED

\* before the first block the base target is 0: the panic is recovered, the
\* table is lost with the call, and five seconds later there is a new one
Divide ==
  /\ proc.pc = "divide"
  /\ IF block = 1 THEN proc' = [pc |-> "asleep"] /\ best' = [k \in {} |-> 0]
     ELSE ProcTo("compare") /\ UNCHANGED best
  /\ UNCHANGED <<BestDL, submit_ch, accepted, local, ch, g_cache_nonce>> /\ Proc_UNCHANGED
Wake ==
  /\ proc.pc = "asleep" /\ proc' = Nobody
  /\ UNCHANGED <<BestDL, submit_ch, best, accepted, local, ch, g_cache_nonce>>
  /\ Proc_UNCHANGED

Compare_UNCHANGED ==
  UNCHANGED <<BestDL, submit_ch, local, ch, g_cache_nonce>> /\ Proc_UNCHANGED
Known(k) == k \in DOMAIN best
\* Faulty variant: the height of the entry is not looked at.
NotBetterEver(sub) ==
  LET k == <<MiningCoin, sub.miner>>
  IN  Known(k) /\ sub.dl >= best[k].dl
\* the entry of the coin mined now, compared with the height mined now
NotBetter(sub) ==
  LET k == <<MiningCoin, sub.miner>>
  IN  Known(k) /\ best[k].height = Height /\ sub.dl >= best[k].dl

Skip ==
  /\ proc.pc = "compare" /\ NotBetter(proc.sub)
  /\ proc' = Nobody /\ UNCHANGED <<best, accepted>> /\ Compare_UNCHANGED

Accept ==
  /\ proc.pc = "compare" /\ ~NotBetter(proc.sub)
  /\ LET k == <<proc.sub.coin, proc.sub.miner>>
     IN  best' = [x \in DOMAIN best \union {k} |->
                   IF x = k THEN [height |-> proc.sub.height, dl |-> proc.sub.dl]
                   ELSE best[x]]
  /\ accepted' = accepted \union {proc.sub}
  /\ ProcTo("best") /\ Compare_UNCHANGED

ShowBest ==
  /\ proc.pc = "best" /\ ProcTo("mark")
  /\ LET use_dl == proc.sub.dl \div BaseTarget
     IN  BestDL' = IF BestDL = 0 \/ use_dl < BestDL THEN use_dl ELSE BestDL
  /\ UNCHANGED <<submit_ch, best, accepted, local, ch, g_cache_nonce>> /\ Proc_UNCHANGED

\* the message is marked with the coin mined now; SendRpc looks at the
\* connection and then pushes, or the nonce is cached
Send ==
  /\ proc.pc = "mark"
  /\ proc' = [pc |-> IF up THEN "push" ELSE "cache", sub |-> proc.sub, mark |-> MiningCoin]
  /\ UNCHANGED <<BestDL, submit_ch, best, accepted, local, ch, g_cache_nonce>>
  /\ Proc_UNCHANGED
Push ==
  /\ proc.pc = "push" /\ Len(ch) < Chlen /\ ProcTo("local")
  /\ ch' = Append(ch, [mark |-> proc.mark, subs |-> <<proc.sub>>])
  /\ UNCHANGED <<BestDL, submit_ch, best, accepted, local, g_cache_nonce>> /\ Proc_UNCHANGED
Cache ==
  /\ proc.pc = "cache" /\ ProcTo("local")
  /\ g_cache_nonce' = Append(g_cache_nonce, proc.sub)
  /\ UNCHANGED <<BestDL, submit_ch, best, accepted, local, ch>> /\ Proc_UNCHANGED
Local ==
  /\ proc.pc = "local" /\ local < LocalLen
  /\ local' = local + 1 /\ proc' = Nobody
  /\ UNCHANGED <<BestDL, submit_ch, best, accepted, ch, g_cache_nonce>> /\ Proc_UNCHANGED

\* to the page and the database
procLocalSubmit ==
  /\ local > 0 /\ local' = local - 1
  /\ UNCHANGED <<gms, udp, budget, monitor, http, submit_ch, proc, best, accepted,
                 link, g_cache_nonce, tick>>

-----------------------------------------------------------------------------
(* serializedSend, and the connection *)

Link_UNCHANGED ==
  UNCHANGED <<gms, udp, monitor, http, submit_ch, proc, best, accepted, local,
              g_cache_nonce, tick>>

\* what is written leaves the program, also when the write fails
SenderTake ==
  /\ sender.pc = "idle" /\ ch # <<>>
  /\ ch' = Tail(ch)
  /\ sender' = IF up THEN Nobody ELSE [pc |-> "back", m |-> ch[1]]
  /\ UNCHANGED <<up, budget>> /\ Link_UNCHANGED
\* to the end of the channel, whose only receiver this is
SenderBack ==
  /\ sender.pc = "back" /\ Len(ch) < Chlen
  /\ ch' = Append(ch, sender.m) /\ sender' = Nobody
  /\ UNCHANGED <<up, budget>> /\ Link_UNCHANGED

Break ==
  /\ up /\ up' = FALSE /\ Spend("breaks")
  /\ UNCHANGED <<ch, sender>> /\ Link_UNCHANGED
Dial ==
  /\ ~up /\ up' = TRUE
  /\ UNCHANGED <<ch, sender, budget>> /\ Link_UNCHANGED

-----------------------------------------------------------------------------
(* h5TickStatus: the cache is copied, sent and then emptied *)

Tick_UNCHANGED ==
  UNCHANGED <<gms, udp, budget, monitor, http, submit_ch, proc, best, accepted, local,
              up, sender>>

TickSend ==
  /\ tick.pc = "idle" /\ g_cache_nonce # <<>> /\ up /\ Len(ch) < Chlen
  /\ tick' = [pc |-> "empty"]
  /\ ch' = Append(ch, [mark |-> "", subs |-> g_cache_nonce])
  /\ UNCHANGED g_cache_nonce /\ Tick_UNCHANGED
\* also what was appended since
TickEmpty ==
  /\ tick.pc = "empty" /\ tick' = Nobody
  /\ g_cache_nonce' = <<>>
  /\ UNCHANGED ch /\ Tick_UNCHANGED

-----------------------------------------------------------------------------
MinerMoniter == process_report \/ process_log \/ MonitorSend
minerHandler == HttpHeight \/ HttpSend
doProcMinerSubmit ==
  Take \/ Divide \/ Wake \/ Skip \/ Accept \/ ShowBest \/ Send \/ Push \/ Cache \/ Local
serializedSend == SenderTake \/ SenderBack
h5TickStatus == TickSend \/ TickEmpty

Next ==
  \/ NewHeight \/ NewCoin \/ send_report \/ send_log \/ HttpCoin \/ Break \/ Dial
  \/ MinerMoniter \/ minerHandler \/ doProcMinerSubmit \/ procLocalSubmit
  \/ serializedSend \/ h5TickStatus

\* every goroutine that can go on does; nothing makes the pool answer
Spec ==
  /\ Init /\ [][Next]_vars
  /\ WF_vars(MinerMoniter) /\ WF_vars(doProcMinerSubmit) /\ WF_vars(procLocalSubmit)
  /\ WF_vars(serializedSend) /\ WF_vars(h5TickStatus)

-----------------------------------------------------------------------------
(* Properties *)

\* Types; the channels stay within their capacities, also while their
\* senders are blocked.
TypeOK ==
  /\ block \in DOMAIN Blocks /\ MiningCoin \in Coins /\ Height \in Nat /\ BestDL \in Nat
  /\ Len(udp) <= UdpRoom /\ Len(submit_ch) <= SubmitLen
  /\ local \in 0 .. LocalLen /\ Len(ch) <= Chlen
  /\ monitor.pc \in {"idle", "send", "ended"}
  /\ proc.pc \in {"idle", "divide", "asleep", "compare", "best", "mark", "push", "cache",
                  "local"}

\* A result for the block that is mined is thrown away as not better only if
\* one of the same miner for a block of the same height, at least as good, has
\* been accepted before: entries of another height or coin never hide it,
\* whenever the block changes (getf and setf in doProcMinerSubmit). The table
\* has no signatures: of two blocks of one height, the older one's results do
\* hide those of the newer one (http_server_opt.go:105).
BestKept ==
  [][proc.pc = "compare" /\ proc'.pc = "idle" /\ ~switching
       /\ proc.sub.coin = MiningCoin /\ proc.sub.height = Height =>
     \E a \in accepted : /\ a.coin = proc.sub.coin /\ a.miner = proc.sub.miner
                         /\ Blocks[a.b].height = Blocks[proc.sub.b].height
                         /\ a.dl <= proc.sub.dl]_vars

\* The only receiver of ch waits for room in it: nothing will be received again.
SenderStuck == sender.pc = "back" /\ Len(ch) = Chlen

=============================================================================

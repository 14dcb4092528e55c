---------------------------- MODULE MCPlotScan ----------------------------
(* Directories with one or two plots of each kind, four scoops a nonce.      *)
EXTENDS PlotScan

Folder(entries) == [bfs |-> FALSE, entries |-> entries, size |-> 0]
Named(name, size) == [name |-> name, size |-> size]

Optimized == Named(<<7, 100, 10>>, 40)             \* PoC2, ends in a short block
Converting == Named(<<7, 200, 12, 12>>, 48)         \* optimized PoC1
Regular == Named(<<7, 300, 8, 4>>, 32)              \* PoC1, two staggers
Cut == Named(<<7, 400, 12, 4>>, 42)                 \* ends in its third stagger
TooSmall == Named(<<7, 500, 1>>, 4)
NoPlot == Named(<<>>, 9)

\* a drive of 33 sectors, so 16 nonces; two finished plots around one in progress
Drive(count) ==
  [bfs |-> TRUE, entries |-> <<>>, size |-> 66, diskspace |-> 33,
   plotFiles |-> << [startNonce |-> 600, nonces |-> count, startPos |-> 1, status |-> 1],
                    [startNonce |-> 700, nonces |-> 4, startPos |-> 5, status |-> 3],
                    [startNonce |-> 800, nonces |-> 4, startPos |-> 7, status |-> 1],
                    [startNonce |-> 0, nonces |-> 0, startPos |-> 0, status |-> 0] >>]

\* a plot that is no multiple of the cache: its last block goes on into what
\* follows it
OddPlot == Drive(6)

Plots ==
  {Folder(<<NoPlot, Optimized, Regular>>), Folder(<<Converting, TooSmall>>),
   Folder(<<Cut, Optimized>>), Folder(<<Optimized, Converting, Regular>>), Drive(8), OddPlot}

\* an optimized plot that ends with its second scoop
DamagedPlot == {Folder(<<Named(<<7, 100, 12>>, 24)>>)}
=============================================================================

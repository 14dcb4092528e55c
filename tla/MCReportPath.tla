---------------------------- MODULE MCReportPath ----------------------------
(* Two coins, and three blocks of the one: the second of them has the height *)
(* of the first, the third is higher.                                        *)
EXTENDS ReportPath

B(coin, height, sig) == [coin |-> coin, height |-> height, sig |-> sig]
FourBlocks == <<B("BHD", 0, ""), B("BHD", 1, "s1"), B("BURST", 7, "s2"),
                B("BHD", 1, "s3"), B("BHD", 2, "s4")>>

Budget(reports, logs, requests, breaks) ==
  [reports |-> reports, logs |-> logs, requests |-> requests, breaks |-> breaks]
SmallBudgets == {Budget(2, 0, 0, 1), Budget(1, 1, 0, 0), Budget(1, 0, 1, 0)}
=============================================================================

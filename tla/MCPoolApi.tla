----------------------------- MODULE MCPoolApi -----------------------------
(* Three coins of the configuration, and one that the pool has besides.        *)
EXTENDS PoolApi

ThreeCoins == <<"BHD", "BURST", "LHD">>
=============================================================================

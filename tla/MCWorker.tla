------------------------------ MODULE MCWorker ------------------------------
(* Instance of Worker for TLC: plots of two cache sizes, two runs that start *)
(* wherever hash_thread is, with slots across the end of the ring.           *)
EXTENDS Worker
=============================================================================

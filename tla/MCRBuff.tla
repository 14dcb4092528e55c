------------------------------ MODULE MCRBuff ------------------------------
(* Instances of RBuff for TLC.  The code never looks at a byte, so the     *)
(* bytes are interchangeable model values.                                 *)
EXTENDS RBuff, TLC

Interchangeable == Permutations(Byte)
=============================================================================

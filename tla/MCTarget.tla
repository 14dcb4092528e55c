------------------------------ MODULE MCTarget ------------------------------
(* Instances of Target for TLC.  Deadlines 0 and 1 beat the target 2.      *)
EXTENDS Target, TLC

Workers == Permutations(Worker)

(* A fork takes the height back: the third round has the first one's.      *)
HeightAgain == << [height |-> 1, target |-> 2], [height |-> 2, target |-> 2],
                  [height |-> 1, target |-> 2] >>
SameHeight  == << [height |-> 1, target |-> 2], [height |-> 1, target |-> 2] >>
=============================================================================

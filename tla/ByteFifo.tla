----------------------------- MODULE ByteFifo -----------------------------
(***************************************************************************)
(* What miner/rbuff.h promises to its two users: a bounded first-in        *)
(* first-out queue of bytes.  The writer appends a block in one step, the  *)
(* reader takes or only looks at a prefix in one step, and nobody sees a   *)
(* block half written.  RBuff implements this specification.               *)
(***************************************************************************)
EXTENDS Naturals, Sequences

CONSTANTS Byte,      \* the byte values
          Size       \* the size given to rbuff_init: the most bytes it holds

VARIABLES offer,     \* the block the writer has come with, or <<>>
          queue,     \* the bytes accepted and not yet erased
          seen       \* what the last rbuff_get or rbuff_peek handed over

vars == <<offer, queue, seen>>

Init == offer = <<>> /\ queue = <<>> /\ seen = <<>>

(* The writer calls rbuff_put, or fills the memory it was shown.           *)
Offer == /\ offer = <<>>
         /\ offer' \in Seq(Byte) \ {<<>>}
         /\ UNCHANGED <<queue, seen>>

(* rbuff_put returns how much it took: any prefix that fits.               *)
Put == /\ offer # <<>> /\ offer' = <<>>
       /\ \E n \in 0..Len(offer) :
             /\ Len(queue) + n <= Size
             /\ queue' = queue \o SubSeq(offer, 1, n)
       /\ UNCHANGED seen

(* rbuff_get: hand over a prefix and erase it.                             *)
Take == \E n \in 1..Len(queue) :
           /\ seen' = SubSeq(queue, 1, n)
           /\ queue' = SubSeq(queue, n + 1, Len(queue))
           /\ UNCHANGED offer

(* rbuff_peek: hand over a prefix and leave it.                            *)
Peek == \E n \in 0..Len(queue) :
           /\ seen' = SubSeq(queue, 1, n)
           /\ UNCHANGED <<offer, queue>>

(* rbuff_erase: drop a prefix unseen.                                      *)
Erase == \E n \in 1..Len(queue) :
           /\ queue' = SubSeq(queue, n + 1, Len(queue))
           /\ UNCHANGED <<offer, seen>>

Next == Offer \/ Put \/ Take \/ Peek \/ Erase

Spec == Init /\ [][Next]_vars
=============================================================================

------------------------- MODULE MCDiameterFormer -------------------------
(* DiameterFormer for TLC: messages of every length from two bytes to the
   buffer's six, in a stream that is garbage where no message starts.       *)
EXTENDS DiameterFormer, TLC

Messages == (0 :> 3) @@ (3 :> 2) @@ (5 :> 6) @@ (11 :> 4) @@ (15 :> 5)
            @@ (20 :> 2)
MCStarts == DOMAIN Messages \cup {StreamEnd}
MCWordAt == [p \in 0 .. StreamEnd |->
               IF p \in DOMAIN Messages THEN Messages[p] ELSE 1]
===========================================================================

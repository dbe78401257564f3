----------------------------- MODULE RingStream -----------------------------
(***************************************************************************)
(* What a ring of bridge/shm_protocol.h promises to the two processes that *)
(* share it, without slots, buffers or program counters: a lossy stream of *)
(* units.  The producer claims the positions it is about to overwrite,     *)
(* then publishes them.  The consumer takes a batch of published units, or *)
(* loses more than a whole ring of them at once.                           *)
(*                                                                         *)
(* A unit that was overtaken by the producer may be replaced, but only by  *)
(* the unit of a later lap that shares its slot: never by an older one,    *)
(* and never by one of another phase.  As frame_size divides ring_bytes, a *)
(* byte is only ever replaced by a byte of the same channel.               *)
(***************************************************************************)
EXTENDS Integers

CONSTANTS Cap, WriteLens, Resyncs

VARIABLES
  claimed,    \* end of the units whose slots the producer may have touched
  published,  \* end of the units the producer has published
  consumed,   \* end of the units the consumer has taken or lost
  connecting, \* is the consumer connecting?
  batch       \* the units of the last batch taken

streamVars == <<claimed, published, consumed, connecting, batch>>

Init ==
  /\ claimed = 0
  /\ published = 0
  /\ consumed = 0
  /\ connecting = FALSE
  /\ batch = << >>

Claim ==
  /\ claimed = published
  /\ \E len \in WriteLens : claimed' = claimed + len
  /\ UNCHANGED <<published, consumed, connecting, batch>>

Publish ==
  /\ claimed # published
  /\ published' = claimed
  /\ UNCHANGED <<claimed, consumed, connecting, batch>>

\* u can be delivered in the place of the unit of position pos.
MayStandFor(u, pos) ==
  /\ pos <= u
  /\ u < claimed
  /\ (u - pos) % Cap = 0

Deliver ==
  \E n \in 1 .. Cap :
    /\ ~connecting
    /\ consumed + n <= published
    /\ consumed' = consumed + n
    /\ \E units \in [0 .. n - 1 -> consumed .. claimed - 1] :
         /\ \A i \in 0 .. n - 1 : MayStandFor(units[i], consumed + i)
         /\ batch' = units
    /\ UNCHANGED <<claimed, published, connecting>>

\* The consumer gives up units only once it is more than a ring behind.
Lose ==
  /\ ~connecting
  /\ consumed' \in consumed + Cap + 1 .. published
  /\ UNCHANGED <<claimed, published, connecting, batch>>

\* A consumer that connects starts from a position published before.
Connect ==
  /\ Resyncs
  /\ ~connecting
  /\ connecting' = TRUE
  /\ UNCHANGED <<claimed, published, consumed, batch>>

Connected ==
  /\ connecting
  /\ connecting' = FALSE
  /\ consumed' \in consumed .. published
  /\ UNCHANGED <<claimed, published, batch>>

Next == Claim \/ Publish \/ Deliver \/ Lose \/ Connect \/ Connected

Spec == Init /\ [][Next]_streamVars

=============================================================================

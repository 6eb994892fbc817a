---------------------------- MODULE ImageDelivery ----------------------------
(***************************************************************************)
(* What the image forward queue promises for each item it accepts: the     *)
(* image is posted to the first group, then delivered through the second,  *)
(* in that order and at most once each, or dropped after MaxTries failed   *)
(* attempts.  A delivered item is never taken back.                        *)
(***************************************************************************)
EXTENDS Naturals

CONSTANTS Items,     \* the items that may be accepted
          MaxTries   \* failed attempts after which an item is dropped

VARIABLES phase,     \* where each item is
          tries      \* its failed attempts

vars == <<phase, tries>>

Phases == {"absent", "queued", "posted", "delivered", "dropped"}

TypeOK == /\ phase \in [Items -> Phases]
          /\ tries \in [Items -> 0..MaxTries]

Init == /\ phase = [i \in Items |-> "absent"]
        /\ tries = [i \in Items |-> 0]

Advance(i, from, to) == /\ phase[i] = from
                        /\ phase' = [phase EXCEPT ![i] = to]

Admit(i)   == Advance(i, "absent", "queued") /\ UNCHANGED tries
Post(i)    == Advance(i, "queued", "posted") /\ UNCHANGED tries
Deliver(i) == Advance(i, "posted", "delivered") /\ UNCHANGED tries

\* An attempt fails, in either stage; the last one drops the item.
Miss(i) ==
  /\ phase[i] \in {"queued", "posted"}
  /\ tries' = [tries EXCEPT ![i] = @ + 1]
  /\ phase' = IF tries[i] + 1 >= MaxTries THEN [phase EXCEPT ![i] = "dropped"] ELSE phase

Next == \E i \in Items : Admit(i) \/ Post(i) \/ Deliver(i) \/ Miss(i)

Spec == Init /\ [][Next]_vars

=============================================================================

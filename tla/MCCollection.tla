---------------------------- MODULE MCCollection ----------------------------
(* Two posts for TLC: the AI makes two drafts of m1, one of them without a   *)
(* link; m2 holds another url of the share that m1 links to.                *)
EXTENDS Collection

CONSTANTS m1, m2, d0, d1, d2, s1

MCSharesOf == [d \in Drafts |-> IF d \in {d1, d2} THEN {s1} ELSE {}]
MCResults == [m \in Messages |-> IF m = m1 THEN {<<d1, d0>>} ELSE {<<d2>>}]
=============================================================================

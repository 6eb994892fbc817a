----------------------------- MODULE MCLinkCheck -----------------------------
(***************************************************************************)
(* LinkCheck on a small instance: a resource with two links, one of them   *)
(* spelled in two ways, and a blank line.                                  *)
(***************************************************************************)
EXTENDS LinkCheck

MCText == [r \in Resources |-> {"HTTPS://Pan/a/", "https://pan/a#1", "https://pan/b", " "}]
MCNorm == [t \in UNION {Text[r] : r \in Resources} |->
             CASE t = "https://pan/b" -> "b" [] t = " " -> "" [] OTHER -> "a"]
=============================================================================

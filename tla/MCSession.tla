----------------------------- MODULE MCSession -----------------------------
(* Model-checking instances of Session: how many messages each party sends. *)
EXTENDS SessionInvariant

ThreeThree == [p \in Parties |-> 3]
====

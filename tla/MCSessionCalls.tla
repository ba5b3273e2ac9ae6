--------------------------- MODULE MCSessionCalls ---------------------------
(* Model-checking instances of SessionCalls: how many messages each party   *)
(* sends.                                                                   *)
EXTENDS SessionCalls

ThreeTwo == [p \in Parties |-> IF p = A THEN 3 ELSE 2]
====

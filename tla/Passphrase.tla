----------------------------- MODULE Passphrase ----------------------------
(***************************************************************************)
(* What package encdb promises: a database that has been created opens     *)
(* with one passphrase at every moment, and Rekey replaces this passphrase *)
(* by another one in a single step.                                        *)
(***************************************************************************)
CONSTANTS Passphrases, NoPass

VARIABLE pass    \* the passphrase that opens the database, or NoPass

Init == pass = NoPass

Create == pass = NoPass /\ pass' \in Passphrases

Rekey == pass \in Passphrases /\ pass' \in Passphrases

Next == Create \/ Rekey

Spec == Init /\ [][Next]_pass
====

----------------------------- MODULE KeyWindow -----------------------------
(***************************************************************************)
(* How many message keys the recipient of one session holds, and which     *)
(* message counts Decrypt still serves: the top-up and its limit in        *)
(* msg/decrypt.go, at the sizes the code really uses.  A message is the    *)
(* value of its SenderMessageCount; messages may be lost and arrive in any *)
(* order.                                                                  *)
(***************************************************************************)
EXTENDS SessionStore

CONSTANT MaxCount        \* bound: the highest SenderMessageCount

ASSUME BatchWithinLimit == NumOfKeys <= MaxNumOfKeys
ASSUME CountIsNat == MaxCount \in Nat

VARIABLES
  held,      \* the number of message keys generated for the session
  expected,  \* the next count while all messages came in order, else Nil
  failed     \* history: a message that came in order was refused

windowVars == <<held, expected, failed>>

(* rootKeyAgreementRecipient has stored the first batch. *)
WindowInit ==
  /\ held = NumOfKeys
  /\ expected = 0
  /\ failed = FALSE

(* Faulty variant of Refuses: limits the count and not the rounded number.  *)
RefusesByCount(count) == count >= held /\ count > held + MaxNumOfKeys

Refuses(count) == count >= held /\ TopUp(count) > MaxNumOfKeys

DecryptCount(count) ==
  /\ held' = IF count >= held /\ ~Refuses(count) THEN held + TopUp(count) ELSE held
  /\ expected' = IF count = expected /\ ~Refuses(count) THEN count + 1 ELSE Nil
  /\ failed' = (failed \/ (count = expected /\ Refuses(count)))

WindowNext == \E count \in 0 .. MaxCount : DecryptCount(count)

WindowSpec == WindowInit /\ [][WindowNext]_windowVars

(* The state is well-formed, and whatever counts the sender's headers       *)
(* claim, in whatever order they arrive, Decrypt never makes the store hold *)
(* more than twice the limit of message keys for one session.               *)
KeysBounded ==
  /\ held \in Nat \ {0}
  /\ held <= 2 * MaxNumOfKeys

-----------------------------------------------------------------------------
(* What the documentation says and the code does not do *)

(* msg.AverageSessionSize: a session is used for a thousand messages on     *)
(* average.  Decrypt refuses messages that arrive in order and without      *)
(* gaps long before that.                                                   *)
MessagesInOrderOpen == ~failed
====

---------------------------- MODULE MCReceiving ----------------------------
(***************************************************************************)
(* What happens to a message on its way in, for TLC: MixKeys, the keys the *)
(* mix opens it with, and Inbox.  The two share no variable and no         *)
(* property speaks of both, so that it is enough to move one part at a     *)
(* time, with the other at rest in its initial state:                      *)
(*   "inbox"   the messages of one account, with crashes                   *)
(*   "mix"     the keys of a mix whose files are written                   *)
(*   "unsaved" the keys of a mix that may fail to write them               *)
(***************************************************************************)
EXTENDS Inbox

VARIABLES part, now, expire, up, due, lastAdd, Keys, statement, file, statementOf,
          addresses, since

Mix == INSTANCE MixKeys WITH fetched <- statementOf, SaveFails <- FALSE,
         Duration <- 4, NewKeyFrequency <- 1, MaxTime <- 7, MaxAddresses <- 1
Unsaved == INSTANCE MixKeys WITH fetched <- statementOf, SaveFails <- TRUE,
             Duration <- 5, NewKeyFrequency <- 2, MaxTime <- 8, MaxAddresses <- 0

mix == <<now, expire, up, due, lastAdd, Keys, statement, file, statementOf,
         addresses, since>>

ReceivingInit ==
  /\ Init
  /\ \/ part \in {"inbox", "mix"} /\ Mix!Init
     \/ part = "unsaved" /\ Unsaved!Init

MixMoves(p) == part = p /\ UNCHANGED <<part, vars>>

ReceivingNext ==
  \/ part = "inbox" /\ Next /\ UNCHANGED <<part, mix>>
  \/ MixMoves("mix") /\ Mix!Next
  \/ MixMoves("unsaved") /\ Unsaved!Next

ReceivingSpec == ReceivingInit /\ [][ReceivingNext]_<<part, vars, mix>>

(* No message is put into InQueue twice, however often `msg fetch' crashes  *)
(* or is interrupted; and a fetch that was never interrupted misses none,   *)
(* although it stops at the first message it knows.  (After a crash the     *)
(* cache may hold the ID of a message that was not read.)                   *)
FetchedOnce == QueuedAtMostOnce /\ (faults = 0 => NewMessagesFetched)

(* A message to a nym address that has not expired is received by the mix,  *)
(* which may restart at any time; and the statement of a mix that has run   *)
(* for a tick has a key for new addresses, even if it cannot save its keys. *)
MixKeysServe ==
  /\ part = "mix" => Mix!AddressServed
  /\ part = "unsaved" => Unsaved!StatementFresh
====

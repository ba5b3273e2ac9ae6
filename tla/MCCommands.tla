----------------------------- MODULE MCCommands -----------------------------
(***************************************************************************)
(* That the commands of mutectrl come to an end, for TLC: FetchPipe, the   *)
(* processes and pipes of one fetch; Inbox without faults; and UIDs with   *)
(* commands given by hand.  They share no variable and no property speaks  *)
(* of two of them, so that it is enough to move one at a time, with the    *)
(* others at rest in an initial state.                                     *)
(***************************************************************************)
EXTENDS FetchPipe

CONSTANTS Senders, Foreign, Unreadable, MaxMsgs, Ids, NoId, MaxKeys, MaxFaults

VARIABLES
  part,
  account, LastMsgTime, cache, queue, Messages, contacts, opened, pc, list, knownIDs,
  newTime, fetched, faults, listed, queued, chosen,
  nyms, accounts, active, PrivateUIDs, PrivateKeyInits, uids, keyInits, held, ctrl,
  crypt, result, keys, uidFaults

In == INSTANCE Inbox WITH InQueue <- queue, known <- knownIDs, MaxFaults <- 0
UID == INSTANCE UIDs WITH faults <- uidFaults,
         Manual <- {"generate", "register", "genupdate", "update", "delete", "keyinit",
                    "flush"}

inbox == <<account, LastMsgTime, cache, queue, Messages, contacts, opened, pc, list,
           knownIDs, newTime, fetched, faults, listed, queued, chosen>>
uid == <<nyms, accounts, active, PrivateUIDs, PrivateKeyInits, uids, keyInits, held,
         ctrl, crypt, result, keys, uidFaults>>

MCLengths == <<3, 1, 4>>

CommandsInit ==
  /\ part \in {"pipe", "inbox", "uids"}
  /\ Init /\ In!Init /\ UID!Init
  /\ part # "pipe" => known = {}

CommandsNext ==
  \/ part = "pipe" /\ Next /\ UNCHANGED <<part, inbox, uid>>
  \/ part = "inbox" /\ In!Next /\ UNCHANGED <<part, vars, uid>>
  \/ part = "uids" /\ UID!Next /\ UNCHANGED <<part, vars, inbox>>

CommandsSpec ==
  /\ CommandsInit /\ [][CommandsNext]_<<part, vars, inbox, uid>>
  /\ part = "pipe" => Fairness
  /\ part = "inbox" => In!Fairness
  /\ part = "uids" => UID!Fairness

(* muteprotoFetch returns, and muteproto ends unless the cache could not be *)
(* written after NEXT: neither ever waits for the other in vain, whatever   *)
(* crashes or fails.                                                        *)
PipeReturns == part = "pipe" => FetchReturns /\ MuteprotoEnds

(* Every message in InQueue leaves it again: procInQueue does not stop at   *)
(* one that it cannot decrypt.                                              *)
QueueDrains == part = "inbox" => In!QueueDrains

(* uid new and uid delete return: mutectrl never waits for a status line    *)
(* that mutecrypt does not write.                                           *)
UIDReturns == part = "uids" => UID!Returns
====

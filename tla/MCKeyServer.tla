---------------------------- MODULE MCKeyServer ----------------------------
(***************************************************************************)
(* What a client keeps about user IDs, for TLC: HashChain and UIDs.  The   *)
(* two share no variable and no property speaks of both, so that it is     *)
(* enough to move one part at a time, with the other at rest in its        *)
(* initial state:                                                          *)
(*   "chain" one process, all commands, one fault                          *)
(*   "two"   two processes on one key database                             *)
(*   "fork"  contact add, with a key server that rewrites its chain once   *)
(*   "uids"  uid new, switch, delete, and updates given by hand            *)
(***************************************************************************)
EXTENDS HashChain

CONSTANTS p1, p2, NoId, MaxKeys

VARIABLES part, nyms, accounts, active, PrivateUIDs, PrivateKeyInits, uids, keyInits,
          held, ctrl, crypt, result, keys, uidFaults

AllCommands == {"sync", "validate", "search", "lookup", "delete"}

Two == INSTANCE HashChain WITH Procs <- {p1, p2}, Contacts <- {Me}, MaxLen <- 3,
         Commands <- {"search", "lookup"}
Fork == INSTANCE HashChain WITH Commands <- {}, MaxRewrites <- 1, MaxFaults <- 0
UID == INSTANCE UIDs WITH Ids <- {Me}, Manual <- {"genupdate", "update", "keyinit"},
         MaxFaults <- 3, faults <- uidFaults

uidVars == <<nyms, accounts, active, PrivateUIDs, PrivateKeyInits, uids, keyInits,
             held, ctrl, crypt, result, keys, uidFaults>>

MCInit ==
  /\ part \in {"chain", "two", "fork", "uids"}
  /\ IF part = "two" THEN Two!Init ELSE Init
  /\ UID!Init

ChainMoves(p) == part = p /\ UNCHANGED <<part, uidVars>>

MCNext ==
  \/ ChainMoves("chain") /\ Next
  \/ ChainMoves("two") /\ Two!Next
  \/ ChainMoves("fork") /\ Fork!Next
  \/ part = "uids" /\ UID!Next /\ UNCHANGED <<part, vars>>

MCSpec == MCInit /\ [][MCNext]_<<part, vars, uidVars>>

(* The local copy has no gap, which validate and search rely on, and every  *)
(* stored UID was verified with a server key that is stored, whatever was   *)
(* interrupted and though two processes sync and search at once.  So no     *)
(* contact add fails at a signature while the key server is honest.         *)
LocalCopySound ==
  /\ part \in {"chain", "two"} => Gapless /\ ServerKeysKnown
  /\ part = "fork" /\ branch = 0 => ContactVerifies

(* mutectrl takes every status line for the answer to its last command.     *)
Lockstep == part = "uids" => UID!Lockstep

(* uidNew adds a nym only if it can be used: registered, with its private   *)
(* keys stored and a KeyInit message at the server.                         *)
NymUsable == part = "uids" => UID!NymUsable
====

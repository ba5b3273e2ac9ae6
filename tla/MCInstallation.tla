--------------------------- MODULE MCInstallation ---------------------------
(***************************************************************************)
(* The installation of a user, for TLC: KeyFile, Databases, ConfigClient,  *)
(* Upkeep and Update.  They share no variable and no property speaks of    *)
(* two of them, so that it is enough to move one part at a time, with the  *)
(* others at rest in an initial state:                                     *)
(*   "key"    one encrypted database                                       *)
(*   "crash"  both databases, with processes that die                      *)
(*   "db"     both databases and the periods of getConfig, without crashes *)
(*   "config" the configuration client                                     *)
(*   "upkeep" two processes that keep an account paid                      *)
(*   "update" the update of the programs                                   *)
(***************************************************************************)
EXTENDS KeyFile

CONSTANTS s1, s2, h1, h2, NoHash, Nil, mutectrl, mutecrypt, muteproto

VARIABLES
  part,
  msgs, keys, file, age, published, ctrl, crypt, cmdResult,
  now, signed, served, saved, config, order, curServer, cert, tried, pc,
  clock, server, loadTime, expire, lastAcc, lastAll, upkeep,
  remote, release, master, head, headGo, bin, step, commit, todo

Dying == INSTANCE Databases WITH server <- published, result <- cmdResult,
           MaxConfig <- 1, BadConfigs <- {}, Outdated <- {}, Crashes <- TRUE
Data == INSTANCE Databases WITH server <- published, result <- cmdResult,
          MaxConfig <- 3, BadConfigs <- {2}, Outdated <- {3}, Crashes <- FALSE
Config == INSTANCE ConfigClient WITH Procs <- {s1}, Servers <- {s1, s2},
            prio <- [s \in {s1, s2} |-> 10], Hashes <- {h1, h2},
            MaxSignatureAge <- 2, skew <- 11, Start <- 12, MaxTime <- 15
Account == INSTANCE Upkeep WITH now <- clock, loc <- upkeep, Servers <- {s1},
             Faults <- TRUE, Load <- 3, Periods <- {0, 2}, Remainings <- {2},
             AllRemaining <- 2, MaxTime <- 3, MaxExpire <- 7
Source == INSTANCE Update WITH pc <- step, Partial <- TRUE, MaxCommit <- 4,
            Binaries <- {mutectrl, mutecrypt, muteproto}

dataVars == <<msgs, keys, file, age, published, ctrl, crypt, cmdResult>>
configVars == <<now, signed, served, saved, config, order, curServer, cert, tried, pc>>
upkeepVars == <<clock, server, loadTime, expire, lastAcc, lastAll, upkeep>>
updateVars == <<remote, release, master, head, headGo, bin, step, commit, todo>>

MCInit ==
  /\ part \in {"key", "crash", "db", "config", "upkeep", "update"}
  /\ Init /\ Data!Init /\ Config!Init /\ Account!Init /\ Source!Init
  /\ part # "config" => signed.hash = h1

DataMoves(p) == part = p /\ UNCHANGED <<part, vars, configVars, upkeepVars, updateVars>>

MCNext ==
  \/ /\ part = "key" /\ Next
     /\ UNCHANGED <<part, dataVars, configVars, upkeepVars, updateVars>>
  \/ DataMoves("crash") /\ Dying!Next
  \/ DataMoves("db") /\ Data!Next
  \/ /\ part = "config" /\ Config!Next
     /\ UNCHANGED <<part, vars, dataVars, upkeepVars, updateVars>>
  \/ /\ part = "upkeep" /\ Account!Next
     /\ UNCHANGED <<part, vars, dataVars, configVars, updateVars>>
  \/ /\ part = "update" /\ Source!Next
     /\ UNCHANGED <<part, vars, dataVars, configVars, upkeepVars>>

MCSpec ==
  MCInit /\ [][MCNext]_<<part, vars, dataVars, configVars, upkeepVars, updateVars>>

(* When db create or db rekey report success, both databases open with the  *)
(* new passphrase; and a db rekey that has failed for keys can be undone by *)
(* one to the passphrase that keys still has, although it reports an error. *)
RekeyBoth == Dying!BothOnSuccess /\ Dying!RekeyBack

(* "fetch new configuration, if last fetch is older than 24h": a command    *)
(* that is online works with a configuration no older than that; and no     *)
(* command works with one that is outdated or that InitMute rejects.  The   *)
(* CA certificate in the database is the one its configuration names.       *)
ConfigRefreshed ==
  /\ part = "db" => Data!ConfigRefreshed /\ Data!ConfigFit
  /\ Config!CertificateOfMap

(* The configuration in the database never gets older, though a server may  *)
(* be behind the one asked before.                                          *)
NoWalkBack == Config!NoWalkBack

(* When `upkeep accounts' is recorded as executed, the account is paid for  *)
(* the remaining time that was asked for, whatever calls of two commands    *)
(* fail or overtake each other; the load time in the database never exceeds *)
(* that of the server.                                                      *)
RecordedIsRenewed == Account!RecordedIsRenewed /\ []Account!NotOverstated

(* An update that ends without error leaves every program at the commit it  *)
(* was to update to, and stamped with it; and no update, finished or not,   *)
(* replaces a program by an older one or stamps it with another commit.     *)
UpdateComplete == Source!UpdateComplete /\ Source!NeverOlder
====

----------------------------- MODULE Databases -----------------------------
(***************************************************************************)
(* The two databases and the configuration of a Mute installation, as      *)
(* mutectrl keeps them (ctrlengine/db.go, ctrlengine.go): msgs, which      *)
(* mutectrl opens itself, and keys, which mutecrypt opens, both with the   *)
(* passphrase that the user gives to mutectrl.  The configuration is kept  *)
(* in msgs, with the time at which it was fetched, and in a file that      *)
(* mutecrypt reads.                                                        *)
(*                                                                         *)
(* One database does what module Passphrase says (KeyFile implements it):  *)
(* Create and Rekey are single steps, and a Create that is cut off leaves  *)
(* files that cannot be opened.  One mutectrl and one mutecrypt run at a   *)
(* time; a mutecrypt goes on when the mutectrl that started it has died.   *)
(* Ages are counted in periods: 0 up to FetchconfMinDuration, 1 up to      *)
(* FetchconfMaxDuration, 2 above.                                          *)
(***************************************************************************)
EXTENDS Integers

CONSTANTS Passphrases, NoPass,
          MaxConfig,     \* bound: configurations the server publishes
          BadConfigs,    \* those that InitMute rejects
          Outdated,      \* those for which this release is too old
          Crashes        \* processes may die

VARIABLES
  msgs,    \* [files, pass, wallet, config, stamp]
  keys,    \* [files, pass]
  file,    \* the configuration in the file, 0: none
  age,     \* how long ago the configuration in msgs was fetched
  server,  \* the configuration that the server publishes
  ctrl,    \* mutectrl: [pc, cmd, old, new, config]
  crypt,   \* mutecrypt: [pc, cmd, old, new]
  result   \* [cmd, new, ok] of the last command of mutectrl

vars == <<msgs, keys, file, age, server, ctrl, crypt, result>>

NoStamp == -1

Quiet == [pc |-> "idle", cmd |-> "none", old |-> NoPass, new |-> NoPass, config |-> 0]
NoResult == [cmd |-> "none", new |-> NoPass, ok |-> FALSE]
NoJob == [pc |-> "none", cmd |-> "none", old |-> NoPass, new |-> NoPass]

Init ==
  /\ msgs = [files |-> FALSE, pass |-> NoPass, wallet |-> FALSE, config |-> 0,
             stamp |-> NoStamp]
  /\ keys = [files |-> FALSE, pass |-> NoPass]
  /\ file = 0 /\ age = 0 /\ server = 1
  /\ ctrl = Quiet /\ crypt = NoJob
  /\ result = NoResult

Goto(pc) == ctrl' = [ctrl EXCEPT !.pc = pc] /\ UNCHANGED result
Return(c, ok) == /\ ctrl' = Quiet
                 /\ result' = [cmd |-> c.cmd, new |-> c.new, ok |-> ok]
Start(pc, cmd, old, new) ==
  [pc |-> pc, cmd |-> cmd, old |-> old, new |-> new, config |-> 0]

(* Open: the passphrase is right, and all tables are there. *)
Open(db, pass) == db.files /\ db.pass = pass

-----------------------------------------------------------------------------
(* mutectrl db create *)

(* The passphrase is read twice. *)
DbCreate(new, again) ==
  LET c == Start("msgs", "create", NoPass, new)
  IN  /\ ctrl.pc = "idle"
      /\ IF new # again THEN Return(c, FALSE) ELSE ctrl' = c /\ UNCHANGED result
      /\ UNCHANGED <<msgs, keys, file, age, server, crypt>>

CreateMsgDB ==
  /\ ctrl.pc = "msgs"
  /\ IF msgs.files THEN Return(ctrl, FALSE) /\ UNCHANGED msgs
     ELSE /\ msgs' = [msgs EXCEPT !.files = TRUE, !.pass = ctrl.new]
          /\ Goto("fetch")
  /\ UNCHANGED <<keys, file, age, server, crypt>>

(* Start mutecrypt, with the passphrases on its standard input. *)
StartCrypt ==
  /\ ctrl.pc = "crypt" /\ crypt.pc = "none"
  /\ crypt' = [pc |-> "running", cmd |-> ctrl.cmd, old |-> ctrl.old, new |-> ctrl.new]
  /\ Goto("wait")
  /\ UNCHANGED <<msgs, keys, file, age, server>>

(* cmd.Wait *)
ExitStatus == crypt.pc = "ok"

WaitCrypt ==
  /\ ctrl.pc = "wait" /\ crypt.pc \in {"ok", "failed"}
  /\ crypt' = NoJob
  /\ IF ExitStatus /\ ctrl.cmd = "create" THEN Goto("wallet")
     ELSE Return(ctrl, ExitStatus)
  /\ UNCHANGED <<msgs, keys, file, age, server>>

StoreWalletKey ==
  /\ ctrl.pc = "wallet"
  /\ msgs' = [msgs EXCEPT !.wallet = TRUE]
  /\ Return(ctrl, TRUE)
  /\ UNCHANGED <<keys, file, age, server, crypt>>

-----------------------------------------------------------------------------
(* mutectrl db rekey *)

(* msgdb.Rekey comes first; faulty variant: only after keydb.Rekey.         *)
NotYetRekeyed(new) == msgs

RekeyedMsgs(new) == [msgs EXCEPT !.pass = new]

DbRekey(old, new, again) ==
  LET c == Start("crypt", "rekey", old, new)
  IN  /\ ctrl.pc = "idle"
      /\ IF new # again \/ ~ Open(msgs, old)
         THEN Return(c, FALSE) /\ UNCHANGED msgs
         ELSE msgs' = RekeyedMsgs(new) /\ ctrl' = c /\ UNCHANGED result
      /\ UNCHANGED <<keys, file, age, server, crypt>>

-----------------------------------------------------------------------------
(* Other commands of mutectrl, which use both databases *)

(* getConfig: what an old configuration asks for; faulty variant: it is   *)
(* fetched only when it is outdated.                                        *)
FetchedLate(cmd) ==
  IF msgs.stamp > 1 THEN IF cmd = "online" THEN "fetch" ELSE "error" ELSE "ready"

OldConfig(cmd) ==
  CASE cmd = "online" -> IF msgs.stamp > 0 THEN "fetch" ELSE "ready"
    [] cmd = "offline" -> IF msgs.stamp > 1 THEN "error" ELSE "ready"

getConfig(cmd) ==
  IF msgs.config = 0 \/ msgs.config \in BadConfigs
  THEN IF cmd = "online" THEN "fetch" ELSE "error"
  ELSE OldConfig(cmd)

openMsgDB(pass) == Open(msgs, pass)

(* prepare opens msgs and gets the configuration. *)
Prepare(cmd, pass) ==
  LET c == Start(getConfig(cmd), cmd, pass, pass)
  IN  /\ ctrl.pc = "idle"
      /\ IF ~ openMsgDB(pass) \/ c.pc = "error" THEN Return(c, FALSE)
         ELSE ctrl' = c /\ UNCHANGED result
      /\ UNCHANGED <<msgs, keys, file, age, server, crypt>>

checkUpdates == msgs.config \notin Outdated

(* startWallet may fail to get the verify keys.                             *)
startWallet == IF ctrl.cmd = "online" THEN BOOLEAN ELSE {TRUE}

(* mutecrypt is started for the command.                                    *)
Ready ==
  /\ ctrl.pc = "ready"
  /\ \E started \in startWallet :
       IF checkUpdates /\ started THEN Goto("crypt") ELSE Return(ctrl, FALSE)
  /\ UNCHANGED <<msgs, keys, file, age, server, crypt>>

-----------------------------------------------------------------------------
(* upkeepFetchconf: the configuration, its time, InitMute, the file *)

FetchConfig ==
  /\ ctrl.pc = "fetch"
  /\ \/ ctrl' = [ctrl EXCEPT !.pc = "config", !.config = server] /\ UNCHANGED result
     \/ Return(ctrl, FALSE)
  /\ UNCHANGED <<msgs, keys, file, age, server, crypt>>

StoreConfig ==
  /\ ctrl.pc = "config"
  /\ msgs' = [msgs EXCEPT !.config = ctrl.config]
  /\ age' = 0
  /\ Goto("stamp")
  /\ UNCHANGED <<keys, file, server, crypt>>

StoreTime ==
  /\ ctrl.pc = "stamp"
  /\ msgs' = [msgs EXCEPT !.stamp = 0]
  /\ Goto("file")
  /\ UNCHANGED <<keys, file, age, server, crypt>>

InitMute(config) == config \notin BadConfigs

WriteConfigFile ==
  /\ ctrl.pc = "file"
  /\ IF ~ InitMute(ctrl.config) THEN Return(ctrl, FALSE) /\ UNCHANGED file
     ELSE /\ file' = ctrl.config
          /\ Goto(IF ctrl.cmd = "create" THEN "crypt" ELSE "ready")
  /\ UNCHANGED <<msgs, keys, age, server, crypt>>

-----------------------------------------------------------------------------
(* mutecrypt *)

openKeyDB == Open(keys, crypt.old)

(* prepare reads the file; db create and db rekey work on the passphrases   *)
(* from standard input, other commands open keys.                           *)
CryptOK == file # 0 /\ IF crypt.cmd = "create" THEN ~ keys.files ELSE openKeyDB

RunCrypt ==
  /\ crypt.pc = "running"
  /\ crypt' = [crypt EXCEPT !.pc = IF CryptOK THEN "ok" ELSE "failed"]
  /\ keys' = IF CryptOK THEN [files |-> TRUE, pass |-> crypt.new] ELSE keys
  /\ UNCHANGED <<msgs, file, age, server, ctrl, result>>

-----------------------------------------------------------------------------
(* The environment *)

(* Nobody waits for this mutecrypt. *)
ReapCrypt ==
  /\ crypt.pc \in {"ok", "failed"} /\ ctrl.pc # "wait"
  /\ crypt' = NoJob
  /\ UNCHANGED <<msgs, keys, file, age, server, ctrl, result>>

(* A Create that dies may leave files without a usable database. *)
CtrlDies ==
  /\ Crashes /\ ctrl.pc # "idle"
  /\ ctrl' = Quiet /\ result' = NoResult
  /\ msgs' = [msgs EXCEPT !.files = @ \/ ctrl.pc = "msgs"]
  /\ UNCHANGED <<keys, file, age, server, crypt>>

CryptDies ==
  /\ Crashes /\ crypt.pc = "running"
  /\ crypt' = [crypt EXCEPT !.pc = "failed"]
  /\ keys' = [keys EXCEPT !.files = @ \/ crypt.cmd = "create"]
  /\ UNCHANGED <<msgs, file, age, server, ctrl, result>>

Older(n) == IF n \in {0, 1} THEN n + 1 ELSE n

TimePasses ==
  /\ ctrl.pc = "idle" /\ msgs.config # 0
  /\ age' = Older(age)
  /\ msgs' = [msgs EXCEPT !.stamp = Older(@)]
  /\ UNCHANGED <<keys, file, server, ctrl, crypt, result>>

NewConfig ==
  /\ server < MaxConfig
  /\ server' = server + 1
  /\ UNCHANGED <<msgs, keys, file, age, ctrl, crypt, result>>

Next ==
  \/ \E new, again \in Passphrases : DbCreate(new, again)
  \/ \E old, new, again \in Passphrases : DbRekey(old, new, again)
  \/ \E cmd \in {"online", "offline"}, pass \in Passphrases : Prepare(cmd, pass)
  \/ CreateMsgDB \/ StartCrypt \/ WaitCrypt \/ StoreWalletKey \/ Ready
  \/ FetchConfig \/ StoreConfig \/ StoreTime \/ WriteConfigFile
  \/ RunCrypt \/ ReapCrypt \/ CtrlDies \/ CryptDies \/ TimePasses \/ NewConfig

Spec == Init /\ [][Next]_vars

-----------------------------------------------------------------------------
(* Properties *)

Created == msgs.pass # NoPass /\ keys.pass # NoPass
Finished(cmd) == ctrl.cmd = cmd /\ ctrl'.pc = "idle" /\ result'.cmd = cmd

(* When db create or db rekey report success, both databases open with the  *)
(* new passphrase; after db create msgs has a wallet key.                   *)
BothOnSuccess ==
  [][\A cmd \in {"create", "rekey"} :
       Finished(cmd) /\ ctrl.pc \in {"wait", "wallet"} /\ result'.ok =>
         /\ msgs'.pass = ctrl.new /\ keys'.pass = ctrl.new
         /\ cmd = "create" => msgs'.wallet]_vars

(* A db rekey that has failed for keys can be undone: a db rekey to the     *)
(* passphrase that keys still has leaves both databases with it, although   *)
(* it reports an error.                                                     *)
RekeyBack ==
  [][Finished("rekey") /\ ctrl.pc = "wait" /\ keys.pass = ctrl.new =>
       msgs'.pass = keys'.pass]_vars

(* Once a configuration is too old, a command that cannot fetch it does not *)
(* run with it, and no command runs with one that InitMute rejects; the     *)
(* file of mutecrypt is never ahead of the configuration of mutectrl.       *)
ConfigFit ==
  /\ ctrl.pc \in {"ready", "crypt", "wait"} /\ ctrl.cmd \in {"online", "offline"} =>
       /\ msgs.config \notin BadConfigs \cup {0}
       /\ msgs.stamp < (IF ctrl.cmd = "online" THEN 1 ELSE 2)
  /\ file <= msgs.config /\ file \notin BadConfigs

(* "fetch new configuration, if last fetch is older than 24h": a command    *)
(* that is online works with a configuration no older than that.            *)
ConfigRefreshed == ctrl.pc = "ready" /\ ctrl.cmd = "online" => age = 0

-----------------------------------------------------------------------------
(* What the documentation says and the code does not do *)

(* "rekey MsgDB and KeyDB": between two commands the databases that exist   *)
(* open with one passphrase.                                                *)
DatabasesAgree ==
  ctrl.pc = "idle" /\ crypt.pc = "none" /\ Created => msgs.pass = keys.pass

(* "64-byte private Ed25519 wallet key, base64 encoded": every command that *)
(* opens msgs finds a wallet key.                                           *)
WalletKeyStored == ctrl.pc = "ready" => msgs.wallet
====

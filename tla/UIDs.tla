-------------------------------- MODULE UIDs -------------------------------
(***************************************************************************)
(* User IDs: `mutectrl uid new', which drives a mutecrypt process over     *)
(* pipes to generate and to register a UID message and a KeyInit message,  *)
(* `uid delete' and `uid switch', and the commands of mutecrypt a user can *)
(* give by hand.  State: the nyms, accounts and active UID of msgDB, the   *)
(* PrivateUIDs of keyDB, the key server's messages, the tokens locked.     *)
(*                                                                         *)
(* A key is a number, 0 for a key of somebody else.  Of several rows with  *)
(* the same MSGCOUNT SQLite returns the one inserted first (external).     *)
(* mutecrypt executes a command in one step; its calls of the server may   *)
(* be lost before or after the server has acted, and it may die with the   *)
(* server's answer not yet stored.                                         *)
(***************************************************************************)
EXTENDS Naturals, Sequences, SequencesExt, FiniteSets

CONSTANTS Ids,        \* user IDs
          NoId,
          Manual,     \* mutecrypt commands that are given by hand
          MaxKeys,    \* bound: signature keys generated
          MaxFaults   \* bound: failed calls, dead processes

VARIABLES
  nyms, accounts, active,  \* msgDB: sets of Ids; the active UID
  PrivateUIDs,             \* keyDB: rows [id, count, key, prev, reply]
  PrivateKeyInits,         \* keyDB: signature keys of the rows
  uids,                    \* server: uids[id], the UID messages' keys
  keyInits,                \* server: signature keys it has a KeyInit for
  held,                    \* tokens that mutectrl has locked
  ctrl,                    \* mutectrl: [pc, id, asked, err]
  crypt,                   \* mutecrypt: [state, cmd, lines]
  result,                  \* what mutectrl returned last
  keys, faults

msgdb == <<nyms, accounts, active>>
keydb == <<PrivateUIDs, PrivateKeyInits, keys>>
server == <<uids, keyInits>>
vars == <<msgdb, keydb, server, held, ctrl, crypt, result, faults>>

Idle == [pc |-> "idle", id |-> NoId, asked |-> "", err |-> FALSE]
Exited == [state |-> "exited", cmd |-> "", lines |-> <<>>]
Started == [Exited EXCEPT !.state = "runs"]

Init ==
  /\ nyms = {} /\ accounts = {} /\ active = NoId
  /\ PrivateUIDs = <<>> /\ PrivateKeyInits = {} /\ keys = 0
  /\ uids = [id \in Ids |-> <<>>] /\ keyInits = {}
  /\ held = {} /\ ctrl = Idle /\ crypt = Exited
  /\ result = "" /\ faults = 0

Fault == faults < MaxFaults /\ faults' = faults + 1

-----------------------------------------------------------------------------
(* keydb *)

(* GetPrivateUID: the index of the row with the highest MSGCOUNT, 0 if none *)
GetPrivateUID(id) ==
  LET own == {k \in DOMAIN PrivateUIDs : PrivateUIDs[k].id = id}
      top == {k \in own : \A j \in own : PrivateUIDs[j].count <= PrivateUIDs[k].count}
  IN  IF own = {} THEN 0 ELSE CHOOSE k \in top : \A j \in top : k <= j

AddPrivateUID(id, count, prev) ==
  /\ keys < MaxKeys
  /\ keys' = keys + 1
  /\ PrivateUIDs' = Append(PrivateUIDs, [id |-> id, count |-> count, key |-> keys + 1,
                                         prev |-> prev, reply |-> FALSE])
  /\ UNCHANGED PrivateKeyInits

DelPrivateUID(k) ==
  PrivateUIDs' = RemoveAt(PrivateUIDs, k) /\ UNCHANGED <<PrivateKeyInits, keys>>

AddPrivateUIDReply(k) ==
  /\ PrivateUIDs' = [PrivateUIDs EXCEPT ![k].reply = TRUE]
  /\ UNCHANGED <<PrivateKeyInits, keys>>

-----------------------------------------------------------------------------
(* The key server (external) *)

(* CreateUID is accepted for a new identity, UpdateUID if it is signed with *)
(* the last key (VerifyUserSig).                                            *)
Accepts(cmd, row) ==
  IF cmd = "register" THEN uids[row.id] = <<>> /\ row.count = 0
  ELSE uids[row.id] # <<>> /\ Last(uids[row.id]) = row.prev

Accept(row) ==
  uids' = [uids EXCEPT ![row.id] = Append(@, row.key)] /\ UNCHANGED keyInits

OtherRegisters(id) ==
  /\ uids[id] = <<>>
  /\ uids' = [uids EXCEPT ![id] = <<0>>]
  /\ UNCHANGED <<msgdb, keydb, keyInits, held, ctrl, crypt, result, faults>>

-----------------------------------------------------------------------------
(* mutecrypt: its commands, with ok as their outcome *)

(* registerOrUpdate: the row must not have a reply; what the server accepts *)
(* is stored if the answer arrives.                                         *)
RegisterOrUpdate(cmd, id, ok) ==
  LET k == GetPrivateUID(id)
      row == PrivateUIDs[k]
  IN  \/ /\ k = 0 \/ (k > 0 /\ row.reply) \/ (k > 0 /\ ~ Accepts(cmd, row))
         /\ ok = FALSE
         /\ UNCHANGED <<keydb, server, faults>>
      \/ /\ k > 0 /\ ~ row.reply /\ Accepts(cmd, row)
         /\ \/ /\ ok = TRUE
               /\ Accept(row) /\ AddPrivateUIDReply(k)
               /\ UNCHANGED faults
            \/ /\ ok = FALSE /\ Fault      \* the call or the answer is lost
               /\ \/ Accept(row)
                  \/ UNCHANGED server
               /\ UNCHANGED keydb

Generate(id, ok) ==
  \/ ok = TRUE /\ AddPrivateUID(id, 0, 0) /\ UNCHANGED <<server, faults>>
  \/ ok = FALSE /\ Fault /\ UNCHANGED <<keydb, server>>

Genupdate(id, ok) ==
  LET k == GetPrivateUID(id)
  IN  \/ /\ k > 0 /\ ok = TRUE
         /\ AddPrivateUID(id, PrivateUIDs[k].count + 1, PrivateUIDs[k].key)
         /\ UNCHANGED <<server, faults>>
      \/ k = 0 /\ ok = FALSE /\ UNCHANGED <<keydb, server, faults>>

DeleteUID(id, ok) ==
  LET k == GetPrivateUID(id)
  IN  /\ IF k > 0 THEN DelPrivateUID(k) ELSE UNCHANGED keydb
      /\ ok = (k > 0)
      /\ UNCHANGED <<server, faults>>

(* addKeyInit: the private part is stored when the server has answered.     *)
AddKeyInit(id, ok) ==
  LET k == GetPrivateUID(id)
      key == PrivateUIDs[k].key
  IN  \/ k = 0 /\ ok = FALSE /\ UNCHANGED <<keydb, server, faults>>
      \/ /\ k > 0
         /\ \/ /\ ok = TRUE
               /\ keyInits' = keyInits \cup {key}
               /\ PrivateKeyInits' = PrivateKeyInits \cup {key}
               /\ UNCHANGED <<PrivateUIDs, keys, uids, faults>>
            \/ /\ ok = FALSE /\ Fault
               /\ keyInits' \in {keyInits, keyInits \cup {key}}
               /\ UNCHANGED <<keydb, uids>>

FlushKeyInit(id, ok) ==
  LET k == GetPrivateUID(id)
  IN  /\ ok = (k > 0)
      /\ keyInits' = IF k = 0 THEN keyInits ELSE keyInits \ {PrivateUIDs[k].key}
      /\ UNCHANGED <<keydb, uids, faults>>

Caps(ok) ==
  /\ \/ ok = TRUE /\ UNCHANGED faults
     \/ ok = FALSE /\ Fault
  /\ UNCHANGED <<keydb, server>>

Command(cmd, id, ok) ==
  \/ cmd = "generate" /\ Generate(id, ok)
  \/ cmd = "caps" /\ Caps(ok)
  \/ cmd \in {"register", "update"} /\ RegisterOrUpdate(cmd, id, ok)
  \/ cmd = "genupdate" /\ Genupdate(id, ok)
  \/ cmd = "delete" /\ DeleteUID(id, ok)
  \/ cmd = "keyinit" /\ AddKeyInit(id, ok)
  \/ cmd = "flush" /\ FlushKeyInit(id, ok)

(* loop: the status lines of a command; faulty variant: an error line is    *)
(* all there is.                                                            *)
StatusOnly(ok) == IF ok THEN <<"READY.">> ELSE <<"error">>

Status(ok) == IF ok THEN <<"READY.">> ELSE <<"error", "READY.">>

Lines(cmd, texts) == [k \in DOMAIN texts |-> [cmd |-> cmd, text |-> texts[k]]]

(* A command given by hand, while mutectrl does nothing.                    *)
Hand(cmd, id) ==
  /\ ctrl.pc = "idle"
  /\ \E ok \in BOOLEAN : Command(cmd, id, ok)
  /\ UNCHANGED <<msgdb, held, ctrl, crypt, result>>

(* The loop of mutecrypt executes a command that mutectrl has written.      *)
Loop ==
  /\ crypt.state = "runs" /\ crypt.cmd \notin {"", "quit"}
  /\ \E ok \in BOOLEAN :
       /\ Command(crypt.cmd, ctrl.id, ok)
       /\ crypt' = [crypt EXCEPT !.cmd = "", !.lines = @ \o Lines(crypt.cmd, Status(ok))]
  /\ UNCHANGED <<msgdb, held, ctrl, result>>

LoopQuit ==
  /\ crypt.state = "runs" /\ crypt.cmd = "quit"
  /\ crypt' = [crypt EXCEPT !.state = "exited", !.cmd = "",
                            !.lines = @ \o Lines("quit", <<"QUITTING">>)]
  /\ UNCHANGED <<msgdb, keydb, server, held, ctrl, result, faults>>

(* mutecrypt dies before or after the server has accepted the message.      *)
CryptDies ==
  LET k == GetPrivateUID(ctrl.id)
  IN  /\ crypt.state = "runs"
      /\ Fault
      /\ crypt' = [crypt EXCEPT !.state = "died", !.cmd = ""]
      /\ \/ UNCHANGED server
         \/ /\ crypt.cmd = "register" /\ k > 0
            /\ Accepts("register", PrivateUIDs[k])
            /\ Accept(PrivateUIDs[k])
      /\ UNCHANGED <<msgdb, keydb, held, ctrl, result>>
-----------------------------------------------------------------------------
(* mutectrl *)

Return(what) == ctrl' = Idle /\ result' = what

(* uidNew: sync and validate, then the two checks.                          *)
UidNew(id) ==
  /\ ctrl.pc = "idle"
  /\ \/ id \in nyms /\ Return("owned") /\ UNCHANGED faults
     \/ id \notin nyms /\ uids[id] # <<>> /\ Return("taken") /\ UNCHANGED faults
     \/ /\ id \notin nyms /\ uids[id] = <<>> /\ keys < MaxKeys
        /\ ctrl' = [Idle EXCEPT !.pc = "pay", !.id = id] /\ result' = ""
        /\ UNCHANGED faults
     \/ Fault /\ Return("error")
  /\ UNCHANGED <<msgdb, keydb, server, held, crypt>>

(* PayAccount and NewNymAddress; mutecrypt is started.                      *)
PayAccount ==
  /\ ctrl.pc = "pay"
  /\ \/ /\ ctrl' = [ctrl EXCEPT !.pc = "generate"]
        /\ crypt' = Started
        /\ UNCHANGED <<result, faults>>
     \/ Fault /\ Return("error") /\ UNCHANGED crypt
  /\ UNCHANGED <<msgdb, keydb, server, held>>

Stages == {"generate", "caps", "register", "delete", "keyinit", "quit"}
Token(stage) == {stage} \cap {"register", "keyinit"}

(* mutecryptNewUID writes the next command, with a token if it needs one.   *)
Ask ==
  /\ ctrl.pc \in Stages /\ ctrl.asked = ""
  /\ \/ /\ ctrl' = [ctrl EXCEPT !.asked = ctrl.pc]
        /\ crypt' = IF crypt.state = "runs" THEN [crypt EXCEPT !.cmd = ctrl.pc] ELSE crypt
        /\ held' = held \cup Token(ctrl.pc)
        /\ UNCHANGED <<result, faults>>
     \/ /\ Token(ctrl.pc) # {} /\ Fault      \* wallet.GetToken fails
        /\ Return("error")
        /\ crypt' = Exited
        /\ UNCHANGED held
  /\ UNCHANGED <<msgdb, keydb, server>>

(* What the scanner returns: a line, or nothing when mutecrypt is gone.     *)
Text == IF crypt.lines = <<>> THEN "EOF" ELSE crypt.lines[1].text
CanRead == ctrl.asked # "" /\ (crypt.lines # <<>> \/ crypt.state # "runs")
RestOfLines == [crypt EXCEPT !.lines = IF @ = <<>> THEN @ ELSE Tail(@)]

Goto(stage) == ctrl' = [ctrl EXCEPT !.pc = stage, !.asked = ""]

NextStage(stage) ==
  CASE stage = "generate" -> "caps" [] stage = "caps" -> "register"
    [] stage = "delete" -> "keyinit" [] stage = "keyinit" -> "quit"
    [] stage = "quit" -> "wait"

(* An answer: an error line ends mutecryptNewUID; the end of the file does  *)
(* not, the answer of keyinit add releases the token only if there is one.  *)
Read ==
  /\ CanRead /\ ctrl.asked # "register"
  /\ IF Text = "error"
     THEN /\ Return("error")
          /\ crypt' = Exited
          /\ UNCHANGED held
     ELSE /\ Goto(NextStage(ctrl.pc))
          /\ crypt' = RestOfLines
          /\ held' = held \ Token(ctrl.pc)
          /\ UNCHANGED result
  /\ UNCHANGED <<msgdb, keydb, server, faults>>

(* The answer of uid register is read up to READY.; faulty variant: the     *)
(* first line is the answer.                                                *)
FirstLine == TRUE

LastLine == Text # "error"

ReadRegister ==
  /\ CanRead /\ ctrl.asked = "register"
  /\ LET err == ctrl.err \/ Text = "error"
     IN  IF LastLine
         THEN /\ ctrl' = [ctrl EXCEPT !.pc = IF err THEN "delete" ELSE "keyinit",
                                      !.asked = "", !.err = err]
              /\ held' = held \ {"register"}
         ELSE /\ ctrl' = [ctrl EXCEPT !.err = err]
              /\ UNCHANGED held
  /\ crypt' = RestOfLines
  /\ UNCHANGED <<msgdb, keydb, server, result, faults>>

(* cmd.Wait, "propagate error"; faulty variant: without the first.          *)
NoWait == ~ ctrl.err

Successful == crypt.state = "exited" /\ ~ ctrl.err

Wait ==
  /\ ctrl.pc = "wait"
  /\ IF Successful THEN Goto("addnym") /\ UNCHANGED result ELSE Return("error")
  /\ crypt' = Exited
  /\ UNCHANGED <<msgdb, keydb, server, held, faults>>

AddNym ==
  /\ ctrl.pc = "addnym"
  /\ nyms' = nyms \cup {ctrl.id}
  /\ Goto("addaccount")
  /\ UNCHANGED <<accounts, active, keydb, server, held, crypt, result, faults>>

AddAccount ==
  /\ ctrl.pc = "addaccount"
  /\ accounts' = accounts \cup {ctrl.id}
  /\ Goto("active")
  /\ UNCHANGED <<nyms, active, keydb, server, held, crypt, result, faults>>

SetActive ==
  /\ ctrl.pc = "active"
  /\ active' = IF active = NoId THEN ctrl.id ELSE active
  /\ Return("done")
  /\ UNCHANGED <<nyms, accounts, keydb, server, held, crypt, faults>>

UidSwitch(id) ==
  /\ ctrl.pc = "idle" /\ id \in nyms
  /\ active' = id
  /\ UNCHANGED <<nyms, accounts, keydb, server, held, ctrl, crypt, result, faults>>

(* uidDelete: DelNym takes the accounts with it, then the private UID.      *)
DelNym(id) ==
  /\ ctrl.pc = "idle" /\ id \in nyms
  /\ nyms' = nyms \ {id} /\ accounts' = accounts \ {id}
  /\ ctrl' = [Idle EXCEPT !.pc = "deleteuid", !.id = id]
  /\ UNCHANGED <<active, keydb, server, held, crypt, result, faults>>

MutecryptDeleteUID ==
  /\ ctrl.pc = "deleteuid"
  /\ \E ok \in BOOLEAN :
       /\ DeleteUID(ctrl.id, ok)
       /\ Return(IF ok THEN "deleted" ELSE "error")
  /\ UNCHANGED <<msgdb, held, crypt>>

(* mutectrl dies, and mutecrypt reads the end of its commands.  The next    *)
(* one clears all locks when it opens the wallet.                           *)
CtrlDies ==
  /\ ctrl.pc # "idle"
  /\ Fault
  /\ Return("died")
  /\ crypt' = Exited /\ held' = {}
  /\ UNCHANGED <<msgdb, keydb, server>>

Step ==
  \/ PayAccount \/ Ask \/ Loop \/ LoopQuit \/ Read \/ ReadRegister \/ Wait
  \/ AddNym \/ AddAccount \/ SetActive \/ MutecryptDeleteUID

Next ==
  \/ \E id \in Ids : \/ OtherRegisters(id) \/ UidNew(id)
                      \/ UidSwitch(id) \/ DelNym(id)
                      \/ \E cmd \in Manual : Hand(cmd, id)
  \/ Step
  \/ CryptDies \/ CtrlDies

Spec == Init /\ [][Next]_vars

(* mutectrl and mutecrypt are scheduled; nobody has to give a command.      *)
Fairness == WF_vars(Step)

FairSpec == Spec /\ Fairness

-----------------------------------------------------------------------------
(* Properties *)

(* mutectrl takes every status line for the answer of the command it has    *)
(* given last, although a command answers with one line or with two and     *)
(* only some of its loops read on after an error.                           *)
Lockstep ==
  ctrl.asked # "" /\ crypt.lines # <<>> => crypt.lines[1].cmd = ctrl.asked

(* uidNew adds a nym only if its first UID message is registered, the reply *)
(* and the private key are in keyDB, and there is a KeyInit message that    *)
(* can be answered: whichever step failed, in this or in an earlier attempt *)
(* that left its row behind, and even if mutecrypt was gone half-way, which *)
(* the readers of its status lines do not notice.                           *)
NymUsable ==
  \A id \in nyms : \E k \in DOMAIN PrivateUIDs :
    /\ PrivateUIDs[k].id = id /\ PrivateUIDs[k].reply
    /\ uids[id] # <<>> /\ uids[id][1] = PrivateUIDs[k].key
    /\ PrivateUIDs[k].key \in keyInits \cap PrivateKeyInits

(* uid new and uid delete return, whatever fails: no one waits for a status *)
(* line that nobody writes.                                                 *)
Returns == ctrl.pc # "idle" ~> ctrl.pc = "idle"

-----------------------------------------------------------------------------
(* What the documentation says and the code does not do *)

(* "delete UID, if registration was not successful": unless uid delete asks *)
(* for it, mutectrl never deletes the private key of a UID message that the *)
(* server has registered.                                                   *)
RegisteredKept ==
  [][ctrl.pc \notin {"idle", "deleteuid"} =>
       \A k \in DOMAIN PrivateUIDs :
         PrivateUIDs[k].key \in Range(uids[PrivateUIDs[k].id]) =>
           \E j \in DOMAIN PrivateUIDs' : PrivateUIDs'[j].key = PrivateUIDs[k].key]_vars

(* "check that ID has not been registered already by other user": uid new   *)
(* refuses an ID as taken only if somebody else has it.                     *)
TakenByOther ==
  [][\A id \in Ids : UidNew(id) /\ result' = "taken" => uids[id] = <<0>>]_vars

(* The lock of a token is released, or the token deleted, by the command    *)
(* that took it.                                                            *)
UIDTokensReleased == ctrl.pc = "idle" => held = {}

(* "no active nym in DB" is what uid active says when there is none: the    *)
(* active UID is one of the nyms.                                           *)
ActiveIsNym == ctrl.pc = "idle" => active \in nyms \cup {NoId}

(* "delete user ID %s and all it's key material": after uid delete no       *)
(* private key of the nym is left.                                          *)
AllKeysDeleted ==
  [][\A id \in Ids : Hand("delete", id) =>
       \A k \in DOMAIN PrivateUIDs' : PrivateUIDs'[k].id # id]_vars

(* "genupdate generates an update for the (registered) nym": an update is   *)
(* made of a UID message that the server has accepted.                      *)
UpdatesRegistered ==
  \A k \in DOMAIN PrivateUIDs :
    PrivateUIDs[k].count > 0 =>
      PrivateUIDs[k].prev \in Range(uids[PrivateUIDs[k].id])
====

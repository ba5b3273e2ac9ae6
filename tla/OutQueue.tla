------------------------------ MODULE OutQueue ------------------------------
(***************************************************************************)
(* `mutectrl msg add', `msg send' and `msg delete': the tables Messages    *)
(* and OutQueue of the message database, the token an envelope is paid     *)
(* with, and delivery to the mix through `muteproto deliver' and SMTP.     *)
(*                                                                         *)
(* One command runs at a time.  A step is a transaction on the database or *)
(* a call of another program; the process may crash between any two steps, *)
(* and every call may fail, which ends the command.  The mix is external:  *)
(* it takes a token once and answers a token it does not take with a final *)
(* serviceguard error.  A token that nothing refers to any more gives up   *)
(* its name, so that finitely many names stand for ever new tokens.        *)
(***************************************************************************)
EXTENDS Naturals, Sequences, FiniteSets, SequencesExt, FiniteSetsExt

CONSTANTS Nyms,        \* the user IDs
          MaxMsgs,     \* bound: messages added
          Tokens,      \* names of tokens
          Refused,     \* messages whose recipient's mix has no host
          MaxCrashes,  \* bound: crashes
          None         \* no token

ASSUME MsgBound == MaxMsgs \in Nat /\ MaxCrashes \in Nat /\ None \notin Tokens

(* There is always a name for a new token: a message refers to one at most. *)
ASSUME EnoughTokens == IsFiniteSet(Tokens) => Cardinality(Tokens) >= MaxMsgs

MsgNums == 1 .. MaxMsgs

VARIABLES
  Messages,   \* table Messages: Messages[m] = [self, toSend, sent]
  OutQueue,   \* table OutQueue by OQIdx: [self, msgID, token, resend],
              \* token # None iff column Envelope is 1
  added,      \* the number of messages added so far
  wallet,     \* tokens in the wallet store
  locked,     \* those that are locked
  spent,      \* tokens the mix has taken
  mix,        \* messages the mix has accepted
  pc,         \* what the process does next: "idle" between commands, "down"
              \* after a crash
  nym,        \* the nym that msgSend works on
  second,     \* procOutQueue is called the second time
  token,      \* the token procOutQueue holds
  crashes,    \* the number of crashes so far
  healthy     \* from now on no call on this machine fails

msgdb == <<Messages, OutQueue, added>>
tokens == <<wallet, locked, spent>>
call == <<nym, second, token>>
faults == <<crashes, healthy>>
vars == <<msgdb, tokens, mix, pc, call, faults>>

Steps == {"proc", "create", "set", "del", "deliver", "remove", "resend",
          "retract", "undelivered"}

Init ==
  /\ Messages = [m \in {} |-> [self |-> CHOOSE n \in Nyms : TRUE,
                               toSend |-> FALSE, sent |-> FALSE]]
  /\ OutQueue = << >>
  /\ added = 0
  /\ wallet = {} /\ locked = {} /\ spent = {}
  /\ mix = {}
  /\ pc = "idle"
  /\ nym = CHOOSE n \in Nyms : TRUE
  /\ second = FALSE
  /\ token = None
  /\ crashes = 0
  /\ healthy = FALSE

Ready == pc \in {"idle", "down"}

-----------------------------------------------------------------------------
(* msgdb: one transaction each *)

(* GetUndeliveredMessage: the messages of n still to be encrypted.          *)
Undelivered(n) ==
  {m \in DOMAIN Messages : Messages[m].self = n /\ Messages[m].toSend}

(* GetOutQueue: the index of n's first entry that need not be resent, or 0. *)
GetOutQueue(n) ==
  SelectInSeq(OutQueue, LAMBDA e : e.self = n /\ ~e.resend)

Entry == OutQueue[GetOutQueue(nym)]

AddMessage(n, m) ==
  Messages' = [x \in DOMAIN Messages \cup {m} |->
                 IF x # m THEN Messages[x]
                 ELSE [self |-> n, toSend |-> TRUE, sent |-> FALSE]]

(* The rows of queue q at the indices in kept, in their order.              *)
RowsAt(q, kept) ==
  LET Rank(i) == Cardinality({k \in kept : k <= i})
  IN  [j \in 1 .. Cardinality(kept) |-> q[CHOOSE i \in kept : Rank(i) = j]]

(* The row's ON DELETE CASCADE takes the queue entries along.               *)
DelMessage(m) ==
  /\ Messages' = [x \in DOMAIN Messages \ {m} |-> Messages[x]]
  /\ OutQueue' = RowsAt(OutQueue, {i \in DOMAIN OutQueue : OutQueue[i].msgID # m})

(* AddOutQueue: ToSend is cleared and the entry appended. *)
AddOutQueue(n, m) ==
  /\ Messages' = [Messages EXCEPT ![m].toSend = FALSE]
  /\ OutQueue' = Append(OutQueue, [self |-> n, msgID |-> m, token |-> None,
                                   resend |-> FALSE])

SetOutQueue(i, t) ==
  /\ OutQueue' = [OutQueue EXCEPT ![i].token = t]
  /\ UNCHANGED Messages

RemoveOutQueue(i) ==
  /\ Messages' = [Messages EXCEPT ![OutQueue[i].msgID].sent = TRUE]
  /\ OutQueue' = RemoveAt(OutQueue, i)

(* RetractOutQueue; faulty variant: the entry goes, ToSend stays 0.         *)
RetractEntryOnly(i) ==
  /\ OutQueue' = RemoveAt(OutQueue, i)
  /\ UNCHANGED Messages

RetractOutQueue(i) ==
  /\ Messages' = [Messages EXCEPT ![OutQueue[i].msgID].toSend = TRUE]
  /\ OutQueue' = RemoveAt(OutQueue, i)

SetResendOutQueue(i) ==
  /\ OutQueue' = [OutQueue EXCEPT ![i].resend = TRUE]
  /\ UNCHANGED Messages

ClearResendOutQueue(n) ==
  [i \in DOMAIN OutQueue |->
     IF OutQueue[i].self = n THEN [OutQueue[i] EXCEPT !.resend = FALSE]
     ELSE OutQueue[i]]

-----------------------------------------------------------------------------
(* Delivery, from the SMTP client up to muteprotoDeliver *)

(* parseError: what becomes of the answer of the SMTP server.  "token" is   *)
(* the final answer that ends in serviceguard's ErrFinal, "broken" an error *)
(* without a code (a lost connection).                                      *)
parseError(answer) ==
  CASE answer = "ok" -> "nil"
    [] answer \in {"5xx", "token"} -> "ErrFinal"
    [] answer = "4xx" -> "ErrRetry"
    [] answer = "broken" -> "error"

(* LookupMX: whether there is a host to deliver to.                         *)
LookupMX(m) == m \notin Refused

(* SendMail: its possible outcomes for message m paid with t.  `last' is    *)
(* LastError.  Any command before the end of DATA may be refused or lose    *)
(* the connection; the mix accepts at the end of DATA, and QUIT may fail    *)
(* after that.                                                              *)
SendMail(m, t) ==
  LET Outcome(accepted, answer) ==
        [accepted |-> accepted, err |-> parseError(answer), last |-> answer]
  IN  IF ~LookupMX(m)
      THEN {[accepted |-> FALSE, err |-> "ErrFinal", last |-> "ErrNoHost"]}
      ELSE {Outcome(FALSE, a) : a \in {"4xx", "5xx", "token", "broken"}}
           \cup (IF t \in spent THEN {}
                 ELSE {Outcome(TRUE, a) : a \in {"ok", "4xx", "broken"}})

(* Deliver of mix/client: Resend stays set unless the mail went out or the  *)
(* error is final.  `resend' without error means success.                   *)
MessageOutputDeliver(o) ==
  [accepted |-> o.accepted,
   err      |-> IF o.err = "ErrFinal" THEN o.last ELSE o.err,
   resend   |-> o.err \notin {"nil", "ErrFinal"}]

(* deliver of protoengine: RESEND on the status output for an error that   *)
(* may be retried, else an error or nothing.                                *)
deliver(o) == [o EXCEPT !.err = IF o.resend THEN "nil" ELSE o.err]

(* muteprotoDeliver: the program may also fail by itself, before or after   *)
(* the mix accepted.                                                        *)
muteprotoDeliver(m, t) ==
  LET outs == {deliver(MessageOutputDeliver(o)) : o \in SendMail(m, t)}
  IN  outs \cup {[accepted |-> o.accepted, err |-> "exit", resend |-> FALSE] : o \in outs}

-----------------------------------------------------------------------------
(* Commands *)

(* msgAdd, for a nym that exists and a contact that may be written to.      *)
MsgAdd(n) ==
  /\ pc = "idle"
  /\ added < MaxMsgs
  /\ added' = added + 1
  /\ AddMessage(n, added + 1)
  /\ UNCHANGED <<OutQueue, tokens, mix, pc, call, faults>>

MsgDelete(m) ==
  /\ pc = "idle"
  /\ m \in DOMAIN Messages
  /\ DelMessage(m)
  /\ UNCHANGED <<added, tokens, mix, pc, call, faults>>

(* The command returns, with or without an error. *)
Return == pc' = "idle" /\ token' = None /\ second' = FALSE /\ UNCHANGED nym

(* msgSend for one nym (with --all it goes through the nyms in turn, which  *)
(* is one of the orders of these commands).  Before each command startWallet*)
(* opens the wallet store, which clears the locks.                          *)
MsgSend(n) ==
  /\ Ready
  /\ locked' = {}
  /\ OutQueue' = ClearResendOutQueue(n)
  /\ pc' = "proc" /\ nym' = n /\ second' = FALSE /\ token' = None
  /\ UNCHANGED <<Messages, added, wallet, spent, mix, faults>>

(* procOutQueue: the queue has no more entries to process.                  *)
QueueDone ==
  /\ pc = "proc"
  /\ GetOutQueue(nym) = 0
  /\ IF second THEN Return
     ELSE pc' = "undelivered" /\ UNCHANGED call
  /\ UNCHANGED <<msgdb, tokens, mix, faults>>

InUse == {OutQueue[i].token : i \in DOMAIN OutQueue} \cup wallet

(* A name for a new token, whichever. *)
NewToken == {CHOOSE t \in Tokens : t \notin InUse}

(* wallet.GetToken: a stored token that is not locked, else a new one, is   *)
(* locked and returned.                                                     *)
GetToken ==
  /\ pc = "proc"
  /\ GetOutQueue(nym) # 0
  /\ Entry.token = None
  /\ \E t \in IF wallet # locked THEN wallet \ locked ELSE NewToken :
       /\ wallet' = wallet \cup {t}
       /\ locked' = locked \cup {t}
       /\ spent' = IF t \in wallet THEN spent ELSE spent \ {t}
       /\ token' = t
  /\ pc' = "create"
  /\ UNCHANGED <<msgdb, mix, nym, second, faults>>

(* `muteproto create' puts the message and the token into an envelope.      *)
muteprotoCreate ==
  /\ pc = "create"
  /\ pc' = "set"
  /\ UNCHANGED <<msgdb, tokens, mix, call, faults>>

StoreEnvelope ==
  /\ pc = "set"
  /\ SetOutQueue(GetOutQueue(nym), token)
  /\ pc' = "del"
  /\ UNCHANGED <<added, tokens, mix, call, faults>>

(* SetOutQueue fails: the token is unlocked and the command ends.           *)
StoreEnvelopeFails ==
  /\ pc = "set"
  /\ ~healthy
  /\ locked' = locked \ {token}
  /\ Return
  /\ UNCHANGED <<msgdb, wallet, spent, mix, faults>>

(* Faulty variant: the token is only unlocked. *)
UnlockToken ==
  /\ pc = "del"
  /\ locked' = locked \ {token}
  /\ token' = None
  /\ pc' = "deliver"
  /\ UNCHANGED <<msgdb, wallet, spent, mix, nym, second, faults>>

DelToken ==
  /\ pc = "del"
  /\ wallet' = wallet \ {token}
  /\ locked' = locked \ {token}
  /\ token' = None
  /\ pc' = "deliver"
  /\ UNCHANGED <<msgdb, spent, mix, nym, second, faults>>

HasEnvelope == \/ pc = "deliver"
               \/ pc = "proc" /\ GetOutQueue(nym) # 0 /\ Entry.token # None

(* What procOutQueue does next with the outcome of a delivery; faulty       *)
(* variant: resend is not looked at.                                        *)
AfterDeliveryNoResend(o) ==
  IF o.err = "nil" THEN "remove" ELSE IF o.err = "token" THEN "retract" ELSE "idle"

AfterDelivery(o) ==
  CASE o.err = "nil" /\ ~o.resend -> "remove"
    [] o.err = "nil" /\ o.resend  -> "resend"
    [] o.err = "token"            -> "retract"
    [] OTHER                      -> "idle"

DeliverEnvelope(o) ==
  /\ HasEnvelope
  /\ o \in muteprotoDeliver(Entry.msgID, Entry.token)
  /\ mix' = IF o.accepted THEN mix \cup {Entry.msgID} ELSE mix
  /\ spent' = IF o.accepted THEN spent \cup {Entry.token} ELSE spent
  /\ pc' = AfterDelivery(o)
  /\ UNCHANGED <<msgdb, wallet, locked, call, faults>>

Outcomes == [accepted : BOOLEAN, resend : BOOLEAN,
             err : {"nil", "token", "5xx", "ErrNoHost", "exit"}]

(* The mix is reached and its answer arrives: it takes the token, or it does *)
(* not because the token is spent.                                          *)
DeliverySucceeds ==
  DeliverEnvelope([accepted |-> TRUE, resend |-> FALSE, err |-> "nil"])

TokenRefused ==
  /\ DeliverEnvelope([accepted |-> FALSE, resend |-> FALSE, err |-> "token"])
  /\ Entry.token \in spent

Delivery == \E o \in Outcomes : DeliverEnvelope(o)

(* The transaction that records the outcome of a delivery. *)
RecordDelivery ==
  /\ \/ pc = "remove"  /\ RemoveOutQueue(GetOutQueue(nym))
     \/ pc = "resend"  /\ SetResendOutQueue(GetOutQueue(nym))
     \/ pc = "retract" /\ RetractOutQueue(GetOutQueue(nym))
  /\ pc' = "proc"
  /\ UNCHANGED <<added, tokens, mix, call, faults>>

(* msgSend: the oldest undelivered message is encrypted and queued; when    *)
(* none is left, procOutQueue is called again.                              *)
EncryptAndQueue ==
  /\ pc = "undelivered"
  /\ Undelivered(nym) # {}
  /\ AddOutQueue(nym, Min(Undelivered(nym)))
  /\ UNCHANGED <<added, tokens, mix, pc, call, faults>>

AllQueued ==
  /\ pc = "undelivered"
  /\ Undelivered(nym) = {}
  /\ pc' = "proc" /\ second' = TRUE
  /\ UNCHANGED <<msgdb, tokens, mix, nym, token, faults>>

(* Any other call of msgSend and procOutQueue that fails returns its error  *)
(* at once: no token, muteproto create fails, a transaction is rolled back, *)
(* mutecrypt fails.  DelToken reports no error.                             *)
CallFails ==
  /\ pc \in Steps \ {"set", "del"}
  /\ ~healthy
  /\ Return
  /\ UNCHANGED <<msgdb, tokens, mix, faults>>

(* The process crashes; what it holds in memory is gone. *)
Crash ==
  /\ ~Ready
  /\ crashes < MaxCrashes
  /\ crashes' = crashes + 1
  /\ pc' = "down" /\ token' = None /\ second' = FALSE
  /\ UNCHANGED <<msgdb, tokens, mix, nym, healthy>>

(* What made the calls fail is gone. *)
Recover ==
  /\ ~healthy
  /\ healthy' = TRUE
  /\ UNCHANGED <<msgdb, tokens, mix, pc, call, crashes>>

Progress ==
  \/ QueueDone \/ GetToken \/ muteprotoCreate \/ StoreEnvelope \/ DelToken
  \/ RecordDelivery \/ EncryptAndQueue \/ AllQueued

Next ==
  \/ \E n \in Nyms : MsgAdd(n) \/ MsgSend(n)
  \/ \E m \in MsgNums : MsgDelete(m)
  \/ Progress
  \/ Delivery
  \/ StoreEnvelopeFails
  \/ CallFails
  \/ Crash
  \/ Recover

Spec == Init /\ [][Next]_vars

(* The user runs `msg send' for each nym again and again, from some time on *)
(* no call on this machine fails, and a delivery that is tried again and    *)
(* again reaches the mix at some time.                                      *)
Fairness ==
  /\ WF_vars(Recover)
  /\ WF_vars(Progress)
  /\ WF_vars(Delivery)
  /\ \A n \in Nyms :
       /\ SF_vars(MsgSend(n))
       /\ SF_vars(nym = n /\ DeliverySucceeds)
       /\ SF_vars(nym = n /\ TokenRefused)

FairSpec == Spec /\ Fairness

-----------------------------------------------------------------------------
(* Properties *)

(* A message that was added and not deleted is in exactly one place: still  *)
(* to be encrypted (ToSend), in the outqueue with one entry, or sent; and   *)
(* the outqueue holds entries of such messages only.  Every transaction of  *)
(* msgdb/outqueue.go keeps this up, and no crash in between breaks it.      *)
ExactlyOnePlace ==
  /\ \A i \in DOMAIN OutQueue :
       /\ OutQueue[i].msgID \in DOMAIN Messages
       /\ OutQueue[i].self = Messages[OutQueue[i].msgID].self
  /\ \A m \in DOMAIN Messages :
       LET entries == {i \in DOMAIN OutQueue : OutQueue[i].msgID = m}
       IN  Cardinality(entries)
             + (IF Messages[m].toSend THEN 1 ELSE 0)
             + (IF Messages[m].sent THEN 1 ELSE 0) = 1

(* The detailed specification implements Outbox: nothing pending is lost,   *)
(* nothing is reported as sent that did not reach the mix, and nothing that *)
(* was deleted or reported as sent reaches the mix again.                   *)
O == INSTANCE Outbox WITH
       known     <- DOMAIN Messages,
       pending   <- {m \in DOMAIN Messages :
                       \/ Messages[m].toSend
                       \/ \E i \in DOMAIN OutQueue : OutQueue[i].msgID = m},
       delivered <- mix,
       sent      <- {m \in DOMAIN Messages : Messages[m].sent}

ImplementsOutbox == O!Spec

(* A token whose envelope waits in the outqueue has left the wallet, except *)
(* after a crash between SetOutQueue and DelToken (msg.go:315-319): then it *)
(* may pay for a second message, one of which the mix refuses.              *)
TokenUsedOnce ==
  crashes = 0 =>
    \A i, j \in DOMAIN OutQueue :
      /\ i # j /\ OutQueue[i].token # None => OutQueue[i].token # OutQueue[j].token
      /\ OutQueue[i].token \in wallet => pc \in {"set", "del"}

(* The queue is sound: a message is in exactly one place and a token pays   *)
(* for one message, whatever procOutQueue was doing when it failed.         *)
QueueSound == ExactlyOnePlace /\ TokenUsedOnce

(* Every message of a nym none of whose messages has an unreachable         *)
(* recipient is sent at last, or deleted: resends, retractions, failures    *)
(* and crashes only delay it.                                               *)
EventuallySent ==
  \A m \in MsgNums, n \in Nyms :
    (/\ m \in DOMAIN Messages
     /\ Messages[m].self = n)
    ~> \/ m \notin DOMAIN Messages
       \/ Messages[m].sent
       \/ \E x \in Refused \cap DOMAIN Messages : Messages[x].self = n

-----------------------------------------------------------------------------
(* What the documentation says and the code does not do *)

(* serviceguard/client: a token from GetToken `must be deleted with         *)
(* DelToken when used (or unlocked)'.  When a command has returned, it left *)
(* no token locked.                                                         *)
TokensReleased == pc = "idle" => locked = {}
====

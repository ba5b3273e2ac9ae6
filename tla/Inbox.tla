------------------------------- MODULE Inbox -------------------------------
(***************************************************************************)
(* `mutectrl msg fetch', `msg read', `msg delete' and the contact commands *)
(* for one nym: the message ID cache, the table InQueue, the messages that *)
(* come out of it and the contact lists that decide about them.            *)
(*                                                                         *)
(* One command runs at a time.  A step is a transaction on the message     *)
(* database or a call of muteproto or mutecrypt.  A fault is a crash, or a *)
(* call that fails: a broken connection to the account server, a key server *)
(* that does not answer.  The account server is external: it keeps what    *)
(* arrives, gives every message the second of its arrival, and lists those *)
(* from a given second on, newest first.                                   *)
(***************************************************************************)
EXTENDS Naturals, Sequences, FiniteSets, SequencesExt, FiniteSetsExt

CONSTANTS Senders,     \* users who write to this nym
          Foreign,     \* content: an envelope for another nym
          Unreadable,  \* content: no key for the pre-header
          MaxMsgs,     \* bound: messages that arrive
          MaxFaults    \* bound: faults

ASSUME InboxBounds == MaxMsgs \in Nat /\ MaxFaults \in Nat

VARIABLES
  account,      \* account[m]: content of the m-th message at the server
  LastMsgTime,  \* column LastMsgTime of table Accounts
  cache,        \* table MessageIDCache in the order of Entry
  InQueue,      \* table InQueue in the order of IQIdx: [msg, envelope]
  Messages,     \* received messages in table Messages: [msg, read]
  contacts,     \* type of contact, "none" without a row
  opened,       \* messages whose message key mutecrypt has used and deleted
  pc,           \* what the process does next, "idle" between commands
  list,         \* the messages muteproto has still to offer
  known,        \* muteprotoFetch: the cache as read
  newTime,      \* muteprotoFetch: newMessageTime
  fetched,      \* msgFetch: procInQueue is called the second time
  faults,       \* the number of faults so far
  listed,       \* history: how many messages had arrived at the last listing
  queued,       \* history: how often each message was put into InQueue
  chosen        \* history: contacts the user has added or unblocked

server == <<account>>
table == <<LastMsgTime, cache, InQueue, Messages, contacts>>
call == <<list, known, newTime, fetched>>
history == <<listed, queued, chosen>>
vars == <<server, table, opened, pc, call, faults, history>>

Contents == Senders \cup {Foreign, Unreadable}

(* Two messages may arrive in the same second. *)
TimeOf(m) == (m + 1) \div 2

Init ==
  /\ account = << >>
  /\ LastMsgTime = 0 /\ cache = << >> /\ InQueue = << >> /\ Messages = << >>
  /\ contacts = [s \in Senders |-> "none"]
  /\ opened = {}
  /\ pc = "idle"
  /\ list = << >> /\ known = {} /\ newTime = 0 /\ fetched = FALSE
  /\ faults = 0
  /\ listed = 0 /\ queued = [m \in 1 .. MaxMsgs |-> 0] /\ chosen = {}

-----------------------------------------------------------------------------
(* msgdb *)

AddMessageIDCache(m) == cache' = Append(cache, m)

GetMessageIDCache == Range(cache)

(* RemoveMessageIDCache: the entries before that of m go; faulty variant:   *)
(* that of m goes too.                                                      *)
RemoveUpTo(m) == cache' = SubSeq(cache, SelectInSeq(cache, LAMBDA x : x = m) + 1, Len(cache))

RemoveMessageIDCache(m) ==
  cache' = SubSeq(cache, SelectInSeq(cache, LAMBDA x : x = m), Len(cache))

AddInQueue(m) == InQueue' = Append(InQueue, [msg |-> m, envelope |-> TRUE])

GetInQueue == Head(InQueue)

SetInQueue == InQueue' = [InQueue EXCEPT ![1].envelope = FALSE]

DelInQueue == InQueue' = Tail(InQueue)

(* RemoveInQueue: the message comes into Messages, unless it is dropped,    *)
(* and leaves InQueue in the same transaction.                              *)
StoreMessage(m, drop) ==
  Messages' = IF drop THEN Messages
              ELSE Append(Messages, [msg |-> m, read |-> FALSE])

RemoveInQueue(m, drop) == StoreMessage(m, drop) /\ DelInQueue

GetContact(s) == contacts[s]

AddContact(s, type) == contacts' = [contacts EXCEPT ![s] = type]

-----------------------------------------------------------------------------
(* muteproto fetch *)

(* ListMessages: what the server has from second t on, newest first.        *)
ListMessages(t) ==
  Reverse(SelectSeq([m \in 1 .. Len(account) |-> m], LAMBDA m : TimeOf(m) >= t))

(* The process that muteprotoFetch starts: it has listed the messages.      *)
protoFetch ==
  /\ list' = ListMessages(LastMsgTime)
  /\ known' = GetMessageIDCache
  /\ newTime' = 0
  /\ listed' = Len(account)
  /\ pc' = "next"

(* It offers the next message.  An unknown one is answered with NEXT and    *)
(* its ID goes into the cache before the message is read.                   *)
TakeNext ==
  /\ pc = "next" /\ list # << >> /\ Head(list) \notin known
  /\ AddMessageIDCache(Head(list))
  /\ pc' = "queue"
  /\ UNCHANGED <<server, LastMsgTime, InQueue, Messages, contacts, opened,
                 call, faults, history>>

(* The message is complete; the first one gives newMessageTime. *)
NewMessageTime(m) == IF newTime = 0 THEN TimeOf(m) ELSE newTime

FetchMessage ==
  /\ pc = "queue"
  /\ AddInQueue(Head(list))
  /\ queued' = [queued EXCEPT ![Head(list)] = @ + 1]
  /\ newTime' = NewMessageTime(Head(list))
  /\ list' = Tail(list)
  /\ pc' = "next"
  /\ UNCHANGED <<server, LastMsgTime, cache, Messages, contacts, opened,
                 known, fetched, faults, listed, chosen>>

(* A known message is answered with QUIT. *)
Quit ==
  /\ pc = "next" /\ list # << >> /\ Head(list) \in known
  /\ RemoveMessageIDCache(Head(list))
  /\ pc' = "time"
  /\ UNCHANGED <<server, LastMsgTime, InQueue, Messages, contacts, opened,
                 call, faults, history>>

(* NONE: there are no more messages. *)
NoneLeft ==
  /\ pc = "next" /\ list = << >>
  /\ pc' = "time"
  /\ UNCHANGED <<server, table, opened, call, faults, history>>

SetAccountLastMsg ==
  /\ pc = "time"
  /\ LastMsgTime' = IF newTime > 0 THEN newTime ELSE LastMsgTime
  /\ fetched' = TRUE
  /\ pc' = "proc"
  /\ UNCHANGED <<server, cache, InQueue, Messages, contacts, opened, list,
                 known, newTime, faults, history>>

-----------------------------------------------------------------------------
(* procInQueue *)

Return == pc' = "idle" /\ list' = << >> /\ known' = {} /\ newTime' = 0 /\ fetched' = FALSE

(* msgFetch works off what is left of an earlier call first.                *)
MsgFetch ==
  /\ pc = "idle"
  /\ pc' = "proc"
  /\ UNCHANGED <<server, table, opened, call, faults, history>>

(* InQueue is empty: fetch, or be done. *)
QueueEmpty ==
  /\ pc = "proc" /\ InQueue = << >>
  /\ \/ ~fetched /\ protoFetch /\ UNCHANGED fetched
     \/ fetched /\ Return /\ UNCHANGED listed
  /\ UNCHANGED <<server, table, opened, faults, queued, chosen>>

(* The envelope is opened with the account's secret; one that is not for    *)
(* this nym is discarded.                                                   *)
DecryptEnvelope ==
  /\ pc = "proc" /\ InQueue # << >> /\ GetInQueue.envelope
  /\ IF account[GetInQueue.msg] = Foreign THEN DelInQueue ELSE SetInQueue
  /\ UNCHANGED <<server, LastMsgTime, cache, Messages, contacts, opened, pc,
                 call, faults, history>>

(* mutecryptDecrypt: its outcome for message m.  A key works only once.     *)
mutecryptDecrypt(m) ==
  CASE account[m] = Unreadable -> "ErrNoPreHeaderKey"
    [] account[m] \in Senders /\ m \in opened -> "error"
    [] OTHER -> "nil"

(* What the caller makes of the outcome: a sender ID, no sender ID, or an   *)
(* error; faulty variant: every failure is an error.                        *)
SenderOrError(outcome) == IF outcome = "nil" THEN "sender" ELSE "error"

SenderID(outcome) ==
  CASE outcome = "nil" -> "sender"
    [] outcome = "ErrNoPreHeaderKey" -> "dropped"
    [] outcome = "error" -> "error"

DecryptMessage ==
  LET m == GetInQueue.msg
      senderID == SenderID(mutecryptDecrypt(m))
  IN  /\ pc = "proc" /\ InQueue # << >> /\ ~GetInQueue.envelope
      /\ \/ /\ senderID = "sender"
            /\ opened' = opened \cup {m}
            /\ pc' = "record"
            /\ UNCHANGED <<InQueue, call>>
         \/ /\ senderID = "dropped"
            /\ DelInQueue
            /\ UNCHANGED <<opened, pc, call>>
         \/ /\ senderID = "error"
            /\ Return
            /\ UNCHANGED <<opened, InQueue>>
      /\ UNCHANGED <<server, LastMsgTime, cache, Messages, contacts, faults,
                     history>>

(* contactAdd with the parameter `type'.  GetContact assigns its result,    *)
(* white list for a contact that has no row, to the parameter.              *)
contactAdd(s, type) ==
  LET contactType == IF GetContact(s) = "none" THEN "white" ELSE GetContact(s)
  IN  IF GetContact(s) = "none" THEN AddContact(s, contactType)
      ELSE AddContact(s, "white")

(* procInQueue goes on with the sender: an unknown one is added, the        *)
(* message of a black-listed one is dropped.  RemoveInQueue needs the       *)
(* contact's row.  Faulty variant: nobody is black-listed.                  *)
DropNothing(s) == FALSE

Drop(s) == GetContact(s) = "black"

RecordMessage ==
  LET m == GetInQueue.msg
      s == account[m]
  IN  /\ pc = "record"
      /\ IF GetContact(s) = "none" THEN contactAdd(s, "gray")
         ELSE UNCHANGED contacts
      /\ contacts'[s] # "none"
      /\ RemoveInQueue(m, Drop(s))
      /\ pc' = "proc"
      /\ UNCHANGED <<server, LastMsgTime, cache, opened, call, faults, listed,
                     queued, chosen>>

-----------------------------------------------------------------------------
(* Other commands *)

msgRead(i) ==
  /\ pc = "idle" /\ i \in DOMAIN Messages
  /\ Messages' = [Messages EXCEPT ![i].read = TRUE]
  /\ UNCHANGED <<server, LastMsgTime, cache, InQueue, contacts, opened, pc,
                 call, faults, history>>

msgDelete(i) ==
  /\ pc = "idle" /\ i \in DOMAIN Messages
  /\ Messages' = RemoveAt(Messages, i)
  /\ UNCHANGED <<server, LastMsgTime, cache, InQueue, contacts, opened, pc,
                 call, faults, history>>

ContactCommand(s, added) ==
  /\ pc = "idle"
  /\ chosen' = IF added THEN chosen \cup {s} ELSE chosen
  /\ UNCHANGED <<server, LastMsgTime, cache, InQueue, Messages, opened, pc,
                 call, faults, listed, queued>>

ContactAdd(s) == contactAdd(s, "white") /\ ContactCommand(s, TRUE)

contactRemove(s) ==
  /\ contacts' = [contacts EXCEPT ![s] = IF @ = "none" THEN @ ELSE "gray"]
  /\ ContactCommand(s, FALSE)

contactBlock(s) == AddContact(s, "black") /\ ContactCommand(s, FALSE)

contactUnblock(s) ==
  /\ GetContact(s) = "black"
  /\ AddContact(s, "white")
  /\ ContactCommand(s, TRUE)

-----------------------------------------------------------------------------
(* The environment *)

Arrive(content) ==
  /\ Len(account) < MaxMsgs
  /\ account' = Append(account, content)
  /\ UNCHANGED <<table, opened, pc, call, faults, history>>

(* The process ends between two of its steps: a crash, or an error return   *)
(* because a call failed.                                                   *)
Fault ==
  /\ pc # "idle" /\ faults < MaxFaults
  /\ faults' = faults + 1
  /\ Return
  /\ UNCHANGED <<server, table, opened, history>>

Step ==
  \/ TakeNext \/ FetchMessage \/ Quit \/ NoneLeft \/ SetAccountLastMsg
  \/ QueueEmpty \/ DecryptEnvelope \/ DecryptMessage \/ RecordMessage

Next ==
  \/ MsgFetch
  \/ Step
  \/ \E i \in 1 .. MaxMsgs : msgRead(i) \/ msgDelete(i)
  \/ \E s \in Senders : \/ ContactAdd(s) \/ contactRemove(s)
                        \/ contactBlock(s) \/ contactUnblock(s)
  \/ \E content \in Contents : Arrive(content)
  \/ Fault

Spec == Init /\ [][Next]_vars

(* A command that has started goes on, and the user fetches again and again. *)
Fairness == WF_vars(Step) /\ SF_vars(MsgFetch)

FairSpec == Spec /\ Fairness

-----------------------------------------------------------------------------
(* Properties *)

(* However often `msg fetch' is interrupted or crashes, no message is put  *)
(* into InQueue twice, where the second copy would stay at the head for     *)
(* ever: the server lists a message again and again, LastMsgTime is set     *)
(* only at the end of a fetch, and the cache forgets old IDs.               *)
QueuedAtMostOnce == \A m \in 1 .. MaxMsgs : queued[m] <= 1

(* Usage of `msg fetch' (ctrlengine.go): "fetch new messages and decrypt    *)
(* them".  When muteprotoFetch returns without an error, every message that *)
(* was in the account when it listed the messages has been put into InQueue *)
(* at some time, although it stops at the first one it knows.               *)
NewMessagesFetched == pc = "time" => \A m \in 1 .. listed : queued[m] > 0

InQueued(m) == \E e \in Range(InQueue) : e.msg = m

(* procInQueue does not stop at a message that it cannot decrypt ("but we   *)
(* do not want to fail"): every message in InQueue leaves it again.         *)
QueueDrains == \A m \in 1 .. MaxMsgs : InQueued(m) ~> ~InQueued(m)

(* What leaves InQueue has come into Messages, unless it is for another nym *)
(* or unreadable or its sender is black-listed when its turn comes: no      *)
(* other message is lost on the way, and none of a blocked sender is shown. *)
BlockedOnly ==
  [][\A m \in 1 .. MaxMsgs :
       (InQueued(m) /\ ~InQueued(m)') =>
         ((\E e \in Range(Messages') : e.msg = m)
            <=> account[m] \in Senders /\ contacts[account[m]] # "black")]_vars

-----------------------------------------------------------------------------
(* What the documentation says and the code does not do *)

(* Usage of `contact add': "(-> white list)".  Only that command and `contact *)
(* unblock' put a contact on the white list; a sender that procInQueue adds *)
(* on its own is gray-listed.                                               *)
WhiteListChosen == \A s \in Senders : contacts[s] = "white" => s \in chosen
====

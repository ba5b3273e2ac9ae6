---------------------------- MODULE SessionCalls ----------------------------
(***************************************************************************)
(* Encrypt and Decrypt of package msg as the sequences of writes they are. *)
(* Session takes a call as one step.  In mutecrypt the store is the key    *)
(* database, every write of a call is committed on its own, and a call may *)
(* end between two of them: the process is killed, a write or an input     *)
(* fails, or the body of a message does not match its HMAC.  mutectrl then *)
(* throws away what the call has put out and may call again.               *)
(*                                                                         *)
(* A call is the sequence of the contents of the caller's store after each *)
(* of its writes.  A call that runs to its end applies the last one, a     *)
(* call that is cut off applies any earlier one.  Until then the module    *)
(* implements Session.  Later batches of message keys are the subject of   *)
(* KeyDB; here one batch is enough (OneBatch).                             *)
(***************************************************************************)
EXTENDS Session, Sequences, SequencesExt

CONSTANT Cuts            \* bound: the calls that are cut off

ASSUME CutsBound == Cuts \in Nat
ASSUME OneBatch == \A p \in Parties : MaxMessages[p] < NumOfKeys

VARIABLE cuts            \* the calls that were cut off

callVars == <<vars, cuts>>

(* What p has in its store. *)
Store(p) == [ss |-> ss[p], sessions |-> sessions[p],
             created |-> created[p], priv |-> priv[p]]

StoreBecomes(p, s) ==
  /\ ss' = [ss EXCEPT ![p] = s.ss]
  /\ sessions' = [sessions EXCEPT ![p] = s.sessions]
  /\ created' = [created EXCEPT ![p] = s.created]
  /\ priv' = [priv EXCEPT ![p] = s.priv]

AddSessionKey(s, p) == [s EXCEPT !.created = @ + 1, !.priv = @ \cup {NewKey(p)}]

SetSessionState(s, st) == [s EXCEPT !.ss = st]

InStore(s, store) == [s EXCEPT !.sessions = store]

DelPrivKey(s, k) == [s EXCEPT !.priv = @ \ {k}]

-----------------------------------------------------------------------------
(* Encrypt *)

FirstCall(p) ==
  LET s1 == AddSessionKey(Store(p), p)
      s2 == InStore(s1, rootKeyAgreementSender(s1.sessions, NewKey(p),
                                               KeyInit(Peer(p)), Nil))
  IN  <<s1, s2, SetSessionState(s2, FirstState(p))>>

(* setNextSenderSessionPub *)
OfferCall(p) ==
  LET s1 == AddSessionKey(Store(p), p)
  IN  <<s1, SetSessionState(s1, [ss[p] EXCEPT !.next = NewKey(p)])>>

(* The session handling of Encrypt, with either result of the draw.         *)
PrepareCalls(p) ==
  IF ss[p] = Nil THEN {FirstCall(p)}
  ELSE IF ss[p].next = Nil THEN {<<Store(p)>>, OfferCall(p)}
  ELSE {<<Store(p)>>}

(* There is a session to send in; NumMessageKeys fails without it.         *)
HasSession(s) == Current(s.ss) \in DOMAIN s.sessions

SealKey(s) ==
  IF HasSession(s) THEN s.sessions[Current(s.ss)].send[s.ss.messageCount]
  ELSE Used

(* DelMessageKey and SetSessionState after the message was written; faulty  *)
(* variant: neither is done.                                                *)
Counted(s) == SetSessionState(s, [s.ss EXCEPT !.messageCount = @ + 1])

SealWithoutBoth(s) == << >>

SealCall(s) ==
  LET s1 == InStore(s, DelMessageKey(s.sessions, Current(s.ss), TRUE,
                                     s.ss.messageCount))
  IN  <<s1, Counted(s1)>>

Encrypted(p) ==
  \E call \in PrepareCalls(p) :
    LET s == Last(call)
    IN  /\ SealKey(s) # Used
        /\ StoreBecomes(p, Last(call \o SealCall(s)))
        /\ net' = net \cup {Message(p, s.ss, SealKey(s))}
        /\ UNCHANGED cuts

(* The content is too long, or the message key does not exist. *)
EncryptFails(p) ==
  \E call \in PrepareCalls(p) :
    /\ StoreBecomes(p, Last(call))
    /\ UNCHANGED <<net, cuts>>

EncryptCut(p) ==
  \E call \in PrepareCalls(p) :
    LET all == IF SealKey(Last(call)) = Used THEN call
               ELSE call \o SealCall(Last(call))
    IN  /\ cuts < Cuts
        /\ \E k \in 1 .. (Len(all) - 1) : StoreBecomes(p, all[k])
        /\ cuts' = cuts + 1
        /\ UNCHANGED net

-----------------------------------------------------------------------------
(* Decrypt *)

(* A session known to the store, and no state that belongs to it: Decrypt   *)
(* compares with the fields of a nil pointer, and mutecrypt ends there.     *)
NoState(p, m) == ~Unknown(p, m) /\ ss[p] = Nil

StartCall(p, m) ==
  IF m.recipientTemp = KeyInit(p)
  THEN <<InStore(Store(p), FromKeyInit(p, m))>>
  ELSE <<Store(p)>>

AdoptState(p, m) ==
  [sessionCount |-> 0, messageCount |-> 0,
   recipientTemp |-> m.senderSessionPub, senderSessionPub |-> KeyInit(p),
   next |-> NewKey(p), seen |-> m.next, keyInitSession |-> FALSE]

AdoptCall(p, m) ==
  LET s1 == StartCall(p, m)[1]
      s2 == AddSessionKey(s1, p)
      prev == s2.sessions[SessionKey(m)].rootKeyHash
      s3 == InStore(s2, rootKeyAgreementSender(s2.sessions, NewKey(p), m.next, prev))
  IN  IF m.next = Nil
      THEN <<s1, s2, SetSessionState(s2, AdoptState(p, m))>>
      ELSE <<s1, s2, s3, SetSessionState(s3, AdoptState(p, m))>>

RootKeyHash(p, m) == sessions[p][SessionKey(m)].rootKeyHash

(* Faulty variant of PrepareCall: the state before the session.             *)
PrepareStateFirst(p, m) ==
  LET s2 == OfferCall(p)[2]
      s3 == SetSessionState(s2, [s2.ss EXCEPT !.seen = m.next])
  IN  OfferCall(p) \o
        <<s3, InStore(s3, rootKeyAgreementSender(s3.sessions, NewKey(p), m.next,
                                                 RootKeyHash(p, m)))>>

PrepareCall(p, m) ==
  LET s2 == OfferCall(p)[2]
      s3 == InStore(s2, rootKeyAgreementSender(s2.sessions, NewKey(p), m.next,
                                               RootKeyHash(p, m)))
      seen == [s3.ss EXCEPT !.seen = m.next]
  IN  OfferCall(p) \o <<s3>> \o
        IF s3.ss.seen = Nil THEN <<SetSessionState(s3, seen)>> ELSE << >>

(* Faulty variant of SwitchCall: the previous root key does not enter.      *)
SwitchWithoutPrevious(p, m) ==
  LET s1 == InStore(Store(p), rootKeyAgreementRecipient(sessions[p], m.next,
                                ss[p].next, Nil))
  IN  <<s1, SetSessionState(s1, NextState(p, m.next, ss[p].next))>>

SwitchCall(p, m) ==
  LET s1 == InStore(Store(p), rootKeyAgreementRecipient(sessions[p], m.next,
                                ss[p].next, RootKeyHash(p, m)))
  IN  <<s1, SetSessionState(s1, NextState(p, m.next, ss[p].next))>>

FollowCall(p, m) ==
  <<SetSessionState(Store(p), NextState(p, m.senderSessionPub, ss[p].next))>>

(* The session handling of Decrypt; a session that is known was used, and   *)
(* its private key is deleted at the end.                                   *)
KnownCall(p, m) ==
  LET call == IF Reflects(p, m) /\ Prepares(p, m) THEN PrepareCall(p, m)
              ELSE IF Reflects(p, m) /\ Switches(p, m) THEN SwitchCall(p, m)
              ELSE IF ~Reflects(p, m) /\ MatchesNext(p, m) THEN FollowCall(p, m)
              ELSE <<Store(p)>>
  IN  Append(call, DelPrivKey(Last(call), m.recipientTemp))

HandleCall(p, m) ==
  IF ~Unknown(p, m) THEN KnownCall(p, m)
  ELSE IF Adopts(p, m) THEN AdoptCall(p, m)
  ELSE StartCall(p, m)

(* DelMessageKey *)
OpenCall(s, m) ==
  <<InStore(s, DelMessageKey(s.sessions, SessionKey(m), FALSE, m.messageCount))>>

(* The session of m has a key for m.  (OneBatch: no top-up.)                *)
HasKey(s, m) ==
  /\ SessionKey(m) \in DOMAIN s.sessions
  /\ s.sessions[SessionKey(m)].recv[m.messageCount] = m.key

(* A call of Decrypt that returns: with the plain text, or with an error    *)
(* since it has no key for m.                                               *)
Decrypted(p, m) ==
  LET s == Last(HandleCall(p, m))
      ok == HasKey(s, m)
  IN  /\ ~NoState(p, m)
      /\ StoreBecomes(p, IF ok THEN Last(<<s>> \o OpenCall(s, m)) ELSE s)
      /\ opened' = IF ok THEN opened \cup {m} ELSE opened
      /\ rejected' = IF ok \/ m \in opened THEN rejected ELSE rejected \cup {m}
      /\ replayed' = IF ok /\ m \in opened THEN replayed \cup {m} ELSE replayed
      /\ UNCHANGED <<net, cuts>>

(* A call that ends after some of its writes, at the latest when the body   *)
(* of m does not match its HMAC.                                            *)
DecryptCut(p, m) ==
  /\ ~NoState(p, m)
  /\ cuts < Cuts
  /\ \E k \in 1 .. Len(HandleCall(p, m)) : StoreBecomes(p, HandleCall(p, m)[k])
  /\ cuts' = cuts + 1
  /\ UNCHANGED <<net, opened, rejected, replayed>>

DecryptPanics(p, m) ==
  /\ NoState(p, m)
  /\ rejected' = IF m \in opened THEN rejected ELSE rejected \cup {m}
  /\ UNCHANGED <<ss, sessions, created, priv, net, opened, replayed, cuts>>

CallInit == Init /\ cuts = 0

CallNext ==
  \E p \in Parties :
    \/ /\ MayEncrypt(p)
       /\ Encrypted(p) \/ EncryptFails(p) \/ EncryptCut(p)
       /\ UNCHANGED <<opened, rejected, replayed>>
    \/ \E m \in net :
         /\ Arrives(p, m)
         /\ Decrypted(p, m) \/ DecryptCut(p, m) \/ DecryptPanics(p, m)

CallSpec == CallInit /\ [][CallNext]_callVars

-----------------------------------------------------------------------------
(* Properties *)

(* As long as no call was cut off, the writes of Encrypt and Decrypt add up *)
(* to the atomic calls of Session, in every branch.                         *)
CallsImplementSession ==
  Init /\ [][cuts' = 0 => Next \/ UNCHANGED vars]_callVars

(* Whatever a call that was cut off has left behind, Decrypt opens every    *)
(* message when it is called again, except in a conversation that has a     *)
(* session and no state.                                                    *)
OnlyStatelessRejected ==
  [][\A m \in rejected' \ rejected : ss[Peer(m.from)] = Nil]_callVars

-----------------------------------------------------------------------------
(* What the documentation says and the code does not do *)

(* The next Encrypt has a message key: the key at SenderMessageCount of the *)
(* current session has not been used.  Encrypt deletes the key before it    *)
(* counts the message.                                                      *)
EncryptHasKey ==
  \A p \in Parties :
    ss[p] # Nil => SealKey(Store(p)) # Used

(* The message keys of a session are generated once: its chain key is as    *)
(* many steps from the root key as there are message keys, so that no key   *)
(* occurs in two positions.  A repeated key agreement adds them again.      *)
KeysGeneratedOnce ==
  \A p \in Parties : \A sk \in DOMAIN sessions[p] :
    sessions[p][sk].chainKey.step = sessions[p][sk].num
====

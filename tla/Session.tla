------------------------------ MODULE Session ------------------------------
(***************************************************************************)
(* The session protocol of package msg: how two identities that exchange   *)
(* encrypted messages agree on root keys, derive message keys, start a     *)
(* session from a KeyInit message, refresh it, and settle which of two     *)
(* simultaneously started sessions survives.  Encrypt and Decrypt          *)
(* (msg/encrypt.go, msg/decrypt.go) are the actions; the key store is      *)
(* session.Store as implemented by msg/session/memstore (SessionStore).     *)
(*                                                                         *)
(* Abstractions.  A Curve25519 key pair is the pair <<owner, number>>;     *)
(* number 0 is the owner's KeyInit key.  A root key is the record of what  *)
(* enters the Diffie-Hellman computations and the HKDF (the identity keys  *)
(* follow from the owners), so two root keys are equal exactly when the    *)
(* code would derive the same bytes.  A chain key is the root key hashed   *)
(* `step' times.  A message opens exactly when the key the recipient looks *)
(* up equals the key it was sealed with (the HMAC comparison).  The mix    *)
(* network may lose, delay, reorder and duplicate messages: `net' is the   *)
(* set of messages ever sent, and any of them may arrive at any time.      *)
(***************************************************************************)
EXTENDS SessionStore, FiniteSets

CONSTANTS A, B,          \* the two identities; A is the smaller string
          MaxMessages    \* bound: MaxMessages[p] is how many messages p sends

ASSUME TwoIdentities == A # B
ASSUME BoundIsNat == MaxMessages \in [{A, B} -> Nat]

Parties == {A, B}
Peer(p) == IF p = A THEN B ELSE A

KeyEntries == Parties \X Nat
KeyInit(p) == <<p, 0>>

(* session.State; MaxRecipientCount is never used, and the nym address is   *)
(* data.                                                                    *)
SessionStates ==
  [sessionCount : Nat, messageCount : Nat, recipientTemp : KeyEntries,
   senderSessionPub : KeyEntries, next : KeyEntries \cup {Nil},
   seen : KeyEntries \cup {Nil}, keyInitSession : BOOLEAN]

ASSUME NilIsNil == Nil \notin KeyEntries /\ Nil \notin SessionStates

VARIABLES
  ss,        \* ss[p]: p's session.State for the conversation, or Nil
  sessions,  \* sessions[p]: the sessions p has stored, by <<own, peer>> key
  created,   \* created[p]: how many session keys p has generated
  priv,      \* priv[p]: the session keys whose private part p still stores
  net,       \* every message sent so far
  opened,    \* history: the messages decrypted by their recipient
  rejected,  \* history: messages refused although they were not yet opened
  replayed   \* history: messages that were opened a second time

vars == <<ss, sessions, created, priv, net, opened, rejected, replayed>>

-----------------------------------------------------------------------------
(* Root keys, chain keys, message keys: msg/keys.go *)

deriveRootKey(senderSession, recipientKI, previousRootKeyHash) ==
  [root |-> [session |-> senderSession, keyInit |-> recipientKI,
             prev |-> previousRootKeyHash],
   step |-> 0]

(* Faulty variant: the chain is never moved on. *)
AdvanceStuck(chainKey, i) == chainKey

Advance(chainKey, i) == [chainKey EXCEPT !.step = @ + i]

MessageKey(chainKey, pub) == [chain |-> chainKey, pub |-> pub]

(* The session key is the pair of temporary keys, the store owner's first.  *)
generateMessageKeys(store, rootKey, recipientKeys, sender, recipient, num) ==
  LET own  == IF recipientKeys THEN recipient ELSE sender
      peer == IF recipientKeys THEN sender ELSE recipient
      Batch(pub) == [i \in 0 .. (num - 1) |->
                       MessageKey(Advance(rootKey, i), pub)]
  IN  StoreSession(store, <<own, peer>>, rootKey, Advance(rootKey, num),
                   Batch(peer), Batch(own), num)

rootKeyAgreementSender(store, senderSession, recipientKI, prev) ==
  generateMessageKeys(store, deriveRootKey(senderSession, recipientKI, prev),
                      FALSE, senderSession, recipientKI, NumOfKeys)

rootKeyAgreementRecipient(store, senderSession, recipientKI, prev) ==
  generateMessageKeys(store, deriveRootKey(senderSession, recipientKI, prev),
                      TRUE, senderSession, recipientKI, NumOfKeys)

-----------------------------------------------------------------------------
Init ==
  /\ ss = [p \in Parties |-> Nil]
  /\ sessions = [p \in Parties |-> [s \in {} |-> Nil]]
  /\ created = [p \in Parties |-> 0]
  /\ priv = [p \in Parties |-> {}]
  /\ net = {}
  /\ opened = {}
  /\ rejected = {}
  /\ replayed = {}

NewKey(p) == <<p, created[p] + 1>>

(* InitDHKey followed by addSessionKey. *)
addSessionKey(p) ==
  /\ created' = [created EXCEPT ![p] = @ + 1]
  /\ priv' = [priv EXCEPT ![p] = @ \cup {NewKey(p)}]

NoNewKey == UNCHANGED <<created, priv>>

FirstState(p) ==
  [sessionCount |-> 0, messageCount |-> 0, recipientTemp |-> KeyInit(Peer(p)),
   senderSessionPub |-> NewKey(p), next |-> Nil, seen |-> Nil,
   keyInitSession |-> TRUE]

(* newHeader, and the body sealed with the message key. *)
Message(p, st, key) ==
  [from |-> p, recipientTemp |-> st.recipientTemp,
   senderSessionPub |-> st.senderSessionPub, next |-> st.next,
   seen |-> st.seen, sessionCount |-> st.sessionCount,
   messageCount |-> st.messageCount, key |-> key]

(* The tail of Encrypt, from the prepared state st and store on: top up     *)
(* the keys, seal the message and, unless the content is too long, write    *)
(* it, delete its key and count it.                                         *)
Seal(p, st, store, tooLong) ==
  LET sk == <<st.senderSessionPub, st.recipientTemp>>
      i  == st.messageCount
      full == IF i >= store[sk].num
              THEN generateMessageKeys(store, store[sk].chainKey, FALSE,
                     st.senderSessionPub, st.recipientTemp, NumOfKeys)
              ELSE store
      key == full[sk].send[i]
      sent == ~tooLong /\ key # Used
  IN  /\ net' = IF sent THEN net \cup {Message(p, st, key)} ELSE net
      /\ sessions' = [sessions EXCEPT ![p] =
                        IF sent THEN DelMessageKey(full, sk, TRUE, i)
                        ELSE full]
      /\ ss' = [ss EXCEPT ![p] =
                  IF sent THEN [st EXCEPT !.messageCount = @ + 1] ELSE st]

MayEncrypt(p) ==
  Cardinality({m \in net : m.from = p}) < MaxMessages[p]

(* Encrypt, no session found: start the first session from the KeyInit.     *)
EncryptFirst(p, tooLong) ==
  /\ ss[p] = Nil
  /\ MayEncrypt(p)
  /\ addSessionKey(p)
  /\ Seal(p, FirstState(p),
          rootKeyAgreementSender(sessions[p], NewKey(p), KeyInit(Peer(p)), Nil),
          tooLong)
  /\ UNCHANGED <<opened, rejected, replayed>>

(* Encrypt, session found, no new session key offered.                      *)
EncryptNext(p, tooLong) ==
  /\ ss[p] # Nil
  /\ MayEncrypt(p)
  /\ NoNewKey
  /\ Seal(p, ss[p], sessions[p], tooLong)
  /\ UNCHANGED <<opened, rejected, replayed>>

(* Encrypt, session found; the random draw offers a new session key.        *)
EncryptOffer(p, tooLong) ==
  /\ ss[p] # Nil
  /\ ss[p].next = Nil
  /\ MayEncrypt(p)
  /\ addSessionKey(p)
  /\ Seal(p, [ss[p] EXCEPT !.next = NewKey(p)], sessions[p], tooLong)
  /\ UNCHANGED <<opened, rejected, replayed>>

-----------------------------------------------------------------------------
(* Decrypt *)

SessionKey(m) == <<m.recipientTemp, m.senderSessionPub>>

(* The tail of Decrypt, from the store on that the session handling left:   *)
(* fail without a session, top up, look up the key, open the body, delete   *)
(* the key.                                                                 *)
Open(p, m, store) ==
  LET sk == SessionKey(m)
      i == m.messageCount
      known == sk \in DOMAIN store
      short == known /\ i >= store[sk].num
      refused == short /\ TopUp(i) > MaxNumOfKeys
      full == IF short /\ ~refused
              THEN generateMessageKeys(store, store[sk].chainKey, TRUE,
                     m.senderSessionPub, m.recipientTemp, TopUp(i))
              ELSE store
      ok == known /\ ~refused /\ full[sk].recv[i] = m.key
  IN  /\ sessions' = [sessions EXCEPT ![p] =
                        IF ok THEN DelMessageKey(full, sk, FALSE, i)
                        ELSE full]
      /\ opened' = IF ok THEN opened \cup {m} ELSE opened
      /\ rejected' = IF ok \/ m \in opened THEN rejected
                     ELSE rejected \cup {m}
      /\ replayed' = IF ok /\ m \in opened THEN replayed \cup {m}
                     ELSE replayed
      /\ UNCHANGED net

Arrives(p, m) == m \in net /\ m.from = Peer(p)

Unknown(p, m) == SessionKey(m) \notin DOMAIN sessions[p]

(* The session started from p's KeyInit message, if m names it.             *)
FromKeyInit(p, m) ==
  IF m.recipientTemp = KeyInit(p)
  THEN rootKeyAgreementRecipient(sessions[p], m.senderSessionPub,
                                 KeyInit(p), Nil)
  ELSE sessions[p]

(* Faulty variant of Adopts: both sides give up their own session.          *)
AdoptsWithoutTieBreak(p, m) ==
  /\ m.recipientTemp = KeyInit(p)
  /\ ss[p] # Nil => ss[p].keyInitSession

(* The 'smaller' session is the definite one: sender < recipient.           *)
Adopts(p, m) ==
  /\ m.recipientTemp = KeyInit(p)
  /\ ss[p] # Nil => ss[p].keyInitSession /\ m.from = A

(* Decrypt, session unknown, and its session becomes the current one.       *)
DecryptAdopt(p, m) ==
  LET store == FromKeyInit(p, m)
      prev  == store[SessionKey(m)].rootKeyHash
      ready == IF m.next # Nil
               THEN rootKeyAgreementSender(store, NewKey(p), m.next, prev)
               ELSE store
  IN  /\ Arrives(p, m)
      /\ Unknown(p, m)
      /\ Adopts(p, m)
      /\ addSessionKey(p)
      /\ ss' = [ss EXCEPT ![p] =
                  [sessionCount |-> 0, messageCount |-> 0,
                   recipientTemp |-> m.senderSessionPub,
                   senderSessionPub |-> KeyInit(p),
                   next |-> NewKey(p), seen |-> m.next,
                   keyInitSession |-> FALSE]]
      /\ Open(p, m, ready)

(* Decrypt, session unknown, but the current state is kept.                 *)
DecryptKeep(p, m) ==
  /\ Arrives(p, m)
  /\ Unknown(p, m)
  /\ ~Adopts(p, m)
  /\ UNCHANGED ss
  /\ NoNewKey
  /\ Open(p, m, FromKeyInit(p, m))

(* The session state reflects the session of m.                             *)
Reflects(p, m) ==
  /\ m.recipientTemp = ss[p].senderSessionPub
  /\ m.senderSessionPub = ss[p].recipientTemp

(* The session of m is the prepared next session.                           *)
MatchesNext(p, m) ==
  /\ ss[p].next # Nil
  /\ ss[p].seen # Nil
  /\ ss[p].next = m.recipientTemp
  /\ ss[p].seen = m.senderSessionPub

(* The peer has offered a key, and p has none: prepare, do not switch yet.  *)
Prepares(p, m) == m.next # Nil /\ ss[p].next = Nil

(* Faulty variant of Switches: does not wait until the peer has seen p's key. *)
SwitchesUnseen(p, m) == m.next # Nil /\ ss[p].next # Nil

(* The peer has seen p's key.                                               *)
Switches(p, m) ==
  m.next # Nil /\ ss[p].next # Nil /\ m.seen # Nil /\ m.seen = ss[p].next

NextState(p, recipientTemp, senderSessionPub) ==
  [sessionCount |-> ss[p].sessionCount + ss[p].messageCount,
   messageCount |-> 0, recipientTemp |-> recipientTemp,
   senderSessionPub |-> senderSessionPub, next |-> Nil, seen |-> Nil,
   keyInitSession |-> FALSE]

Known(p, m) == Arrives(p, m) /\ ~Unknown(p, m)

(* Faulty variant of DelPrivSessionKey: deletes no key. *)
KeepPrivSessionKey(p, k) == UNCHANGED priv

DelPrivSessionKey(p, k) == priv' = [priv EXCEPT ![p] = @ \ {k}]

DecryptPrepare(p, m) ==
  LET prev == sessions[p][SessionKey(m)].rootKeyHash
  IN  /\ Known(p, m)
      /\ Reflects(p, m)
      /\ Prepares(p, m)
      /\ created' = [created EXCEPT ![p] = @ + 1]
      /\ priv' = [priv EXCEPT ![p] = (@ \cup {NewKey(p)}) \ {m.recipientTemp}]
      /\ ss' = [ss EXCEPT ![p] =
                  [ss[p] EXCEPT !.next = NewKey(p),
                     !.seen = IF ss[p].seen = Nil THEN m.next ELSE ss[p].seen]]
      /\ Open(p, m, rootKeyAgreementSender(sessions[p], NewKey(p), m.next, prev))

DecryptSwitch(p, m) ==
  LET prev == sessions[p][SessionKey(m)].rootKeyHash
  IN  /\ Known(p, m)
      /\ Reflects(p, m)
      /\ Switches(p, m)
      /\ DelPrivSessionKey(p, m.recipientTemp)
      /\ UNCHANGED created
      /\ ss' = [ss EXCEPT ![p] = NextState(p, m.next, ss[p].next)]
      /\ Open(p, m, rootKeyAgreementRecipient(sessions[p], m.next,
                                              ss[p].next, prev))

DecryptFollow(p, m) ==
  /\ Known(p, m)
  /\ ~Reflects(p, m)
  /\ MatchesNext(p, m)
  /\ DelPrivSessionKey(p, m.recipientTemp)
  /\ UNCHANGED created
  /\ ss' = [ss EXCEPT ![p] = NextState(p, m.senderSessionPub, ss[p].next)]
  /\ Open(p, m, sessions[p])

(* Decrypt in a known session that changes nothing about the state.         *)
DecryptPlain(p, m) ==
  /\ Known(p, m)
  /\ IF Reflects(p, m) THEN ~Prepares(p, m) /\ ~Switches(p, m)
                       ELSE ~MatchesNext(p, m)
  /\ DelPrivSessionKey(p, m.recipientTemp)
  /\ UNCHANGED <<ss, created>>
  /\ Open(p, m, sessions[p])

Encrypt(p) ==
  \E tooLong \in BOOLEAN :
    \/ EncryptFirst(p, tooLong)
    \/ EncryptNext(p, tooLong)
    \/ EncryptOffer(p, tooLong)

Decrypt(p, m) ==
  \/ DecryptAdopt(p, m)
  \/ DecryptKeep(p, m)
  \/ DecryptPrepare(p, m)
  \/ DecryptSwitch(p, m)
  \/ DecryptFollow(p, m)
  \/ DecryptPlain(p, m)

Next ==
  \E p \in Parties : Encrypt(p) \/ (\E m \in net : Decrypt(p, m))

Spec == Init /\ [][Next]_vars

-----------------------------------------------------------------------------
(* Properties *)

Current(st) == <<st.senderSessionPub, st.recipientTemp>>

Mirror(sk) == <<sk[2], sk[1]>>

(* Type correctness: the session states, and stored sessions that hold one  *)
(* send and one receive key for every index below num.                      *)
TypeOK ==
  /\ ss \in [Parties -> SessionStates \cup {Nil}]
  /\ created \in [Parties -> Nat]
  /\ priv \in [Parties -> SUBSET KeyEntries]
  /\ DOMAIN sessions = Parties
  /\ \A p \in Parties : \A sk \in DOMAIN sessions[p] :
       /\ sk \in KeyEntries \X KeyEntries
       /\ sessions[p][sk].num \in Nat \ {0}
       /\ DOMAIN sessions[p][sk].send = 0 .. (sessions[p][sk].num - 1)
       /\ DOMAIN sessions[p][sk].recv = 0 .. (sessions[p][sk].num - 1)
  /\ \A m \in net : /\ m.from \in Parties
                    /\ SessionKey(m) \in KeyEntries \X KeyEntries
                    /\ {m.next, m.seen} \subseteq KeyEntries \cup {Nil}
                    /\ {m.sessionCount, m.messageCount} \subseteq Nat
  /\ opened \subseteq net
  /\ rejected \subseteq net
  /\ replayed \subseteq net

(* Every message that Encrypt produced is opened by Decrypt the first time  *)
(* it arrives, whatever was lost, reordered or repeated before it, unless   *)
(* the keys up to its index exceed the limit on a single top-up.            *)
GenuineMessagesOpen ==
  \A m \in rejected : TopUp(m.messageCount) > MaxNumOfKeys

(* Decrypt never opens the same message twice: the message key is deleted.  *)
NoReplay == replayed = {}

(* No two messages are sealed with the same message key, across sessions,   *)
(* directions, top-ups and failed calls of Encrypt.                         *)
MessageKeysUsedOnce ==
  \A m1, m2 \in net : m1.key = m2.key => m1 = m2

(* The two parties derived the same root key for every session both hold,   *)
(* whoever played the sender's role in its key agreement.                   *)
SessionsAgree ==
  \A sk \in DOMAIN sessions[A] :
    Mirror(sk) \in DOMAIN sessions[B] =>
      sessions[A][sk].rootKeyHash = sessions[B][Mirror(sk)].rootKeyHash

(* The private key of an offered session key is still there when the peer's *)
(* answer makes Decrypt need it for the key agreement.                      *)
OfferedKeysUsable ==
  \A p \in Parties :
    ss[p] # Nil => (ss[p].next # Nil => ss[p].next \in priv[p])

(* Once every message sent has been opened, both parties talk in the same   *)
(* session, or one of them has switched to the session the other prepared,  *)
(* or one of them has yet to send the first message of the session it began.*)
QuiescentAgreement ==
  (net \subseteq opened /\ ss[A] # Nil /\ ss[B] # Nil) =>
     \/ Current(ss[A]) = Mirror(Current(ss[B]))
     \/ \E p \in Parties :
          \/ Current(ss[p]) = <<ss[Peer(p)].seen, ss[Peer(p)].next>>
          \/ ss[p].keyInitSession /\ ss[p].messageCount = 0

(* A party never sends again in a session it has left: when its current     *)
(* session changes, it has sent nothing in the new one.                     *)
NothingSentInNewSession ==
  \A p \in Parties :
    (ss'[p] # Nil /\ (ss[p] # Nil => Current(ss'[p]) # Current(ss[p]))) =>
      \A m \in net : m.from = p => SessionKey(m) # Mirror(Current(ss'[p]))

NoReturnToSession == [][NothingSentInNewSession]_vars

(* A refresh forgets: when a party moves on to a refreshed session, the     *)
(* private part of its key for the session it leaves is deleted.            *)
RefreshDeletesOldKey ==
  [][\A p \in Parties :
       (/\ ss[p] # Nil
        /\ ss'[p].senderSessionPub \notin
             {ss[p].senderSessionPub, KeyInit(p)}) =>
         ss[p].senderSessionPub \notin priv'[p]
    ]_vars

-----------------------------------------------------------------------------
(* What the documentation says and the code does not do *)

(* doc/messages.md: the NextSenderSessionPub of the other party must be     *)
(* sent back in NextRecipientSessionPubSeen.  Decrypt drops it when it has  *)
(* already created a NextSenderSessionPub of its own.                       *)
NextSenderSessionPubSentBack ==
  \A p \in Parties : ss[p] # Nil =>
    \A m \in opened :
      (m.from = Peer(p) /\ Reflects(p, m) /\ m.next # Nil) =>
        ss[p].seen = m.next

(* session.State: SenderSessionCount is the total number of messages sent   *)
(* in sessions before this SenderSessionPub was used.  Decrypt restarts it  *)
(* at 0 when it gives up a session it has already sent messages in.         *)
SenderSessionCountIsTotal ==
  \A p \in Parties : ss[p] # Nil =>
    ss[p].sessionCount =
      Cardinality({m \in net : /\ m.from = p
                               /\ m.senderSessionPub # ss[p].senderSessionPub})

(* doc/messages.md: as soon as a message with a new root key is received    *)
(* without gaps, all temporary private keys are to be deleted.  The key of  *)
(* a session given up in the tie-break stays in the store.                  *)
TemporaryKeysDeleted ==
  \A p \in Parties :
    (/\ net \subseteq opened
     /\ \E m \in opened :
          /\ m.from = Peer(p)
          /\ Reflects(p, m)
          /\ sessions[p][SessionKey(m)].rootKeyHash.root.prev # Nil) =>
      priv[p] \subseteq {ss[p].senderSessionPub, ss[p].next}
====

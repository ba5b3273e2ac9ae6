--------------------------- MODULE SessionProofs ----------------------------
(***************************************************************************)
(* Proofs about Session, for any two identities, any batch size, any limit *)
(* on a top-up and any number of messages: each action of Encrypt and of   *)
(* Decrypt establishes Mid of SessionLemmas, so that SessionInv of         *)
(* SessionInvariant is inductive, and the theorems follow.                 *)
(***************************************************************************)
EXTENDS SessionLemmas

(* The provers get more time than by default. *)
USE SMTT(30), ZenonT(30)

(* The actions of Encrypt, and those of Decrypt that leave the session *)

(* The part of Mid that is about the store.                                 *)
StoreOK(p, store, made) ==
  /\ GoodStore(p, store)
  /\ Extended(sessions[p], store)
  /\ SameUsed(sessions[p], store)
  /\ KeysIssued(p, store, made)
  /\ Agree(store, sessions[Peer(p)])

Counters(made) ==
  /\ made \in [Parties -> Nat]
  /\ \A q \in Parties : created[q] <= made[q]

(* The store an action starts from satisfies StoreOK.                       *)
LEMMA StartStore ==
  ASSUME SessionInv, NEW p \in Parties, NEW made, Counters(made)
  PROVE  StoreOK(p, sessions[p], made)
<1>1. GoodStore(p, sessions[p]) /\ Peer(p) \in Parties /\ GoodStore(Peer(p), sessions[Peer(p)])
  BY Peers DEF SessionInv, StoresGood
<1>2. Extended(sessions[p], sessions[p]) /\ SameUsed(sessions[p], sessions[p])
  <2>1. \A sk \in DOMAIN sessions[p] : sessions[p][sk].num \in Nat
    BY <1>1, Zenon DEF GoodStore, GoodSession
  <2> QED BY <2>1 DEF Extended, SameUsed
<1>3. KeysIssued(p, sessions[p], made)
  <2>1. KeysIssued(p, sessions[p], created)
    BY DEF SessionInv, StoredKeysIssued
  <2>2. /\ Issued(p, created[p]) \subseteq Issued(p, made[p])
        /\ Issued(Peer(p), created[Peer(p)]) \subseteq Issued(Peer(p), made[Peer(p)])
    BY <1>1, IssuedGrow DEF Counters, SessionInv, TypeOK
  <2> QED BY <2>1, <2>2 DEF KeysIssued
<1>4. Agree(sessions[p], sessions[Peer(p)])
  <2>1. Agree(sessions[A], sessions[B])
    BY DEF SessionInv, SessionsAgree, Agree
  <2>2. CASE p = A
    BY <2>1, <2>2 DEF Peer
  <2>3. CASE p = B
    <3>1. Peer(p) = A
      BY <2>3, TwoIdentities DEF Peer
    <3> QED BY <1>1, <2>1, <2>3, <3>1, AgreeSymmetric
  <2> QED BY <2>2, <2>3 DEF Parties
<1> QED BY <1>1, <1>2, <1>3, <1>4 DEF StoreOK

(* A key agreement between issued keys, whose root key is the peer's if the *)
(* peer has the session.                                                    *)
Agreed(p, store, made, own, peer, prev, rk, store2) ==
  /\ StoreOK(p, store, made)
  /\ SessionAdded(p, store, own, peer, prev, rk, store2)
  /\ own \in Issued(p, made[p])
  /\ peer \in Issued(Peer(p), made[Peer(p)])
  /\ <<peer, own>> \in DOMAIN sessions[Peer(p)] =>
       rk = sessions[Peer(p)][<<peer, own>>].rootKeyHash

AddedTo(store, sk, rk, store2) ==
  /\ DOMAIN store2 = DOMAIN store \cup {sk}
  /\ \A s \in DOMAIN store : store2[s] = store[s]
  /\ store2[sk].rootKeyHash = rk

(* Such an agreement keeps StoreOK.                                         *)
LEMMA AddSession ==
  ASSUME NEW p \in Parties, NEW store, NEW made,
         NEW own, NEW peer, NEW prev, NEW rk, NEW store2,
         Agreed(p, store, made, own, peer, prev, rk, store2)
  PROVE  StoreOK(p, store2, made) /\ AddedTo(store, <<own, peer>>, rk, store2)
<1>1. /\ DOMAIN store2 = DOMAIN store \cup {<<own, peer>>}
      /\ \A sk \in DOMAIN store : store2[sk] = store[sk]
      /\ store2[<<own, peer>>].rootKeyHash = rk
      /\ GoodStore(p, store2)
      /\ SameUsed(store, store2)
  BY NewSession, Zenon DEF Agreed
<1>2. Extended(sessions[p], store2)
  BY <1>1 DEF Agreed, StoreOK, Extended
<1>3. SameUsed(sessions[p], store2)
  BY <1>1 DEF Agreed, StoreOK, SameUsed
<1>4. KeysIssued(p, store2, made)
  BY <1>1 DEF Agreed, StoreOK, KeysIssued
<1>5. Agree(store2, sessions[Peer(p)])
  <2>1. Mirror(<<own, peer>>) = <<peer, own>>
    BY DEF Mirror
  <2> QED BY <1>1, <2>1 DEF Agreed, StoreOK, Agree
<1> QED BY <1>1, <1>2, <1>3, <1>4, <1>5 DEF StoreOK, AddedTo

(* A new session key is in no stored session and in no message.             *)
LEMMA Fresh ==
  ASSUME SessionInv, NEW p \in Parties
  PROVE  /\ created[p] \in Nat
         /\ NewKey(p) \in {p} \X Nat
         /\ NewKey(p) \in SessionKeysOf(p, created[p] + 1)
         /\ NewKey(p) \in Issued(p, created[p] + 1)
         /\ NewKey(p) # KeyInit(p) /\ NewKey(p) # Nil
         /\ \A sk \in DOMAIN sessions[p] : sk[1] # NewKey(p)
         /\ \A sk \in DOMAIN sessions[Peer(p)] : sk[2] # NewKey(p)
         /\ \A m \in net : m.from = p => m.senderSessionPub # NewKey(p)
<1>1. created[p] \in Nat
  BY DEF SessionInv, TypeOK
<1>2. /\ NewKey(p) \in {p} \X Nat
      /\ NewKey(p) \in SessionKeysOf(p, created[p] + 1)
      /\ NewKey(p) \in Issued(p, created[p] + 1)
      /\ NewKey(p) # KeyInit(p)
      /\ NewKey(p) \notin Issued(p, created[p])
  BY <1>1 DEF NewKey, SessionKeysOf, Issued, KeyInit
<1>3. NewKey(p) # Nil
  BY <1>2, NilIsNil DEF KeyEntries
<1>4. \A sk \in DOMAIN sessions[p] : sk[1] # NewKey(p)
  BY <1>2 DEF SessionInv, StoredKeysIssued, KeysIssued
<1>5. \A sk \in DOMAIN sessions[Peer(p)] : sk[2] # NewKey(p)
  BY <1>2, Peers DEF SessionInv, StoredKeysIssued, KeysIssued
<1>6. ASSUME NEW m \in net, m.from = p
      PROVE  m.senderSessionPub # NewKey(p)
  <2>1. Mirror(SessionKey(m)) \in DOMAIN sessions[p]
    BY <1>6, Zenon DEF SessionInv, MessagesGood, GoodMessage
  <2>2. Mirror(SessionKey(m))[1] = m.senderSessionPub
    BY DEF Mirror, SessionKey
  <2> QED BY <1>4, <2>1, <2>2
<1> QED BY <1>1, <1>2, <1>3, <1>4, <1>5, <1>6

(* What addSessionKey leaves: one more key, and its private part.           *)
LEMMA OneMoreKey ==
  ASSUME SessionInv, NEW p \in Parties, addSessionKey(p)
  PROVE  /\ Counters(created')
         /\ created'[p] = created[p] + 1
         /\ priv' \in [Parties -> SUBSET KeyEntries]
         /\ priv'[Peer(p)] = priv[Peer(p)]
         /\ NewKey(p) \in priv'[p]
<1>1. created \in [Parties -> Nat] /\ priv \in [Parties -> SUBSET KeyEntries]
  BY DEF SessionInv, TypeOK
<1>2. NewKey(p) \in KeyEntries
  BY Fresh DEF KeyEntries
<1>3. Peer(p) \in Parties /\ Peer(p) # p
  BY Peers
<1> QED BY <1>1, <1>2, <1>3 DEF addSessionKey, Counters

(* Without a new key the counters stay.                                     *)
LEMMA CountersStay ==
  ASSUME SessionInv, created' = created
  PROVE  Counters(created')
  BY DEF SessionInv, TypeOK, Counters

(* Encrypt in a found session, without offering a key.                      *)
LEMMA EncryptNextKeeps ==
  ASSUME SessionInv, NEW p \in Parties, NEW tooLong \in BOOLEAN,
         EncryptNext(p, tooLong)
  PROVE  SessionInv'
<1>1. created' = created /\ priv' = priv /\ ss[p] # Nil /\ Peer(p) \in Parties
  BY Peers DEF EncryptNext, NoNewKey
<1>2. Counters(created') /\ StoreOK(p, sessions[p], created')
  BY <1>1, CountersStay, StartStore
<1>3. GoodState(p, sessions[p], sessions[Peer(p)], created', ss[p])
  BY <1>1 DEF SessionInv, StatesGood
<1>4. Mid(p, sessions[p], created', priv', ss[p])
  BY <1>1, <1>2, <1>3
     DEF Mid, StoreOK, Counters, SessionInv, MessagesGood, TypeOK, OfferedKeysUsable
<1> QED BY <1>4, EncryptTail DEF EncryptNext

(* Encrypt in a found session, offering a new session key.                  *)
LEMMA EncryptOfferKeeps ==
  ASSUME SessionInv, NEW p \in Parties, NEW tooLong \in BOOLEAN,
         EncryptOffer(p, tooLong)
  PROVE  SessionInv'
<1> DEFINE st == [ss[p] EXCEPT !.next = NewKey(p)]
           sk == Current(ss[p])
<1>1. addSessionKey(p) /\ ss[p] # Nil /\ ss[p].next = Nil /\ Peer(p) \in Parties
  BY Peers DEF EncryptOffer
<1>2. /\ Counters(created') /\ created'[p] = created[p] + 1
      /\ priv' \in [Parties -> SUBSET KeyEntries]
      /\ priv'[Peer(p)] = priv[Peer(p)]
      /\ NewKey(p) \in priv'[p]
  BY <1>1, OneMoreKey
<1>3. StoreOK(p, sessions[p], created')
  BY <1>2, StartStore
<1>4. GoodState(p, sessions[p], sessions[Peer(p)], created, ss[p])
  BY <1>1 DEF SessionInv, StatesGood
<1>5. ss[p] \in SessionStates /\ ss[p].seen = Nil
  BY <1>1, <1>4 DEF GoodState
<1>6. /\ st \in SessionStates /\ st # Nil
      /\ st.next = NewKey(p) /\ st.seen = Nil
      /\ st.messageCount = ss[p].messageCount
      /\ st.senderSessionPub = ss[p].senderSessionPub
      /\ Current(st) = sk
  <2>1. NewKey(p) \in KeyEntries
    BY Fresh DEF KeyEntries
  <2>2. st \in SessionStates
    BY <1>5, <2>1 DEF SessionStates
  <2> QED BY <1>5, <2>2, NilIsNil DEF SessionStates, Current
<1> HIDE DEF st
<1>7. st.next # st.senderSessionPub
  <2>1. sk \in DOMAIN sessions[p] /\ sk[1] = ss[p].senderSessionPub
    BY <1>4 DEF GoodState, Current
  <2> QED BY <1>6, <2>1, Fresh
<1>8. GoodState(p, sessions[p], sessions[Peer(p)], created', st)
  BY <1>2, <1>4, <1>6, <1>7, Fresh DEF GoodState
<1>9. \A m \in net : m.from = p => Older(m, st)
  BY <1>6, Fresh DEF SessionInv, MessagesGood, Older
<1>10. Mid(p, sessions[p], created', priv', st)
  BY <1>2, <1>3, <1>6, <1>8, <1>9 DEF Mid, StoreOK, Counters
<1> QED BY <1>10, EncryptTail DEF EncryptOffer, st

(* Encrypt without a session: the first session, from the peer's KeyInit.   *)
LEMMA EncryptFirstKeeps ==
  ASSUME SessionInv, NEW p \in Parties, NEW tooLong \in BOOLEAN,
         EncryptFirst(p, tooLong)
  PROVE  SessionInv'
<1> DEFINE st == FirstState(p)
           own == NewKey(p)
           peer == KeyInit(Peer(p))
           rk == deriveRootKey(own, peer, Nil)
           store == rootKeyAgreementSender(sessions[p], own, peer, Nil)
<1>1. addSessionKey(p) /\ ss[p] = Nil /\ Peer(p) \in Parties /\ Peer(p) # p
  BY Peers DEF EncryptFirst
<1>2. /\ Counters(created') /\ created'[p] = created[p] + 1
      /\ priv' \in [Parties -> SUBSET KeyEntries]
      /\ priv'[Peer(p)] = priv[Peer(p)]
  BY <1>1, OneMoreKey
<1>3. StoreOK(p, sessions[p], created')
  BY <1>2, StartStore
<1>4. /\ own \in {p} \X Nat /\ peer \in {Peer(p)} \X Nat
      /\ own \in Issued(p, created'[p])
      /\ peer \in Issued(Peer(p), created'[Peer(p)])
      /\ own # KeyInit(p) /\ own # Nil
      /\ <<own, peer>> \notin DOMAIN sessions[p]
      /\ <<peer, own>> \notin DOMAIN sessions[Peer(p)]
  BY <1>1, <1>2, Fresh DEF KeyInit, Issued, Counters
<1>5. SessionAdded(p, sessions[p], own, peer, Nil, rk, store)
  BY <1>3, <1>4 DEF SessionAdded, StoreOK
<1>6. st \in SessionStates /\ st # Nil
  <2>1. st \in SessionStates
    BY <1>1, <1>4 DEF FirstState, SessionStates, KeyEntries
  <2> QED BY <2>1, NilIsNil
<1>7. /\ st.next = Nil /\ st.seen = Nil /\ st.messageCount = 0
      /\ st.senderSessionPub = own
      /\ Current(st) = <<own, peer>>
  BY DEF FirstState, Current
<1> HIDE DEF st, own, peer, rk, store
<1>8. /\ StoreOK(p, store, created')
      /\ DOMAIN store = DOMAIN sessions[p] \cup {<<own, peer>>}
  <2>1. Agreed(p, sessions[p], created', own, peer, Nil, rk, store)
    BY <1>3, <1>4, <1>5 DEF Agreed
  <2>2. StoreOK(p, store, created') /\ AddedTo(sessions[p], <<own, peer>>, rk, store)
    BY <2>1, AddSession
  <2> QED BY <2>2 DEF AddedTo
<1>9. GoodState(p, store, sessions[Peer(p)], created', st)
  <2>1. \A sk \in DOMAIN store : sk[1] # Nil
    <3>1. \A sk \in DOMAIN store : sk[1] \in {p} \X Nat
      BY <1>8, MirrorMirror DEF StoreOK
    <3> QED BY <3>1, NilIsNil DEF KeyEntries
  <2>2. store[<<own, peer>>].num \in Nat
    BY <1>8, Zenon DEF StoreOK, GoodStore, GoodSession
  <2>3. Recognised(p, <<own, peer>>, sessions[Peer(p)])
    BY DEF Recognised, peer
  <2> QED BY <1>4, <1>6, <1>7, <1>8, <2>1, <2>2, <2>3 DEF GoodState
<1>10. \A m \in net : m.from # p
  BY <1>1 DEF SessionInv, MessagesGood, Older
<1>11. Mid(p, store, created', priv', st)
  BY <1>2, <1>6, <1>7, <1>8, <1>9, <1>10 DEF Mid, StoreOK, Counters
<1> QED BY <1>11, EncryptTail DEF EncryptFirst, st, store, own, peer

(* What a message that arrives at p says about the stores.                  *)
LEMMA Incoming ==
  ASSUME SessionInv, NEW p \in Parties, NEW m \in net, m.from = Peer(p)
  PROVE  /\ GoodMessage(Peer(p), sessions[Peer(p)], sessions[p], created, m)
         /\ <<m.senderSessionPub, m.recipientTemp>> \in DOMAIN sessions[Peer(p)]
         /\ m.recipientTemp \in {p} \X Nat
         /\ m.senderSessionPub \in {Peer(p)} \X Nat
         /\ m.recipientTemp \in Issued(p, created[p])
         /\ m.senderSessionPub \in Issued(Peer(p), created[Peer(p)])
         /\ m.recipientTemp = KeyInit(p) \/ SessionKey(m) \in DOMAIN sessions[p]
<1> DEFINE q == Peer(p)
           own == m.senderSessionPub
           peer == m.recipientTemp
<1>1. q \in Parties /\ Peer(q) = p
  BY Peers
<1>2. GoodMessage(q, sessions[q], sessions[p], created, m)
  BY <1>1 DEF SessionInv, MessagesGood
<1>3. Mirror(SessionKey(m)) = <<own, peer>> /\ Mirror(<<own, peer>>) = SessionKey(m)
  BY DEF Mirror, SessionKey
<1>4. <<own, peer>> \in DOMAIN sessions[q]
  BY <1>2, <1>3 DEF GoodMessage
<1>5. own \in {q} \X Nat /\ peer \in {p} \X Nat
  <2>1. GoodStore(q, sessions[q])
    BY <1>1 DEF SessionInv, StoresGood
  <2>2. <<own, peer>>[1] = own /\ <<own, peer>>[2] = peer
    OBVIOUS
  <2> QED BY <1>1, <1>4, <2>1, <2>2, MirrorMirror
<1>6. own \in Issued(q, created[q]) /\ peer \in Issued(p, created[p])
  BY <1>1, <1>4 DEF SessionInv, StoredKeysIssued, KeysIssued
<1>7. peer = KeyInit(p) \/ SessionKey(m) \in DOMAIN sessions[p]
  <2>1. Recognised(q, <<own, peer>>, sessions[p])
    BY <1>2, <1>3 DEF GoodMessage
  <2> QED BY <1>1, <1>3, <2>1 DEF Recognised
<1> QED BY <1>2, <1>4, <1>5, <1>6, <1>7

(* The session key a message offers, if any.                                *)
LEMMA IncomingNext ==
  ASSUME SessionInv, NEW p \in Parties, NEW m \in net, m.from = Peer(p),
         m.next # Nil
  PROVE  /\ m.next \in SessionKeysOf(Peer(p), created[Peer(p)])
         /\ m.next \in Issued(Peer(p), created[Peer(p)])
         /\ m.next \in {Peer(p)} \X Nat
         /\ m.next # KeyInit(Peer(p))
<1>1. m.next \in SessionKeysOf(Peer(p), created[Peer(p)])
  BY Incoming, Zenon DEF GoodMessage
<1>2. created[Peer(p)] \in Nat
  BY Peers DEF SessionInv, TypeOK
<1> QED BY <1>1, <1>2 DEF SessionKeysOf, Issued, KeyInit

(* A session started from p's KeyInit is one its sender started so.         *)
LEMMA IncomingKeyInit ==
  ASSUME SessionInv, NEW p \in Parties, NEW m \in net, m.from = Peer(p),
         m.recipientTemp = KeyInit(p)
  PROVE  /\ m.senderSessionPub # KeyInit(Peer(p))
         /\ sessions[Peer(p)][<<m.senderSessionPub, m.recipientTemp>>].rootKeyHash
              = deriveRootKey(m.senderSessionPub, KeyInit(p), Nil)
<1> DEFINE q == Peer(p)
           sk == <<m.senderSessionPub, m.recipientTemp>>
           x == sessions[q][sk]
<1>1. q \in Parties /\ Peer(q) = p /\ q # p
  BY Peers
<1>2. GoodSession(q, sk, x)
  BY <1>1, Incoming DEF SessionInv, StoresGood, GoodStore
<1>3. sk[1] = m.senderSessionPub /\ sk[2] = KeyInit(p)
  OBVIOUS
<1> HIDE DEF x, sk
<1>4. x.rootKeyHash = deriveRootKey(m.senderSessionPub, KeyInit(p), Nil)
  BY <1>1, <1>2, <1>3 DEF GoodSession
<1>5. m.senderSessionPub = KeyInit(q) =>
        x.rootKeyHash = deriveRootKey(KeyInit(p), KeyInit(q), Nil)
  BY <1>2, <1>3 DEF GoodSession
<1>6. KeyInit(p) # KeyInit(q)
  BY <1>1 DEF KeyInit
<1>7. ASSUME NEW u, NEW v, NEW w, NEW z, deriveRootKey(u, v, Nil) = deriveRootKey(w, z, Nil)
      PROVE  u = w
  BY <1>7 DEF deriveRootKey
<1>8. m.senderSessionPub # KeyInit(q)
  BY <1>4, <1>5, <1>6, <1>7
<1> QED BY <1>4, <1>8 DEF x, sk

(* The store after a session was started from p's KeyInit.                  *)
LEMMA KeyInitStore ==
  ASSUME SessionInv, NEW p \in Parties, NEW m \in net, m.from = Peer(p),
         m.recipientTemp = KeyInit(p), Unknown(p, m),
         NEW made, Counters(made)
  PROVE  /\ StoreOK(p, FromKeyInit(p, m), made)
         /\ AddedTo(sessions[p], SessionKey(m),
                    deriveRootKey(m.senderSessionPub, KeyInit(p), Nil),
                    FromKeyInit(p, m))
<1> DEFINE own == KeyInit(p)
           peer == m.senderSessionPub
           rk == deriveRootKey(peer, own, Nil)
           store == rootKeyAgreementRecipient(sessions[p], peer, own, Nil)
<1>1. FromKeyInit(p, m) = store /\ SessionKey(m) = <<own, peer>>
  BY DEF FromKeyInit, SessionKey
<1>2. StoreOK(p, sessions[p], made)
  BY StartStore
<1>3. /\ own \in {p} \X Nat /\ peer \in {Peer(p)} \X Nat
      /\ <<own, peer>> \notin DOMAIN sessions[p]
      /\ peer # KeyInit(Peer(p))
  BY <1>1, Incoming, IncomingKeyInit, Zenon DEF Unknown, KeyInit
<1>4. own \in Issued(p, made[p]) /\ peer \in Issued(Peer(p), made[Peer(p)])
  <2>1. peer \in Issued(Peer(p), created[Peer(p)]) /\ Peer(p) \in Parties
    BY Incoming, Peers, Zenon
  <2>2. Issued(Peer(p), created[Peer(p)]) \subseteq Issued(Peer(p), made[Peer(p)])
    BY <2>1, IssuedGrow DEF Counters, SessionInv, TypeOK
  <2>3. own \in Issued(p, made[p])
    BY DEF KeyInit, Issued, Counters
  <2> QED BY <2>1, <2>2, <2>3
<1>5. SessionAdded(p, sessions[p], own, peer, Nil, rk, store)
  BY <1>2, <1>3 DEF SessionAdded, StoreOK
<1>6. rk = sessions[Peer(p)][<<peer, own>>].rootKeyHash
  BY IncomingKeyInit
<1> HIDE DEF own, peer, rk, store
<1>7. Agreed(p, sessions[p], made, own, peer, Nil, rk, store)
  BY <1>2, <1>4, <1>5, <1>6 DEF Agreed
<1>8. StoreOK(p, store, made) /\ AddedTo(sessions[p], <<own, peer>>, rk, store)
  BY <1>7, AddSession
<1> QED BY <1>1, <1>8 DEF own, peer, rk

(* The store after p prepared a session with the key the peer offers.       *)
LEMMA NextStore ==
  ASSUME SessionInv, NEW p \in Parties, NEW m \in net, m.from = Peer(p),
         m.next # Nil, NEW store, NEW made, NEW prev, Counters(made),
         made[p] = created[p] + 1, StoreOK(p, store, made),
         \A sk \in DOMAIN store : sk[1] # NewKey(p)
  PROVE  /\ StoreOK(p, rootKeyAgreementSender(store, NewKey(p), m.next, prev), made)
         /\ AddedTo(store, <<NewKey(p), m.next>>,
                    deriveRootKey(NewKey(p), m.next, prev),
                    rootKeyAgreementSender(store, NewKey(p), m.next, prev))
<1> DEFINE own == NewKey(p)
           peer == m.next
           rk == deriveRootKey(own, peer, prev)
           store2 == rootKeyAgreementSender(store, own, peer, prev)
<1>1. /\ own \in {p} \X Nat /\ peer \in {Peer(p)} \X Nat
      /\ own # KeyInit(p) /\ peer # KeyInit(Peer(p))
      /\ <<own, peer>> \notin DOMAIN store
      /\ <<peer, own>> \notin DOMAIN sessions[Peer(p)]
  BY Fresh, IncomingNext
<1>2. own \in Issued(p, made[p]) /\ peer \in Issued(Peer(p), made[Peer(p)])
  <2>1. peer \in Issued(Peer(p), created[Peer(p)]) /\ Peer(p) \in Parties
    BY IncomingNext, Peers
  <2>2. Issued(Peer(p), created[Peer(p)]) \subseteq Issued(Peer(p), made[Peer(p)])
    BY <2>1, IssuedGrow DEF Counters, SessionInv, TypeOK
  <2> QED BY <2>1, <2>2, Fresh
<1>3. SessionAdded(p, store, own, peer, prev, rk, store2)
  BY <1>1 DEF SessionAdded, StoreOK
<1> HIDE DEF own, peer, rk, store2
<1>4. Agreed(p, store, made, own, peer, prev, rk, store2)
  BY <1>1, <1>2, <1>3 DEF Agreed
<1>5. StoreOK(p, store2, made) /\ AddedTo(store, <<own, peer>>, rk, store2)
  BY <1>4, AddSession
<1> QED BY <1>5 DEF own, peer, rk, store2

(* Whoever stores a session has a session state.                            *)
LEMMA HasState ==
  ASSUME SessionInv, NEW p \in Parties, DOMAIN sessions[p] # {}
  PROVE  ss[p] # Nil /\ GoodState(p, sessions[p], sessions[Peer(p)], created, ss[p])
  BY DEF SessionInv, StatesGood

(* Decrypt, KeyInit session, the current state is kept.                     *)
LEMMA DecryptKeepKeeps ==
  ASSUME SessionInv, NEW p \in Parties, NEW m \in net, DecryptKeep(p, m)
  PROVE  SessionInv'
<1> DEFINE store == FromKeyInit(p, m)
           st == ss[p]
<1>1. /\ m.from = Peer(p) /\ Unknown(p, m) /\ ~Adopts(p, m)
      /\ ss' = ss /\ created' = created /\ priv' = priv
      /\ Open(p, m, store) /\ Peer(p) \in Parties
  BY Peers DEF DecryptKeep, Arrives, NoNewKey
<1>2. m.recipientTemp = KeyInit(p) /\ st # Nil
  <2>1. m.recipientTemp = KeyInit(p)
    BY <1>1, Incoming, Zenon DEF Unknown
  <2> QED BY <1>1, <2>1 DEF Adopts
<1>3. Counters(created')
  BY <1>1, CountersStay
<1>4. /\ StoreOK(p, store, created')
      /\ AddedTo(sessions[p], SessionKey(m),
                 deriveRootKey(m.senderSessionPub, KeyInit(p), Nil), store)
  BY <1>1, <1>2, <1>3, KeyInitStore
<1> HIDE DEF store
<1>5. GoodState(p, sessions[p], sessions[Peer(p)], created', st)
  BY <1>1, <1>2 DEF SessionInv, StatesGood
<1>6. st.next # KeyInit(p)
  <2>1. st.next \in SessionKeysOf(p, created[p]) \cup {Nil} /\ created[p] \in Nat
    BY <1>1, <1>5, Zenon DEF GoodState, SessionInv, TypeOK
  <2>2. KeyInit(p) # Nil
    BY NilIsNil DEF KeyInit, KeyEntries
  <2> QED BY <2>1, <2>2 DEF SessionKeysOf, KeyInit
<1>7. GoodState(p, store, sessions[Peer(p)], created', st)
  <2>1. SessionKey(m)[1] = KeyInit(p)
    BY <1>2 DEF SessionKey
  <2>2. st.seen # Nil =>
          st.next # Nil /\ Prepared(store, st.next, st.seen, Current(st))
    BY <1>4, <1>5, Zenon DEF GoodState, AddedTo, Prepared
  <2>3. \A sk \in DOMAIN store :
          sk[1] = st.next =>
            sk[2] = st.seen /\ store[sk].rootKeyHash.root.session = sk[1]
    BY <1>4, <1>5, <1>6, <2>1 DEF GoodState, AddedTo
  <2> QED BY <1>4, <1>5, <2>2, <2>3, Zenon DEF GoodState, AddedTo
<1>8. Mid(p, store, created', priv', st)
  BY <1>1, <1>2, <1>3, <1>4, <1>7, Zenon
     DEF Mid, StoreOK, Counters, SessionInv, MessagesGood, TypeOK, OfferedKeysUsable
<1>9. SessionKey(m) \in DOMAIN store
  BY <1>4 DEF AddedTo
<1>10. ss' = [ss EXCEPT ![p] = st]
  BY <1>1 DEF SessionInv, TypeOK
<1> HIDE DEF st
<1> QED BY <1>1, <1>8, <1>9, <1>10, DecryptTail, Zenon

(* Decrypt in a known session that leaves the state alone.                  *)
LEMMA DecryptPlainKeeps ==
  ASSUME SessionInv, NEW p \in Parties, NEW m \in net, DecryptPlain(p, m)
  PROVE  SessionInv'
<1> DEFINE st == ss[p]
<1>1. /\ m.from = Peer(p) /\ SessionKey(m) \in DOMAIN sessions[p]
      /\ ss' = ss /\ created' = created
      /\ priv' = [priv EXCEPT ![p] = @ \ {m.recipientTemp}]
      /\ IF Reflects(p, m) THEN ~Prepares(p, m) /\ ~Switches(p, m)
                           ELSE ~MatchesNext(p, m)
      /\ Open(p, m, sessions[p]) /\ Peer(p) \in Parties /\ Peer(p) # p
  BY Peers DEF DecryptPlain, Known, Unknown, Arrives, DelPrivSessionKey
<1>2. st # Nil /\ GoodState(p, sessions[p], sessions[Peer(p)], created', st)
  BY <1>1, HasState
<1>3. Counters(created') /\ StoreOK(p, sessions[p], created')
  BY <1>1, CountersStay, StartStore
<1>4. m.recipientTemp # st.next
  <2>1. CASE Reflects(p, m)
    BY <1>2, <2>1 DEF Reflects, GoodState
  <2>2. CASE ~Reflects(p, m) /\ m.recipientTemp = st.next
    <3>1. SessionKey(m)[1] = m.recipientTemp /\ SessionKey(m)[2] = m.senderSessionPub
      BY DEF SessionKey
    <3>2. m.senderSessionPub = st.seen
      BY <1>1, <1>2, <2>2, <3>1, Zenon DEF GoodState
    <3>3. m.senderSessionPub # Nil /\ m.recipientTemp # Nil
      <4>1. m.senderSessionPub \in KeyEntries /\ m.recipientTemp \in KeyEntries
        BY <1>1, Incoming, Zenon DEF KeyEntries
      <4> QED BY <4>1, NilIsNil
    <3> QED BY <1>1, <2>2, <3>2, <3>3 DEF MatchesNext
  <2> QED BY <2>1, <2>2
<1>5. /\ priv' \in [Parties -> SUBSET KeyEntries]
      /\ priv'[Peer(p)] = priv[Peer(p)]
      /\ st.next # Nil => st.next \in priv'[p]
  BY <1>1, <1>2, <1>4, Zenon DEF SessionInv, TypeOK, OfferedKeysUsable
<1>6. Mid(p, sessions[p], created', priv', st)
  BY <1>1, <1>2, <1>3, <1>5, Zenon
     DEF Mid, StoreOK, Counters, SessionInv, MessagesGood
<1>7. ss' = [ss EXCEPT ![p] = st]
  BY <1>1 DEF SessionInv, TypeOK
<1> HIDE DEF st
<1> QED BY <1>1, <1>6, <1>7, DecryptTail, Zenon

-----------------------------------------------------------------------------
(* The actions of Decrypt that prepare or change the session *)

(* The state after a switch to a session both stores hold, with p's old     *)
(* offer as its key, is good.                                               *)
LEMMA SwitchedState ==
  ASSUME SessionInv, NEW p \in Parties, NEW store, NEW own, NEW peer,
         GoodState(p, sessions[p], sessions[Peer(p)], created, ss[p]),
         GoodStore(p, store), own = ss[p].next,
         <<own, peer>> \in DOMAIN store, <<peer, own>> \in DOMAIN sessions[Peer(p)]
  PROVE  /\ NextState(p, peer, own) # Nil
         /\ NextState(p, peer, own).next = Nil
         /\ GoodState(p, store, sessions[Peer(p)], created, NextState(p, peer, own))
         /\ \A m \in net : m.from = p => Older(m, NextState(p, peer, own))
<1> DEFINE st == NextState(p, peer, own)
<1>1. own \in {p} \X Nat /\ peer \in {Peer(p)} \X Nat /\ Peer(p) \in Parties
  <2>1. <<own, peer>>[1] = own /\ <<own, peer>>[2] = peer
    OBVIOUS
  <2> QED BY <2>1, MirrorMirror, Peers
<1>2. ss[p] \in SessionStates
  BY DEF GoodState
<1>3. st \in SessionStates /\ st # Nil
  <2>1. own \in KeyEntries /\ peer \in KeyEntries
    BY <1>1 DEF KeyEntries
  <2>2. ss[p].sessionCount + ss[p].messageCount \in Nat
    BY <1>2 DEF SessionStates
  <2>3. st \in SessionStates
    BY <2>1, <2>2 DEF NextState, SessionStates
  <2> QED BY <2>3, NilIsNil
<1>4. /\ st.next = Nil /\ st.seen = Nil /\ st.messageCount = 0
      /\ st.senderSessionPub = own
      /\ Current(st) = <<own, peer>>
  BY DEF NextState, Current
<1> HIDE DEF st
<1>5. \A sk \in DOMAIN store : sk[1] # Nil
  <2>1. \A sk \in DOMAIN store : sk[1] \in {p} \X Nat
    BY MirrorMirror
  <2> QED BY <2>1, NilIsNil DEF KeyEntries
<1>6. store[<<own, peer>>].num \in Nat
  BY Zenon DEF GoodStore, GoodSession
<1>7. Recognised(p, <<own, peer>>, sessions[Peer(p)])
  BY DEF Recognised, Mirror
<1>8. own # Nil
  BY <1>1, NilIsNil DEF KeyEntries
<1>9. GoodState(p, store, sessions[Peer(p)], created, st)
  <2>1. Current(st) \in DOMAIN store /\ Recognised(p, Current(st), sessions[Peer(p)])
    BY <1>4, <1>7
  <2>2. st.messageCount <= store[Current(st)].num
    BY <1>4, <1>6
  <2>3. st.next # st.senderSessionPub
    BY <1>4, <1>8
  <2>4. \A sk \in DOMAIN store : sk[1] # st.next
    BY <1>4, <1>5
  <2> QED BY <1>3, <1>4, <2>1, <2>2, <2>3, <2>4 DEF GoodState
<1>10. ASSUME NEW m \in net, m.from = p PROVE Older(m, st)
  <2>1. m.senderSessionPub # own /\ Mirror(SessionKey(m)) \in DOMAIN sessions[p]
    BY <1>10, Zenon DEF SessionInv, MessagesGood, Older, GoodMessage
  <2>2. Mirror(SessionKey(m)) = <<m.senderSessionPub, m.recipientTemp>>
    BY DEF Mirror, SessionKey
  <2>3. m.senderSessionPub # Nil
    <3>1. GoodStore(p, sessions[p])
      BY DEF SessionInv, StoresGood
    <3>2. Mirror(SessionKey(m))[1] \in {p} \X Nat
      BY <2>1, <3>1, MirrorMirror
    <3> QED BY <2>2, <3>2, NilIsNil DEF KeyEntries
  <2> QED BY <1>3, <1>4, <2>1, <2>2, <2>3 DEF Older
<1> QED BY <1>3, <1>4, <1>9, <1>10 DEF st

(* Decrypt, first message in the session that p prepared: switch to it.     *)
LEMMA DecryptFollowKeeps ==
  ASSUME SessionInv, NEW p \in Parties, NEW m \in net, DecryptFollow(p, m)
  PROVE  SessionInv'
<1> DEFINE own == m.recipientTemp
           peer == m.senderSessionPub
           st == NextState(p, peer, own)
<1>1. /\ m.from = Peer(p) /\ SessionKey(m) \in DOMAIN sessions[p]
      /\ own = ss[p].next
      /\ created' = created
      /\ priv' = [priv EXCEPT ![p] = @ \ {m.recipientTemp}]
      /\ ss' = [ss EXCEPT ![p] = st]
      /\ Open(p, m, sessions[p]) /\ Peer(p) \in Parties /\ Peer(p) # p
  BY Peers DEF DecryptFollow, Known, Unknown, Arrives, DelPrivSessionKey, MatchesNext
<1>2. GoodState(p, sessions[p], sessions[Peer(p)], created, ss[p])
  BY <1>1, HasState
<1>3. Counters(created') /\ StoreOK(p, sessions[p], created')
  BY <1>1, CountersStay, StartStore
<1>4. <<own, peer>> \in DOMAIN sessions[p] /\ <<peer, own>> \in DOMAIN sessions[Peer(p)]
  BY <1>1, Incoming DEF SessionKey
<1>5. GoodStore(p, sessions[p])
  BY DEF SessionInv, StoresGood
<1> HIDE DEF own, peer, st
<1>6. /\ st # Nil /\ st.next = Nil
      /\ GoodState(p, sessions[p], sessions[Peer(p)], created, st)
      /\ \A x \in net : x.from = p => Older(x, st)
  BY <1>1, <1>2, <1>4, <1>5, SwitchedState, Zenon DEF st
<1>7. /\ priv' \in [Parties -> SUBSET KeyEntries]
      /\ priv'[Peer(p)] = priv[Peer(p)]
  BY <1>1 DEF SessionInv, TypeOK
<1>8. Mid(p, sessions[p], created', priv', st)
  BY <1>1, <1>3, <1>6, <1>7, Zenon DEF Mid, StoreOK, Counters
<1> QED BY <1>1, <1>8, DecryptTail, Zenon

(* Decrypt, the peer has seen p's offer: agree on the new session, switch.  *)
LEMMA DecryptSwitchKeeps ==
  ASSUME SessionInv, NEW p \in Parties, NEW m \in net, DecryptSwitch(p, m)
  PROVE  SessionInv'
<1> DEFINE q == Peer(p)
           own == ss[p].next
           peer == m.next
           st == NextState(p, peer, own)
           prev == sessions[p][SessionKey(m)].rootKeyHash
           rk == deriveRootKey(peer, own, prev)
           store == rootKeyAgreementRecipient(sessions[p], peer, own, prev)
<1>1. /\ m.from = Peer(p) /\ SessionKey(m) \in DOMAIN sessions[p]
      /\ m.next # Nil /\ m.seen = own /\ own # Nil
      /\ created' = created
      /\ priv' = [priv EXCEPT ![p] = @ \ {m.recipientTemp}]
      /\ ss' = [ss EXCEPT ![p] = st]
      /\ Open(p, m, store) /\ q \in Parties /\ q # p /\ Peer(q) = p
  BY Peers DEF DecryptSwitch, Known, Unknown, Arrives, DelPrivSessionKey, Switches
<1>2. GoodState(p, sessions[p], sessions[q], created, ss[p])
  BY <1>1, HasState
<1>3. Counters(created') /\ StoreOK(p, sessions[p], created')
  BY <1>1, CountersStay, StartStore
<1>4. /\ own \in SessionKeysOf(p, created[p])
      /\ own \in Issued(p, created[p]) /\ own \in {p} \X Nat /\ own # KeyInit(p)
  <2>1. own \in SessionKeysOf(p, created[p]) /\ created[p] \in Nat
    BY <1>1, <1>2, Zenon DEF GoodState, SessionInv, TypeOK
  <2> QED BY <2>1 DEF SessionKeysOf, Issued, KeyInit
<1>5. /\ peer \in Issued(q, created[q]) /\ peer \in {q} \X Nat /\ peer # KeyInit(q)
  BY <1>1, IncomingNext, Zenon
<1>6. /\ <<peer, own>> \in DOMAIN sessions[q]
      /\ sessions[q][<<peer, own>>].rootKeyHash
           = deriveRootKey(peer, own, sessions[q][Mirror(SessionKey(m))].rootKeyHash)
      /\ Mirror(SessionKey(m)) \in DOMAIN sessions[q]
  <2>1. GoodMessage(q, sessions[q], sessions[p], created, m)
    BY <1>1, Incoming, Zenon
  <2> QED BY <1>1, <2>1, Zenon DEF GoodMessage, Prepared
<1>7. rk = sessions[q][<<peer, own>>].rootKeyHash
  <2>1. prev = sessions[q][Mirror(SessionKey(m))].rootKeyHash
    BY <1>1, <1>3, <1>6, Zenon DEF StoreOK, Agree
  <2> HIDE DEF prev
  <2> QED BY <1>6, <2>1
<1>8. <<own, peer>> \notin DOMAIN sessions[p]
  <2>1. SUFFICES ASSUME <<own, peer>> \in DOMAIN sessions[p]
                 PROVE  FALSE
    OBVIOUS
  <2>2. sessions[p][<<own, peer>>].rootKeyHash.root.session = own
    BY <1>2, <2>1, Zenon DEF GoodState
  <2>3. Mirror(<<own, peer>>) = <<peer, own>>
    BY DEF Mirror
  <2>4. sessions[p][<<own, peer>>].rootKeyHash = rk
    BY <1>3, <1>6, <1>7, <2>1, <2>3, Zenon DEF StoreOK, Agree
  <2>5. rk.root.session = peer
    BY DEF deriveRootKey
  <2> HIDE DEF own, peer, rk
  <2> QED BY <1>1, <1>4, <1>5, <2>2, <2>4, <2>5
<1>9. SessionAdded(p, sessions[p], own, peer, prev, rk, store)
  BY <1>3, <1>4, <1>5, <1>8, Zenon DEF SessionAdded, StoreOK
<1> HIDE DEF own, peer, rk, prev, store, st
<1>10. StoreOK(p, store, created') /\ AddedTo(sessions[p], <<own, peer>>, rk, store)
  <2>1. Agreed(p, sessions[p], created', own, peer, prev, rk, store)
    BY <1>1, <1>3, <1>4, <1>5, <1>7, <1>9, Zenon DEF Agreed
  <2> QED BY <2>1, AddSession
<1>11. /\ st # Nil /\ st.next = Nil
       /\ GoodState(p, store, sessions[q], created, st)
       /\ \A x \in net : x.from = p => Older(x, st)
  <2>1. <<own, peer>> \in DOMAIN store /\ GoodStore(p, store)
    BY <1>10, Zenon DEF AddedTo, StoreOK
  <2>2. own = ss[p].next
    BY DEF own
  <2> QED BY <1>2, <1>6, <2>1, <2>2, SwitchedState, Zenon DEF st
<1>12. /\ priv' \in [Parties -> SUBSET KeyEntries]
       /\ priv'[Peer(p)] = priv[Peer(p)]
  BY <1>1, Zenon DEF SessionInv, TypeOK
<1>13. Mid(p, store, created', priv', st)
  BY <1>1, <1>3, <1>10, <1>11, <1>12, Zenon DEF Mid, StoreOK, Counters
<1>14. SessionKey(m) \in DOMAIN store
  BY <1>1, <1>10, Zenon DEF AddedTo
<1> QED BY <1>1, <1>13, <1>14, DecryptTail, Zenon

(* A state that offers the new key in session sk is good, if the session    *)
(* with the key the peer offers was prepared from sk, or there is none.     *)
LEMMA OfferingState ==
  ASSUME SessionInv, NEW p \in Parties, NEW store, NEW made, NEW st,
         NEW base, StoreOK(p, base, made), StoreOK(p, store, made),
         Counters(made), made[p] = created[p] + 1,
         st \in SessionStates, st.next = NewKey(p),
         Current(st) \in DOMAIN base, st.messageCount <= base[Current(st)].num,
         \A sk \in DOMAIN base : sk[1] # NewKey(p),
         Recognised(p, Current(st), sessions[Peer(p)]),
         \/ st.seen = Nil /\ store = base
         \/ /\ st.seen \in SessionKeysOf(Peer(p), created[Peer(p)])
            /\ AddedTo(base, <<NewKey(p), st.seen>>,
                       deriveRootKey(NewKey(p), st.seen,
                                     base[Current(st)].rootKeyHash), store)
  PROVE  GoodState(p, store, sessions[Peer(p)], made, st)
<1> DEFINE sk == Current(st)
           new == <<NewKey(p), st.seen>>
<1>1. /\ NewKey(p) \in SessionKeysOf(p, made[p])
      /\ NewKey(p) # Nil
      /\ Peer(p) \in Parties
  BY Fresh, Peers, Zenon
<1>2. st.seen \in SessionKeysOf(Peer(p), made[Peer(p)]) \cup {Nil}
  <2>1. SessionKeysOf(Peer(p), created[Peer(p)])
          \subseteq SessionKeysOf(Peer(p), made[Peer(p)])
    BY <1>1, IssuedGrow, Zenon DEF Counters, SessionInv, TypeOK
  <2> QED BY <2>1, Zenon
<1>3. st.next # st.senderSessionPub
  <2>1. sk[1] = st.senderSessionPub
    BY DEF Current
  <2> QED BY <2>1, Zenon
<1>4. CASE st.seen = Nil /\ store = base
  BY <1>1, <1>2, <1>3, <1>4, Zenon DEF GoodState
<1>5. CASE /\ st.seen \in SessionKeysOf(Peer(p), created[Peer(p)])
           /\ AddedTo(base, new,
                      deriveRootKey(NewKey(p), st.seen, base[sk].rootKeyHash), store)
  <2>1. new[1] = NewKey(p) /\ new[2] = st.seen
    OBVIOUS
  <2>2. Prepared(store, st.next, st.seen, sk)
    BY <1>5 DEF AddedTo, Prepared
  <2>3. store[new].rootKeyHash.root.session = NewKey(p)
    <3>1. store[new].rootKeyHash = deriveRootKey(NewKey(p), st.seen, base[sk].rootKeyHash)
      BY <1>5, Zenon DEF AddedTo
    <3> HIDE DEF new, sk
    <3> QED BY <3>1 DEF deriveRootKey
  <2>4. sk \in DOMAIN store /\ store[sk] = base[sk]
    BY <1>5 DEF AddedTo
  <2> HIDE DEF new, sk
  <2>5. \A s \in DOMAIN store :
          s[1] = st.next =>
            s[2] = st.seen /\ store[s].rootKeyHash.root.session = s[1]
    BY <1>5, <2>1, <2>3 DEF AddedTo
  <2> QED BY <1>1, <1>2, <1>3, <2>2, <2>4, <2>5, Zenon DEF GoodState, sk
<1> QED BY <1>4, <1>5, Zenon

(* Decrypt, the peer offers a key and p has none: prepare the next session. *)
LEMMA DecryptPrepareKeeps ==
  ASSUME SessionInv, NEW p \in Parties, NEW m \in net, DecryptPrepare(p, m)
  PROVE  SessionInv'
<1> DEFINE base == sessions[p]
           sk == SessionKey(m)
           prev == base[sk].rootKeyHash
           store == rootKeyAgreementSender(base, NewKey(p), m.next, prev)
           st == [ss[p] EXCEPT !.next = NewKey(p),
                               !.seen = IF ss[p].seen = Nil THEN m.next
                                        ELSE ss[p].seen]
<1>1. /\ m.from = Peer(p) /\ sk \in DOMAIN base
      /\ Reflects(p, m) /\ m.next # Nil /\ ss[p].next = Nil
      /\ created' = [created EXCEPT ![p] = @ + 1]
      /\ priv' = [priv EXCEPT ![p] = (@ \cup {NewKey(p)}) \ {m.recipientTemp}]
      /\ ss' = [ss EXCEPT ![p] = st]
      /\ Open(p, m, store) /\ Peer(p) \in Parties /\ Peer(p) # p
  BY Peers DEF DecryptPrepare, Known, Unknown, Arrives, Prepares
<1>2. GoodState(p, base, sessions[Peer(p)], created, ss[p])
  BY <1>1, HasState
<1>3. Counters(created') /\ created'[p] = created[p] + 1
  BY <1>1 DEF SessionInv, TypeOK, Counters
<1>4. StoreOK(p, base, created')
  BY <1>3, StartStore
<1>5. \A s \in DOMAIN base : s[1] # NewKey(p)
  BY Fresh
<1>6. /\ StoreOK(p, store, created')
      /\ AddedTo(base, <<NewKey(p), m.next>>, deriveRootKey(NewKey(p), m.next, prev),
                 store)
  <2> HIDE DEF base, prev
  <2> QED BY <1>1, <1>3, <1>4, <1>5, NextStore, Zenon
<1>7. ss[p] \in SessionStates /\ ss[p].seen = Nil
  BY <1>1, <1>2 DEF GoodState
<1>8. /\ st \in SessionStates /\ st # Nil
      /\ st.next = NewKey(p) /\ st.seen = m.next
      /\ st.messageCount = ss[p].messageCount
      /\ Current(st) = Current(ss[p])
  <2>1. NewKey(p) \in KeyEntries /\ m.next \in KeyEntries
    BY <1>1, Fresh, IncomingNext DEF KeyEntries
  <2>2. st \in SessionStates
    BY <1>7, <2>1, Zenon DEF SessionStates
  <2>3. st # Nil
    BY <2>2, NilIsNil
  <2> QED BY <1>7, <2>2, <2>3 DEF SessionStates, Current
<1>9. Current(st) = sk
  BY <1>1, <1>8 DEF Reflects, Current, SessionKey
<1> HIDE DEF st, base, prev, store, sk
<1>10. GoodState(p, store, sessions[Peer(p)], created', st)
  <2>1. st.seen \in SessionKeysOf(Peer(p), created[Peer(p)])
    BY <1>1, <1>8, IncomingNext, Zenon
  <2>2. AddedTo(base, <<NewKey(p), st.seen>>,
                deriveRootKey(NewKey(p), st.seen, base[Current(st)].rootKeyHash), store)
    BY <1>6, <1>8, <1>9 DEF prev
  <2>3. /\ st.messageCount <= base[Current(st)].num
        /\ Recognised(p, Current(st), sessions[Peer(p)])
        /\ Current(st) \in DOMAIN base
    BY <1>2, <1>8, Zenon DEF GoodState
  <2> QED BY <1>3, <1>4, <1>5, <1>6, <1>8, <2>1, <2>2, <2>3, OfferingState, Zenon
<1>11. \A x \in net : x.from = p => Older(x, st)
  BY <1>8, Fresh, Zenon DEF SessionInv, MessagesGood, Older
<1>12. /\ priv' \in [Parties -> SUBSET KeyEntries]
       /\ priv'[Peer(p)] = priv[Peer(p)]
       /\ NewKey(p) \in priv'[p]
  <2>1. NewKey(p) \in KeyEntries
    BY Fresh DEF KeyEntries
  <2>2. m.recipientTemp # NewKey(p)
    <3>1. sk[1] = m.recipientTemp
      BY DEF sk, SessionKey
    <3> QED BY <1>1, <1>5, <3>1
  <2> QED BY <1>1, <2>1, <2>2 DEF SessionInv, TypeOK
<1>13. Mid(p, store, created', priv', st)
  BY <1>3, <1>6, <1>8, <1>10, <1>11, <1>12, Zenon DEF Mid, StoreOK, Counters
<1>14. sk \in DOMAIN store
  BY <1>1, <1>6, Zenon DEF AddedTo
<1> QED BY <1>1, <1>13, <1>14, DecryptTail, Zenon DEF sk

(* Decrypt, KeyInit session, which becomes the current one.                 *)
LEMMA DecryptAdoptKeeps ==
  ASSUME SessionInv, NEW p \in Parties, NEW m \in net, DecryptAdopt(p, m)
  PROVE  SessionInv'
<1> DEFINE base == FromKeyInit(p, m)
           sk == SessionKey(m)
           prev == base[sk].rootKeyHash
           store == IF m.next # Nil
                    THEN rootKeyAgreementSender(base, NewKey(p), m.next, prev)
                    ELSE base
           st == [sessionCount |-> 0, messageCount |-> 0,
                  recipientTemp |-> m.senderSessionPub,
                  senderSessionPub |-> KeyInit(p),
                  next |-> NewKey(p), seen |-> m.next,
                  keyInitSession |-> FALSE]
<1>1. /\ m.from = Peer(p) /\ Unknown(p, m) /\ m.recipientTemp = KeyInit(p)
      /\ addSessionKey(p)
      /\ ss' = [ss EXCEPT ![p] = st]
      /\ Open(p, m, store) /\ Peer(p) \in Parties /\ Peer(p) # p
  BY Peers, Zenon DEF DecryptAdopt, Arrives, Adopts
<1>2. /\ Counters(created') /\ created'[p] = created[p] + 1
      /\ priv' \in [Parties -> SUBSET KeyEntries]
      /\ priv'[Peer(p)] = priv[Peer(p)]
      /\ NewKey(p) \in priv'[p]
  BY <1>1, OneMoreKey, Zenon
<1>3. /\ StoreOK(p, base, created')
      /\ AddedTo(sessions[p], sk,
                 deriveRootKey(m.senderSessionPub, KeyInit(p), Nil), base)
  BY <1>1, <1>2, KeyInitStore, Zenon
<1>4. sk[1] = KeyInit(p) /\ sk = Current(st)
  BY <1>1, Zenon DEF SessionKey, Current
<1>5. \A s \in DOMAIN base : s[1] # NewKey(p)
  <2> HIDE DEF base, sk
  <2> QED BY <1>3, <1>4, Fresh DEF AddedTo
<1>6. /\ st.next = NewKey(p) /\ st.seen = m.next /\ st.messageCount = 0
      /\ st \in SessionStates /\ st # Nil
  <2>1. m.next \in KeyEntries \cup {Nil}
    BY DEF SessionInv, TypeOK
  <2>2. NewKey(p) \in KeyEntries /\ KeyInit(p) \in KeyEntries
        /\ m.senderSessionPub \in KeyEntries
    BY <1>1, Fresh, Incoming, Zenon DEF KeyEntries, KeyInit
  <2>3. st \in SessionStates
    BY <2>1, <2>2 DEF SessionStates
  <2> QED BY <2>3, NilIsNil, Zenon
<1> HIDE DEF base, sk, st
<1>8. /\ StoreOK(p, store, created')
      /\ \/ st.seen = Nil /\ store = base
         \/ /\ st.seen \in SessionKeysOf(Peer(p), created[Peer(p)])
            /\ AddedTo(base, <<NewKey(p), st.seen>>,
                       deriveRootKey(NewKey(p), st.seen,
                                     base[Current(st)].rootKeyHash), store)
  <2>1. CASE m.next # Nil
    <3>1. store = rootKeyAgreementSender(base, NewKey(p), m.next, prev)
      BY <2>1
    <3>2. prev = base[Current(st)].rootKeyHash
      BY <1>4
    <3> HIDE DEF store, prev
    <3>3. /\ StoreOK(p, store, created')
          /\ AddedTo(base, <<NewKey(p), m.next>>,
                     deriveRootKey(NewKey(p), m.next, prev), store)
      BY <1>1, <1>2, <1>3, <1>5, <2>1, <3>1, NextStore, Zenon
    <3>4. m.next \in SessionKeysOf(Peer(p), created[Peer(p)])
      BY <1>1, <2>1, IncomingNext, Zenon
    <3> QED BY <1>6, <3>2, <3>3, <3>4
  <2>2. CASE m.next = Nil
    BY <1>3, <1>6, <2>2
  <2> QED BY <2>1, <2>2, Zenon
<1>9. sk \in DOMAIN base /\ sk \in DOMAIN store
  BY <1>3, <1>8, Zenon DEF AddedTo
<1> HIDE DEF store, prev
<1>10. GoodState(p, store, sessions[Peer(p)], created', st)
  <2>1. Current(st) \in DOMAIN base /\ st.messageCount <= base[Current(st)].num
    <3>1. base[sk].num \in Nat
      BY <1>3, <1>9, Zenon DEF StoreOK, GoodStore, GoodSession
    <3>2. 0 <= base[sk].num
      BY ONLY <3>1
    <3> QED BY <1>4, <1>6, <1>9, <3>2, Zenon
  <2>2. Recognised(p, Current(st), sessions[Peer(p)])
    <3>1. Mirror(sk) = <<m.senderSessionPub, m.recipientTemp>>
      BY DEF sk, SessionKey, Mirror
    <3> QED BY <1>1, <1>4, <3>1, Incoming, Zenon DEF Recognised
  <2> QED BY <1>2, <1>3, <1>5, <1>6, <1>8, <2>1, <2>2, OfferingState, Zenon
<1>11. ASSUME NEW x \in net, x.from = p PROVE Older(x, st)
  <2>1. Mirror(SessionKey(x)) \in DOMAIN sessions[p]
    BY <1>11, Zenon DEF SessionInv, MessagesGood, GoodMessage
  <2>2. sk \notin DOMAIN sessions[p]
    BY <1>1 DEF Unknown, sk
  <2> QED BY <1>4, <1>6, <1>11, <2>1, <2>2, Fresh DEF Older
<1>12. Mid(p, store, created', priv', st)
  BY <1>2, <1>6, <1>8, <1>10, <1>11, Zenon DEF Mid, StoreOK, Counters
<1> QED BY <1>1, <1>9, <1>12, DecryptTail, Zenon DEF sk

-----------------------------------------------------------------------------
(* The theorems *)

(* The initial state satisfies the invariant.                               *)
LEMMA InitInv == Init => SessionInv
<1> SUFFICES ASSUME Init PROVE SessionInv
  OBVIOUS
<1> USE DEF Init
<1>1. TypeOK
  BY DEF TypeOK
<1>2. StoresGood /\ StoredKeysIssued /\ StatesGood
  BY Peers DEF StoresGood, GoodStore, StoredKeysIssued, KeysIssued, StatesGood
<1>3. MessagesGood /\ IndicesUnique
  BY DEF MessagesGood, IndicesUnique
<1>4. SessionsAgree /\ OfferedKeysUsable
  BY DEF SessionsAgree, OfferedKeysUsable, Parties
<1>5. OpenedKeysUsed /\ GenuineMessagesOpen /\ NoReplay
  BY DEF OpenedKeysUsed, GenuineMessagesOpen, NoReplay
<1> QED BY <1>1, <1>2, <1>3, <1>4, <1>5 DEF SessionInv

(* Every step of Encrypt or Decrypt keeps the invariant.                    *)
LEMMA NextInv == SessionInv /\ [Next]_vars => SessionInv'
<1> SUFFICES ASSUME SessionInv, [Next]_vars PROVE SessionInv'
  OBVIOUS
<1>1. ASSUME NEW p \in Parties, NEW tooLong \in BOOLEAN, EncryptFirst(p, tooLong)
      PROVE  SessionInv'
  BY <1>1, EncryptFirstKeeps
<1>2. ASSUME NEW p \in Parties, NEW tooLong \in BOOLEAN, EncryptNext(p, tooLong)
      PROVE  SessionInv'
  BY <1>2, EncryptNextKeeps
<1>3. ASSUME NEW p \in Parties, NEW tooLong \in BOOLEAN, EncryptOffer(p, tooLong)
      PROVE  SessionInv'
  BY <1>3, EncryptOfferKeeps
<1>4. ASSUME NEW p \in Parties, NEW m \in net, DecryptAdopt(p, m) PROVE SessionInv'
  BY <1>4, DecryptAdoptKeeps
<1>5. ASSUME NEW p \in Parties, NEW m \in net, DecryptKeep(p, m) PROVE SessionInv'
  BY <1>5, DecryptKeepKeeps
<1>6. ASSUME NEW p \in Parties, NEW m \in net, DecryptPrepare(p, m) PROVE SessionInv'
  BY <1>6, DecryptPrepareKeeps
<1>7. ASSUME NEW p \in Parties, NEW m \in net, DecryptSwitch(p, m) PROVE SessionInv'
  BY <1>7, DecryptSwitchKeeps
<1>8. ASSUME NEW p \in Parties, NEW m \in net, DecryptFollow(p, m) PROVE SessionInv'
  BY <1>8, DecryptFollowKeeps
<1>9. ASSUME NEW p \in Parties, NEW m \in net, DecryptPlain(p, m) PROVE SessionInv'
  BY <1>9, DecryptPlainKeeps
<1>10. CASE UNCHANGED vars
  <2>1. /\ ss' = ss /\ sessions' = sessions /\ created' = created /\ priv' = priv
        /\ net' = net /\ opened' = opened /\ rejected' = rejected
        /\ replayed' = replayed
    BY <1>10 DEF vars
  <2>2. TypeOK'
    BY <2>1 DEF SessionInv, TypeOK
  <2>3. StoresGood' /\ StoredKeysIssued' /\ StatesGood'
    BY <2>1 DEF SessionInv, StoresGood, StoredKeysIssued, StatesGood
  <2>4. MessagesGood' /\ IndicesUnique'
    BY <2>1 DEF SessionInv, MessagesGood, IndicesUnique
  <2>5. SessionsAgree' /\ OpenedKeysUsed'
    BY <2>1 DEF SessionInv, SessionsAgree, OpenedKeysUsed
  <2>6. OfferedKeysUsable' /\ GenuineMessagesOpen' /\ NoReplay'
    BY <2>1 DEF SessionInv, OfferedKeysUsable, GenuineMessagesOpen, NoReplay
  <2> QED BY <2>2, <2>3, <2>4, <2>5, <2>6 DEF SessionInv
<1> QED BY <1>1, <1>2, <1>3, <1>4, <1>5, <1>6, <1>7, <1>8, <1>9, <1>10
        DEF Next, Encrypt, Decrypt

(* SessionInv is an invariant of the session protocol: whatever the order   *)
(* in which Encrypt and Decrypt run and messages are lost or repeated.      *)
THEOREM Invariant == Spec => []SessionInv
<1> QED BY InitInv, NextInv, PTL DEF Spec

(* Session states, stores and messages keep their types.                    *)
THEOREM Typed == Spec => []TypeOK
<1>1. SessionInv => TypeOK
  BY DEF SessionInv
<1> QED BY <1>1, Invariant, PTL

(* Both parties hold the same root key for every session they share.        *)
THEOREM Agreement == Spec => []SessionsAgree
<1>1. SessionInv => SessionsAgree
  BY DEF SessionInv
<1> QED BY <1>1, Invariant, PTL

(* Decrypt opens every message of Encrypt the first time it arrives, unless *)
(* the limit on a top-up forbids it.                                        *)
THEOREM GenuineOpen == Spec => []GenuineMessagesOpen
<1>1. SessionInv => GenuineMessagesOpen
  BY DEF SessionInv
<1> QED BY <1>1, Invariant, PTL

(* Decrypt opens no message twice.                                          *)
THEOREM Replay == Spec => []NoReplay
<1>1. SessionInv => NoReplay
  BY DEF SessionInv
<1> QED BY <1>1, Invariant, PTL

(* The private part of an offered session key is stored until it is needed. *)
THEOREM OfferUsable == Spec => []OfferedKeysUsable
<1>1. SessionInv => OfferedKeysUsable
  BY DEF SessionInv
<1> QED BY <1>1, Invariant, PTL

(* A message key determines the message it sealed.                          *)
LEMMA KeyDeterminesMessage == SessionInv => MessageKeysUsedOnce
<1> SUFFICES ASSUME SessionInv, NEW m1 \in net, NEW m2 \in net, m1.key = m2.key
             PROVE  m1 = m2
  BY DEF MessageKeysUsedOnce
<1> DEFINE sk(m) == <<m.senderSessionPub, m.recipientTemp>>
           root(m) == sessions[m.from][sk(m)].rootKeyHash.root
<1>1. ASSUME NEW m \in net
      PROVE  /\ m.from \in Parties
             /\ m.senderSessionPub \in {m.from} \X Nat
             /\ m.recipientTemp \in {Peer(m.from)} \X Nat
             /\ m.key = MessageKey([root |-> root(m), step |-> m.messageCount],
                                   m.recipientTemp)
             /\ \/ /\ root(m).session = m.senderSessionPub
                   /\ root(m).keyInit = m.recipientTemp
                \/ /\ root(m).session = m.recipientTemp
                   /\ root(m).keyInit = m.senderSessionPub
  <2> DEFINE q == m.from
  <2>1. q \in Parties /\ GoodMessage(q, sessions[q], sessions[Peer(q)], created, m)
    BY DEF SessionInv, MessagesGood
  <2>2. Mirror(SessionKey(m)) = sk(m)
    BY DEF Mirror, SessionKey
  <2>3. sk(m) \in DOMAIN sessions[q]
    BY <2>1, <2>2, Zenon DEF GoodMessage
  <2>4. GoodSession(q, sk(m), sessions[q][sk(m)])
    BY <2>1, <2>3 DEF SessionInv, StoresGood, GoodStore
  <2>5. sk(m)[1] = m.senderSessionPub /\ sk(m)[2] = m.recipientTemp
    OBVIOUS
  <2>6. m.key = MessageKey([root |-> root(m), step |-> m.messageCount], m.recipientTemp)
    BY <2>1, <2>2, Zenon DEF GoodMessage
  <2> HIDE DEF sk
  <2> QED BY <2>1, <2>4, <2>5, <2>6, Zenon DEF GoodSession
<1> HIDE DEF root
<1>2. /\ root(m1) = root(m2)
      /\ m1.messageCount = m2.messageCount
      /\ m1.recipientTemp = m2.recipientTemp
  <2>1. ASSUME NEW r1, NEW r2, NEW i1, NEW i2, NEW k1, NEW k2,
               MessageKey([root |-> r1, step |-> i1], k1)
                 = MessageKey([root |-> r2, step |-> i2], k2)
        PROVE  r1 = r2 /\ i1 = i2 /\ k1 = k2
    <3>1. k1 = k2 /\ [root |-> r1, step |-> i1] = [root |-> r2, step |-> i2]
      BY <2>1 DEF MessageKey
    <3> QED BY <3>1
  <2>2. MessageKey([root |-> root(m1), step |-> m1.messageCount], m1.recipientTemp)
          = MessageKey([root |-> root(m2), step |-> m2.messageCount], m2.recipientTemp)
    BY <1>1
  <2> QED BY ONLY <2>1, <2>2
<1>3. m1.from = m2.from
  <2>1. Peer(m1.from) = Peer(m2.from)
    BY <1>1, <1>2, Zenon
  <2> QED BY <1>1, <2>1, Peers, Zenon
<1>4. m1.senderSessionPub = m2.senderSessionPub
  <2>1. Peer(m1.from) # m1.from
    BY <1>1, Peers, Zenon
  <2>2. m1.senderSessionPub # m1.recipientTemp /\ m2.senderSessionPub # m2.recipientTemp
    BY <1>1, <1>3, <2>1, Zenon
  <2> QED BY <1>1, <1>2, <2>2, Zenon
<1>5. SessionKey(m1) = SessionKey(m2)
  BY <1>2, <1>4 DEF SessionKey
<1> QED BY <1>2, <1>3, <1>5 DEF SessionInv, IndicesUnique

(* No two messages are ever sealed with the same message key.               *)
THEOREM KeysOnce == Spec => []MessageKeysUsedOnce
<1> QED BY KeyDeterminesMessage, Invariant, PTL

(* What an action does to the current session of its party: it leaves it,   *)
(* or starts the first one, or moves to one in which nothing is counted.    *)
LEMMA SessionMoves ==
  ASSUME SessionInv, NEW p \in Parties,
         Encrypt(p) \/ \E m \in net : Decrypt(p, m)
  PROVE  /\ ss'[Peer(p)] = ss[Peer(p)]
         /\ \/ ss[p] = Nil
            \/ Current(ss'[p]) = Current(ss[p])
            \/ ss'[p].messageCount = 0
<1>1. Peer(p) # p /\ Peer(p) \in Parties /\ DOMAIN ss = Parties
  BY Peers, Zenon DEF SessionInv, TypeOK
<1>2. ss[p] # Nil => ss[p] \in SessionStates
  BY DEF SessionInv, TypeOK
<1>3. ASSUME NEW st, NEW store, NEW tooLong, Seal(p, st, store, tooLong)
      PROVE  /\ ss'[Peer(p)] = ss[Peer(p)]
             /\ ss'[p] = st \/ ss'[p] = [st EXCEPT !.messageCount = @ + 1]
  BY <1>1, <1>3, Zenon DEF Seal
<1>4. ASSUME NEW tooLong, EncryptFirst(p, tooLong)
      PROVE  ss'[Peer(p)] = ss[Peer(p)] /\ ss[p] = Nil
  BY <1>3, <1>4, Zenon DEF EncryptFirst
<1>5. ASSUME NEW tooLong, EncryptNext(p, tooLong)
      PROVE  ss'[Peer(p)] = ss[Peer(p)] /\ Current(ss'[p]) = Current(ss[p])
  <2>1. /\ ss'[Peer(p)] = ss[Peer(p)] /\ ss[p] \in SessionStates
        /\ ss'[p] = ss[p] \/ ss'[p] = [ss[p] EXCEPT !.messageCount = @ + 1]
    BY <1>2, <1>3, <1>5 DEF EncryptNext
  <2> QED BY <2>1 DEF Current, SessionStates
<1>6. ASSUME NEW tooLong, EncryptOffer(p, tooLong)
      PROVE  ss'[Peer(p)] = ss[Peer(p)] /\ Current(ss'[p]) = Current(ss[p])
  <2> DEFINE st == [ss[p] EXCEPT !.next = NewKey(p)]
  <2>1. /\ ss'[Peer(p)] = ss[Peer(p)] /\ ss[p] \in SessionStates
        /\ ss'[p] = st \/ ss'[p] = [st EXCEPT !.messageCount = @ + 1]
    BY <1>2, <1>3, <1>6, Zenon DEF EncryptOffer
  <2> QED BY <2>1, Zenon DEF Current, SessionStates
<1>7. ASSUME NEW m \in net, DecryptAdopt(p, m)
      PROVE  ss'[Peer(p)] = ss[Peer(p)] /\ ss'[p].messageCount = 0
  BY <1>1, <1>7 DEF DecryptAdopt
<1>8. ASSUME NEW m \in net, DecryptPrepare(p, m)
      PROVE  /\ ss'[Peer(p)] = ss[Peer(p)]
             /\ ss[p] = Nil \/ Current(ss'[p]) = Current(ss[p])
  BY <1>1, <1>2, <1>8 DEF DecryptPrepare, Current, SessionStates
<1>9. ASSUME NEW m \in net, DecryptSwitch(p, m) \/ DecryptFollow(p, m)
      PROVE  ss'[Peer(p)] = ss[Peer(p)] /\ ss'[p].messageCount = 0
  BY <1>1, <1>9 DEF DecryptSwitch, DecryptFollow, NextState
<1>10. ASSUME NEW m \in net, DecryptKeep(p, m) \/ DecryptPlain(p, m)
       PROVE  ss' = ss
  BY <1>10 DEF DecryptKeep, DecryptPlain
<1> QED BY <1>4, <1>5, <1>6, <1>7, <1>8, <1>9, <1>10, Zenon DEF Encrypt, Decrypt

(* A party never returns to a session in which it has sent messages.        *)
THEOREM NoReturn == Spec => NoReturnToSession
<1>1. SessionInv /\ SessionInv' /\ [Next]_vars => [NothingSentInNewSession]_vars
  <2> SUFFICES ASSUME SessionInv, SessionInv', [Next]_vars
               PROVE  NothingSentInNewSession \/ UNCHANGED vars
    OBVIOUS
  <2>1. CASE UNCHANGED vars
    BY <2>1
  <2>2. CASE Next
    <3>1. PICK p \in Parties : Encrypt(p) \/ \E m \in net : Decrypt(p, m)
      BY <2>2 DEF Next
    <3>2. /\ ss'[Peer(p)] = ss[Peer(p)]
          /\ \/ ss[p] = Nil
             \/ Current(ss'[p]) = Current(ss[p])
             \/ ss'[p].messageCount = 0
      BY <3>1, SessionMoves
    <3>3. net \subseteq net'
      <4>1. ASSUME NEW st, NEW store, NEW tooLong, Seal(p, st, store, tooLong)
            PROVE  net \subseteq net'
        BY <4>1, Zenon DEF Seal
      <4>2. ASSUME NEW m, NEW store, Open(p, m, store) PROVE net \subseteq net'
        BY <4>2, Zenon DEF Open
      <4>3. ASSUME NEW tooLong,
                   \/ EncryptFirst(p, tooLong) \/ EncryptNext(p, tooLong)
                   \/ EncryptOffer(p, tooLong)
            PROVE  net \subseteq net'
        BY <4>1, <4>3 DEF EncryptFirst, EncryptNext, EncryptOffer
      <4>4. ASSUME NEW m, Decrypt(p, m) PROVE net \subseteq net'
        BY <4>2, <4>4 DEF Decrypt, DecryptAdopt, DecryptKeep, DecryptPrepare,
                          DecryptSwitch, DecryptFollow, DecryptPlain
      <4> QED BY <3>1, <4>3, <4>4 DEF Encrypt
    <3>4. ASSUME NEW r \in Parties, ss'[r] # Nil,
                 ss[r] # Nil => Current(ss'[r]) # Current(ss[r]),
                 NEW m \in net, m.from = r
          PROVE  SessionKey(m) # Mirror(Current(ss'[r]))
      <4>1. Older(m, ss[r])
        BY <3>4 DEF SessionInv, MessagesGood
      <4>2. ss[r] # Nil
        BY <4>1 DEF Older
      <4>3. r = p
        BY <3>2, <3>4, <4>2, Peers
      <4>4. ss'[r].messageCount = 0
        BY <3>2, <3>4, <4>2, <4>3
      <4>5. Older(m, ss'[r]) /\ m.messageCount \in Nat
        BY <3>3, <3>4, Zenon DEF SessionInv, MessagesGood, TypeOK
      <4>6. Mirror(SessionKey(m)) # Current(ss'[r])
        BY <4>4, <4>5 DEF Older
      <4>7. Mirror(SessionKey(m)) = <<m.senderSessionPub, m.recipientTemp>>
            /\ SessionKey(m) = <<m.recipientTemp, m.senderSessionPub>>
        BY DEF Mirror, SessionKey
      <4>8. Mirror(Current(ss'[r])) = <<ss'[r].recipientTemp, ss'[r].senderSessionPub>>
            /\ Current(ss'[r]) = <<ss'[r].senderSessionPub, ss'[r].recipientTemp>>
        BY DEF Mirror, Current
      <4> QED BY <4>6, <4>7, <4>8
    <3> QED BY <3>4 DEF NothingSentInNewSession
  <2> QED BY <2>1, <2>2
<1> QED BY <1>1, Invariant, PTL DEF Spec, NoReturnToSession
====

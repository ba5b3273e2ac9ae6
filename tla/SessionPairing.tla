--------------------------- MODULE SessionPairing ---------------------------
(***************************************************************************)
(* How the session states of the two parties relate: SessionInv says what  *)
(* each party may hold, PairInv of SessionInvariant in which of the three  *)
(* relations the two states are (together, one ahead, racing).  PairInv is *)
(* inductive relative to SessionInv (Conversation); it gives the agreement *)
(* at rest (Quiescent) and that a refresh deletes the key before last      *)
(* (OldKeyDeleted).                                                        *)
(***************************************************************************)
EXTENDS SessionProofs

(* The provers get more time than by default. *)
USE SMTT(30), ZenonT(30)

(* No session has two KeyInit keys.                                         *)
LEMMA OneKeyInit ==
  ASSUME SessionInv, NEW p \in Parties, NEW sk \in DOMAIN sessions[p],
         sk[2] = KeyInit(Peer(p))
  PROVE  sk[1] # KeyInit(p)
<1>1. GoodSession(p, sk, sessions[p][sk]) /\ Peer(p) # p
  BY Peers DEF SessionInv, StoresGood, GoodStore
<1> SUFFICES ASSUME sk[1] = KeyInit(p) PROVE FALSE
  OBVIOUS
<1>2. deriveRootKey(KeyInit(Peer(p)), KeyInit(p), Nil)
        = deriveRootKey(KeyInit(p), KeyInit(Peer(p)), Nil)
  BY <1>1 DEF GoodSession
<1>3. deriveRootKey(KeyInit(Peer(p)), KeyInit(p), Nil).root.session
        = deriveRootKey(KeyInit(p), KeyInit(Peer(p)), Nil).root.session
  BY <1>2
<1>4. KeyInit(Peer(p)) = KeyInit(p)
  BY <1>3 DEF deriveRootKey
<1> QED BY <1>1, <1>4 DEF KeyInit

(* A party has a session state once it has sent a message, and it sends     *)
(* nothing in a session with the key it offers.                             *)
LEMMA SenderHasState ==
  ASSUME SessionInv, NEW m \in net
  PROVE  /\ m.from \in Parties /\ ss[m.from] # Nil
         /\ m.senderSessionPub # ss[m.from].next
  BY DEF SessionInv, MessagesGood, Older

(* What the pairing needs to know of a session state.                       *)
LEMMA StateFacts ==
  ASSUME SessionInv, NEW p \in Parties, ss[p] # Nil
  PROVE  /\ ss[p].next # ss[p].senderSessionPub
         /\ ss[p].next # KeyInit(p) /\ ss[p].seen # KeyInit(Peer(p))
         /\ ss[p].seen # Nil => ss[p].next # Nil
         /\ ss[p].recipientTemp = KeyInit(Peer(p)) =>
              ss[p].senderSessionPub # KeyInit(p)
         /\ Current(ss[p]) \in DOMAIN sessions[p]
<1>1. GoodState(p, sessions[p], sessions[Peer(p)], created, ss[p])
  BY DEF SessionInv, StatesGood
<1>2. Nil # KeyInit(p) /\ Nil # KeyInit(Peer(p))
  BY Peers, NilIsNil DEF KeyInit, KeyEntries
<1>3. ASSUME NEW r, NEW n PROVE KeyInit(r) \notin SessionKeysOf(r, n)
  BY DEF KeyInit, SessionKeysOf
<1>4. /\ ss[p].next # KeyInit(p) /\ ss[p].seen # KeyInit(Peer(p))
      /\ ss[p].next # ss[p].senderSessionPub
      /\ ss[p].seen # Nil => ss[p].next # Nil
      /\ Current(ss[p]) \in DOMAIN sessions[p]
  BY <1>1, <1>2, <1>3 DEF GoodState
<1>5. Current(ss[p])[1] = ss[p].senderSessionPub /\ Current(ss[p])[2] = ss[p].recipientTemp
  BY DEF Current
<1> QED BY <1>4, <1>5, OneKeyInit

(* In the session it began, a party uses a key of its own.                  *)
OwnKeyInFirst ==
  \A p \in Parties :
    ss[p] # Nil /\ ss[p].recipientTemp = KeyInit(Peer(p)) =>
      ss[p].senderSessionPub # KeyInit(p)

(* The same in the state after a step.                                      *)
LEMMA OwnKey == SessionInv' => OwnKeyInFirst'
<1>1. SessionInv => OwnKeyInFirst
  BY StateFacts DEF OwnKeyInFirst
<1> QED BY <1>1, PTL

(* A step of p leaves the peer's state and store alone.                     *)
PeerKept(p) ==
  /\ ss'[Peer(p)] = ss[Peer(p)]
  /\ sessions'[Peer(p)] = sessions[Peer(p)]

(* What Encrypt does to the messages: nothing, or it adds one of p's new    *)
(* state.                                                                   *)
AddsMessage(p) ==
  \/ /\ net' = net
     /\ \/ ss'[p].messageCount = 0
        \/ ss[p] # Nil /\ ss'[p].messageCount = ss[p].messageCount
  \/ \E x : /\ net' = net \cup {x}
            /\ x.from = p
            /\ Within(x, ss'[p])
            /\ x.next = ss'[p].next
            /\ x.seen = ss'[p].seen

(* p begins its first session.                                              *)
Begins(p) ==
  /\ ss[p] = Nil
  /\ ss'[p].keyInitSession
  /\ ss'[p].recipientTemp = KeyInit(Peer(p))
  /\ ss'[p].seen = Nil

(* p stays in its session; it may offer or acknowledge its first key there. *)
Stays(p) ==
  /\ ss[p] # Nil
  /\ ss'[p].senderSessionPub = ss[p].senderSessionPub
  /\ ss'[p].recipientTemp = ss[p].recipientTemp
  /\ ss'[p].keyInitSession = ss[p].keyInitSession
  /\ ss[p].next \in {Nil, ss'[p].next}
  /\ ss[p].seen \in {Nil, ss'[p].seen}

(* p moves to a session that it did not begin and has sent nothing in.      *)
Moves(p) ==
  /\ ~ss'[p].keyInitSession
  /\ ss'[p].recipientTemp # KeyInit(Peer(p))
  /\ ss'[p].messageCount = 0
  /\ net' = net

(* The parts of PairInv that are about one party.                           *)
Own(p) == FirstSession(p) /\ OffersStable(p) /\ CountedSent(p)

(* The peer of the acting party keeps its part.                             *)
LEMMA PeerOwn ==
  ASSUME NEW p \in Parties, PeerKept(p), net' = net \/ AddsMessage(p),
         Own(Peer(p))
  PROVE  Own(Peer(p))'
<1> DEFINE q == Peer(p)
<1>1. q # p /\ ss'[q] = ss[q]
  BY Peers DEF PeerKept
<1>2. net \subseteq net' /\ \A m \in net' : m.from = q => m \in net
  BY <1>1 DEF AddsMessage
<1>3. FirstSession(q)'
  BY <1>1, <1>2 DEF Own, FirstSession, Within
<1>4. OffersStable(q)'
  BY <1>1, <1>2 DEF Own, OffersStable, Within
<1>5. CountedSent(q)'
  BY <1>1, <1>2 DEF Own, CountedSent, Within
<1> QED BY <1>3, <1>4, <1>5 DEF Own

(* The first session has its part: nothing was sent before.                 *)
LEMMA BeginsOwn ==
  ASSUME SessionInv, NEW p \in Parties, Begins(p), AddsMessage(p)
  PROVE  Own(p)'
<1>1. \A m \in net : m.from # p
  BY SenderHasState DEF Begins
<1>2. CASE net' = net /\ ss'[p].messageCount = 0
  BY <1>1, <1>2 DEF Begins, Own, FirstSession, OffersStable, CountedSent
<1>3. CASE \E x : /\ net' = net \cup {x} /\ x.from = p /\ Within(x, ss'[p])
                  /\ x.next = ss'[p].next /\ x.seen = ss'[p].seen
  BY <1>1, <1>3 DEF Begins, Own, FirstSession, OffersStable, CountedSent, Within
<1> QED BY <1>2, <1>3 DEF AddsMessage, Begins

(* A step within the session keeps the part of the acting party.            *)
LEMMA StaysOwn ==
  ASSUME NEW p \in Parties, Own(p), Stays(p), AddsMessage(p)
  PROVE  Own(p)'
<1>1. CASE net' = net /\ (ss'[p].messageCount = 0
                          \/ ss'[p].messageCount = ss[p].messageCount)
  BY <1>1 DEF Stays, Own, FirstSession, OffersStable, CountedSent, Within
<1>2. CASE \E x : /\ net' = net \cup {x} /\ x.from = p /\ Within(x, ss'[p])
                  /\ x.next = ss'[p].next /\ x.seen = ss'[p].seen
  <2>1. PICK x : /\ net' = net \cup {x} /\ x.from = p /\ Within(x, ss'[p])
                 /\ x.next = ss'[p].next /\ x.seen = ss'[p].seen
    BY <1>2
  <2>2. FirstSession(p)'
    BY <2>1 DEF Stays, Own, FirstSession, Within
  <2>3. OffersStable(p)'
    BY <2>1 DEF Stays, Own, OffersStable, Within
  <2>4. CountedSent(p)'
    BY <2>1 DEF CountedSent
  <2> QED BY <2>2, <2>3, <2>4 DEF Own
<1> QED BY <1>1, <1>2 DEF AddsMessage

(* In the session p moves to, p has sent nothing yet.                       *)
LEMMA MovesOwn ==
  ASSUME SessionInv', NEW p \in Parties, Moves(p)
  PROVE  Own(p)'
<1>1. ASSUME NEW m \in net', m.from = p PROVE ~Within(m, ss'[p])
  <2>1. Older(m, ss'[p]) /\ m.messageCount \in Nat
    BY <1>1 DEF SessionInv, MessagesGood, TypeOK
  <2>2. Mirror(SessionKey(m)) = <<m.senderSessionPub, m.recipientTemp>>
    BY DEF Mirror, SessionKey
  <2> QED BY <2>1, <2>2 DEF Moves, Older, Current, Within
<1> QED BY <1>1 DEF Moves, Own, FirstSession, OffersStable, CountedSent

(* The tail of Encrypt: p's state is st or st with one more message         *)
(* counted, which is then sent, and no session but st's can be new.         *)
LEMMA SealShape ==
  ASSUME NEW p \in Parties, NEW st \in SessionStates, NEW store, NEW tooLong,
         DOMAIN ss = Parties, DOMAIN sessions = Parties,
         Seal(p, st, store, tooLong),
         st.messageCount = 0 \/ (ss[p] # Nil /\ st.messageCount = ss[p].messageCount)
  PROVE  /\ PeerKept(p) /\ AddsMessage(p) /\ ss'[p] # Nil
         /\ ss'[p].senderSessionPub = st.senderSessionPub
         /\ ss'[p].recipientTemp = st.recipientTemp
         /\ ss'[p].keyInitSession = st.keyInitSession
         /\ ss'[p].next = st.next /\ ss'[p].seen = st.seen
         /\ DOMAIN sessions'[p] \subseteq DOMAIN store \cup {Current(st)}
<1>1. Peer(p) # p /\ Peer(p) \in Parties
  BY Peers
<1>2. /\ PeerKept(p)
      /\ \/ net' = net /\ ss'[p] = st
         \/ /\ \E key : net' = net \cup {Message(p, st, key)}
            /\ ss'[p] = [st EXCEPT !.messageCount = @ + 1]
  BY <1>1, Zenon DEF Seal, PeerKept
<1>3. /\ ss'[p].senderSessionPub = st.senderSessionPub
      /\ ss'[p].recipientTemp = st.recipientTemp
      /\ ss'[p].keyInitSession = st.keyInitSession
      /\ ss'[p].next = st.next /\ ss'[p].seen = st.seen
      /\ ss'[p] \in SessionStates
  BY <1>2 DEF SessionStates
<1>4. AddsMessage(p)
  <2>1. CASE net' = net /\ ss'[p] = st
    BY <2>1 DEF AddsMessage
  <2>2. ASSUME NEW key, net' = net \cup {Message(p, st, key)} PROVE AddsMessage(p)
    <3> DEFINE x == Message(p, st, key)
    <3>1. /\ x.from = p /\ x.senderSessionPub = st.senderSessionPub
          /\ x.recipientTemp = st.recipientTemp /\ x.next = st.next /\ x.seen = st.seen
      BY DEF Message
    <3> HIDE DEF x
    <3> QED BY <1>3, <2>2, <3>1 DEF AddsMessage, Within, x
  <2> QED BY <1>2, <2>1, <2>2
<1>5. DOMAIN sessions'[p] \subseteq DOMAIN store \cup {Current(st)}
  <2> DEFINE sk == Current(st)
             more == generateMessageKeys(store, store[sk].chainKey, FALSE,
                       st.senderSessionPub, st.recipientTemp, NumOfKeys)
  <2>1. DOMAIN more = DOMAIN store \cup {sk}
    BY DEF generateMessageKeys, StoreSession, Current
  <2>2. ASSUME NEW s, NEW i PROVE DOMAIN DelMessageKey(s, sk, TRUE, i) = DOMAIN s
    BY DEF DelMessageKey
  <2>3. \/ sessions'[p] = store
        \/ \E i : sessions'[p] = DelMessageKey(store, sk, TRUE, i)
        \/ sessions'[p] = more
        \/ \E i : sessions'[p] = DelMessageKey(more, sk, TRUE, i)
    <3> HIDE DEF more
    <3> QED BY Zenon DEF Seal, Current, more
  <2>4. DOMAIN sessions'[p] \subseteq DOMAIN store \cup {sk}
    <3> HIDE DEF more, sk
    <3> QED BY <2>1, <2>2, <2>3, Zenon
  <2> QED BY <2>4
<1> QED BY <1>2, <1>3, <1>4, <1>5, NilIsNil

(* Encrypt begins a session or stays in one.                                *)
LEMMA EncryptShape ==
  ASSUME SessionInv, NEW p \in Parties, Encrypt(p)
  PROVE  /\ PeerKept(p) /\ AddsMessage(p) /\ ss'[p] # Nil
         /\ \/ Begins(p)
            \/ Stays(p) /\ ss'[p].seen = ss[p].seen
         /\ DOMAIN sessions'[p] \subseteq DOMAIN sessions[p] \cup {Current(ss'[p])}
<1>1. DOMAIN ss = Parties /\ DOMAIN sessions = Parties
  BY DEF SessionInv, TypeOK
<1>2. ss[p] # Nil => ss[p] \in SessionStates
  BY DEF SessionInv, TypeOK
<1>3. ASSUME NEW tooLong, EncryptFirst(p, tooLong)
      PROVE  /\ PeerKept(p) /\ AddsMessage(p) /\ Begins(p) /\ ss'[p] # Nil
             /\ DOMAIN sessions'[p] \subseteq DOMAIN sessions[p] \cup {Current(ss'[p])}
  <2> DEFINE st == FirstState(p)
             store == rootKeyAgreementSender(sessions[p], NewKey(p), KeyInit(Peer(p)), Nil)
  <2>1. /\ st \in SessionStates /\ st.messageCount = 0 /\ st.keyInitSession
        /\ st.recipientTemp = KeyInit(Peer(p)) /\ st.seen = Nil
        /\ Current(st) = <<NewKey(p), KeyInit(Peer(p))>>
    BY Fresh, Peers DEF FirstState, SessionStates, KeyEntries, KeyInit, Current
  <2>2. DOMAIN store = DOMAIN sessions[p] \cup {Current(st)}
    BY <2>1 DEF rootKeyAgreementSender, generateMessageKeys, StoreSession
  <2>3. ss[p] = Nil /\ Seal(p, st, store, tooLong)
    BY <1>3 DEF EncryptFirst
  <2> HIDE DEF st, store
  <2>4. Current(ss'[p]) = Current(st)
    BY <1>1, <2>1, <2>3, SealShape DEF Current
  <2> QED BY <1>1, <2>1, <2>2, <2>3, <2>4, SealShape DEF Begins
<1>4. ASSUME NEW tooLong, NEW st \in SessionStates, ss[p] # Nil,
             Seal(p, st, sessions[p], tooLong),
             st = ss[p] \/ (ss[p].next = Nil /\ st = [ss[p] EXCEPT !.next = NewKey(p)])
      PROVE  /\ PeerKept(p) /\ AddsMessage(p) /\ Stays(p) /\ ss'[p].seen = ss[p].seen
             /\ ss'[p] # Nil
             /\ DOMAIN sessions'[p] \subseteq DOMAIN sessions[p] \cup {Current(ss'[p])}
  <2>1. /\ st.senderSessionPub = ss[p].senderSessionPub
        /\ st.recipientTemp = ss[p].recipientTemp
        /\ st.keyInitSession = ss[p].keyInitSession
        /\ st.seen = ss[p].seen
        /\ st.messageCount = ss[p].messageCount
        /\ ss[p].next \in {Nil, st.next}
    BY <1>2, <1>4 DEF SessionStates
  <2>2. Current(ss'[p]) = Current(st)
    BY <1>1, <1>4, <2>1, SealShape DEF Current
  <2> QED BY <1>1, <1>4, <2>1, <2>2, SealShape DEF Stays
<1>5. ASSUME NEW tooLong, EncryptNext(p, tooLong)
      PROVE  /\ PeerKept(p) /\ AddsMessage(p) /\ Stays(p) /\ ss'[p].seen = ss[p].seen
             /\ ss'[p] # Nil
             /\ DOMAIN sessions'[p] \subseteq DOMAIN sessions[p] \cup {Current(ss'[p])}
  BY <1>2, <1>4, <1>5 DEF EncryptNext
<1>6. ASSUME NEW tooLong, EncryptOffer(p, tooLong)
      PROVE  /\ PeerKept(p) /\ AddsMessage(p) /\ Stays(p) /\ ss'[p].seen = ss[p].seen
             /\ ss'[p] # Nil
             /\ DOMAIN sessions'[p] \subseteq DOMAIN sessions[p] \cup {Current(ss'[p])}
  <2>1. [ss[p] EXCEPT !.next = NewKey(p)] \in SessionStates
    BY <1>2, <1>6, Fresh DEF EncryptOffer, SessionStates, KeyEntries
  <2> QED BY <1>4, <1>6, <2>1 DEF EncryptOffer
<1> QED BY <1>3, <1>5, <1>6 DEF Encrypt

(* The tail of Decrypt adds no session.                                     *)
LEMMA OpenShape ==
  ASSUME NEW p \in Parties, NEW m, NEW store, DOMAIN sessions = Parties,
         Open(p, m, store)
  PROVE  /\ sessions'[Peer(p)] = sessions[Peer(p)]
         /\ net' = net
         /\ DOMAIN sessions'[p] = DOMAIN store
<1>1. Peer(p) # p /\ Peer(p) \in Parties
  BY Peers
<1> DEFINE sk == SessionKey(m)
           more == generateMessageKeys(store, store[sk].chainKey, TRUE,
                     m.senderSessionPub, m.recipientTemp, TopUp(m.messageCount))
<1>2. DOMAIN more = DOMAIN store \cup {sk}
  BY DEF generateMessageKeys, StoreSession, SessionKey
<1>3. ASSUME NEW s, NEW i PROVE DOMAIN DelMessageKey(s, sk, FALSE, i) = DOMAIN s
  BY DEF DelMessageKey
<1>4. \/ sessions'[p] = store
      \/ \E i : sessions'[p] = DelMessageKey(store, sk, FALSE, i)
      \/ sk \in DOMAIN store /\ sessions'[p] = more
      \/ sk \in DOMAIN store /\ \E i : sessions'[p] = DelMessageKey(more, sk, FALSE, i)
  <2> HIDE DEF more, sk
  <2> QED BY Zenon DEF Open, more, sk
<1>5. DOMAIN sessions'[p] = DOMAIN store
  <2> HIDE DEF more, sk
  <2> QED BY <1>2, <1>3, <1>4, Zenon
<1> QED BY <1>1, <1>5, Zenon DEF Open

(* Encrypt begins a session of its own: the peer has none, or is in its own.*)
LEMMA BeginsPair ==
  ASSUME SessionInv, SessionInv', PairInv, NEW p \in Parties,
         PeerKept(p), AddsMessage(p), Begins(p), ss'[p] # Nil,
         DOMAIN sessions'[p] \subseteq DOMAIN sessions[p] \cup {Current(ss'[p])}
  PROVE  PairInv'
<1> DEFINE q == Peer(p)
<1>1. q \in Parties /\ q # p /\ Peer(q) = p /\ \A r \in Parties : r = p \/ r = q
  BY Peers
<1>2. ss'[q] = ss[q] /\ sessions'[q] = sessions[q]
  BY DEF PeerKept
<1>3. \A r \in Parties : Own(r)'
  BY <1>1, BeginsOwn, PeerOwn DEF PairInv, Own
<1>4. ss[q] # Nil => ss[q].keyInitSession /\ ss[q].seen = Nil
  BY <1>1 DEF PairInv, NotAnswered, Begins
<1>5. NotAnswered(p)' /\ NotAnswered(q)'
  BY <1>1 DEF Begins, NotAnswered
<1>6. Paired'
  BY <1>1, <1>2, <1>4 DEF Paired, Racing, Begins
<1>7. SmallerPrevails'
  <2>1. p = B => ss[A] = ss'[A] /\ q = A
    BY <1>1, <1>2 DEF Parties
  <2>2. p = A => ss'[B] = ss[B] /\ sessions'[B] = sessions[B]
    BY <1>1, <1>2 DEF Parties, Peer
  <2>3. p = A \/ p = B
    BY DEF Parties
  <2>4. \A m \in net' : m.from = A /\ m.recipientTemp = KeyInit(B) => ss'[A].keyInitSession
    <3>1. CASE p = A
      BY <3>1 DEF Begins
    <3>2. CASE p = B
      <4>1. ASSUME NEW m \in net', m.from = A PROVE m \in net
        BY <1>1, <2>1, <3>2, <4>1 DEF AddsMessage
      <4>2. ASSUME NEW m \in net', m.from = A PROVE ss[A] # Nil
        BY <4>1, <4>2, SenderHasState
      <4> QED BY <1>4, <2>1, <3>2, <4>2
    <3> QED BY <2>3, <3>1, <3>2
  <2>5. ss'[B] # Nil /\ ss'[B].keyInitSession =>
          \A sk \in DOMAIN sessions'[B] : sk[1] # KeyInit(B)
    <3>1. CASE p = A
      BY <2>2, <3>1 DEF PairInv, SmallerPrevails
    <3>2. CASE p = B
      <4>1. DOMAIN sessions[p] = {}
        BY DEF SessionInv, StatesGood, Begins
      <4>2. ss'[p].senderSessionPub # KeyInit(p)
        BY OwnKey DEF Begins, OwnKeyInFirst
      <4>3. Current(ss'[p])[1] = ss'[p].senderSessionPub
        BY DEF Current
      <4> QED BY <3>2, <4>1, <4>2, <4>3
    <3> QED BY <2>3, <3>1, <3>2
  <2> QED BY <2>4, <2>5 DEF SmallerPrevails
<1> QED BY <1>1, <1>3, <1>5, <1>6, <1>7 DEF PairInv, Own

(* Encrypt in the current session.                                          *)
LEMMA StaysPair ==
  ASSUME SessionInv, SessionInv', PairInv, NEW p \in Parties,
         PeerKept(p), AddsMessage(p), Stays(p), ss'[p].seen = ss[p].seen,
         ss'[p] # Nil,
         DOMAIN sessions'[p] \subseteq DOMAIN sessions[p] \cup {Current(ss'[p])}
  PROVE  PairInv'
<1> DEFINE q == Peer(p)
<1>1. q \in Parties /\ q # p /\ Peer(q) = p /\ \A r \in Parties : r = p \/ r = q
  BY Peers
<1>2. ss'[q] = ss[q] /\ sessions'[q] = sessions[q]
  BY DEF PeerKept
<1>3. \A r \in Parties : Own(r)'
  BY <1>1, StaysOwn, PeerOwn DEF PairInv, Own
<1>4. NotAnswered(p)' /\ NotAnswered(q)'
  BY <1>1, <1>2 DEF Stays, NotAnswered, PairInv
<1>5. \A m \in net' : m \in net \/ (m.from = p /\ Within(m, ss'[p]))
  BY DEF AddsMessage
<1>6. Paired'
  <2> SUFFICES ASSUME ss[q] # Nil
               PROVE  Together' \/ Racing' \/ \E r \in Parties : Ahead(r)'
    BY <1>1, <1>2 DEF Paired
  <2> HIDE DEF q
  <2>1. CASE Together
    <3>1. /\ ss[p].senderSessionPub = ss[q].recipientTemp
          /\ ss[q].senderSessionPub = ss[p].recipientTemp
          /\ ss[p].seen \in {Nil, ss[q].next} /\ ss[q].seen \in {Nil, ss[p].next}
      BY <1>1, <2>1 DEF Together, q
    <3>2. Together'
      BY <1>1, <1>2, <3>1 DEF Together, Stays, q
    <3> QED BY <3>2
  <2>2. CASE Racing
    BY <1>1, <1>2, <2>2 DEF Racing, Stays
  <2>3. CASE Ahead(p)
    <3>1. ss[q].next # ss[q].senderSessionPub
      BY <1>1, StateFacts
    <3>2. ASSUME NEW m \in net', m.from = p,
                 m.recipientTemp = ss[q].senderSessionPub,
                 m.senderSessionPub = ss[q].recipientTemp
          PROVE  m \in net
      BY <1>5, <2>3, <3>1, <3>2 DEF Ahead, Stays, Within, q
    <3>3. Ahead(p)'
      BY <1>2, <2>3, <3>2 DEF Ahead, Stays, q
    <3> QED BY <3>3
  <2>4. CASE Ahead(q)
    BY <1>1, <1>2, <1>5, <2>4 DEF Ahead, Stays
  <2> QED BY <1>1, <2>1, <2>2, <2>3, <2>4 DEF PairInv, Paired, Stays
<1>7. SmallerPrevails'
  <2>1. p = B => ss[A] = ss'[A]
    BY <1>1, <1>2 DEF Parties
  <2>2. p = A => ss'[B] = ss[B] /\ sessions'[B] = sessions[B]
    BY <1>1, <1>2 DEF Parties, Peer
  <2>3. p = A \/ p = B
    BY DEF Parties
  <2>4. ss'[A].keyInitSession = ss[A].keyInitSession
        /\ (ss'[B] # Nil /\ ~ss'[B].keyInitSession <=> ss[B] # Nil /\ ~ss[B].keyInitSession)
    BY <2>1, <2>2, <2>3 DEF Stays
  <2>5. ASSUME NEW m \in net', m.from = A, m.recipientTemp = KeyInit(B), m \notin net
        PROVE  ss[A].keyInitSession
    <3>1. p = A /\ ss[A].recipientTemp = KeyInit(Peer(A))
      BY <1>5, <2>5 DEF Within, Stays, Peer
    <3> QED BY <3>1 DEF PairInv, FirstSession, Stays
  <2>6. ss'[B] # Nil /\ ss'[B].keyInitSession =>
          \A sk \in DOMAIN sessions'[B] : sk[1] # KeyInit(B)
    <3>1. CASE p = A
      BY <2>2, <3>1 DEF PairInv, SmallerPrevails
    <3>2. CASE p = B
      <4> SUFFICES ASSUME ss'[p].keyInitSession
                   PROVE  \A sk \in DOMAIN sessions'[p] : sk[1] # KeyInit(p)
        BY <3>2
      <4>1. ss'[p].senderSessionPub # KeyInit(p)
        BY <1>3, OwnKey DEF Own, FirstSession, OwnKeyInFirst
      <4>2. Current(ss'[p])[1] = ss'[p].senderSessionPub
        BY DEF Current
      <4>3. \A sk \in DOMAIN sessions[p] : sk[1] # KeyInit(p)
        BY <3>2, Zenon DEF Stays, PairInv, SmallerPrevails
      <4> QED BY <4>1, <4>2, <4>3
    <3> QED BY <2>3, <3>1, <3>2
  <2>7. \A m \in net : m.from = A /\ m.recipientTemp = KeyInit(B) =>
          ss[A].keyInitSession \/ (ss[B] # Nil /\ ~ss[B].keyInitSession)
    BY DEF PairInv, SmallerPrevails
  <2> QED BY <2>4, <2>5, <2>6, <2>7 DEF SmallerPrevails
<1> QED BY <1>1, <1>3, <1>4, <1>6, <1>7 DEF PairInv, Own

(* Decrypt moves p to another session.  What remains to be shown for each   *)
(* such step is that the two states fit, and that the smaller identity's    *)
(* session prevails.                                                        *)
LEMMA MovesPair ==
  ASSUME SessionInv, SessionInv', PairInv, NEW p \in Parties,
         PeerKept(p), Moves(p), ss'[p] # Nil, ss[Peer(p)] # Nil,
         Together' \/ Ahead(p)',
         ASSUME p = A, ss[B].keyInitSession, NEW x \in net, x.from = A,
                x.recipientTemp = KeyInit(B)
         PROVE  FALSE
  PROVE  PairInv'
<1> DEFINE q == Peer(p)
<1>1. q \in Parties /\ q # p /\ Peer(q) = p /\ \A r \in Parties : r = p \/ r = q
  BY Peers
<1>2. ss'[q] = ss[q] /\ sessions'[q] = sessions[q]
  BY DEF PeerKept
<1>3. \A r \in Parties : Own(r)'
  BY <1>1, MovesOwn, PeerOwn DEF PairInv, Own, Moves
<1>4. NotAnswered(p)' /\ NotAnswered(q)'
  BY <1>1, <1>2 DEF NotAnswered
<1>5. Paired'
  BY DEF Paired
<1>6. SmallerPrevails'
  <2>1. CASE p = A
    <3>1. ss'[B] = ss[B] /\ sessions'[B] = sessions[B] /\ ss[B] # Nil
      BY <1>2, <2>1 DEF Peer
    <3> QED BY <2>1, <3>1 DEF PairInv, SmallerPrevails, Moves
  <2>2. CASE p = B
    BY <2>2 DEF SmallerPrevails, Moves
  <2> QED BY <2>1, <2>2 DEF Parties
<1> QED BY <1>1, <1>3, <1>4, <1>5, <1>6 DEF PairInv, Own

(* A message of a peer that is still in the session it began does not       *)
(* belong to the session p began.                                           *)
LEMMA NotReflected ==
  ASSUME SessionInv, PairInv, NEW p \in Parties, NEW m \in net,
         m.from = Peer(p), ss[p] # Nil, ss[p].keyInitSession,
         ss[Peer(p)].keyInitSession
  PROVE  ~Reflects(p, m)
<1>1. Peer(p) \in Parties /\ Peer(Peer(p)) = p /\ ss[Peer(p)] # Nil
  BY Peers, SenderHasState
<1>2. m.recipientTemp = KeyInit(p)
  BY <1>1 DEF PairInv, FirstSession, Within
<1>3. ss[p].senderSessionPub # KeyInit(p)
  BY StateFacts DEF PairInv, FirstSession
<1> QED BY <1>2, <1>3 DEF Reflects

(* A message that reflects p's session was sent in the peer's current       *)
(* session, or p is behind.                                                 *)
LEMMA ReflectedPair ==
  ASSUME SessionInv, PairInv, NEW p \in Parties, NEW m \in net,
         m.from = Peer(p), ss[p] # Nil, Reflects(p, m)
  PROVE  /\ ss[Peer(p)] # Nil
         /\ \/ Together /\ Within(m, ss[Peer(p)])
            \/ Ahead(Peer(p))
<1> DEFINE q == Peer(p)
<1>1. q \in Parties /\ Peer(q) = p /\ \A r \in Parties : r = p \/ r = q
  BY Peers
<1>2. ss[q] # Nil /\ m.senderSessionPub # ss[q].next
  BY SenderHasState
<1>3. Together \/ Racing \/ Ahead(p) \/ Ahead(q)
  BY <1>1, <1>2 DEF PairInv, Paired
<1>4. ~Racing
  BY <1>1, NotReflected DEF Racing
<1>5. ~Ahead(p)
  BY <1>2 DEF Ahead, Reflects
<1>6. Together => Within(m, ss[q])
  BY <1>1 DEF Together, Within, Reflects
<1> QED BY <1>2, <1>3, <1>4, <1>5, <1>6

(* Decrypt on a store that holds a session leaves p with a session state.   *)
LEMMA OpenHasState ==
  ASSUME SessionInv, SessionInv', NEW p \in Parties, NEW m, NEW store,
         Open(p, m, store), DOMAIN store # {}
  PROVE  ss'[p] # Nil
<1>1. DOMAIN sessions'[p] # {}
  BY OpenShape DEF SessionInv, TypeOK
<1> QED BY <1>1 DEF SessionInv, StatesGood

(* Decrypt, and p's peer has seen p's offer: p gets ahead or catches up.    *)
LEMMA SwitchPair ==
  ASSUME SessionInv, SessionInv', PairInv, NEW p \in Parties, NEW m \in net,
         DecryptSwitch(p, m)
  PROVE  PairInv'
<1> DEFINE q == Peer(p)
<1>1. q \in Parties /\ q # p /\ Peer(q) = p /\ \A r \in Parties : r = p \/ r = q
  BY Peers
<1>2. /\ m.from = q /\ Reflects(p, m) /\ m.next # Nil /\ ss[p].next # Nil
      /\ m.seen = ss[p].next /\ DOMAIN sessions[p] # {}
  BY DEF DecryptSwitch, Known, Arrives, Unknown, Switches
<1>3. ss[p] # Nil
  BY <1>2, HasState
<1>4. /\ ss'[p].recipientTemp = m.next /\ ss'[p].senderSessionPub = ss[p].next
      /\ ss'[p].next = Nil /\ ss'[p].seen = Nil /\ ss'[p].messageCount = 0
      /\ ss'[p].keyInitSession = FALSE /\ ss'[q] = ss[q]
      /\ sessions'[q] = sessions[q] /\ net' = net /\ ss'[p] # Nil
  <2>1. DOMAIN ss = Parties /\ DOMAIN sessions = Parties
    BY DEF SessionInv, TypeOK
  <2>2. ss' = [ss EXCEPT ![p] = NextState(p, m.next, ss[p].next)]
    BY DEF DecryptSwitch
  <2>3. PICK store : Open(p, m, store) /\ DOMAIN store # {}
    <3> DEFINE store == rootKeyAgreementRecipient(sessions[p], m.next, ss[p].next,
                          sessions[p][SessionKey(m)].rootKeyHash)
    <3>1. DOMAIN store = DOMAIN sessions[p] \cup {<<ss[p].next, m.next>>}
      BY Zenon DEF rootKeyAgreementRecipient, generateMessageKeys, StoreSession
    <3>2. Open(p, m, store)
      BY DEF DecryptSwitch
    <3> HIDE DEF store
    <3> QED BY <3>1, <3>2, Zenon
  <2> QED BY <1>1, <2>1, <2>2, <2>3, OpenShape, OpenHasState DEF NextState
<1>5. m.next # KeyInit(q)
  BY <1>2, IncomingNext
<1>6. ss[q] # Nil /\ ((Together /\ Within(m, ss[q])) \/ Ahead(q))
  BY <1>2, <1>3, ReflectedPair
<1>7. Together' \/ Ahead(p)'
  <2>1. CASE Together /\ Within(m, ss[q])
    <3>1. m.next = ss[q].next /\ m.seen = ss[q].seen
      <4>1. m.seen # Nil
        BY <1>2
      <4> QED BY <1>1, <1>2, <2>1, <4>1 DEF PairInv, OffersStable
    <3>2. ASSUME NEW x \in net, x.from = p, x.recipientTemp = ss[q].senderSessionPub,
                 x.senderSessionPub = ss[q].recipientTemp
          PROVE  x.next \in {Nil, ss[p].next}
      <4>1. Within(x, ss[p])
        BY <1>1, <2>1, <3>2 DEF Together, Within
      <4> QED BY <3>2, <4>1 DEF PairInv, OffersStable
    <3>3. Ahead(p)'
      BY <1>2, <1>4, <3>1, <3>2 DEF Ahead
    <3> QED BY <3>3
  <2>2. CASE Ahead(q)
    <3>1. /\ ss[q].senderSessionPub = ss[p].seen /\ ss[q].recipientTemp = ss[p].next
          /\ ss[q].seen = Nil /\ m.next \in {Nil, ss[p].seen}
      BY <1>1, <1>2, <2>2 DEF Ahead, Reflects
    <3>2. Together'
      BY <1>1, <1>2, <1>4, <3>1 DEF Together
    <3> QED BY <3>2
  <2> QED BY <1>6, <2>1, <2>2
<1>8. ASSUME p = A, ss[B].keyInitSession, NEW x \in net, x.from = A,
             x.recipientTemp = KeyInit(B)
      PROVE  FALSE
  <2>1. q = B
    BY <1>8 DEF Peer
  <2>2. ss[p].keyInitSession
    BY <1>6, <1>8, <2>1 DEF PairInv, SmallerPrevails
  <2> QED BY <1>2, <1>3, <1>8, <2>1, <2>2, NotReflected
<1> QED BY <1>1, <1>4, <1>5, <1>6, <1>7, <1>8, MovesPair, Zenon DEF PeerKept, Moves

(* Decrypt of a message in the session p has prepared: p catches up.        *)
LEMMA FollowPair ==
  ASSUME SessionInv, SessionInv', PairInv, NEW p \in Parties, NEW m \in net,
         DecryptFollow(p, m)
  PROVE  PairInv'
<1> DEFINE q == Peer(p)
<1>1. q \in Parties /\ q # p /\ Peer(q) = p /\ \A r \in Parties : r = p \/ r = q
  BY Peers
<1>2. /\ m.from = q /\ ss[p].next # Nil /\ ss[p].seen # Nil
      /\ ss[p].next = m.recipientTemp /\ ss[p].seen = m.senderSessionPub
      /\ DOMAIN sessions[p] # {}
  BY DEF DecryptFollow, Known, Arrives, Unknown, MatchesNext
<1>3. ss[p] # Nil
  BY <1>2, HasState
<1>4. /\ ss'[p].recipientTemp = ss[p].seen /\ ss'[p].senderSessionPub = ss[p].next
      /\ ss'[p].next = Nil /\ ss'[p].seen = Nil /\ ss'[p].messageCount = 0
      /\ ss'[p].keyInitSession = FALSE /\ ss'[q] = ss[q]
      /\ sessions'[q] = sessions[q] /\ net' = net /\ ss'[p] # Nil
  <2>1. DOMAIN ss = Parties /\ DOMAIN sessions = Parties
    BY DEF SessionInv, TypeOK
  <2>2. ss' = [ss EXCEPT ![p] = NextState(p, m.senderSessionPub, ss[p].next)]
        /\ Open(p, m, sessions[p])
    BY DEF DecryptFollow
  <2> QED BY <1>1, <1>2, <2>1, <2>2, OpenShape, OpenHasState DEF NextState
<1>5. ss[q] # Nil /\ m.senderSessionPub # ss[q].next
  BY <1>2, SenderHasState
<1>6. Ahead(q)
  <2>1. Together \/ Racing \/ Ahead(p) \/ Ahead(q)
    BY <1>1, <1>3, <1>5 DEF PairInv, Paired
  <2>2. ~Together /\ ~Racing /\ ~Ahead(p)
    BY <1>2, <1>5 DEF Together, Racing, Ahead
  <2> QED BY <2>1, <2>2
<1>7. /\ ss[q].senderSessionPub = ss[p].seen /\ ss[q].recipientTemp = ss[p].next
      /\ ss[q].seen = Nil
  BY <1>1, <1>6 DEF Ahead
<1>8. Together'
  BY <1>1, <1>4, <1>7 DEF Together
<1>9. ~ss[q].keyInitSession /\ ss[p].seen # KeyInit(q)
  BY <1>1, <1>3, <1>5, <1>7, StateFacts, Zenon DEF PairInv, FirstSession
<1>10. p = A => q = B
  BY DEF Peer
<1> QED BY <1>4, <1>5, <1>8, <1>9, <1>10, MovesPair, Zenon DEF PeerKept, Moves

(* Decrypt adopts the session that the peer began.                          *)
LEMMA AdoptPair ==
  ASSUME SessionInv, SessionInv', PairInv, NEW p \in Parties, NEW m \in net,
         DecryptAdopt(p, m)
  PROVE  PairInv'
<1> DEFINE q == Peer(p)
<1>1. q \in Parties /\ q # p /\ Peer(q) = p /\ \A r \in Parties : r = p \/ r = q
  BY Peers
<1>2. /\ m.from = q /\ m.recipientTemp = KeyInit(p)
      /\ ss[p] # Nil => ss[p].keyInitSession /\ m.from = A
  BY Zenon DEF DecryptAdopt, Arrives, Adopts
<1>3. /\ ss'[p].recipientTemp = m.senderSessionPub
      /\ ss'[p].senderSessionPub = KeyInit(p)
      /\ ss'[p].seen = m.next /\ ss'[p].messageCount = 0
      /\ ss'[p].keyInitSession = FALSE /\ ss'[q] = ss[q]
      /\ sessions'[q] = sessions[q] /\ net' = net /\ ss'[p] # Nil
  <2>1. DOMAIN ss = Parties /\ DOMAIN sessions = Parties
    BY DEF SessionInv, TypeOK
  <2> DEFINE st == [sessionCount |-> 0, messageCount |-> 0,
                    recipientTemp |-> m.senderSessionPub,
                    senderSessionPub |-> KeyInit(p),
                    next |-> NewKey(p), seen |-> m.next,
                    keyInitSession |-> FALSE]
  <2>2. ss' = [ss EXCEPT ![p] = st]
    BY DEF DecryptAdopt
  <2>3. PICK store : Open(p, m, store) /\ DOMAIN store # {}
    <3> DEFINE base == FromKeyInit(p, m)
               prev == base[SessionKey(m)].rootKeyHash
               ready == rootKeyAgreementSender(base, NewKey(p), m.next, prev)
    <3>1. SessionKey(m) \in DOMAIN base
      <4>1. base = rootKeyAgreementRecipient(sessions[p], m.senderSessionPub, KeyInit(p), Nil)
        BY <1>2 DEF FromKeyInit
      <4>2. DOMAIN base = DOMAIN sessions[p] \cup {<<KeyInit(p), m.senderSessionPub>>}
        BY <4>1, Zenon DEF rootKeyAgreementRecipient, generateMessageKeys, StoreSession
      <4> HIDE DEF base
      <4> QED BY <1>2, <4>2 DEF SessionKey
    <3>2. Open(p, m, IF m.next # Nil THEN ready ELSE base)
      BY DEF DecryptAdopt
    <3>3. DOMAIN ready = DOMAIN base \cup {<<NewKey(p), m.next>>}
      BY Zenon DEF rootKeyAgreementSender, generateMessageKeys, StoreSession
    <3> HIDE DEF base, ready
    <3> QED BY <3>1, <3>2, <3>3
  <2>4. ss'[p] # Nil
    BY <2>3, OpenHasState
  <2> QED BY <1>1, <2>1, <2>2, <2>3, <2>4, OpenShape
<1>4. ss[q] # Nil /\ (ss[p] # Nil => p = B /\ q = A)
  BY <1>1, <1>2, SenderHasState DEF Parties
<1>5. ss[q].keyInitSession /\ ss[q].seen = Nil
  <2>1. CASE ss[p] = Nil
    BY <1>1, <1>4, <2>1 DEF PairInv, NotAnswered
  <2>2. CASE ss[p] # Nil
    <3>1. ss[q].keyInitSession /\ ss[p].keyInitSession
      BY <1>2, <1>4, <2>2 DEF PairInv, SmallerPrevails
    <3>2. /\ ss[p].recipientTemp = KeyInit(q) /\ ss[q].recipientTemp = KeyInit(p)
          /\ ss[p].senderSessionPub # KeyInit(p)
          /\ ss[p].next # KeyInit(p) /\ ss[q].next # KeyInit(q)
      BY <1>1, <1>4, <2>2, <3>1, StateFacts DEF PairInv, FirstSession
    <3>3. ~Together /\ ~Ahead(p) /\ ~Ahead(q)
      BY <1>1, <3>2 DEF Together, Ahead
    <3>4. Racing
      BY <1>1, <1>4, <2>2, <3>3 DEF PairInv, Paired
    <3> QED BY <1>1, <3>4 DEF Racing
  <2> QED BY <2>1, <2>2
<1>6. /\ ss[q].recipientTemp = KeyInit(p) /\ Within(m, ss[q])
      /\ m.next \in {Nil, ss[q].next}
  BY <1>1, <1>2, <1>4, <1>5 DEF PairInv, FirstSession, OffersStable
<1>7. Together'
  BY <1>1, <1>3, <1>5, <1>6 DEF Together, Within
<1>8. m.senderSessionPub # KeyInit(q)
  BY <1>2, IncomingKeyInit, Zenon
<1>9. ASSUME p = A, NEW x \in net, x.from = A PROVE FALSE
  BY <1>4, <1>9, SenderHasState, TwoIdentities
<1> QED BY <1>3, <1>4, <1>7, <1>8, <1>9, MovesPair, Zenon DEF PeerKept, Moves

(* Decrypt in the current session, and the peer has offered a key.          *)
LEMMA PreparePair ==
  ASSUME SessionInv, SessionInv', PairInv, NEW p \in Parties, NEW m \in net,
         DecryptPrepare(p, m)
  PROVE  PairInv'
<1> DEFINE q == Peer(p)
<1>1. q \in Parties /\ q # p /\ Peer(q) = p /\ \A r \in Parties : r = p \/ r = q
  BY Peers
<1>2. /\ m.from = q /\ Reflects(p, m) /\ m.next # Nil /\ ss[p].next = Nil
      /\ DOMAIN sessions[p] # {}
  BY DEF DecryptPrepare, Known, Arrives, Unknown, Prepares
<1>3. ss[p] # Nil /\ ss[p].seen = Nil
  BY <1>2, HasState, StateFacts
<1>4. /\ Stays(p) /\ ss'[p].seen = m.next /\ ss'[p].messageCount = ss[p].messageCount
      /\ ss'[q] = ss[q] /\ sessions'[q] = sessions[q] /\ net' = net /\ ss'[p] # Nil
      /\ DOMAIN sessions'[p] = DOMAIN sessions[p] \cup {<<NewKey(p), m.next>>}
  <2>1. DOMAIN ss = Parties /\ DOMAIN sessions = Parties /\ ss[p] \in SessionStates
    BY <1>3 DEF SessionInv, TypeOK
  <2>2. ss' = [ss EXCEPT ![p] = [ss[p] EXCEPT !.next = NewKey(p), !.seen = m.next]]
    BY <1>3 DEF DecryptPrepare
  <2> DEFINE store == rootKeyAgreementSender(sessions[p], NewKey(p), m.next,
                        sessions[p][SessionKey(m)].rootKeyHash)
  <2>3. Open(p, m, store)
    BY DEF DecryptPrepare
  <2>4. DOMAIN store = DOMAIN sessions[p] \cup {<<NewKey(p), m.next>>}
    BY Zenon DEF rootKeyAgreementSender, generateMessageKeys, StoreSession
  <2> HIDE DEF store
  <2>5. /\ DOMAIN sessions'[p] = DOMAIN store /\ net' = net /\ ss'[p] # Nil
        /\ sessions'[q] = sessions[q]
    BY <1>2, <2>1, <2>3, <2>4, OpenShape, OpenHasState, Zenon
  <2>6. Stays(p) /\ ss'[p].seen = m.next /\ ss'[p].messageCount = ss[p].messageCount
    BY <1>2, <1>3, <2>1, <2>2 DEF Stays, SessionStates
  <2>7. ss'[q] = ss[q]
    BY <1>1, <2>1, <2>2
  <2> QED BY <2>4, <2>5, <2>6, <2>7
<1>5. AddsMessage(p) /\ PeerKept(p)
  BY <1>3, <1>4, Zenon DEF AddsMessage, PeerKept
<1>6. \A r \in Parties : Own(r)'
  BY <1>1, <1>4, <1>5, StaysOwn, PeerOwn, Zenon DEF PairInv, Own
<1>7. ss[q] # Nil /\ Together /\ Within(m, ss[q])
  <2>1. ~Ahead(q)
    BY <1>1, <1>2 DEF Ahead
  <2> QED BY <1>2, <1>3, <2>1, ReflectedPair
<1>8. NotAnswered(p)' /\ NotAnswered(q)'
  BY <1>1, <1>4, <1>7 DEF NotAnswered
<1>9. Paired'
  <2>1. m.next = ss[q].next
    BY <1>1, <1>2, <1>7 DEF PairInv, OffersStable
  <2>2. /\ ss[p].senderSessionPub = ss[q].recipientTemp
        /\ ss[q].senderSessionPub = ss[p].recipientTemp
        /\ ss[q].seen = Nil
    BY <1>1, <1>2, <1>7 DEF Together
  <2>3. Together'
    BY <1>1, <1>4, <2>1, <2>2 DEF Together, Stays
  <2> QED BY <2>3 DEF Paired
<1>10. SmallerPrevails'
  <2>1. CASE p = A
    <3>1. q = B
      BY <2>1 DEF Peer
    <3> QED BY <1>4, <2>1, <3>1, Zenon DEF PairInv, SmallerPrevails, Stays
  <2>2. CASE p = B
    <3>1. q = A
      BY <1>1, <2>2 DEF Parties
    <3>2. NewKey(p) # KeyInit(p)
      BY Fresh
    <3>3. ss'[B].keyInitSession = ss[B].keyInitSession /\ ss[B] # Nil
      BY <1>4, <2>2 DEF Stays
    <3>4. \A x \in net : x.from = A /\ x.recipientTemp = KeyInit(B) =>
            ss'[A].keyInitSession \/ (ss'[B] # Nil /\ ~ss'[B].keyInitSession)
      BY <1>4, <2>2, <3>1, <3>3 DEF PairInv, SmallerPrevails
    <3>5. ss'[B].keyInitSession => \A sk \in DOMAIN sessions'[B] : sk[1] # KeyInit(B)
      <4>1. <<NewKey(p), m.next>>[1] # KeyInit(B)
        BY <2>2, <3>2
      <4>2. ss[B].keyInitSession => \A sk \in DOMAIN sessions[B] : sk[1] # KeyInit(B)
        BY <3>3 DEF PairInv, SmallerPrevails
      <4>3. DOMAIN sessions'[B] = DOMAIN sessions[B] \cup {<<NewKey(p), m.next>>}
        BY <1>4, <2>2
      <4> QED BY <3>3, <4>1, <4>2, <4>3
    <3> QED BY <1>4, <3>4, <3>5, Zenon DEF SmallerPrevails
  <2> QED BY <2>1, <2>2 DEF Parties
<1> QED BY <1>1, <1>6, <1>8, <1>9, <1>10 DEF PairInv, Own

(* Decrypt keeps the session state.                                         *)
LEMMA KeepPair ==
  ASSUME SessionInv, SessionInv', PairInv, NEW p \in Parties, NEW m \in net,
         DecryptKeep(p, m) \/ DecryptPlain(p, m)
  PROVE  PairInv'
<1>1. PICK store : /\ Open(p, m, store) /\ ss' = ss /\ m.from = Peer(p)
                   /\ \/ store = sessions[p]
                      \/ store = FromKeyInit(p, m) /\ ~Adopts(p, m)
  BY DEF DecryptKeep, DecryptPlain, Arrives, Known
<1>2. /\ net' = net /\ sessions'[Peer(p)] = sessions[Peer(p)]
      /\ DOMAIN sessions'[p] = DOMAIN store
  BY <1>1, OpenShape, Zenon DEF SessionInv, TypeOK
<1>3. ASSUME ss[B] # Nil, ss[B].keyInitSession
      PROVE  DOMAIN sessions'[B] = DOMAIN sessions[B]
  <2>1. CASE p = A
    <3>1. Peer(p) = B
      BY <2>1 DEF Peer
    <3> QED BY <1>2, <3>1
  <2>2. CASE p = B
    <3>1. Peer(p) = A
      BY <2>2, TwoIdentities DEF Peer
    <3>2. store = sessions[p]
      BY <1>1, <1>3, <2>2, <3>1, Zenon DEF Adopts, FromKeyInit
    <3> QED BY <1>2, <2>2, <3>2
  <2> QED BY <2>1, <2>2 DEF Parties
<1>4. SmallerPrevails'
  BY <1>1, <1>2, <1>3, Zenon DEF PairInv, SmallerPrevails
<1>5. Paired' /\ \A r \in Parties : /\ FirstSession(r)' /\ OffersStable(r)'
                                    /\ CountedSent(r)' /\ NotAnswered(r)'
  <2>1. /\ FirstSession(A) /\ OffersStable(A) /\ CountedSent(A) /\ NotAnswered(A)
        /\ FirstSession(B) /\ OffersStable(B) /\ CountedSent(B) /\ NotAnswered(B)
    BY DEF PairInv, Parties
  <2>2. /\ FirstSession(A)' /\ OffersStable(A)' /\ CountedSent(A)' /\ NotAnswered(A)'
        /\ FirstSession(B)' /\ OffersStable(B)' /\ CountedSent(B)' /\ NotAnswered(B)'
    BY <1>1, <1>2, <2>1, Zenon DEF FirstSession, OffersStable, CountedSent, NotAnswered, Within
  <2>3. Paired'
    BY <1>1, <1>2, Zenon DEF PairInv, Paired, Together, Racing, Ahead
  <2> QED BY <2>2, <2>3 DEF Parties
<1> QED BY <1>4, <1>5 DEF PairInv

(* Initially there is no session and no message.                            *)
LEMMA InitPair == Init => PairInv /\ OldKeysDeleted
<1> SUFFICES ASSUME Init PROVE PairInv /\ OldKeysDeleted
  OBVIOUS
<1>1. \A p \in Parties : ss[p] = Nil /\ priv[p] = {}
  BY DEF Init
<1>2. A \in Parties /\ B \in Parties /\ net = {}
  BY DEF Init, Parties
<1>3. \A p \in Parties : /\ FirstSession(p) /\ OffersStable(p)
                         /\ CountedSent(p) /\ NotAnswered(p)
  BY <1>1, <1>2 DEF FirstSession, OffersStable, CountedSent, NotAnswered
<1>4. SmallerPrevails /\ Paired
  BY <1>1, <1>2 DEF SmallerPrevails, Paired
<1> QED BY <1>1, <1>3, <1>4, Zenon DEF PairInv, OldKeysDeleted

(* Every step keeps the two parties paired.                                 *)
LEMMA NextPair == SessionInv /\ SessionInv' /\ PairInv /\ [Next]_vars => PairInv'
<1> SUFFICES ASSUME SessionInv, SessionInv', PairInv, [Next]_vars PROVE PairInv'
  OBVIOUS
<1>1. CASE UNCHANGED vars
  <2>1. /\ FirstSession(A) /\ OffersStable(A) /\ CountedSent(A) /\ NotAnswered(A)
        /\ FirstSession(B) /\ OffersStable(B) /\ CountedSent(B) /\ NotAnswered(B)
    BY DEF PairInv, Parties
  <2>2. /\ FirstSession(A)' /\ OffersStable(A)' /\ CountedSent(A)' /\ NotAnswered(A)'
        /\ FirstSession(B)' /\ OffersStable(B)' /\ CountedSent(B)' /\ NotAnswered(B)'
    BY <1>1, <2>1, Zenon DEF vars, FirstSession, OffersStable, CountedSent, NotAnswered, Within
  <2>3. Paired' /\ SmallerPrevails'
    BY <1>1, Zenon DEF vars, PairInv, Paired, Together, Racing, Ahead, SmallerPrevails
  <2> QED BY <2>2, <2>3 DEF PairInv, Parties
<1>2. ASSUME NEW p \in Parties, Encrypt(p) PROVE PairInv'
  BY <1>2, EncryptShape, BeginsPair, StaysPair, Zenon
<1>3. ASSUME NEW p \in Parties, NEW m \in net, Decrypt(p, m) PROVE PairInv'
  BY <1>3, AdoptPair, KeepPair, PreparePair, SwitchPair, FollowPair DEF Decrypt
<1> QED BY <1>1, <1>2, <1>3 DEF Next

(* What every action does to the private session keys of its party.         *)
LEMMA NextKeys ==
  SessionInv /\ SessionInv' /\ OldKeysDeleted /\ [Next]_vars => OldKeysDeleted'
<1> SUFFICES ASSUME SessionInv, SessionInv', OldKeysDeleted, [Next]_vars
             PROVE  OldKeysDeleted'
  OBVIOUS
<1>0. DOMAIN ss = Parties /\ DOMAIN priv = Parties
  BY DEF SessionInv, TypeOK
<1>1. CASE UNCHANGED vars
  BY <1>1 DEF vars, OldKeysDeleted
<1>2. ASSUME NEW p \in Parties, priv'[Peer(p)] = priv[Peer(p)],
             ss'[Peer(p)] = ss[Peer(p)], KeyInit(p) \notin priv'[p],
             ss'[p] # Nil /\ ss'[p].seen # Nil => ss'[p].senderSessionPub \notin priv'[p]
      PROVE  OldKeysDeleted'
  BY <1>2, Peers DEF OldKeysDeleted
<1>3. ASSUME NEW p \in Parties, addSessionKey(p)
      PROVE  /\ priv'[Peer(p)] = priv[Peer(p)] /\ priv'[p] = priv[p] \cup {NewKey(p)}
             /\ KeyInit(p) \notin priv'[p]
  BY <1>0, <1>3, Peers, Fresh DEF addSessionKey, OldKeysDeleted
<1>4. ASSUME NEW p \in Parties, Encrypt(p) PROVE OldKeysDeleted'
  <2>1. ss'[Peer(p)] = ss[Peer(p)] /\ (Begins(p) \/ (Stays(p) /\ ss'[p].seen = ss[p].seen))
    BY <1>4, EncryptShape DEF PeerKept
  <2>2. \/ priv' = priv
        \/ addSessionKey(p)
    BY <1>4 DEF Encrypt, EncryptFirst, EncryptNext, EncryptOffer, NoNewKey
  <2>3. ss[p] # Nil => ss[p].senderSessionPub # NewKey(p)
    <3>1. ss[p] # Nil => Current(ss[p]) \in DOMAIN sessions[p]
      BY StateFacts
    <3>2. Current(ss[p])[1] = ss[p].senderSessionPub
      BY DEF Current
    <3> QED BY <3>1, <3>2, Fresh
  <2>4. /\ priv'[Peer(p)] = priv[Peer(p)] /\ KeyInit(p) \notin priv'[p]
        /\ priv'[p] \subseteq priv[p] \cup {NewKey(p)}
    BY <1>3, <2>2 DEF OldKeysDeleted
  <2>5. ss'[p].seen # Nil => ss'[p].senderSessionPub \notin priv'[p]
    BY <2>1, <2>3, <2>4 DEF Begins, Stays, OldKeysDeleted
  <2> QED BY <1>2, <2>1, <2>4, <2>5
<1>5. ASSUME NEW p \in Parties, NEW m \in net, DecryptAdopt(p, m) PROVE OldKeysDeleted'
  <2>1. ss'[Peer(p)] = ss[Peer(p)] /\ ss'[p].senderSessionPub = KeyInit(p)
        /\ addSessionKey(p)
    BY <1>0, <1>5, Peers, Zenon DEF DecryptAdopt
  <2> QED BY <1>2, <1>3, <2>1
<1>6. ASSUME NEW p \in Parties, NEW m \in net, DecryptPrepare(p, m) PROVE OldKeysDeleted'
  <2>1. /\ priv'[Peer(p)] = priv[Peer(p)]
        /\ priv'[p] = (priv[p] \cup {NewKey(p)}) \ {m.recipientTemp}
        /\ KeyInit(p) \notin priv'[p]
    BY <1>0, <1>6, Peers, Fresh DEF DecryptPrepare, OldKeysDeleted
  <2>2. ss[p] # Nil
    BY <1>6, HasState DEF DecryptPrepare, Known, Unknown
  <2>3. ss'[Peer(p)] = ss[Peer(p)] /\ ss'[p].senderSessionPub = m.recipientTemp
    <3>1. ss[p] \in SessionStates /\ Peer(p) # p
      BY <2>2, Peers DEF SessionInv, TypeOK
    <3> QED BY <1>0, <1>6, <3>1 DEF DecryptPrepare, Reflects, SessionStates
  <2> QED BY <1>2, <2>1, <2>3
<1>7. ASSUME NEW p \in Parties, NEW m \in net, DecryptSwitch(p, m) \/ DecryptFollow(p, m)
      PROVE  OldKeysDeleted'
  <2>1. /\ priv'[Peer(p)] = priv[Peer(p)] /\ priv'[p] \subseteq priv[p]
    BY <1>0, <1>7, Peers DEF DecryptSwitch, DecryptFollow, DelPrivSessionKey
  <2>2. ss'[Peer(p)] = ss[Peer(p)] /\ ss'[p].seen = Nil
    BY <1>0, <1>7, Peers DEF DecryptSwitch, DecryptFollow, NextState
  <2> QED BY <1>2, <2>1, <2>2 DEF OldKeysDeleted
<1>8. ASSUME NEW p \in Parties, NEW m \in net, DecryptKeep(p, m) \/ DecryptPlain(p, m)
      PROVE  OldKeysDeleted'
  <2>1. priv'[Peer(p)] = priv[Peer(p)] /\ priv'[p] \subseteq priv[p] /\ ss' = ss
    BY <1>0, <1>8, Peers, Zenon DEF DecryptKeep, DecryptPlain, NoNewKey, DelPrivSessionKey
  <2> QED BY <1>2, <2>1 DEF OldKeysDeleted
<1> QED BY <1>1, <1>4, <1>5, <1>6, <1>7, <1>8 DEF Next, Decrypt

(* Stores, states, messages and private keys of the two parties fit each    *)
(* other in every state, whatever the network loses, repeats or reorders.   *)
THEOREM Conversation == Spec => []ConversationInv
<1>1. Init => PairInv /\ OldKeysDeleted
  BY InitPair
<1> QED BY <1>1, NextPair, NextKeys, Invariant, PTL DEF Spec, ConversationInv

(* When nothing is under way any more, the two parties are in one session,  *)
(* or one of them has still to send the first message of its session.       *)
THEOREM Quiescent == Spec => []QuiescentAgreement
<1>1. ConversationInv => QuiescentAgreement
  <2> SUFFICES ASSUME ConversationInv, net \subseteq opened, ss[A] # Nil, ss[B] # Nil
               PROVE  \/ Current(ss[A]) = Mirror(Current(ss[B]))
                      \/ \E p \in Parties :
                           \/ Current(ss[p]) = <<ss[Peer(p)].seen, ss[Peer(p)].next>>
                           \/ ss[p].keyInitSession /\ ss[p].messageCount = 0
    BY DEF QuiescentAgreement
  <2>1. A \in Parties /\ B \in Parties /\ Peer(A) = B /\ Peer(B) = A
    BY TwoIdentities DEF Parties, Peer
  <2>2. Together \/ Racing \/ \E p \in Parties : Ahead(p)
    BY <2>1 DEF ConversationInv, PairInv, Paired, Parties
  <2>3. CASE Together
    BY <2>1, <2>3 DEF Together, Current, Mirror
  <2>4. CASE \E p \in Parties : Ahead(p)
    BY <2>4 DEF Ahead, Current
  <2>5. CASE Racing
    <3> SUFFICES ASSUME ss[A].messageCount # 0 PROVE FALSE
      BY <2>1, <2>5 DEF Racing
    <3>1. ss[A].messageCount > 0
      BY DEF ConversationInv, SessionInv, TypeOK, SessionStates, Parties
    <3>2. PICK m \in net : m.from = A /\ Within(m, ss[A])
      BY <2>1, <3>1 DEF ConversationInv, PairInv, CountedSent
    <3>3. m.recipientTemp = KeyInit(B)
      BY <2>1, <2>5, <3>2 DEF ConversationInv, PairInv, FirstSession, Within, Racing
    <3>4. SessionKey(m) \in DOMAIN sessions[B]
      BY <2>1, <3>2 DEF ConversationInv, SessionInv, OpenedKeysUsed, KeyUsed
    <3>5. SessionKey(m)[1] = KeyInit(B)
      BY <3>3 DEF SessionKey
    <3> QED BY <2>1, <2>5, <3>4, <3>5 DEF ConversationInv, PairInv, SmallerPrevails, Racing
  <2> QED BY <2>2, <2>3, <2>4, <2>5
<1> QED BY <1>1, Conversation, PTL

(* Moving on to a refreshed session leaves no private key of the old one.   *)
THEOREM OldKeyDeleted == Spec => RefreshDeletesOldKey
<1> DEFINE Deletes == \A p \in Parties :
              (/\ ss[p] # Nil
               /\ ss'[p].senderSessionPub \notin
                    {ss[p].senderSessionPub, KeyInit(p)}) =>
                ss[p].senderSessionPub \notin priv'[p]
<1>1. ConversationInv /\ [Next]_vars => [Deletes]_vars
  <2> SUFFICES ASSUME ConversationInv, Next, NEW r \in Parties, ss[r] # Nil,
                      ss'[r].senderSessionPub \notin
                        {ss[r].senderSessionPub, KeyInit(r)}
               PROVE  ss[r].senderSessionPub \notin priv'[r]
    OBVIOUS
  <2>0. SessionInv /\ OldKeysDeleted /\ DOMAIN ss = Parties /\ DOMAIN priv = Parties
    BY DEF ConversationInv, SessionInv, TypeOK
  <2>1. PICK p \in Parties : Encrypt(p) \/ \E m \in net : Decrypt(p, m)
    BY DEF Next
  <2>2. r = p
    BY <2>0, <2>1, SessionMoves, Peers
  <2>3. CASE Encrypt(p)
    BY <2>0, <2>2, <2>3, EncryptShape DEF Begins, Stays
  <2>4. ASSUME NEW m \in net, DecryptAdopt(p, m) \/ DecryptKeep(p, m) \/ DecryptPlain(p, m)
        PROVE  FALSE
    <3>1. ASSUME DecryptAdopt(p, m) PROVE ss'[p].senderSessionPub = KeyInit(p)
      BY <2>0, <3>1, Zenon DEF DecryptAdopt
    <3>2. ASSUME DecryptKeep(p, m) \/ DecryptPlain(p, m) PROVE ss' = ss
      BY <3>2, Zenon DEF DecryptKeep, DecryptPlain
    <3> QED BY <2>2, <2>4, <3>1, <3>2
  <2>5. ASSUME NEW m \in net, DecryptPrepare(p, m) PROVE FALSE
    <3>1. ss[p] \in SessionStates
      BY <2>2 DEF ConversationInv, SessionInv, TypeOK
    <3> QED BY <2>0, <2>2, <2>5, <3>1 DEF DecryptPrepare, SessionStates
  <2>6. ASSUME NEW m \in net, DecryptSwitch(p, m)
        PROVE  ss[p].senderSessionPub \notin priv'[p]
    BY <2>0, <2>6 DEF DecryptSwitch, DelPrivSessionKey, Reflects
  <2>7. ASSUME NEW m \in net, DecryptFollow(p, m)
        PROVE  ss[p].senderSessionPub \notin priv'[p]
    BY <2>0, <2>2, <2>7 DEF DecryptFollow, DelPrivSessionKey, MatchesNext, OldKeysDeleted
  <2> QED BY <2>1, <2>2, <2>3, <2>4, <2>5, <2>6, <2>7 DEF Decrypt
<1> QED BY <1>1, Conversation, PTL DEF Spec, RefreshDeletesOldKey
====

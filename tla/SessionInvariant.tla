-------------------------- MODULE SessionInvariant --------------------------
(***************************************************************************)
(* The inductive invariant behind the safety properties of Session.  It is *)
(* checked with TLC on small instances and proved in SessionProofs.        *)
(***************************************************************************)
EXTENDS Session

(* The key entries p has after making n session keys, its KeyInit included, *)
(* and its session keys alone.                                              *)
Issued(p, n) == {p} \X (0 .. n)
SessionKeysOf(p, n) == {p} \X (1 .. n)

(* A stored session: its keys are the first num keys of the chain that      *)
(* starts at its root key, and the root key belongs to the pair sk.         *)
GoodSession(p, sk, x) ==
  /\ sk \in ({p} \X Nat) \X ({Peer(p)} \X Nat)
  /\ x.num \in Nat \ {0}
  /\ DOMAIN x.send = 0 .. (x.num - 1)
  /\ DOMAIN x.recv = 0 .. (x.num - 1)
  /\ x.chainKey = [root |-> x.rootKeyHash.root, step |-> x.num]
  /\ x.rootKeyHash = [root |-> x.rootKeyHash.root, step |-> 0]
  /\ \/ x.rootKeyHash.root.session = sk[1] /\ x.rootKeyHash.root.keyInit = sk[2]
     \/ x.rootKeyHash.root.session = sk[2] /\ x.rootKeyHash.root.keyInit = sk[1]
  /\ sk[1] = KeyInit(p) => x.rootKeyHash = deriveRootKey(sk[2], sk[1], Nil)
  /\ sk[2] = KeyInit(Peer(p)) => x.rootKeyHash = deriveRootKey(sk[1], sk[2], Nil)
  /\ \A i \in 0 .. (x.num - 1) :
       /\ x.send[i] \in {Used, MessageKey([root |-> x.rootKeyHash.root,
                                           step |-> i], sk[2])}
       /\ x.recv[i] \in {Used, MessageKey([root |-> x.rootKeyHash.root,
                                           step |-> i], sk[1])}

(* The receive key with index i of session sk was deleted.                  *)
KeyUsed(store, sk, i) ==
  /\ sk \in DOMAIN store
  /\ i \in DOMAIN store[sk].recv
  /\ store[sk].recv[i] = Used

GoodStore(p, store) ==
  \A sk \in DOMAIN store : GoodSession(p, sk, store[sk])

(* The session <<next, seen>> was prepared from session sk by its owner.    *)
Prepared(store, next, seen, sk) ==
  /\ <<next, seen>> \in DOMAIN store
  /\ sk \in DOMAIN store
  /\ store[<<next, seen>>].rootKeyHash
       = deriveRootKey(next, seen, store[sk].rootKeyHash)

StoresGood == \A p \in Parties : GoodStore(p, sessions[p])

KeysIssued(p, store, made) ==
  \A sk \in DOMAIN store :
    sk \in Issued(p, made[p]) \X Issued(Peer(p), made[Peer(p)])

StoredKeysIssued == \A p \in Parties : KeysIssued(p, sessions[p], created)

(* Whoever gets a message from p in session sk stores that session, or can  *)
(* start it from its KeyInit key.                                           *)
Recognised(p, sk, theirs) ==
  sk[2] = KeyInit(Peer(p)) \/ Mirror(sk) \in DOMAIN theirs

(* The session state st of p names sessions of p's store `mine', and a      *)
(* session that uses the key p offers was agreed on in the sender's role.   *)
(* `theirs' is the peer's store, `made' the numbers of session keys.        *)
GoodState(p, mine, theirs, made, st) ==
  /\ st \in SessionStates
  /\ Current(st) \in DOMAIN mine
  /\ st.messageCount <= mine[Current(st)].num
  /\ st.next \in SessionKeysOf(p, made[p]) \cup {Nil}
  /\ st.seen \in SessionKeysOf(Peer(p), made[Peer(p)]) \cup {Nil}
  /\ st.seen # Nil =>
       st.next # Nil /\ Prepared(mine, st.next, st.seen, Current(st))
  /\ st.next # st.senderSessionPub
  /\ \A sk \in DOMAIN mine :
       sk[1] = st.next =>
         sk[2] = st.seen /\ mine[sk].rootKeyHash.root.session = sk[1]
  /\ Recognised(p, Current(st), theirs)

StatesGood ==
  \A p \in Parties :
    IF ss[p] = Nil THEN DOMAIN sessions[p] = {}
    ELSE GoodState(p, sessions[p], sessions[Peer(p)], created, ss[p])

(* A message was sent from a session its sender stores, under the key with  *)
(* its index.                                                               *)
GoodMessage(p, mine, theirs, made, m) ==
  /\ Mirror(SessionKey(m)) \in DOMAIN mine
  /\ m.next \in SessionKeysOf(p, made[p]) \cup {Nil}
  /\ m.seen \in SessionKeysOf(Peer(p), made[Peer(p)]) \cup {Nil}
  /\ m.seen # Nil =>
       m.next # Nil /\ Prepared(mine, m.next, m.seen, Mirror(SessionKey(m)))
  /\ Recognised(p, Mirror(SessionKey(m)), theirs)
  /\ {m.messageCount, m.sessionCount} \subseteq Nat
  /\ m.key = MessageKey([root |-> mine[Mirror(SessionKey(m))].rootKeyHash.root,
                         step |-> m.messageCount], m.recipientTemp)

(* A message was sent under a key its sender does not offer any more, and   *)
(* before the sender's next index if it is in the sender's current session. *)
Older(m, st) ==
  /\ st # Nil
  /\ m.senderSessionPub # st.next
  /\ Mirror(SessionKey(m)) = Current(st) => m.messageCount < st.messageCount

MessagesGood ==
  \A m \in net :
    /\ m.from \in Parties
    /\ GoodMessage(m.from, sessions[m.from], sessions[Peer(m.from)], created, m)
    /\ Older(m, ss[m.from])

(* Within a session a sender uses every index once.                         *)
IndicesUnique ==
  \A m1, m2 \in net :
    (/\ m1.from = m2.from
     /\ SessionKey(m1) = SessionKey(m2)
     /\ m1.messageCount = m2.messageCount) => m1 = m2

(* The deleted receive keys of p are those of the messages p has opened.    *)
OpenedKeysUsed ==
  /\ \A m \in opened :
       KeyUsed(sessions[Peer(m.from)], SessionKey(m), m.messageCount)
  /\ \A p \in Parties : \A sk \in DOMAIN sessions[p] :
       \A i \in DOMAIN sessions[p][sk].recv :
         KeyUsed(sessions[p], sk, i) =>
           \E m \in opened : /\ m.from = Peer(p)
                             /\ SessionKey(m) = sk
                             /\ m.messageCount = i

(* Every stored session, session state and message fits the others in every *)
(* state that Encrypt and Decrypt reach; strong enough to be inductive.     *)
SessionInv ==
  /\ TypeOK
  /\ StoresGood
  /\ StoredKeysIssued
  /\ StatesGood
  /\ MessagesGood
  /\ IndicesUnique
  /\ SessionsAgree
  /\ OpenedKeysUsed
  /\ OfferedKeysUsable
  /\ GenuineMessagesOpen
  /\ NoReplay

-----------------------------------------------------------------------------
(* How the two session states and the messages under way fit together: the  *)
(* invariant behind QuiescentAgreement.                                     *)

(* Message m belongs to the session of its sender's state st.               *)
Within(m, st) ==
  /\ m.senderSessionPub = st.senderSessionPub
  /\ m.recipientTemp = st.recipientTemp

(* keyInitSession says that p is in the session it began from the peer's    *)
(* KeyInit message; until p leaves it, all of p's messages are in it.       *)
FirstSession(p) ==
  ss[p] # Nil =>
    /\ ss[p].keyInitSession <=> ss[p].recipientTemp = KeyInit(Peer(p))
    /\ \A m \in net : m.from = p /\ ss[p].keyInitSession => Within(m, ss[p])

(* Within a session p offers one key and acknowledges one key.              *)
OffersStable(p) ==
  \A m \in net :
    m.from = p /\ Within(m, ss[p]) =>
      m.next \in {Nil, ss[p].next} /\ m.seen \in {Nil, ss[p].seen}

(* A message count above 0 comes from a message sent in the session.        *)
CountedSent(p) ==
  ss[p] # Nil /\ ss[p].messageCount > 0 =>
    \E m \in net : m.from = p /\ Within(m, ss[p])

(* While its peer has no session, p stays in the one it began.              *)
NotAnswered(p) ==
  ss[p] # Nil /\ ss[Peer(p)] = Nil =>
    ss[p].keyInitSession /\ ss[p].seen = Nil

(* The session that the smaller identity began is the one both leave        *)
(* their first sessions for.                                                *)
SmallerPrevails ==
  /\ \A m \in net :
       m.from = A /\ m.recipientTemp = KeyInit(B) =>
         ss[A].keyInitSession \/ (ss[B] # Nil /\ ~ss[B].keyInitSession)
  /\ ss[B] # Nil /\ ss[B].keyInitSession =>
       \A sk \in DOMAIN sessions[B] : sk[1] # KeyInit(B)

(* Both are in the same session, and acknowledge what the other offers.     *)
Together ==
  \A p \in Parties :
    /\ ss[p].senderSessionPub = ss[Peer(p)].recipientTemp
    /\ ss[p].seen \in {Nil, ss[Peer(p)].next}

(* p has switched to the session its peer has prepared; the keys p offered  *)
(* in the session before, if any, lead the peer there too.                  *)
Ahead(p) ==
  LET behind == ss[Peer(p)]
  IN  /\ behind.seen # Nil /\ ss[p].senderSessionPub = behind.seen
      /\ behind.next # Nil /\ ss[p].recipientTemp = behind.next
      /\ ss[p].seen = Nil
      /\ \A m \in net :
           (/\ m.from = p
            /\ m.recipientTemp = behind.senderSessionPub
            /\ m.senderSessionPub = behind.recipientTemp) =>
              m.next \in {Nil, behind.seen}

(* Both are in the sessions they began, and know nothing of the other's.    *)
Racing == \A p \in Parties : ss[p].keyInitSession /\ ss[p].seen = Nil

Paired ==
  (\A p \in Parties : ss[p] # Nil) =>
    Together \/ Racing \/ \E p \in Parties : Ahead(p)

PairInv ==
  /\ \A p \in Parties : /\ FirstSession(p)
                         /\ OffersStable(p)
                         /\ CountedSent(p)
                         /\ NotAnswered(p)
  /\ SmallerPrevails
  /\ Paired

(* The private part of a session key is deleted once the peer's offer for   *)
(* the next session is acknowledged; a KeyInit key is kept elsewhere.       *)
OldKeysDeleted ==
  \A p \in Parties :
    /\ KeyInit(p) \notin priv[p]
    /\ ss[p] # Nil =>
         (ss[p].seen # Nil => ss[p].senderSessionPub \notin priv[p])

(* Everything that holds together in a conversation, whatever the network   *)
(* does: the stores, states and messages fit each other, the two parties    *)
(* are in one session, one step apart, or both in the session they began,   *)
(* and keys that went out of use are deleted.                               *)
ConversationInv == SessionInv /\ PairInv /\ OldKeysDeleted
====

--------------------------- MODULE SessionLemmas ---------------------------
(***************************************************************************)
(* The bound on the message keys of a session (Bounded, about KeyWindow);  *)
(* lemmas about the key store of Session (what a key agreement, a top-up   *)
(* and a deletion do to it) and about the tails of Encrypt and Decrypt,    *)
(* from the prepared store and session state on.  Every action of a party  *)
(* p first puts p's store and state into an intermediate condition (Mid);  *)
(* Seal or Open then takes Mid to SessionInv.  The induction that uses the *)
(* lemmas is in SessionProofs.                                             *)
(***************************************************************************)
EXTENDS SessionInvariant, KeyWindow, TLAPS

(* The provers get more time than by default. *)
USE SMTT(30), ZenonT(30)

(* A top-up up to index c generates at least c keys.                        *)
LEMMA TopUpEnough ==
  ASSUME NEW c \in Nat
  PROVE  TopUp(c) \in Nat /\ TopUp(c) >= c
<1> DEFINE q == c \div NumOfKeys
           r == c % NumOfKeys
<1>1. q \in Nat /\ r \in Nat /\ r < NumOfKeys /\ c = NumOfKeys * q + r
  BY PositiveBatch
<1> HIDE DEF q, r
<1>2. CASE r > 0
  <2>1. TopUp(c) = (q + 1) * NumOfKeys
    BY <1>2 DEF TopUp, q, r
  <2>2. (q + 1) * NumOfKeys = NumOfKeys * q + NumOfKeys
    BY <1>1, PositiveBatch
  <2>3. NumOfKeys * q \in Nat
    BY <1>1, PositiveBatch
  <2> QED BY <1>1, <2>1, <2>2, <2>3, PositiveBatch
<1>3. CASE ~(r > 0)
  <2>1. TopUp(c) = q * NumOfKeys
    BY <1>3 DEF TopUp, q, r
  <2>2. r = 0
    BY <1>1, <1>3
  <2>3. q * NumOfKeys = NumOfKeys * q /\ NumOfKeys * q \in Nat
    BY <1>1, PositiveBatch
  <2> QED BY <1>1, <2>1, <2>2, <2>3, PositiveBatch
<1> QED BY <1>2, <1>3

(* Whatever message counts arrive at Decrypt, and in whatever order, it     *)
(* never holds more than twice the limit of message keys for a session.     *)
THEOREM Bounded == WindowSpec => []KeysBounded
<1>1. WindowInit => KeysBounded
  BY PositiveBatch, LimitIsNat, BatchWithinLimit DEF WindowInit, KeysBounded
<1>2. KeysBounded /\ [WindowNext]_windowVars => KeysBounded'
  <2> SUFFICES ASSUME KeysBounded, [WindowNext]_windowVars
               PROVE  KeysBounded'
    OBVIOUS
  <2>1. ASSUME NEW count \in 0 .. MaxCount, DecryptCount(count)
        PROVE  KeysBounded'
    <3>1. count \in Nat
      BY <2>1, CountIsNat
    <3>2. CASE count >= held /\ ~Refuses(count)
      <4>1. held' = held + TopUp(count)
        BY <2>1, <3>2 DEF DecryptCount
      <4>2. TopUp(count) <= MaxNumOfKeys /\ held <= count
        BY <3>1, <3>2, TopUpEnough, LimitIsNat DEF Refuses, KeysBounded
      <4> QED
        BY <3>1, <4>1, <4>2, TopUpEnough, LimitIsNat DEF KeysBounded
    <3>3. CASE ~(count >= held /\ ~Refuses(count))
      BY <2>1, <3>3 DEF DecryptCount, KeysBounded
    <3> QED
      BY <3>2, <3>3
  <2>2. CASE UNCHANGED windowVars
    BY <2>2 DEF windowVars, KeysBounded
  <2> QED
    BY <2>1, <2>2 DEF WindowNext
<1> QED
  BY <1>1, <1>2, PTL DEF WindowSpec

(* What the two stores of a step have in common: the sessions and their     *)
(* root keys; no key is forgotten.                                          *)
SameRoots(store1, store2) ==
  /\ DOMAIN store2 = DOMAIN store1
  /\ \A sk \in DOMAIN store1 :
       /\ store2[sk].rootKeyHash = store1[sk].rootKeyHash
       /\ store1[sk].num <= store2[sk].num

SameUsed(store1, store2) ==
  \A sk, i : KeyUsed(store2, sk, i) <=> KeyUsed(store1, sk, i)

UsedAlso(store1, store2, sk, i) ==
  \A s, j : KeyUsed(store2, s, j) <=> KeyUsed(store1, s, j) \/ (s = sk /\ j = i)

-----------------------------------------------------------------------------
(* The key store *)

(* A batch of message keys, as generateMessageKeys builds it.               *)
Batch(chainKey, num, pub) ==
  [i \in 0 .. (num - 1) |-> MessageKey(Advance(chainKey, i), pub)]

(* A key agreement with root key rk for a session that store does not hold. *)
SessionAdded(p, store, own, peer, prev, rk, store2) ==
  /\ p \in Parties
  /\ GoodStore(p, store)
  /\ own \in {p} \X Nat /\ peer \in {Peer(p)} \X Nat
  /\ <<own, peer>> \notin DOMAIN store
  /\ \/ /\ rk = deriveRootKey(peer, own, prev)
        /\ store2 = rootKeyAgreementRecipient(store, peer, own, prev)
     \/ /\ rk = deriveRootKey(own, peer, prev)
        /\ store2 = rootKeyAgreementSender(store, own, peer, prev)
  /\ own = KeyInit(p) => rk = deriveRootKey(peer, own, Nil)
  /\ peer = KeyInit(Peer(p)) => rk = deriveRootKey(own, peer, Nil)

(* Such an agreement adds one good session and leaves the others alone.     *)
LEMMA NewSession ==
  ASSUME NEW p, NEW store, NEW own, NEW peer, NEW prev, NEW rk, NEW store2,
         SessionAdded(p, store, own, peer, prev, rk, store2)
  PROVE  /\ DOMAIN store2 = DOMAIN store \cup {<<own, peer>>}
         /\ \A sk \in DOMAIN store : store2[sk] = store[sk]
         /\ store2[<<own, peer>>].rootKeyHash = rk
         /\ GoodStore(p, store2)
         /\ SameUsed(store, store2)
<1> DEFINE sk  == <<own, peer>>
           x   == [rootKeyHash |-> rk, chainKey |-> Advance(rk, NumOfKeys),
                   num |-> NumOfKeys, send |-> Batch(rk, NumOfKeys, peer),
                   recv |-> Batch(rk, NumOfKeys, own)]
<1> USE DEF SessionAdded
<1>1. store2 = [s \in DOMAIN store \cup {sk} |-> IF s # sk THEN store[s] ELSE x]
  <2>1. CASE /\ rk = deriveRootKey(peer, own, prev)
             /\ store2 = rootKeyAgreementRecipient(store, peer, own, prev)
    BY <2>1 DEF rootKeyAgreementRecipient, generateMessageKeys, StoreSession, Batch
  <2>2. CASE /\ rk = deriveRootKey(own, peer, prev)
             /\ store2 = rootKeyAgreementSender(store, own, peer, prev)
    BY <2>2 DEF rootKeyAgreementSender, generateMessageKeys, StoreSession, Batch
  <2> QED BY <2>1, <2>2
<1>2. /\ DOMAIN store2 = DOMAIN store \cup {sk}
      /\ \A s \in DOMAIN store : store2[s] = store[s]
      /\ store2[sk] = x
  BY <1>1
<1>3. /\ rk = [root |-> rk.root, step |-> 0]
      /\ \/ rk.root.session = own /\ rk.root.keyInit = peer
         \/ rk.root.session = peer /\ rk.root.keyInit = own
  BY DEF deriveRootKey
<1>4. \A i \in 0 .. (NumOfKeys - 1) : \A pub :
         Advance(rk, i) = [root |-> rk.root, step |-> i]
  BY <1>3 DEF Advance
<1>5. Advance(rk, NumOfKeys) = [root |-> rk.root, step |-> NumOfKeys]
  BY <1>3, PositiveBatch DEF Advance
<1>6. \A i \in 0 .. (NumOfKeys - 1) :
         /\ x.send[i] = MessageKey([root |-> rk.root, step |-> i], peer)
         /\ x.recv[i] = MessageKey([root |-> rk.root, step |-> i], own)
         /\ x.recv[i] # Used
  <2> SUFFICES ASSUME NEW i \in 0 .. (NumOfKeys - 1)
               PROVE  /\ x.send[i] = MessageKey([root |-> rk.root, step |-> i], peer)
                      /\ x.recv[i] = MessageKey([root |-> rk.root, step |-> i], own)
                      /\ x.recv[i] # Used
    OBVIOUS
  <2>1. x.send[i] = MessageKey(Advance(rk, i), peer)
        /\ x.recv[i] = MessageKey(Advance(rk, i), own)
    BY DEF Batch
  <2>2. own # Nil
    BY NilIsNil DEF KeyEntries, Parties
  <2> QED BY <1>4, <2>1, <2>2 DEF MessageKey, Used
<1>7. GoodSession(p, sk, x)
  <2>1. sk \in ({p} \X Nat) \X ({Peer(p)} \X Nat) /\ sk[1] = own /\ sk[2] = peer
    OBVIOUS
  <2>2. sk[1] = KeyInit(p) => rk = deriveRootKey(sk[2], sk[1], Nil)
    OBVIOUS
  <2>3. sk[2] = KeyInit(Peer(p)) => rk = deriveRootKey(sk[1], sk[2], Nil)
    OBVIOUS
  <2>4. DOMAIN x.send = 0 .. (NumOfKeys - 1) /\ DOMAIN x.recv = 0 .. (NumOfKeys - 1)
    BY DEF Batch
  <2> HIDE DEF sk
  <2> QED
    BY <1>3, <1>5, <1>6, <2>1, <2>2, <2>3, <2>4, PositiveBatch DEF GoodSession
<1> HIDE DEF x, sk
<1>8. GoodStore(p, store2)
  BY <1>2, <1>7 DEF GoodStore
<1>9. SameUsed(store, store2)
  <2>1. DOMAIN x.recv = 0 .. (NumOfKeys - 1)
    BY DEF x, Batch
  <2>2. sk \notin DOMAIN store
    BY DEF sk
  <2> QED BY <1>2, <1>6, <2>1, <2>2, Zenon DEF SameUsed, KeyUsed
<1> QED BY <1>2, <1>8, <1>9 DEF x, sk

(* A top-up of a known session with cnt keys, from its chain key ck.        *)
KeysAdded(p, store, own, peer, cnt, ck, store2) ==
  /\ p \in Parties
  /\ GoodStore(p, store)
  /\ <<own, peer>> \in DOMAIN store
  /\ cnt \in Nat
  /\ ck = store[<<own, peer>>].chainKey
  /\ \/ store2 = generateMessageKeys(store, ck, TRUE, peer, own, cnt)
     \/ store2 = generateMessageKeys(store, ck, FALSE, own, peer, cnt)

(* A top-up appends keys and changes no root key.                           *)
LEMMA MoreKeys ==
  ASSUME NEW p, NEW store, NEW own, NEW peer, NEW cnt, NEW ck, NEW store2,
         KeysAdded(p, store, own, peer, cnt, ck, store2)
  PROVE  /\ SameRoots(store, store2)
         /\ GoodStore(p, store2)
         /\ SameUsed(store, store2)
         /\ store2[<<own, peer>>].num = store[<<own, peer>>].num + cnt
<1> DEFINE sk  == <<own, peer>>
           old == store[sk]
           x   == [rootKeyHash |-> old.rootKeyHash,
                   chainKey |-> Advance(ck, cnt), num |-> old.num + cnt,
                   send |-> AppendKeys(old.send, old.num, Batch(ck, cnt, peer), cnt),
                   recv |-> AppendKeys(old.recv, old.num, Batch(ck, cnt, own), cnt)]
<1> USE DEF KeysAdded
<1>1. GoodSession(p, sk, old)
  BY DEF GoodStore
<1>2. own \in {p} \X Nat /\ peer \in {Peer(p)} \X Nat
  BY <1>1 DEF GoodSession
<1>3. store2 = [s \in DOMAIN store |-> IF s # sk THEN store[s] ELSE x]
  <2>1. DOMAIN store \cup {sk} = DOMAIN store
    OBVIOUS
  <2>2. CASE store2 = generateMessageKeys(store, ck, TRUE, peer, own, cnt)
    BY <2>1, <2>2, <1>2 DEF generateMessageKeys, StoreSession, Batch
  <2>3. CASE store2 = generateMessageKeys(store, ck, FALSE, own, peer, cnt)
    BY <2>1, <2>3, <1>2 DEF generateMessageKeys, StoreSession, Batch
  <2> QED BY <2>2, <2>3, Zenon
<1>4. /\ DOMAIN store2 = DOMAIN store
      /\ \A s \in DOMAIN store : s # sk => store2[s] = store[s]
      /\ store2[sk] = x
      /\ sk \in DOMAIN store /\ store[sk] = old
  BY <1>3
<1>5. old.num \in Nat \ {0} /\ old.num + cnt \in Nat \ {0}
  BY <1>1 DEF GoodSession
<1>6. /\ ck = [root |-> old.rootKeyHash.root, step |-> old.num]
      /\ Advance(ck, cnt) = [root |-> old.rootKeyHash.root, step |-> old.num + cnt]
  BY <1>1 DEF GoodSession, Advance
<1>7. \A i \in old.num .. (old.num + cnt - 1) :
        Advance(ck, i - old.num) = [root |-> old.rootKeyHash.root, step |-> i]
  BY <1>5, <1>6 DEF Advance
<1>8. \A i \in 0 .. (old.num + cnt - 1) :
         /\ x.send[i] = IF i < old.num THEN old.send[i]
                        ELSE MessageKey([root |-> old.rootKeyHash.root,
                                         step |-> i], peer)
         /\ x.recv[i] = IF i < old.num THEN old.recv[i]
                        ELSE MessageKey([root |-> old.rootKeyHash.root,
                                         step |-> i], own)
  <2> SUFFICES ASSUME NEW i \in 0 .. (old.num + cnt - 1)
               PROVE  /\ x.send[i] = IF i < old.num THEN old.send[i]
                           ELSE MessageKey([root |-> old.rootKeyHash.root,
                                            step |-> i], peer)
                      /\ x.recv[i] = IF i < old.num THEN old.recv[i]
                           ELSE MessageKey([root |-> old.rootKeyHash.root,
                                            step |-> i], own)
    OBVIOUS
  <2>1. CASE i < old.num
    BY <2>1 DEF AppendKeys
  <2>2. CASE ~(i < old.num)
    <3>1. i - old.num \in 0 .. (cnt - 1) /\ i \in old.num .. (old.num + cnt - 1)
      BY <2>2, <1>5
    <3>2. /\ x.send[i] = MessageKey(Advance(ck, i - old.num), peer)
          /\ x.recv[i] = MessageKey(Advance(ck, i - old.num), own)
      BY <2>2, <3>1 DEF AppendKeys, Batch
    <3> QED BY <2>2, <3>1, <3>2, <1>7
  <2> QED BY <2>1, <2>2
<1>9. /\ DOMAIN x.send = 0 .. (old.num + cnt - 1)
      /\ DOMAIN x.recv = 0 .. (old.num + cnt - 1)
      /\ x.rootKeyHash = old.rootKeyHash
      /\ x.num = old.num + cnt
      /\ x.chainKey = Advance(ck, cnt)
  BY DEF AppendKeys
<1>10. \A i \in 0 .. (old.num + cnt - 1) :
         x.recv[i] = Used <=> i < old.num /\ old.recv[i] = Used
  <2>1. own # Nil
    BY <1>2, NilIsNil DEF KeyEntries, Parties
  <2>2. \A c : MessageKey(c, own) # Used
    BY <2>1 DEF MessageKey, Used
  <2> QED BY <1>8, <2>2, Zenon
<1> HIDE DEF x, old, sk
<1>11. GoodSession(p, sk, x)
  <2>1. \A i \in 0 .. (old.num + cnt - 1) :
       /\ x.send[i] \in {Used, MessageKey([root |-> x.rootKeyHash.root,
                                           step |-> i], sk[2])}
       /\ x.recv[i] \in {Used, MessageKey([root |-> x.rootKeyHash.root,
                                           step |-> i], sk[1])}
    <3> SUFFICES ASSUME NEW i \in 0 .. (old.num + cnt - 1)
                 PROVE  /\ x.send[i] \in {Used, MessageKey([root |-> x.rootKeyHash.root,
                                           step |-> i], sk[2])}
                        /\ x.recv[i] \in {Used, MessageKey([root |-> x.rootKeyHash.root,
                                           step |-> i], sk[1])}
      OBVIOUS
    <3>1. CASE i < old.num
      <4>1. i \in 0 .. (old.num - 1)
        BY <3>1, <1>5
      <4>2. /\ old.send[i] \in {Used, MessageKey([root |-> old.rootKeyHash.root,
                                           step |-> i], sk[2])}
            /\ old.recv[i] \in {Used, MessageKey([root |-> old.rootKeyHash.root,
                                           step |-> i], sk[1])}
        BY <4>1, <1>1 DEF GoodSession
      <4> QED BY <3>1, <4>2, <1>8, <1>9
    <3>2. CASE ~(i < old.num)
      BY <3>2, <1>8, <1>9 DEF sk
    <3> QED BY <3>1, <3>2
  <2>2. /\ x.num \in Nat \ {0}
        /\ DOMAIN x.send = 0 .. (x.num - 1)
        /\ DOMAIN x.recv = 0 .. (x.num - 1)
        /\ x.chainKey = [root |-> x.rootKeyHash.root, step |-> x.num]
    BY <1>5, <1>6, <1>9
  <2>3. \A i \in 0 .. (x.num - 1) :
       /\ x.send[i] \in {Used, MessageKey([root |-> x.rootKeyHash.root,
                                           step |-> i], sk[2])}
       /\ x.recv[i] \in {Used, MessageKey([root |-> x.rootKeyHash.root,
                                           step |-> i], sk[1])}
    <3> SUFFICES ASSUME NEW i \in 0 .. (x.num - 1)
                 PROVE  /\ x.send[i] \in {Used, MessageKey([root |-> x.rootKeyHash.root,
                                           step |-> i], sk[2])}
                        /\ x.recv[i] \in {Used, MessageKey([root |-> x.rootKeyHash.root,
                                           step |-> i], sk[1])}
      OBVIOUS
    <3>1. i \in 0 .. (old.num + cnt - 1)
      BY <1>5, <1>9
    <3> QED BY <2>1, <3>1
  <2>4. /\ sk \in ({p} \X Nat) \X ({Peer(p)} \X Nat)
        /\ x.rootKeyHash = [root |-> x.rootKeyHash.root, step |-> 0]
        /\ \/ x.rootKeyHash.root.session = sk[1] /\ x.rootKeyHash.root.keyInit = sk[2]
           \/ x.rootKeyHash.root.session = sk[2] /\ x.rootKeyHash.root.keyInit = sk[1]
        /\ sk[1] = KeyInit(p) => x.rootKeyHash = deriveRootKey(sk[2], sk[1], Nil)
        /\ sk[2] = KeyInit(Peer(p)) => x.rootKeyHash = deriveRootKey(sk[1], sk[2], Nil)
    BY <1>1, <1>9 DEF GoodSession
  <2> QED BY <2>2, <2>3, <2>4 DEF GoodSession
<1>12. GoodStore(p, store2)
  BY <1>4, <1>11 DEF GoodStore
<1>13. SameUsed(store, store2)
  <2>1. ASSUME NEW i
        PROVE  (i \in DOMAIN x.recv /\ x.recv[i] = Used)
                 <=> (i \in DOMAIN old.recv /\ old.recv[i] = Used)
    <3>1. DOMAIN old.recv = 0 .. (old.num - 1)
      BY <1>1 DEF GoodSession
    <3>2. i \in 0 .. (old.num - 1) <=> i \in 0 .. (old.num + cnt - 1) /\ i < old.num
      BY <1>5
    <3> QED BY <3>1, <3>2, <1>9, <1>10
  <2> QED BY <2>1, <1>4 DEF SameUsed, KeyUsed
<1>14. SameRoots(store, store2)
  <2>1. \A s \in DOMAIN store : store[s].num \in Nat
    BY Zenon DEF GoodStore, GoodSession
  <2>2. x.rootKeyHash = old.rootKeyHash /\ old.num <= x.num
    BY <1>5, <1>9
  <2> QED BY <2>1, <2>2, <1>4 DEF SameRoots
<1>15. store2[sk].num = store[sk].num + cnt
  BY <1>4, <1>9
<1> QED BY <1>12, <1>13, <1>14, <1>15 DEF sk

(* The deletion of the key with index i of a known session.                 *)
KeyDeleted(p, store, sk, sender, i, store2) ==
  /\ p \in Parties
  /\ GoodStore(p, store)
  /\ sk \in DOMAIN store
  /\ i \in 0 .. (store[sk].num - 1)
  /\ sender \in BOOLEAN
  /\ store2 = DelMessageKey(store, sk, sender, i)

(* DelMessageKey deletes that key and nothing else.                         *)
LEMMA DeleteKey ==
  ASSUME NEW p, NEW store, NEW sk, NEW sender, NEW i, NEW store2,
         KeyDeleted(p, store, sk, sender, i, store2)
  PROVE  /\ SameRoots(store, store2)
         /\ GoodStore(p, store2)
         /\ sender = TRUE => SameUsed(store, store2)
         /\ sender = FALSE => UsedAlso(store, store2, sk, i)
<1> DEFINE old == store[sk]
           x == [rootKeyHash |-> old.rootKeyHash, chainKey |-> old.chainKey,
                 num |-> old.num,
                 send |-> IF sender THEN [old.send EXCEPT ![i] = Used] ELSE old.send,
                 recv |-> IF sender THEN old.recv ELSE [old.recv EXCEPT ![i] = Used]]
<1> USE DEF KeyDeleted
<1>1. GoodSession(p, sk, old) /\ i \in 0 .. (old.num - 1)
  BY DEF GoodStore
<1>2. /\ DOMAIN store2 = DOMAIN store
      /\ \A s \in DOMAIN store : s # sk => store2[s] = store[s]
      /\ store2[sk] = x /\ store[sk] = old /\ sk \in DOMAIN store
  BY DEF DelMessageKey
<1>3. /\ x.rootKeyHash = old.rootKeyHash
      /\ x.chainKey = old.chainKey
      /\ x.num = old.num
      /\ DOMAIN x.send = DOMAIN old.send
      /\ DOMAIN x.recv = DOMAIN old.recv
  OBVIOUS
<1>4. DOMAIN old.send = 0 .. (old.num - 1) /\ DOMAIN old.recv = 0 .. (old.num - 1)
  BY <1>1 DEF GoodSession
<1>5. \A j \in 0 .. (old.num - 1) :
         /\ x.send[j] = IF sender /\ j = i THEN Used ELSE old.send[j]
         /\ x.recv[j] = IF ~sender /\ j = i THEN Used ELSE old.recv[j]
  BY <1>1, <1>4, Zenon
<1> HIDE DEF x, old
<1>6. GoodSession(p, sk, x)
  <2>1. \A j \in 0 .. (x.num - 1) :
       /\ x.send[j] \in {Used, MessageKey([root |-> x.rootKeyHash.root,
                                           step |-> j], sk[2])}
       /\ x.recv[j] \in {Used, MessageKey([root |-> x.rootKeyHash.root,
                                           step |-> j], sk[1])}
    <3> SUFFICES ASSUME NEW j \in 0 .. (x.num - 1)
                 PROVE  /\ x.send[j] \in {Used, MessageKey([root |-> x.rootKeyHash.root,
                                           step |-> j], sk[2])}
                        /\ x.recv[j] \in {Used, MessageKey([root |-> x.rootKeyHash.root,
                                           step |-> j], sk[1])}
      OBVIOUS
    <3>1. j \in 0 .. (old.num - 1)
      BY <1>3
    <3>2. /\ old.send[j] \in {Used, MessageKey([root |-> old.rootKeyHash.root,
                                           step |-> j], sk[2])}
          /\ old.recv[j] \in {Used, MessageKey([root |-> old.rootKeyHash.root,
                                           step |-> j], sk[1])}
      BY <3>1, <1>1 DEF GoodSession
    <3>3. /\ x.send[j] \in {Used, old.send[j]}
          /\ x.recv[j] \in {Used, old.recv[j]}
      BY <3>1, <1>5
    <3> QED BY <3>2, <3>3, <1>3
  <2>2. /\ x.num \in Nat \ {0}
        /\ DOMAIN x.send = 0 .. (x.num - 1)
        /\ DOMAIN x.recv = 0 .. (x.num - 1)
        /\ x.chainKey = [root |-> x.rootKeyHash.root, step |-> x.num]
    BY <1>1, <1>3 DEF GoodSession
  <2>3. /\ sk \in ({p} \X Nat) \X ({Peer(p)} \X Nat)
        /\ x.rootKeyHash = [root |-> x.rootKeyHash.root, step |-> 0]
        /\ \/ x.rootKeyHash.root.session = sk[1] /\ x.rootKeyHash.root.keyInit = sk[2]
           \/ x.rootKeyHash.root.session = sk[2] /\ x.rootKeyHash.root.keyInit = sk[1]
        /\ sk[1] = KeyInit(p) => x.rootKeyHash = deriveRootKey(sk[2], sk[1], Nil)
        /\ sk[2] = KeyInit(Peer(p)) => x.rootKeyHash = deriveRootKey(sk[1], sk[2], Nil)
    BY <1>1, <1>3 DEF GoodSession
  <2> QED BY <2>1, <2>2, <2>3 DEF GoodSession
<1>7. GoodStore(p, store2)
  BY <1>2, <1>6 DEF GoodStore
<1>8. SameRoots(store, store2)
  <2>1. \A s \in DOMAIN store : store[s].num \in Nat
    BY Zenon DEF GoodStore, GoodSession
  <2> QED BY <2>1, <1>2, <1>3 DEF SameRoots
<1>9. ASSUME sender = TRUE PROVE SameUsed(store, store2)
  <2>1. \A j \in DOMAIN old.recv : x.recv[j] = old.recv[j]
    BY <1>4, <1>5, <1>9
  <2> QED BY <2>1, <1>2, <1>3 DEF SameUsed, KeyUsed
<1>10. ASSUME sender = FALSE, NEW s, NEW j
       PROVE  KeyUsed(store2, s, j) <=> KeyUsed(store, s, j) \/ (s = sk /\ j = i)
  <2>1. \A k \in DOMAIN old.recv : x.recv[k] = IF k = i THEN Used ELSE old.recv[k]
    BY <1>4, <1>5, <1>10
  <2>2. i \in DOMAIN old.recv
    BY <1>1, <1>4
  <2> QED BY <2>1, <2>2, <1>2, <1>3 DEF KeyUsed
<1> QED BY <1>7, <1>8, <1>9, <1>10, Zenon DEF UsedAlso

(* SameRoots is transitive on good stores.                                  *)
LEMMA SameRootsTrans ==
  ASSUME NEW p \in Parties, NEW s1, NEW s2, NEW s3,
         GoodStore(p, s1), GoodStore(p, s2), GoodStore(p, s3),
         SameRoots(s1, s2), SameRoots(s2, s3)
  PROVE  SameRoots(s1, s3)
<1>1. ASSUME NEW s, GoodStore(p, s), NEW sk \in DOMAIN s PROVE s[sk].num \in Nat
  BY <1>1, Zenon DEF GoodStore, GoodSession
<1> QED BY <1>1 DEF SameRoots

(* A good store has the roots and the used keys it has.                     *)
LEMMA SameRootsRefl ==
  ASSUME NEW p \in Parties, NEW s1, GoodStore(p, s1)
  PROVE  SameRoots(s1, s1) /\ SameUsed(s1, s1)
<1>1. \A sk \in DOMAIN s1 : s1[sk].num \in Nat
  BY Zenon DEF GoodStore, GoodSession
<1> QED BY <1>1 DEF SameRoots, SameUsed

(* The key of a message with index i in session sk with the given root.     *)
KeyAt(root, i, pub) == MessageKey([root |-> root, step |-> i], pub)

(* What the tail of Encrypt does: it sends nothing, or one message under    *)
(* the key with the next index; the sessions and their root keys stay.      *)
LEMMA SealStep ==
  ASSUME NEW p \in Parties, NEW st \in SessionStates, NEW store,
         NEW tooLong \in BOOLEAN, GoodStore(p, store),
         Current(st) \in DOMAIN store,
         st.messageCount <= store[Current(st)].num,
         DOMAIN sessions = Parties,
         Seal(p, st, store, tooLong)
  PROVE  /\ SameRoots(store, sessions'[p])
         /\ GoodStore(p, sessions'[p])
         /\ SameUsed(store, sessions'[p])
         /\ sessions' = [sessions EXCEPT ![p] = sessions'[p]]
         /\ \/ net' = net /\ ss' = [ss EXCEPT ![p] = st]
            \/ /\ net' = net \cup
                    {Message(p, st, KeyAt(store[Current(st)].rootKeyHash.root,
                                          st.messageCount, st.recipientTemp))}
               /\ ss' = [ss EXCEPT ![p] = [st EXCEPT !.messageCount = @ + 1]]
               /\ st.messageCount + 1 <= sessions'[p][Current(st)].num
<1> DEFINE own == st.senderSessionPub
           peer == st.recipientTemp
           sk == <<own, peer>>
           i == st.messageCount
           ck == store[sk].chainKey
           more == generateMessageKeys(store, ck, FALSE, own, peer, NumOfKeys)
           full == IF i >= store[sk].num THEN more ELSE store
           key == full[sk].send[i]
           sent == ~tooLong /\ key # Used
           done == IF sent THEN DelMessageKey(full, sk, TRUE, i) ELSE full
<1>1. sk \in DOMAIN store /\ i \in Nat /\ i <= store[sk].num
  BY DEF Current, SessionStates
<1>2. store[sk].num \in Nat \ {0}
  BY <1>1, Zenon DEF GoodStore, GoodSession
<1>3. /\ net' = IF sent THEN net \cup {Message(p, st, key)} ELSE net
      /\ sessions' = [sessions EXCEPT ![p] = done]
      /\ ss' = [ss EXCEPT ![p] =
                  IF sent THEN [st EXCEPT !.messageCount = @ + 1] ELSE st]
  BY Zenon DEF Seal
<1>4. sessions'[p] = done
  BY <1>3, Zenon
<1>5. /\ SameRoots(store, full)
      /\ GoodStore(p, full)
      /\ SameUsed(store, full)
      /\ full[sk].num \in Nat
      /\ i < full[sk].num
  <2>1. CASE i >= store[sk].num
    <3> HIDE DEF more, ck
    <3>1. /\ SameRoots(store, more)
          /\ GoodStore(p, more)
          /\ SameUsed(store, more)
          /\ more[sk].num = store[sk].num + NumOfKeys
      <4> HIDE DEF own, peer
      <4>1. more = generateMessageKeys(store, ck, FALSE, own, peer, NumOfKeys)
        BY DEF more
      <4>2. ck = store[<<own, peer>>].chainKey /\ <<own, peer>> \in DOMAIN store
        BY <1>1 DEF ck
      <4>3. NumOfKeys \in Nat
        BY PositiveBatch
      <4>4. KeysAdded(p, store, own, peer, NumOfKeys, ck, more)
        BY <4>1, <4>2, <4>3 DEF KeysAdded
      <4>5. /\ SameRoots(store, more)
            /\ GoodStore(p, more)
            /\ SameUsed(store, more)
            /\ more[<<own, peer>>].num = store[<<own, peer>>].num + NumOfKeys
        BY <4>4, MoreKeys
      <4> QED BY <4>5 DEF sk
    <3>2. full = more
      BY <2>1
    <3> HIDE DEF full, sk, i
    <3> QED BY <1>1, <1>2, <3>1, <3>2, PositiveBatch
  <2>2. CASE ~(i >= store[sk].num)
    <3>1. full = store
      BY <2>2
    <3> HIDE DEF full, sk, i
    <3> QED BY <1>1, <1>2, <2>2, <3>1, SameRootsRefl
  <2> QED BY <2>1, <2>2, Zenon
<1>6. sk \in DOMAIN full /\ full[sk].rootKeyHash = store[sk].rootKeyHash
  BY <1>1, <1>5, Zenon DEF SameRoots
<1> HIDE DEF full
<1>7. key \in {Used, KeyAt(store[sk].rootKeyHash.root, i, peer)}
  <2>1. GoodSession(p, sk, full[sk])
    BY <1>5, <1>6 DEF GoodStore
  <2>2. i \in 0 .. (full[sk].num - 1)
    BY <1>1, <1>5
  <2>3. sk[2] = peer
    OBVIOUS
  <2> HIDE DEF sk, i, peer
  <2> QED BY <1>6, <2>1, <2>2, <2>3 DEF GoodSession, KeyAt
<1>8. CASE sent
  <2>1. /\ SameRoots(full, done)
        /\ GoodStore(p, done)
        /\ SameUsed(full, done)
    <3>1. done = DelMessageKey(full, sk, TRUE, i)
      BY <1>8
    <3>2. i \in 0 .. (full[sk].num - 1)
      BY <1>1, <1>5
    <3> HIDE DEF done, sk, i
    <3>3. KeyDeleted(p, full, sk, TRUE, i, done)
      BY <1>5, <1>6, <3>1, <3>2 DEF KeyDeleted
    <3> QED BY <3>3, DeleteKey, Zenon
  <2> HIDE DEF done
  <2>2. SameRoots(store, done) /\ SameUsed(store, done)
    <3>1. SameRoots(store, done)
      BY <1>5, <2>1, SameRootsTrans
    <3>2. SameUsed(store, done)
      BY <1>5, <2>1 DEF SameUsed
    <3> QED BY <3>1, <3>2
  <2>3. key = KeyAt(store[sk].rootKeyHash.root, i, peer)
    BY <1>7, <1>8
  <2>4. st.messageCount + 1 <= done[sk].num
    <3>1. full[sk].num <= done[sk].num
      BY <1>6, <2>1 DEF SameRoots
    <3>2. done[sk].num \in Nat
      BY <1>6, <2>1, Zenon DEF SameRoots, GoodStore, GoodSession
    <3> QED BY <1>1, <1>5, <3>1, <3>2
  <2>5. Current(st) = sk
    BY DEF Current
  <2> QED BY <1>3, <1>4, <1>8, <2>1, <2>2, <2>3, <2>4, <2>5
<1>9. CASE ~sent
  <2>1. done = full
    BY <1>9, Zenon
  <2> QED BY <1>3, <1>4, <1>5, <1>9, <2>1, Zenon
<1> QED BY <1>8, <1>9

(* Why the tail of Decrypt may refuse m, given the store it starts from.    *)
Refusable(p, m, store) ==
  \/ SessionKey(m) \notin DOMAIN store
  \/ TopUp(m.messageCount) > MaxNumOfKeys
  \/ KeyUsed(store, SessionKey(m), m.messageCount)
  \/ m.key # KeyAt(store[SessionKey(m)].rootKeyHash.root, m.messageCount,
                   m.recipientTemp)

(* What the tail of Decrypt does: it opens m and deletes its key, or it     *)
(* refuses m for one of the reasons above; sessions and root keys stay.     *)
LEMMA OpenStep ==
  ASSUME NEW p \in Parties, NEW m, NEW store, GoodStore(p, store),
         m.messageCount \in Nat, m.key # Used,
         DOMAIN sessions = Parties, Open(p, m, store)
  PROVE  /\ SameRoots(store, sessions'[p])
         /\ GoodStore(p, sessions'[p])
         /\ sessions' = [sessions EXCEPT ![p] = sessions'[p]]
         /\ net' = net
         /\ \/ /\ SessionKey(m) \in DOMAIN store
               /\ ~KeyUsed(store, SessionKey(m), m.messageCount)
               /\ UsedAlso(store, sessions'[p], SessionKey(m), m.messageCount)
               /\ opened' = opened \cup {m}
               /\ rejected' = rejected
               /\ replayed' = IF m \in opened THEN replayed \cup {m} ELSE replayed
            \/ /\ SameUsed(store, sessions'[p])
               /\ opened' = opened
               /\ rejected' = IF m \in opened THEN rejected ELSE rejected \cup {m}
               /\ replayed' = replayed
               /\ Refusable(p, m, store)
<1> DEFINE own == m.recipientTemp
           peer == m.senderSessionPub
           sk == <<own, peer>>
           i == m.messageCount
           known == sk \in DOMAIN store
           short == known /\ i >= store[sk].num
           refused == short /\ TopUp(i) > MaxNumOfKeys
           ck == store[sk].chainKey
           more == generateMessageKeys(store, ck, TRUE, peer, own, TopUp(i))
           full == IF short /\ ~refused THEN more ELSE store
           ok == known /\ ~refused /\ full[sk].recv[i] = m.key
           done == IF ok THEN DelMessageKey(full, sk, FALSE, i) ELSE full
<1>1. /\ sessions' = [sessions EXCEPT ![p] = done]
      /\ opened' = IF ok THEN opened \cup {m} ELSE opened
      /\ rejected' = IF ok \/ m \in opened THEN rejected ELSE rejected \cup {m}
      /\ replayed' = IF ok /\ m \in opened THEN replayed \cup {m} ELSE replayed
      /\ net' = net
      /\ SessionKey(m) = sk
  BY Zenon DEF Open, SessionKey
<1>2. sessions'[p] = done
  BY <1>1, Zenon
<1>3. TopUp(i) \in Nat /\ TopUp(i) >= i
  BY TopUpEnough
<1>4. known => store[sk].num \in Nat \ {0}
  BY Zenon DEF GoodStore, GoodSession
<1>5. /\ SameRoots(store, full)
      /\ GoodStore(p, full)
      /\ SameUsed(store, full)
      /\ known /\ ~refused => full[sk].num \in Nat /\ i < full[sk].num
  <2>1. CASE short /\ ~refused
    <3> HIDE DEF more, ck
    <3>1. /\ SameRoots(store, more)
          /\ GoodStore(p, more)
          /\ SameUsed(store, more)
          /\ more[sk].num = store[sk].num + TopUp(i)
      <4> DEFINE cnt == TopUp(i)
      <4>1. cnt \in Nat /\ <<own, peer>> \in DOMAIN store
        BY <1>3, <2>1
      <4>2. more = generateMessageKeys(store, ck, TRUE, peer, own, cnt)
        BY DEF more
      <4>3. ck = store[<<own, peer>>].chainKey
        BY DEF ck
      <4> HIDE DEF own, peer, cnt
      <4>4. KeysAdded(p, store, own, peer, cnt, ck, more)
        BY <4>1, <4>2, <4>3 DEF KeysAdded
      <4>5. /\ SameRoots(store, more)
            /\ GoodStore(p, more)
            /\ SameUsed(store, more)
            /\ more[<<own, peer>>].num = store[<<own, peer>>].num + cnt
        BY <4>4, MoreKeys
      <4> QED BY <4>5 DEF sk, cnt
    <3>2. full = more
      BY <2>1
    <3>3. known /\ store[sk].num \in Nat \ {0}
      BY <1>4, <2>1
    <3> HIDE DEF full, sk, i, known
    <3> QED BY <1>3, <3>1, <3>2, <3>3 DEF i
  <2>2. CASE ~(short /\ ~refused)
    <3>1. full = store
      BY <2>2, Zenon
    <3>2. known /\ ~refused => ~(i >= store[sk].num)
      BY <2>2
    <3>3. i \in Nat
      OBVIOUS
    <3> HIDE DEF full, sk, i, known, refused
    <3> QED BY <1>4, <3>1, <3>2, <3>3, SameRootsRefl
  <2> QED BY <2>1, <2>2, Zenon
<1>6. known => sk \in DOMAIN full /\ full[sk].rootKeyHash = store[sk].rootKeyHash
  BY <1>5, Zenon DEF SameRoots
<1> HIDE DEF full, refused
<1>7. CASE ok
  <2>1. known /\ i \in 0 .. (full[sk].num - 1) /\ sk \in DOMAIN full
    BY <1>5, <1>6, <1>7
  <2>2. done = DelMessageKey(full, sk, FALSE, i)
    BY <1>7
  <2>3. full[sk].recv[i] # Used
    BY <1>7
  <2> HIDE DEF done, sk, i, ok, known
  <2>3a. ~KeyUsed(store, sk, i)
    BY <1>5, <2>3 DEF SameUsed, KeyUsed
  <2>4. /\ SameRoots(full, done)
        /\ GoodStore(p, done)
        /\ UsedAlso(full, done, sk, i)
    <3>1. KeyDeleted(p, full, sk, FALSE, i, done)
      BY <1>5, <2>1, <2>2 DEF KeyDeleted
    <3> QED BY <3>1, DeleteKey, Zenon
  <2>5. SameRoots(store, done)
    BY <1>5, <2>4, SameRootsTrans
  <2>6. UsedAlso(store, done, sk, i)
    BY <1>5, <2>4 DEF SameUsed, UsedAlso
  <2>7. known => sk \in DOMAIN store
    BY DEF known
  <2> QED BY <1>1, <1>2, <1>7, <2>1, <2>3a, <2>4, <2>5, <2>6, <2>7 DEF i
<1>8. CASE ~ok
  <2>1. done = full
    BY <1>8, Zenon
  <2>2. Refusable(p, m, store)
    <3>1. CASE ~known
      BY <1>1, <3>1 DEF Refusable
    <3>2. CASE refused
      BY <3>2 DEF Refusable, refused
    <3>3. CASE known /\ ~refused /\ full[sk].recv[i] # m.key
      <4>1. i \in 0 .. (full[sk].num - 1) /\ GoodSession(p, sk, full[sk])
        BY <1>5, <1>6, <3>3 DEF GoodStore
      <4>2. full[sk].recv[i] \in {Used, KeyAt(full[sk].rootKeyHash.root, i, sk[1])}
        BY <4>1, Zenon DEF GoodSession, KeyAt
      <4>3. i \in DOMAIN full[sk].recv
        BY <4>1, Zenon DEF GoodSession
      <4>4. sk[1] = own
        OBVIOUS
      <4> HIDE DEF sk, known
      <4>5. CASE full[sk].recv[i] = Used
        <5>1. KeyUsed(full, sk, i)
          BY <4>3, <4>5, <1>6, <3>3 DEF KeyUsed
        <5>2. KeyUsed(store, sk, i)
          BY <5>1, <1>5 DEF SameUsed
        <5> QED BY <5>2, <1>1 DEF Refusable
      <4>6. CASE full[sk].recv[i] # Used
        BY <4>2, <4>4, <4>6, <1>1, <1>6, <3>3 DEF Refusable
      <4> QED BY <4>5, <4>6
    <3> QED BY <1>8, <3>1, <3>2, <3>3
  <2> HIDE DEF done, ok
  <2> QED BY <1>1, <1>2, <1>5, <1>8, <2>1, <2>2
<1> QED BY <1>7, <1>8

-----------------------------------------------------------------------------
(* The tails of Encrypt and Decrypt *)

(* What a step may do to the stores and key counters: sessions are only     *)
(* added, with their root keys for good, and counters only grow.            *)
Extended(store1, store2) ==
  /\ DOMAIN store1 \subseteq DOMAIN store2
  /\ \A sk \in DOMAIN store1 :
       /\ store2[sk].rootKeyHash = store1[sk].rootKeyHash
       /\ store1[sk].num <= store2[sk].num

Grown(mine, theirs, made, mine2, theirs2, made2) ==
  /\ Extended(mine, mine2)
  /\ DOMAIN theirs \subseteq DOMAIN theirs2
  /\ made \in [Parties -> Nat] /\ made2 \in [Parties -> Nat]
  /\ \A q \in Parties : made[q] <= made2[q]

Agree(mine, theirs) ==
  \A sk \in DOMAIN mine :
    Mirror(sk) \in DOMAIN theirs =>
      mine[sk].rootKeyHash = theirs[Mirror(sk)].rootKeyHash

(* The two identities are each other's peers.                               *)
LEMMA Peers ==
  ASSUME NEW p \in Parties
  PROVE  /\ Peer(p) \in Parties
         /\ Peer(Peer(p)) = p
         /\ Peer(p) # p
         /\ \A q \in Parties : q = p \/ q = Peer(p)
  BY TwoIdentities DEF Parties, Peer

(* Key entries issued stay issued.                                          *)
LEMMA IssuedGrow ==
  ASSUME NEW n \in Nat, NEW k \in Nat, n <= k, NEW q
  PROVE  /\ Issued(q, n) \subseteq Issued(q, k)
         /\ SessionKeysOf(q, n) \subseteq SessionKeysOf(q, k)
  BY DEF Issued, SessionKeysOf

(* A message stays good when stores and counters grow.                      *)
LEMMA MessageStaysGood ==
  ASSUME NEW p \in Parties, NEW m, NEW mine, NEW theirs, NEW made,
         NEW mine2, NEW theirs2, NEW made2,
         Grown(mine, theirs, made, mine2, theirs2, made2),
         GoodMessage(p, mine, theirs, made, m)
  PROVE  GoodMessage(p, mine2, theirs2, made2, m)
<1> DEFINE sk == Mirror(SessionKey(m))
<1>1. sk \in DOMAIN mine /\ sk \in DOMAIN mine2
      /\ mine2[sk].rootKeyHash = mine[sk].rootKeyHash
  BY DEF GoodMessage, Grown, Extended
<1>2. /\ SessionKeysOf(p, made[p]) \subseteq SessionKeysOf(p, made2[p])
      /\ SessionKeysOf(Peer(p), made[Peer(p)])
           \subseteq SessionKeysOf(Peer(p), made2[Peer(p)])
  BY Peers, IssuedGrow DEF Grown
<1>3. ASSUME m.seen # Nil
      PROVE  m.next # Nil /\ Prepared(mine2, m.next, m.seen, sk)
  BY <1>3, <1>1 DEF GoodMessage, Grown, Extended, Prepared
<1>4. Recognised(p, sk, theirs2)
  BY DEF GoodMessage, Grown, Recognised
<1> QED BY <1>1, <1>2, <1>3, <1>4, Zenon DEF GoodMessage

(* A session state stays good when the store only gets more message keys    *)
(* and the peer's store and the counters grow.                              *)
LEMMA StateStaysGood ==
  ASSUME NEW p \in Parties, NEW st, NEW mine, NEW theirs, NEW made,
         NEW mine2, NEW theirs2, NEW made2,
         Grown(mine, theirs, made, mine2, theirs2, made2),
         GoodStore(p, mine), GoodStore(p, mine2),
         DOMAIN mine2 = DOMAIN mine,
         GoodState(p, mine, theirs, made, st)
  PROVE  GoodState(p, mine2, theirs2, made2, st)
<1> DEFINE sk == Current(st)
<1>1. sk \in DOMAIN mine /\ sk \in DOMAIN mine2
      /\ mine2[sk].rootKeyHash = mine[sk].rootKeyHash
      /\ mine[sk].num <= mine2[sk].num
  BY DEF GoodState, Grown, Extended
<1>2. /\ SessionKeysOf(p, made[p]) \subseteq SessionKeysOf(p, made2[p])
      /\ SessionKeysOf(Peer(p), made[Peer(p)])
           \subseteq SessionKeysOf(Peer(p), made2[Peer(p)])
  BY Peers, IssuedGrow DEF Grown
<1>3. ASSUME st.seen # Nil
      PROVE  st.next # Nil /\ Prepared(mine2, st.next, st.seen, sk)
  BY <1>3, <1>1 DEF GoodState, Grown, Extended, Prepared
<1>4. Recognised(p, sk, theirs2)
  BY DEF GoodState, Grown, Recognised
<1>5. st.messageCount <= mine2[sk].num
  <2>1. mine[sk].num \in Nat /\ mine2[sk].num \in Nat
    BY <1>1, Zenon DEF GoodStore, GoodSession
  <2>2. st.messageCount \in Nat /\ st.messageCount <= mine[sk].num
    BY DEF GoodState, SessionStates
  <2> HIDE DEF sk
  <2> QED BY <1>1, <2>1, <2>2
<1>6. \A s \in DOMAIN mine2 : mine2[s].rootKeyHash = mine[s].rootKeyHash
  BY DEF Grown, Extended
<1>7. \A s \in DOMAIN mine2 :
        s[1] = st.next =>
          s[2] = st.seen /\ mine2[s].rootKeyHash.root.session = s[1]
  BY <1>6 DEF GoodState
<1> QED BY <1>1, <1>2, <1>3, <1>4, <1>5, <1>7, Zenon DEF GoodState

-----------------------------------------------------------------------------
(* The intermediate condition *)

(* What Encrypt and Decrypt have established about p's store and state when *)
(* they reach their common tails; `made' and `keys' are the new values of   *)
(* created and priv.                                                        *)
Mid(p, store, made, keys, st) ==
  /\ GoodStore(p, store)
  /\ Extended(sessions[p], store)
  /\ SameUsed(sessions[p], store)
  /\ KeysIssued(p, store, made)
  /\ Agree(store, sessions[Peer(p)])
  /\ st # Nil
  /\ GoodState(p, store, sessions[Peer(p)], made, st)
  /\ \A m \in net : m.from = p => Older(m, st)
  /\ made \in [Parties -> Nat]
  /\ \A q \in Parties : created[q] <= made[q]
  /\ keys \in [Parties -> SUBSET KeyEntries]
  /\ keys[Peer(p)] = priv[Peer(p)]
  /\ st.next # Nil => st.next \in keys[p]

(* The parts of SessionInv that both tails restore in the same way.         *)
Restored ==
  /\ StoresGood
  /\ StoredKeysIssued
  /\ StatesGood
  /\ SessionsAgree
  /\ OfferedKeysUsable
  /\ ss \in [Parties -> SessionStates \cup {Nil}]
  /\ created \in [Parties -> Nat]
  /\ priv \in [Parties -> SUBSET KeyEntries]
  /\ DOMAIN sessions = Parties

(* Mirroring a stored session's key twice gives it back.                    *)
LEMMA MirrorMirror ==
  ASSUME NEW p, NEW store, GoodStore(p, store), NEW sk \in DOMAIN store
  PROVE  /\ Mirror(sk) = <<sk[2], sk[1]>> /\ Mirror(Mirror(sk)) = sk
         /\ sk[1] \in {p} \X Nat /\ sk[2] \in {Peer(p)} \X Nat
<1>1. sk \in ({p} \X Nat) \X ({Peer(p)} \X Nat)
  BY Zenon DEF GoodStore, GoodSession
<1> QED BY <1>1 DEF Mirror

(* Agreement is symmetric.                                                  *)
LEMMA AgreeSymmetric ==
  ASSUME NEW p, NEW mine, NEW theirs, GoodStore(p, mine), Agree(theirs, mine)
  PROVE  Agree(mine, theirs)
<1> SUFFICES ASSUME NEW sk \in DOMAIN mine, Mirror(sk) \in DOMAIN theirs
             PROVE  mine[sk].rootKeyHash = theirs[Mirror(sk)].rootKeyHash
  BY DEF Agree
<1>1. Mirror(Mirror(sk)) = sk
  BY MirrorMirror
<1> QED BY <1>1 DEF Agree

(* From Mid, a tail that only adds message keys to the store, deletes       *)
(* message keys or counts a message restores the common parts.              *)
LEMMA TailRestores ==
  ASSUME SessionInv, NEW p \in Parties, NEW store, NEW st, NEW st2,
         Mid(p, store, created', priv', st),
         SameRoots(store, sessions'[p]), GoodStore(p, sessions'[p]),
         sessions' = [sessions EXCEPT ![p] = sessions'[p]],
         ss' = [ss EXCEPT ![p] = st2],
         st2 # Nil, st2.next = st.next,
         GoodState(p, sessions'[p], sessions[Peer(p)], created', st2),
         \A m \in net : m.from = p => Older(m, st2)
  PROVE  /\ Restored'
         /\ \A m \in net :
              /\ m.from \in Parties
              /\ GoodMessage(m.from, sessions'[m.from], sessions'[Peer(m.from)],
                             created', m)
              /\ Older(m, ss'[m.from])
<1> DEFINE q == Peer(p)
<1>1. /\ q \in Parties /\ q # p /\ Peer(q) = p
      /\ \A r \in Parties : r = p \/ r = q
  BY Peers, Zenon
<1> HIDE DEF q
<1>q. Peer(p) = q
  BY DEF q
<1>2. /\ sessions'[q] = sessions[q]
      /\ ss'[q] = ss[q] /\ ss'[p] = st2
      /\ DOMAIN sessions' = Parties /\ DOMAIN ss' = Parties
  BY <1>1, Zenon DEF SessionInv, TypeOK
<1>3. /\ created' \in [Parties -> Nat] /\ created \in [Parties -> Nat]
      /\ \A r \in Parties : created[r] <= created'[r]
      /\ priv' \in [Parties -> SUBSET KeyEntries]
      /\ priv'[q] = priv[q]
  BY <1>q, Zenon DEF Mid, SessionInv, TypeOK
<1>4. StoresGood'
  <2>1. GoodStore(q, sessions'[q])
    BY <1>1, <1>2 DEF SessionInv, StoresGood
  <2> QED BY <1>1, <2>1, Zenon DEF StoresGood
<1>5. Grown(sessions[p], sessions[q], created, sessions'[p], sessions'[q], created')
  <2>1. Extended(sessions[p], sessions'[p])
    <3>1. Extended(sessions[p], store) /\ GoodStore(p, sessions[p]) /\ GoodStore(p, store)
      BY DEF Mid, SessionInv, StoresGood
    <3>2. ASSUME NEW s, GoodStore(p, s), NEW sk \in DOMAIN s PROVE s[sk].num \in Nat
      BY <3>2, Zenon DEF GoodStore, GoodSession
    <3> QED BY <3>1, <3>2 DEF Extended, SameRoots
  <2> QED BY <1>2, <1>3, <2>1 DEF Grown
<1>6. Grown(sessions[q], sessions[p], created, sessions'[q], sessions'[p], created')
  <2>1. Extended(sessions[q], sessions'[q])
    <3>1. \A sk \in DOMAIN sessions[q] : sessions[q][sk].num \in Nat
      BY <1>1, Zenon DEF SessionInv, StoresGood, GoodStore, GoodSession
    <3>2. \A sk \in DOMAIN sessions[q] : sessions[q][sk].num <= sessions[q][sk].num
      BY ONLY <3>1
    <3> QED BY <1>2, <3>2, Zenon DEF Extended
  <2> QED BY <1>3, <1>5, <2>1, Zenon DEF Grown, Extended
<1>7. StoredKeysIssued'
  <2>1. KeysIssued(p, sessions'[p], created')
    BY DEF Mid, SameRoots, KeysIssued
  <2>2. KeysIssued(q, sessions'[q], created')
    <3>1. KeysIssued(q, sessions[q], created)
      BY <1>1, Zenon DEF SessionInv, StoredKeysIssued
    <3>2. /\ Issued(q, created[q]) \subseteq Issued(q, created'[q])
          /\ Issued(p, created[p]) \subseteq Issued(p, created'[p])
      BY <1>1, <1>3, IssuedGrow, Zenon
    <3>3. ASSUME NEW sk \in DOMAIN sessions[q]
          PROVE  sk \in Issued(q, created'[q]) \X Issued(p, created'[p])
      <4>1. sk \in Issued(q, created[q]) \X Issued(p, created[p])
        BY <1>1, <3>1, Zenon DEF KeysIssued
      <4> QED BY ONLY <3>2, <4>1
    <3> QED BY <1>1, <1>2, <3>3, Zenon DEF KeysIssued
  <2> QED BY <1>1, <2>1, <2>2 DEF StoredKeysIssued
<1>8. StatesGood'
  <2>1. GoodState(p, sessions'[p], sessions'[q], created', ss'[p])
    BY <1>2, <1>q
  <2>2. ASSUME ss[q] # Nil
        PROVE  GoodState(q, sessions'[q], sessions'[p], created', ss'[q])
    <3>1. GoodState(q, sessions[q], sessions[p], created, ss[q])
      BY <1>1, <2>2 DEF SessionInv, StatesGood
    <3>2. GoodStore(q, sessions[q]) /\ GoodStore(q, sessions'[q])
      BY <1>1, <1>4 DEF SessionInv, StoresGood
    <3>3. DOMAIN sessions'[q] = DOMAIN sessions[q]
      BY <1>2
    <3>4. GoodState(q, sessions'[q], sessions'[p], created', ss[q])
      BY ONLY <1>1, <1>6, <3>1, <3>2, <3>3, StateStaysGood
    <3> QED BY <1>2, <3>4
  <2>3. ss[q] = Nil => DOMAIN sessions'[q] = {}
    BY <1>1, <1>2 DEF SessionInv, StatesGood
  <2>4. ASSUME NEW r \in Parties
        PROVE  IF ss'[r] = Nil THEN DOMAIN sessions'[r] = {}
               ELSE GoodState(r, sessions'[r], sessions'[Peer(r)], created', ss'[r])
    <3>1. CASE r = p
      BY <1>2, <1>q, <2>1, <3>1
    <3>2. CASE r = q
      BY <1>1, <1>2, <2>2, <2>3, <3>2, Zenon
    <3> QED BY <1>1, <3>1, <3>2, Zenon
  <2> QED BY <2>4 DEF StatesGood
<1>9. SessionsAgree'
  <2>1. Agree(sessions'[p], sessions'[q])
    BY <1>2, <1>q, Zenon DEF Mid, SameRoots, Agree
  <2>2. GoodStore(q, sessions'[q])
    BY <1>1, <1>4, Zenon DEF StoresGood
  <2>3. Agree(sessions'[q], sessions'[p])
    BY <2>1, <2>2, AgreeSymmetric
  <2>4. Agree(sessions'[A], sessions'[B])
    BY <2>1, <2>3, <1>q DEF Peer, Parties
  <2> QED BY <2>4 DEF SessionsAgree, Agree
<1>10. OfferedKeysUsable'
  <2>1. st2.next # Nil => st2.next \in priv'[p]
    BY DEF Mid
  <2>2. ss[q] # Nil => (ss[q].next # Nil => ss[q].next \in priv[q])
    BY <1>1, Zenon DEF SessionInv, OfferedKeysUsable
  <2> QED BY <1>1, <1>2, <1>3, <2>1, <2>2 DEF OfferedKeysUsable
<1>11. ss' \in [Parties -> SessionStates \cup {Nil}]
  <2>1. st2 \in SessionStates
    BY Zenon DEF GoodState
  <2> QED BY <2>1, Zenon DEF SessionInv, TypeOK
<1>12. ASSUME NEW m \in net
       PROVE  /\ m.from \in Parties
              /\ GoodMessage(m.from, sessions'[m.from], sessions'[Peer(m.from)],
                             created', m)
              /\ Older(m, ss'[m.from])
  <2>1. /\ m.from \in Parties
        /\ GoodMessage(m.from, sessions[m.from], sessions[Peer(m.from)], created, m)
        /\ Older(m, ss[m.from])
    BY Zenon DEF SessionInv, MessagesGood
  <2>2. CASE m.from = p
    <3>1. GoodMessage(p, sessions[p], sessions[q], created, m)
      BY <2>1, <2>2, <1>q
    <3>2. GoodMessage(p, sessions'[p], sessions'[q], created', m)
      BY ONLY p \in Parties, <1>5, <3>1, MessageStaysGood
    <3> QED BY <2>2, <3>2, <1>2, <1>q, Zenon
  <2>3. CASE m.from = q
    <3>1. GoodMessage(q, sessions[q], sessions[p], created, m)
      BY <2>1, <2>3, <1>1, Zenon
    <3>2. GoodMessage(q, sessions'[q], sessions'[p], created', m)
      BY ONLY <1>1, <1>6, <3>1, MessageStaysGood
    <3> QED BY <2>1, <2>3, <3>2, <1>1, <1>2, Zenon
  <2> QED BY <1>1, <2>1, <2>2, <2>3, Zenon
<1> QED BY <1>2, <1>3, <1>4, <1>7, <1>8, <1>9, <1>10, <1>11, <1>12, Zenon DEF Restored

HistorySent ==
  opened \subseteq net /\ rejected \subseteq net /\ replayed \subseteq net

(* Type correctness follows from the other parts of the invariant.          *)
LEMMA TypeFromParts == Restored /\ MessagesGood /\ HistorySent => TypeOK
<1> SUFFICES ASSUME Restored, MessagesGood, HistorySent
             PROVE  TypeOK
  OBVIOUS
<1>1. ASSUME NEW p \in Parties, NEW sk \in DOMAIN sessions[p]
      PROVE  /\ sk \in KeyEntries \X KeyEntries
             /\ sessions[p][sk].num \in Nat \ {0}
             /\ DOMAIN sessions[p][sk].send = 0 .. (sessions[p][sk].num - 1)
             /\ DOMAIN sessions[p][sk].recv = 0 .. (sessions[p][sk].num - 1)
  <2>1. GoodSession(p, sk, sessions[p][sk])
    BY DEF Restored, StoresGood, GoodStore
  <2>2. sk \in KeyEntries \X KeyEntries
    BY <2>1, Peers, Zenon DEF GoodSession, KeyEntries
  <2> QED BY <2>1, <2>2, Zenon DEF GoodSession
<1>2. ASSUME NEW m \in net
      PROVE  /\ m.from \in Parties
             /\ SessionKey(m) \in KeyEntries \X KeyEntries
             /\ {m.next, m.seen} \subseteq KeyEntries \cup {Nil}
             /\ {m.sessionCount, m.messageCount} \subseteq Nat
  <2> DEFINE p == m.from
             sk == <<m.senderSessionPub, m.recipientTemp>>
  <2>1. p \in Parties /\ GoodMessage(p, sessions[p], sessions[Peer(p)], created, m)
    BY DEF MessagesGood
  <2>2. sk \in DOMAIN sessions[p]
    BY <2>1 DEF GoodMessage, Mirror, SessionKey
  <2>3. sk \in KeyEntries \X KeyEntries
    BY <1>1, <2>1, <2>2
  <2>4. created \in [Parties -> Nat] /\ Peer(p) \in Parties
    BY <2>1, Peers DEF Restored
  <2>5. \A r \in Parties : SessionKeysOf(r, created[r]) \subseteq KeyEntries
    BY <2>4 DEF SessionKeysOf, KeyEntries
  <2> QED BY <2>1, <2>3, <2>4, <2>5 DEF GoodMessage, SessionKey
<1> QED BY <1>1, <1>2 DEF TypeOK, Restored, HistorySent

(* The stores of p before and after a tail, with the peer's as it is.       *)
LEMMA TailGrows ==
  ASSUME NEW p \in Parties, NEW store, NEW store2, NEW theirs, NEW made,
         made \in [Parties -> Nat], SameRoots(store, store2)
  PROVE  /\ Grown(store, theirs, made, store2, theirs, made)
         /\ DOMAIN store2 = DOMAIN store
  BY DEF Grown, Extended, SameRoots

(* If no receive key is deleted and nothing opened, OpenedKeysUsed stays.   *)
LEMMA UsedStays ==
  ASSUME SessionInv, NEW p \in Parties,
         SameUsed(sessions[p], sessions'[p]),
         sessions'[Peer(p)] = sessions[Peer(p)],
         opened' = opened
  PROVE  OpenedKeysUsed'
<1>1. \A r \in Parties : SameUsed(sessions[r], sessions'[r])
  BY Peers DEF SameUsed
<1>2. \A m \in opened : m.from \in Parties /\ Peer(m.from) \in Parties
  BY Peers DEF SessionInv, TypeOK
<1>3. \A m \in opened :
         KeyUsed(sessions'[Peer(m.from)], SessionKey(m), m.messageCount)
  BY <1>1, <1>2 DEF SessionInv, OpenedKeysUsed, SameUsed
<1>4. ASSUME NEW r \in Parties, NEW sk, NEW i, KeyUsed(sessions'[r], sk, i)
      PROVE  \E m \in opened : /\ m.from = Peer(r)
                                /\ SessionKey(m) = sk
                                /\ m.messageCount = i
  <2>1. KeyUsed(sessions[r], sk, i)
    BY <1>1, <1>4 DEF SameUsed
  <2>2. sk \in DOMAIN sessions[r] /\ i \in DOMAIN sessions[r][sk].recv
    BY <2>1 DEF KeyUsed
  <2> QED BY <2>1, <2>2 DEF SessionInv, OpenedKeysUsed
<1> QED BY <1>3, <1>4 DEF OpenedKeysUsed

(* The tail of Encrypt takes Mid to the invariant.                          *)
LEMMA EncryptTail ==
  ASSUME SessionInv, NEW p \in Parties, NEW store, NEW st, NEW tooLong \in BOOLEAN,
         Mid(p, store, created', priv', st), Seal(p, st, store, tooLong),
         UNCHANGED <<opened, rejected, replayed>>
  PROVE  SessionInv'
<1> DEFINE q == Peer(p)
           m0 == Message(p, st, KeyAt(store[Current(st)].rootKeyHash.root,
                                      st.messageCount, st.recipientTemp))
           counted == [st EXCEPT !.messageCount = @ + 1]
           st2 == IF net' = net THEN st ELSE counted
<1>1. /\ q \in Parties /\ q # p /\ Peer(q) = p
      /\ \A r \in Parties : r = p \/ r = q
  BY Peers
<1>2. /\ GoodStore(p, store)
      /\ GoodState(p, store, sessions[q], created', st)
      /\ st # Nil /\ st \in SessionStates
      /\ Current(st) \in DOMAIN store
      /\ st.messageCount \in Nat
      /\ st.messageCount <= store[Current(st)].num
      /\ created' \in [Parties -> Nat]
      /\ \A m \in net : m.from = p => Older(m, st)
      /\ DOMAIN sessions = Parties
  BY Zenon DEF Mid, GoodState, SessionInv, TypeOK, SessionStates
<1>3. /\ SameRoots(store, sessions'[p])
      /\ GoodStore(p, sessions'[p])
      /\ SameUsed(store, sessions'[p])
      /\ sessions' = [sessions EXCEPT ![p] = sessions'[p]]
      /\ \/ net' = net /\ ss' = [ss EXCEPT ![p] = st]
         \/ /\ net' = net \cup {m0}
            /\ ss' = [ss EXCEPT ![p] = counted]
            /\ st.messageCount + 1 <= sessions'[p][Current(st)].num
  BY <1>2, SealStep
<1>4. GoodState(p, sessions'[p], sessions[q], created', st)
  <2> DEFINE store2 == sessions'[p]
             theirs == sessions[q]
             made == created'
  <2>1. /\ Grown(store, theirs, made, store2, theirs, made)
        /\ DOMAIN store2 = DOMAIN store
    BY <1>2, <1>3, TailGrows
  <2>2. GoodStore(p, store) /\ GoodStore(p, store2) /\ GoodState(p, store, theirs, made, st)
    BY <1>2, <1>3
  <2> HIDE DEF store2, theirs, made
  <2>3. GoodState(p, store2, theirs, made, st)
    BY ONLY p \in Parties, <2>1, <2>2, StateStaysGood
  <2> QED BY <2>3 DEF store2, theirs, made
<1>5. SameUsed(sessions[p], sessions'[p])
  BY <1>3 DEF Mid, SameUsed
<1>6. sessions'[q] = sessions[q] /\ sessions'[p] = sessions'[p]
  BY <1>1, <1>2, <1>3
<1>7. OpenedKeysUsed' /\ NoReplay' /\ GenuineMessagesOpen'
  <2>1. OpenedKeysUsed'
    BY <1>5, <1>6, UsedStays
  <2> QED BY <2>1 DEF SessionInv, NoReplay, GenuineMessagesOpen
<1>8. HistorySent'
  BY <1>3 DEF SessionInv, TypeOK, HistorySent
<1>9. CASE net' = net /\ ss' = [ss EXCEPT ![p] = st]
  <2>1. /\ Restored'
        /\ \A m \in net :
              /\ m.from \in Parties
              /\ GoodMessage(m.from, sessions'[m.from], sessions'[Peer(m.from)],
                             created', m)
              /\ Older(m, ss'[m.from])
    BY <1>2, <1>3, <1>4, <1>9, TailRestores, Zenon
  <2>2. MessagesGood' /\ IndicesUnique'
    BY <2>1, <1>9, Zenon DEF MessagesGood, SessionInv, IndicesUnique
  <2>3. TypeOK'
    BY <1>8, <2>1, <2>2, TypeFromParts, PTL
  <2> QED BY <1>7, <2>1, <2>2, <2>3 DEF SessionInv, Restored
<1>10. CASE /\ net' = net \cup {m0}
            /\ ss' = [ss EXCEPT ![p] = counted]
            /\ st.messageCount + 1 <= sessions'[p][Current(st)].num
  <2>1. /\ Current(counted) = Current(st)
        /\ counted.next = st.next /\ counted.seen = st.seen
        /\ counted.senderSessionPub = st.senderSessionPub
        /\ counted.messageCount = st.messageCount + 1
        /\ counted \in SessionStates
    BY <1>2 DEF SessionStates, Current
  <2>2. counted # Nil
    BY <2>1, NilIsNil
  <2> HIDE DEF counted
  <2>3. GoodState(p, sessions'[p], sessions[q], created', counted)
    BY <1>4, <1>10, <2>1, Zenon DEF GoodState
  <2>4. \A m \in net : m.from = p => Older(m, counted)
    <3>1. ASSUME NEW m \in net, m.from = p PROVE Older(m, counted)
      <4>1. Older(m, st) /\ m.messageCount \in Nat
        BY <1>2, <3>1, Zenon DEF SessionInv, TypeOK
      <4>2. st.messageCount \in Nat
        BY <1>2, Zenon
      <4> QED BY <4>1, <4>2, <2>1, <2>2 DEF Older
    <3> QED BY <3>1
  <2>5. /\ Restored'
        /\ \A m \in net :
              /\ m.from \in Parties
              /\ GoodMessage(m.from, sessions'[m.from], sessions'[Peer(m.from)],
                             created', m)
              /\ Older(m, ss'[m.from])
    BY <1>2, <1>3, <1>10, <2>1, <2>2, <2>3, <2>4, TailRestores, Zenon
  <2>6. /\ m0.from = p
        /\ m0.recipientTemp = st.recipientTemp
        /\ m0.senderSessionPub = st.senderSessionPub
        /\ m0.next = st.next /\ m0.seen = st.seen
        /\ m0.messageCount = st.messageCount
        /\ m0.sessionCount = st.sessionCount
        /\ m0.key = KeyAt(store[Current(st)].rootKeyHash.root, st.messageCount,
                          st.recipientTemp)
    BY DEF Message
  <2> HIDE DEF m0
  <2>7. Mirror(SessionKey(m0)) = Current(st)
    BY <2>6, Zenon DEF Mirror, SessionKey, Current
  <2>8. GoodMessage(p, sessions'[p], sessions[q], created', m0)
    <3>1. store[Current(st)].rootKeyHash = sessions'[p][Current(st)].rootKeyHash
      BY <1>2, <1>3, Zenon DEF SameRoots
    <3>2. st.sessionCount \in Nat
      BY <1>2, Zenon DEF SessionStates
    <3> QED BY <1>2, <1>4, <2>6, <2>7, <3>1, <3>2, Zenon DEF GoodState, GoodMessage, KeyAt
  <2>9. Older(m0, counted)
    <3>1. st.senderSessionPub # st.next
      BY <1>2 DEF GoodState
    <3>2. st.messageCount \in Nat
      BY <1>2, Zenon
    <3>3. st.messageCount < st.messageCount + 1
      BY ONLY <3>2
    <3> QED BY <2>1, <2>2, <2>6, <3>1, <3>3, Zenon DEF Older
  <2>10. ss'[p] = counted
    BY <1>10, Zenon DEF SessionInv, TypeOK
  <2>11. MessagesGood'
    <3>1. m0.from \in Parties
          /\ GoodMessage(m0.from, sessions'[m0.from], sessions'[Peer(m0.from)],
                         created', m0)
          /\ Older(m0, ss'[m0.from])
      BY <1>6, <2>6, <2>8, <2>9, <2>10, Zenon
    <3> QED BY <1>10, <2>5, <3>1, Zenon DEF MessagesGood
  <2>12. IndicesUnique'
    <3>1. ASSUME NEW m \in net, m.from = p, SessionKey(m) = SessionKey(m0),
                 m.messageCount = m0.messageCount
          PROVE  FALSE
      <4>1. Older(m, st) /\ m.messageCount \in Nat
        BY <1>2, <3>1, Zenon DEF SessionInv, TypeOK
      <4>2. m.messageCount < st.messageCount
        BY <4>1, <3>1, <2>7, Zenon DEF Older
      <4>3. st.messageCount \in Nat /\ m.messageCount = st.messageCount
        BY <1>2, <2>6, <3>1, Zenon
      <4> QED BY <4>1, <4>2, <4>3
    <3>2. IndicesUnique
      BY DEF SessionInv
    <3> QED BY <1>10, <2>6, <3>1, <3>2, Zenon DEF IndicesUnique
  <2>13. TypeOK'
    BY <1>8, <2>5, <2>11, TypeFromParts, PTL
  <2> QED BY <1>7, <2>5, <2>11, <2>12, <2>13, Zenon DEF SessionInv, Restored
<1> QED BY <1>3, <1>9, <1>10

(* If p opens m, OpenedKeysUsed stays.                                      *)
LEMMA UsedAlsoStays ==
  ASSUME SessionInv, NEW p \in Parties, NEW m \in net, m.from = Peer(p),
         UsedAlso(sessions[p], sessions'[p], SessionKey(m), m.messageCount),
         sessions'[Peer(p)] = sessions[Peer(p)],
         opened' = opened \cup {m}
  PROVE  OpenedKeysUsed'
<1>1. Peer(m.from) = p /\ \A r \in Parties : r = p \/ r = Peer(p)
  BY Peers, Zenon
<1>2. \A r \in Parties : \A sk, i :
         KeyUsed(sessions[r], sk, i) => KeyUsed(sessions'[r], sk, i)
  BY <1>1, Zenon DEF UsedAlso
<1>3. \A x \in opened : x.from \in Parties /\ Peer(x.from) \in Parties
  BY Peers DEF SessionInv, TypeOK
<1>4. \A x \in opened :
         KeyUsed(sessions'[Peer(x.from)], SessionKey(x), x.messageCount)
  BY <1>2, <1>3 DEF SessionInv, OpenedKeysUsed
<1>5. KeyUsed(sessions'[Peer(m.from)], SessionKey(m), m.messageCount)
  BY <1>1 DEF UsedAlso
<1>6. ASSUME NEW r \in Parties, NEW sk, NEW i, KeyUsed(sessions'[r], sk, i)
      PROVE  \E x \in opened' : /\ x.from = Peer(r)
                                /\ SessionKey(x) = sk
                                /\ x.messageCount = i
  <2> (\A x \in opened : x \in opened') /\ m \in opened'
    BY ONLY opened' = opened \cup {m}
  <2>1. CASE KeyUsed(sessions[r], sk, i)
    <3>1. sk \in DOMAIN sessions[r] /\ i \in DOMAIN sessions[r][sk].recv
      BY <2>1 DEF KeyUsed
    <3>2. \E x \in opened : x.from = Peer(r) /\ SessionKey(x) = sk /\ x.messageCount = i
      BY <2>1, <3>1, Zenon DEF SessionInv, OpenedKeysUsed
    <3> QED BY <3>2, Zenon
  <2>2. CASE ~KeyUsed(sessions[r], sk, i)
    <3>1. r = p /\ sk = SessionKey(m) /\ i = m.messageCount
      BY <1>1, <1>6, <2>2 DEF UsedAlso
    <3> QED BY <3>1
  <2> QED BY <2>1, <2>2
<1>7. \A x \in opened' :
         KeyUsed(sessions'[Peer(x.from)], SessionKey(x), x.messageCount)
  <2>1. \A x \in opened' : x \in opened \/ x = m
    BY ONLY opened' = opened \cup {m}
  <2> QED BY <1>4, <1>5, <2>1, Zenon
<1>8. \A r \in Parties : \A sk \in DOMAIN sessions'[r] :
        \A i \in DOMAIN sessions'[r][sk].recv :
          KeyUsed(sessions'[r], sk, i) =>
            \E x \in opened' : /\ x.from = Peer(r)
                               /\ SessionKey(x) = sk
                               /\ x.messageCount = i
  BY ONLY <1>6, Zenon
<1> QED BY <1>7, <1>8, Zenon DEF OpenedKeysUsed

(* A message in a session that both stores agree on names the right key.    *)
LEMMA RightKey ==
  ASSUME NEW p \in Parties, NEW m, NEW store, NEW theirs, NEW made, NEW q,
         Agree(store, theirs), GoodStore(p, store),
         SessionKey(m) \in DOMAIN store,
         GoodMessage(q, theirs, store, made, m)
  PROVE  /\ m.key = KeyAt(store[SessionKey(m)].rootKeyHash.root, m.messageCount,
                          m.recipientTemp)
         /\ m.key # Used
<1> DEFINE sk == SessionKey(m)
<1>1. store[sk].rootKeyHash = theirs[Mirror(sk)].rootKeyHash
  BY Zenon DEF Agree, GoodMessage
<1>2. m.recipientTemp # Nil
  <2>1. sk[1] \in {p} \X Nat
    BY MirrorMirror
  <2>2. sk[1] = m.recipientTemp
    BY DEF SessionKey
  <2> QED BY <2>1, <2>2, NilIsNil DEF KeyEntries
<1>3. m.key = MessageKey([root |-> theirs[Mirror(sk)].rootKeyHash.root,
                          step |-> m.messageCount], m.recipientTemp)
  BY Zenon DEF GoodMessage
<1>4. m.key = KeyAt(store[sk].rootKeyHash.root, m.messageCount, m.recipientTemp)
  BY <1>1, <1>3, Zenon DEF KeyAt, MessageKey
<1>5. m.key # Used
  BY <1>2, <1>3 DEF MessageKey, Used
<1> QED BY <1>4, <1>5

(* The tail of Decrypt takes Mid to the invariant.                          *)
LEMMA DecryptTail ==
  ASSUME SessionInv, NEW p \in Parties, NEW m \in net, m.from = Peer(p),
         NEW store, NEW st, Mid(p, store, created', priv', st),
         SessionKey(m) \in DOMAIN store,
         ss' = [ss EXCEPT ![p] = st],
         Open(p, m, store)
  PROVE  SessionInv'
<1> DEFINE q == Peer(p)
           theirs == sessions[q]
<1>1. /\ q \in Parties /\ q # p /\ Peer(q) = p
      /\ \A r \in Parties : r = p \/ r = q
  BY Peers
<1>2. /\ GoodStore(p, store)
      /\ GoodState(p, store, theirs, created', st)
      /\ st # Nil
      /\ created' \in [Parties -> Nat]
      /\ \A x \in net : x.from = p => Older(x, st)
      /\ DOMAIN sessions = Parties
      /\ Agree(store, theirs)
      /\ m.messageCount \in Nat
  BY Zenon DEF Mid, GoodState, SessionInv, TypeOK
<1>3. GoodMessage(q, theirs, sessions[p], created, m)
  BY <1>1, Zenon DEF SessionInv, MessagesGood
<1>4. /\ m.key = KeyAt(store[SessionKey(m)].rootKeyHash.root, m.messageCount,
                       m.recipientTemp)
      /\ m.key # Used
  <2>1. GoodMessage(q, theirs, store, created, m)
    BY <1>3, Zenon DEF GoodMessage, Recognised, Mid, Extended
  <2> HIDE DEF theirs
  <2> QED BY <1>2, <2>1, RightKey, Zenon
<1>5. /\ SameRoots(store, sessions'[p])
      /\ GoodStore(p, sessions'[p])
      /\ sessions' = [sessions EXCEPT ![p] = sessions'[p]]
      /\ net' = net
      /\ \/ /\ SessionKey(m) \in DOMAIN store
            /\ ~KeyUsed(store, SessionKey(m), m.messageCount)
            /\ UsedAlso(store, sessions'[p], SessionKey(m), m.messageCount)
            /\ opened' = opened \cup {m}
            /\ rejected' = rejected
            /\ replayed' = IF m \in opened THEN replayed \cup {m} ELSE replayed
         \/ /\ SameUsed(store, sessions'[p])
            /\ opened' = opened
            /\ rejected' = IF m \in opened THEN rejected ELSE rejected \cup {m}
            /\ replayed' = replayed
            /\ Refusable(p, m, store)
  BY <1>2, <1>4, OpenStep
<1>6. GoodState(p, sessions'[p], theirs, created', st)
  <2> DEFINE store2 == sessions'[p]
             made == created'
  <2>1. /\ Grown(store, theirs, made, store2, theirs, made)
        /\ DOMAIN store2 = DOMAIN store
    BY <1>2, <1>5, TailGrows
  <2>2. GoodStore(p, store) /\ GoodStore(p, store2) /\ GoodState(p, store, theirs, made, st)
    BY <1>2, <1>5
  <2> HIDE DEF store2, theirs, made
  <2>3. GoodState(p, store2, theirs, made, st)
    BY ONLY p \in Parties, <2>1, <2>2, StateStaysGood
  <2> QED BY <2>3, Zenon DEF store2, theirs, made
<1>7. /\ Restored'
      /\ \A x \in net :
            /\ x.from \in Parties
            /\ GoodMessage(x.from, sessions'[x.from], sessions'[Peer(x.from)],
                           created', x)
            /\ Older(x, ss'[x.from])
  BY <1>2, <1>5, <1>6, TailRestores, Zenon
<1>8. MessagesGood' /\ IndicesUnique'
  BY <1>5, <1>7, Zenon DEF MessagesGood, SessionInv, IndicesUnique
<1>9. HistorySent'
  BY <1>5, Zenon DEF SessionInv, TypeOK, HistorySent
<1>10. TypeOK'
  BY <1>7, <1>8, <1>9, TypeFromParts, PTL
<1>11. sessions'[q] = sessions[q] /\ SameUsed(sessions[p], store)
  BY <1>1, <1>2, <1>5, Zenon DEF Mid
<1>12. m \in opened <=> KeyUsed(store, SessionKey(m), m.messageCount)
  <2>1. m \in opened <=> KeyUsed(sessions[p], SessionKey(m), m.messageCount)
    <3>1. ASSUME m \in opened PROVE KeyUsed(sessions[p], SessionKey(m), m.messageCount)
      BY <1>1, <3>1, Zenon DEF SessionInv, OpenedKeysUsed
    <3>2. ASSUME KeyUsed(sessions[p], SessionKey(m), m.messageCount) PROVE m \in opened
      <4>1. /\ SessionKey(m) \in DOMAIN sessions[p]
            /\ m.messageCount \in DOMAIN sessions[p][SessionKey(m)].recv
        BY <3>2 DEF KeyUsed
      <4>2. PICK x \in opened : /\ x.from = Peer(p)
                                /\ SessionKey(x) = SessionKey(m)
                                /\ x.messageCount = m.messageCount
        BY <3>2, <4>1, Zenon DEF SessionInv, OpenedKeysUsed
      <4>3. x \in net
        BY Zenon DEF SessionInv, TypeOK
      <4>4. x = m
        BY <4>2, <4>3 DEF SessionInv, IndicesUnique
      <4> QED BY <4>4
    <3> QED BY <3>1, <3>2
  <2> QED BY <2>1, <1>11, Zenon DEF SameUsed
<1>13. CASE /\ ~KeyUsed(store, SessionKey(m), m.messageCount)
            /\ UsedAlso(store, sessions'[p], SessionKey(m), m.messageCount)
            /\ opened' = opened \cup {m}
            /\ rejected' = rejected
            /\ replayed' = IF m \in opened THEN replayed \cup {m} ELSE replayed
  <2>1. UsedAlso(sessions[p], sessions'[p], SessionKey(m), m.messageCount)
    BY <1>11, <1>13, Zenon DEF UsedAlso, SameUsed
  <2>2. OpenedKeysUsed'
    BY <1>11, <1>13, <2>1, UsedAlsoStays, Zenon
  <2>3. NoReplay' /\ GenuineMessagesOpen'
    BY <1>12, <1>13 DEF SessionInv, NoReplay, GenuineMessagesOpen
  <2> QED BY <1>7, <1>8, <1>10, <2>2, <2>3, Zenon DEF SessionInv, Restored
<1>14. CASE /\ SameUsed(store, sessions'[p])
            /\ opened' = opened
            /\ rejected' = IF m \in opened THEN rejected ELSE rejected \cup {m}
            /\ replayed' = replayed
            /\ Refusable(p, m, store)
  <2>1. SameUsed(sessions[p], sessions'[p])
    BY <1>11, <1>14, Zenon DEF SameUsed
  <2>2. OpenedKeysUsed'
    BY <1>11, <1>14, <2>1, UsedStays, Zenon
  <2>3. m \in opened \/ TopUp(m.messageCount) > MaxNumOfKeys
    BY <1>4, <1>12, <1>14 DEF Refusable
  <2>4. NoReplay' /\ GenuineMessagesOpen'
    BY <1>14, <2>3 DEF SessionInv, NoReplay, GenuineMessagesOpen
  <2> QED BY <1>7, <1>8, <1>10, <2>2, <2>4, Zenon DEF SessionInv, Restored
<1> QED BY <1>5, <1>13, <1>14
====

--------------------------- MODULE OutQueueProofs ---------------------------
(***************************************************************************)
(* Proofs about OutQueue: the inductive invariant behind QueueSound, and   *)
(* that `msg send' implements Outbox.                                      *)
(***************************************************************************)
EXTENDS OutQueue, FiniteSetTheorems, SequenceTheorems, TLAPS

Row == [self : Nyms, msgID : MsgNums, token : Tokens \cup {None}, resend : BOOLEAN]
Msg == [self : Nyms, toSend : BOOLEAN, sent : BOOLEAN]

TypeOK ==
  /\ added \in 0 .. MaxMsgs
  /\ DOMAIN Messages \subseteq 1 .. added
  /\ Messages \in [DOMAIN Messages -> Msg]
  /\ OutQueue \in Seq(Row)
  /\ wallet \subseteq Tokens /\ locked \subseteq wallet
  /\ mix \subseteq 1 .. added
  /\ pc \in Steps \cup {"idle", "down"}
  /\ token \in Tokens \cup {None}
  /\ crashes \in Nat

(* A message has one entry in the outqueue, or is to be encrypted, or sent. *)
Placed ==
  /\ \A i, j \in DOMAIN OutQueue : OutQueue[i].msgID = OutQueue[j].msgID => i = j
  /\ \A i \in DOMAIN OutQueue :
       /\ OutQueue[i].msgID \in DOMAIN Messages
       /\ OutQueue[i].self = Messages[OutQueue[i].msgID].self
       /\ ~Messages[OutQueue[i].msgID].toSend
       /\ ~Messages[OutQueue[i].msgID].sent
  /\ \A m \in DOMAIN Messages :
       /\ ~(Messages[m].toSend /\ Messages[m].sent)
       /\ \/ Messages[m].toSend
          \/ Messages[m].sent
          \/ \E i \in DOMAIN OutQueue : OutQueue[i].msgID = m

(* What procOutQueue knows of the entry it works on, and of its token.      *)
Held ==
  /\ pc \in {"create", "set", "del", "deliver", "remove", "resend", "retract"} =>
       GetOutQueue(nym) # 0
  /\ pc \in {"create", "set"} => Entry.token = None
  /\ pc = "del" => Entry.token = token
  /\ pc \in {"create", "set", "del"} => token \in wallet /\ locked = {token}
  /\ pc \in {"proc", "deliver", "remove", "resend", "retract", "undelivered"} =>
       locked = {}
  /\ pc = "remove" => Entry.msgID \in mix

(* Without a crash, the tokens of the outqueue differ, and only the entry   *)
(* whose token DelToken is about to delete has one that is in the wallet.   *)
Paid ==
  crashes = 0 =>
    \A i \in DOMAIN OutQueue :
      /\ \A j \in DOMAIN OutQueue :
           i # j /\ OutQueue[i].token # None => OutQueue[i].token # OutQueue[j].token
      /\ OutQueue[i].token \in wallet => pc = "del" /\ i = GetOutQueue(nym)

QueueInv == TypeOK /\ Placed /\ Held /\ Paid

-----------------------------------------------------------------------------
(* Lemmas about the operators of the queue *)

(* A set of naturals that is not empty has a least element.                 *)
LEMMA LeastNat ==
  ASSUME NEW S \in SUBSET Nat, S # {}
  PROVE  \E x \in S : \A y \in S : x <= y
<1> DEFINE less == {ss \in Nat \X Nat : ss[1] < ss[2]}
<1>1. IsWellFoundedOn(less, Nat)
  BY NatLessThanWellFounded, Zenon DEF OpToRel
<1>2. PICK x \in S : \A y \in S : ~ (<<y, x>> \in less)
  <2> HIDE DEF less
  <2> QED
    BY <1>1, WFMin
<1>3. ASSUME NEW y \in S
      PROVE  x <= y
  <2>1. x \in Nat /\ y \in Nat
    OBVIOUS
  <2>2. ~(y < x)
    BY <1>2, <2>1
  <2> QED
    BY <2>1, <2>2
<1> QED
  BY <1>3

(* Min, with which GetUndeliveredMessage and GetOutQueue take the first row.*)
LEMMA MinNat ==
  ASSUME NEW S \in SUBSET Nat, S # {}
  PROVE  Min(S) \in S /\ \A y \in S : Min(S) <= y
BY LeastNat DEF Min

(* The indices of the entries of n that need not be resent.                 *)
Waiting(q, n) == {i \in 1 .. Len(q) : q[i].self = n /\ ~q[i].resend}

First(q, n) == IF Waiting(q, n) # {} THEN Min(Waiting(q, n)) ELSE 0

(* GetOutQueue returns the first of them, or 0.                             *)
LEMMA FirstFacts ==
  ASSUME NEW q \in Seq(Row), NEW n
  PROVE  /\ First(q, n) \in Nat
         /\ First(q, n) # 0 =>
              /\ First(q, n) \in DOMAIN q
              /\ q[First(q, n)] \in Row
              /\ q[First(q, n)].self = n
<1>1. Waiting(q, n) \in SUBSET Nat /\ Waiting(q, n) \subseteq DOMAIN q
  BY DEF Waiting
<1>2. First(q, n) # 0 => First(q, n) \in Waiting(q, n)
  BY <1>1, MinNat DEF First
<1> QED
  BY <1>1, <1>2 DEF Waiting, First

(* It does not depend on the tokens of the entries.                         *)
LEMMA SameFirst ==
  ASSUME NEW q \in Seq(Row), NEW r \in Seq(Row), Len(q) = Len(r), NEW n,
         \A i \in DOMAIN q : q[i].self = r[i].self /\ q[i].resend = r[i].resend
  PROVE  First(q, n) = First(r, n)
<1>1. Waiting(q, n) = Waiting(r, n)
  BY DEF Waiting
<1> QED
  BY <1>1 DEF First

(* GetOutQueue returns the first row of the nym that is not for resend.     *)
LEMMA GetOutQueueIsFirst ==
  /\ GetOutQueue(nym) = First(OutQueue, nym)
  /\ GetOutQueue(nym)' = First(OutQueue', nym')
BY DEF GetOutQueue, SelectInSeq, First, Waiting

(* Queue r holds the rows of q at the indices in kept, each one once.       *)
Picks(r, q, kept) ==
  \E f \in [DOMAIN r -> kept] :
    /\ \A j \in DOMAIN r : r[j] = q[f[j]]
    /\ \A j, k \in DOMAIN r : f[j] = f[k] => j = k
    /\ \A i \in kept : \E j \in DOMAIN r : f[j] = i

(* RemoveOutQueue and RetractOutQueue delete one row.                       *)
LEMMA RemoveAtPicks ==
  ASSUME NEW R, NEW q \in Seq(R), NEW i \in DOMAIN q
  PROVE  /\ RemoveAt(q, i) \in Seq(R)
         /\ Picks(RemoveAt(q, i), q, DOMAIN q \ {i})
<1> DEFINE r == RemoveAt(q, i)
           f == [j \in 1 .. (Len(q) - 1) |-> IF j < i THEN j ELSE j + 1]
<1>1. Len(q) \in Nat /\ i \in 1 .. Len(q) /\ DOMAIN q = 1 .. Len(q)
  OBVIOUS
<1>2. /\ r \in Seq(R)
      /\ Len(r) = Len(q) - 1
      /\ \A j \in 1 .. (Len(q) - 1) : r[j] = q[f[j]]
  <2> DEFINE s == SubSeq(q, 1, i - 1)
             t == SubSeq(q, i + 1, Len(q))
  <2>1. s \in Seq(R) /\ Len(s) = i - 1 /\ \A j \in 1 .. (i - 1) : s[j] = q[j]
    BY <1>1
  <2>2. /\ t \in Seq(R) /\ Len(t) = Len(q) - i
        /\ \A j \in 1 .. (Len(q) - i) : t[j] = q[i + j]
    BY <1>1
  <2>3. r = s \o t
    BY DEF RemoveAt
  <2> HIDE DEF s, t, r
  <2>4. /\ r \in Seq(R) /\ Len(r) = Len(q) - 1
        /\ \A j \in 1 .. (Len(q) - 1) : r[j] = IF j < i THEN s[j] ELSE t[j - (i - 1)]
    <3>1. /\ r \in Seq(R) /\ Len(r) = Len(s) + Len(t)
          /\ \A j \in 1 .. (Len(s) + Len(t)) :
               r[j] = IF j <= Len(s) THEN s[j] ELSE t[j - Len(s)]
      BY <2>1, <2>2, <2>3, ConcatProperties
    <3>2. Len(s) + Len(t) = Len(q) - 1 /\ \A j \in Nat : j <= Len(s) <=> j < i
      BY <1>1, <2>1, <2>2
    <3> QED
      BY <1>1, <2>1, <2>2, <3>1, <3>2
  <2>5. ASSUME NEW j \in 1 .. (Len(q) - 1)
        PROVE  r[j] = q[f[j]]
    <3>1. CASE j < i
      BY <1>1, <2>1, <2>4, <3>1
    <3>2. CASE ~(j < i)
      <4>1. j - (i - 1) \in 1 .. (Len(q) - i) /\ i + (j - (i - 1)) = j + 1
        BY <1>1, <3>2
      <4> QED
        BY <1>1, <2>2, <2>4, <3>2, <4>1
    <3> QED
      BY <3>1, <3>2
  <2> QED
    BY <2>4, <2>5
<1>3. DOMAIN r = 1 .. (Len(q) - 1) /\ f \in [DOMAIN r -> DOMAIN q \ {i}]
  BY <1>1, <1>2
<1>4. \A j, k \in DOMAIN r : f[j] = f[k] => j = k
  BY <1>1, <1>3
<1>5. ASSUME NEW k \in DOMAIN q \ {i}
      PROVE  \E j \in DOMAIN r : f[j] = k
  <2>1. CASE k < i
    <3>1. k \in DOMAIN r /\ f[k] = k
      BY <1>1, <1>3, <2>1
    <3> QED
      BY <3>1
  <2>2. CASE ~(k < i)
    <3>1. k - 1 \in DOMAIN r /\ f[k - 1] = k
      BY <1>1, <1>3, <2>2
    <3> QED
      BY <3>1
  <2> QED
    BY <2>1, <2>2
<1> HIDE DEF r, f
<1>6. Picks(r, q, DOMAIN q \ {i})
  BY <1>2, <1>3, <1>4, <1>5 DEF Picks
<1> QED
  BY <1>2, <1>6 DEF r

(* So does the cascade of DelMessage with the rows of a message.            *)
LEMMA RowsAtPicks ==
  ASSUME NEW R, NEW q \in Seq(R), NEW kept \in SUBSET DOMAIN q
  PROVE  /\ RowsAt(q, kept) \in Seq(R)
         /\ Picks(RowsAt(q, kept), q, kept)
<1> DEFINE c == Cardinality(kept)
           Upto(i) == {k \in kept : k <= i}
           rank == [i \in kept |-> Cardinality(Upto(i))]
           at == [j \in 1 .. c |-> CHOOSE i \in kept : Cardinality(Upto(i)) = j]
           r == RowsAt(q, kept)
<1>1. DOMAIN q = 1 .. Len(q) /\ Len(q) \in Nat /\ kept \subseteq Nat
  OBVIOUS
<1>2. IsFiniteSet(kept) /\ c \in Nat
  <2>1. IsFiniteSet(1 .. Len(q))
    BY <1>1, FS_Interval
  <2>2. IsFiniteSet(kept)
    BY <1>1, <2>1, FS_Subset
  <2> QED
    BY <2>2, FS_CardinalityType
<1>3. ASSUME NEW i \in kept
      PROVE  /\ IsFiniteSet(Upto(i))
             /\ Cardinality(Upto(i)) \in 1 .. c
  <2>1. IsFiniteSet(Upto(i)) /\ Cardinality(Upto(i)) <= c
    BY <1>2, FS_Subset
  <2>2. i \in Upto(i)
    BY <1>1
  <2>3. Cardinality(Upto(i)) # 0
    BY <2>1, <2>2, FS_EmptySet
  <2> QED
    BY <1>2, <2>1, <2>3, FS_CardinalityType
<1>4. rank \in [kept -> 1 .. c]
  BY <1>3
<1>5. ASSUME NEW i \in kept, NEW k \in kept, i < k
      PROVE  rank[i] # rank[k]
  <2>1. Upto(i) \in SUBSET Upto(k) /\ k \in Upto(k) /\ k \notin Upto(i)
    BY <1>1, <1>5
  <2>2. Cardinality(Upto(i)) # Cardinality(Upto(k))
    BY <1>3, <2>1, FS_Subset
  <2> QED
    BY <2>2
<1>6. \A i, k \in kept : rank[i] = rank[k] => i = k
  <2> SUFFICES ASSUME NEW i \in kept, NEW k \in kept, i # k
               PROVE  rank[i] # rank[k]
    OBVIOUS
  <2>1. i < k \/ k < i
    BY <1>1
  <2> HIDE DEF rank
  <2> QED
    BY <1>5, <2>1
<1>7. rank \in Injection(kept, 1 .. c)
  BY <1>4, <1>6 DEF Injection, IsInjective
<1>8. IsFiniteSet(1 .. c) /\ Cardinality(1 .. c) = c
  BY <1>2, FS_Interval
<1>9. rank \in Surjection(kept, 1 .. c)
  BY <1>7, <1>8, FS_Injection
<1>10. \A j \in 1 .. c : \E i \in kept : rank[i] = j
  BY <1>9 DEF Surjection
<1>11. at \in [1 .. c -> kept] /\ \A j \in 1 .. c : rank[at[j]] = j
  <2>1. \A j \in 1 .. c : \E i \in kept : Cardinality(Upto(i)) = j
    BY <1>10
  <2>2. \A j \in 1 .. c : at[j] \in kept /\ Cardinality(Upto(at[j])) = j
    BY <2>1
  <2> QED
    BY <2>2
<1>12. \A i \in kept : at[rank[i]] = i
  BY <1>4, <1>6, <1>11
<1>13. r = [j \in 1 .. c |-> q[at[j]]]
  BY DEF RowsAt
<1> HIDE DEF c, rank, at, r
<1>14. r \in Seq(R) /\ DOMAIN r = 1 .. c
  BY <1>2, <1>11, <1>13
<1>15. Picks(r, q, kept)
  <2>1. \A j, k \in DOMAIN r : at[j] = at[k] => j = k
    BY <1>11, <1>14
  <2>2. \A i \in kept : \E j \in DOMAIN r : at[j] = i
    BY <1>4, <1>12, <1>14
  <2>3. at \in [DOMAIN r -> kept] /\ \A j \in DOMAIN r : r[j] = q[at[j]]
    BY <1>11, <1>13, <1>14
  <2> QED
    BY <2>1, <2>2, <2>3 DEF Picks
<1> QED
  BY <1>14, <1>15 DEF r

(* When procOutQueue needs a new token there is a name for one: the wallet  *)
(* is empty, and the entry in hand has no token yet.                        *)
LEMMA FreshToken ==
  ASSUME QueueInv, pc = "proc", GetOutQueue(nym) # 0, Entry.token = None,
         wallet = locked
  PROVE  NewToken \subseteq Tokens \ InUse /\ NewToken # {}
<1> DEFINE D == {i \in DOMAIN OutQueue : OutQueue[i].token \in Tokens}
           tok == [i \in D |-> OutQueue[i].token]
           msg == [i \in DOMAIN OutQueue |-> OutQueue[i].msgID]
<1>1. wallet = {} /\ OutQueue \in Seq(Row) /\ MaxMsgs \in Nat
  BY MsgBound DEF QueueInv, Held, TypeOK
<1>2. PICK g \in DOMAIN OutQueue : OutQueue[g].token = None
  BY <1>1, GetOutQueueIsFirst, FirstFacts DEF Entry
<1>3. SUFFICES ASSUME \A t \in Tokens : t \in InUse
               PROVE  FALSE
  BY DEF NewToken
<1>4. tok \in Surjection(D, Tokens)
  BY <1>1, <1>3 DEF Surjection, InUse
<1>5. IsFiniteSet(DOMAIN OutQueue) /\ IsFiniteSet(MsgNums) /\ Cardinality(MsgNums) = MaxMsgs
  <2>1. DOMAIN OutQueue = 1 .. Len(OutQueue) /\ Len(OutQueue) \in Int /\ MaxMsgs \in Int
    BY <1>1
  <2>2. IsFiniteSet(DOMAIN OutQueue)
    BY <2>1, FS_Interval
  <2>3. IsFiniteSet(1 .. MaxMsgs) /\ Cardinality(1 .. MaxMsgs) = MaxMsgs
    <3>1. /\ IsFiniteSet(1 .. MaxMsgs)
          /\ Cardinality(1 .. MaxMsgs) = IF 1 > MaxMsgs THEN 0 ELSE MaxMsgs - 1 + 1
      <4>1. 1 \in Int
        OBVIOUS
      <4> QED
        BY <2>1, <4>1, FS_Interval, Zenon
    <3> QED
      BY <1>1, <3>1
  <2> QED
    BY <2>2, <2>3 DEF MsgNums
<1>6. msg \in Injection(DOMAIN OutQueue, MsgNums)
  <2>1. msg \in [DOMAIN OutQueue -> MsgNums]
    <3>1. \A i \in DOMAIN OutQueue : OutQueue[i] \in Row
      BY <1>1
    <3> QED
      BY <3>1 DEF Row
  <2> QED
    BY <2>1 DEF Injection, IsInjective, QueueInv, Placed
<1>7. Cardinality(DOMAIN OutQueue) <= MaxMsgs
  BY <1>5, <1>6, FS_Injection
<1>8. IsFiniteSet(D) /\ Cardinality(D) # Cardinality(DOMAIN OutQueue) /\ Cardinality(D) <= Cardinality(DOMAIN OutQueue)
  <2>1. D \in SUBSET DOMAIN OutQueue /\ g \notin D
    BY <1>2, MsgBound
  <2> QED
    BY <1>2, <1>5, <2>1, FS_Subset
<1>9. IsFiniteSet(Tokens) /\ Cardinality(Tokens) <= Cardinality(D)
  BY <1>4, <1>8, FS_Surjection
<1> QED
  BY <1>1, <1>5, <1>7, <1>8, <1>9, EnoughTokens, FS_CardinalityType

-----------------------------------------------------------------------------
(* QueueInv is inductive *)

(* There is no message and no entry at first.                               *)
LEMMA InitInv == Init => QueueInv
<1> SUFFICES ASSUME Init
             PROVE  QueueInv
  OBVIOUS
<1>1. DOMAIN Messages = {} /\ OutQueue \in Seq(Row) /\ DOMAIN OutQueue = {}
  BY DEF Init
<1>2. TypeOK
  BY <1>1, MsgBound DEF Init, TypeOK
<1> QED
  BY <1>1, <1>2 DEF Init, QueueInv, Placed, Held, Paid

(* msg add: the new message is to be encrypted.                             *)
LEMMA MsgAddInv ==
  ASSUME QueueInv, NEW n \in Nyms, MsgAdd(n)
  PROVE  QueueInv'
<1> USE DEF QueueInv
<1> DEFINE m == added + 1
<1>1. /\ DOMAIN Messages' = DOMAIN Messages \cup {m}
      /\ \A x \in DOMAIN Messages : x # m /\ Messages'[x] = Messages[x]
      /\ Messages'[m] = [self |-> n, toSend |-> TRUE, sent |-> FALSE]
  BY MsgBound DEF MsgAdd, AddMessage, TypeOK
<1>2. TypeOK'
  BY <1>1, MsgBound DEF MsgAdd, AddMessage, TypeOK, tokens, call, faults, Msg
<1>3. Placed'
  BY <1>1 DEF MsgAdd, Placed
<1>4. Held' /\ Paid'
  BY GetOutQueueIsFirst DEF MsgAdd, Held, Paid, Entry, tokens, call, faults
<1> QED
  BY <1>2, <1>3, <1>4

(* msg delete: the entries of the message go with it.                       *)
LEMMA MsgDeleteInv ==
  ASSUME QueueInv, NEW m \in MsgNums, MsgDelete(m)
  PROVE  QueueInv'
<1> USE DEF QueueInv
<1> DEFINE kept == {i \in DOMAIN OutQueue : OutQueue[i].msgID # m}
<1>1. OutQueue \in Seq(Row) /\ kept \in SUBSET DOMAIN OutQueue
  BY DEF TypeOK
<1>2. OutQueue' \in Seq(Row) /\ Picks(OutQueue', OutQueue, kept)
  <2> HIDE DEF kept
  <2>1. OutQueue' = RowsAt(OutQueue, kept)
    BY DEF MsgDelete, DelMessage, kept
  <2> QED
    BY <1>1, <2>1, RowsAtPicks
<1>3. PICK f \in [DOMAIN OutQueue' -> kept] :
        /\ \A j \in DOMAIN OutQueue' : OutQueue'[j] = OutQueue[f[j]]
        /\ \A j, k \in DOMAIN OutQueue' : f[j] = f[k] => j = k
        /\ \A i \in kept : \E j \in DOMAIN OutQueue' : f[j] = i
  BY <1>2 DEF Picks
<1>4. /\ DOMAIN Messages' = DOMAIN Messages \ {m}
      /\ \A x \in DOMAIN Messages' : Messages'[x] = Messages[x]
  BY DEF MsgDelete, DelMessage
<1>5. TypeOK'
  BY <1>2, <1>4 DEF MsgDelete, DelMessage, TypeOK, tokens, call, faults
<1>6. Placed'
  <2>1. \A i, j \in DOMAIN OutQueue' : OutQueue'[i].msgID = OutQueue'[j].msgID => i = j
    BY <1>3 DEF Placed
  <2>2. \A i \in DOMAIN OutQueue' :
          /\ OutQueue'[i].msgID \in DOMAIN Messages'
          /\ OutQueue'[i].self = Messages'[OutQueue'[i].msgID].self
          /\ ~Messages'[OutQueue'[i].msgID].toSend
          /\ ~Messages'[OutQueue'[i].msgID].sent
    BY <1>3, <1>4 DEF Placed
  <2>3. ASSUME NEW x \in DOMAIN Messages',
               ~Messages'[x].toSend, ~Messages'[x].sent
        PROVE  \E i \in DOMAIN OutQueue' : OutQueue'[i].msgID = x
    <3>1. PICK i \in DOMAIN OutQueue : OutQueue[i].msgID = x
      BY <1>4, <2>3 DEF Placed
    <3>2. i \in kept
      BY <1>4, <3>1
    <3> QED
      BY <1>3, <3>1, <3>2
  <2> QED
    BY <1>4, <2>1, <2>2, <2>3 DEF Placed
<1>7. Held'
  BY DEF MsgDelete, Held, tokens, call, faults
<1>8. Paid'
  BY <1>3 DEF MsgDelete, Paid, tokens, call, faults
<1> QED
  BY <1>5, <1>6, <1>7, <1>8

(* msg send: the entries to be resent are taken up again, no token is       *)
(* locked.                                                                  *)
LEMMA MsgSendInv ==
  ASSUME QueueInv, NEW n \in Nyms, MsgSend(n)
  PROVE  QueueInv'
<1> USE DEF QueueInv
<1>1. /\ OutQueue' \in Seq(Row) /\ DOMAIN OutQueue' = DOMAIN OutQueue
      /\ \A i \in DOMAIN OutQueue :
           /\ OutQueue'[i].self = OutQueue[i].self
           /\ OutQueue'[i].msgID = OutQueue[i].msgID
           /\ OutQueue'[i].token = OutQueue[i].token
  <2>1. OutQueue \in Seq(Row) /\ \A i \in DOMAIN OutQueue : OutQueue[i] \in Row
    BY DEF TypeOK
  <2>2. /\ DOMAIN OutQueue' = DOMAIN OutQueue
        /\ \A i \in DOMAIN OutQueue :
             OutQueue'[i] = IF OutQueue[i].self = n THEN [OutQueue[i] EXCEPT !.resend = FALSE]
                            ELSE OutQueue[i]
    BY DEF MsgSend, ClearResendOutQueue
  <2>3. \A i \in DOMAIN OutQueue :
          /\ OutQueue'[i] \in Row
          /\ OutQueue'[i].self = OutQueue[i].self
          /\ OutQueue'[i].msgID = OutQueue[i].msgID
          /\ OutQueue'[i].token = OutQueue[i].token
    BY <2>1, <2>2 DEF Row
  <2>4. OutQueue' = [i \in 1 .. Len(OutQueue) |-> OutQueue'[i]]
    BY <2>1 DEF MsgSend, ClearResendOutQueue
  <2>5. OutQueue' \in Seq(Row)
    BY <2>1, <2>2, <2>3, <2>4
  <2> QED
    BY <2>2, <2>3, <2>5
<1>2. TypeOK'
  BY <1>1 DEF MsgSend, TypeOK, faults, Steps
<1>3. Placed'
  BY <1>1 DEF MsgSend, Placed
<1>4. Held' /\ Paid'
  BY <1>1 DEF MsgSend, Held, Paid, Ready, faults
<1> QED
  BY <1>2, <1>3, <1>4

(* Steps that only move on, and those that end the command or the process.  *)
LEMMA MoveOnInv ==
  ASSUME QueueInv, QueueDone \/ muteprotoCreate \/ AllQueued \/ Recover
                   \/ StoreEnvelopeFails \/ CallFails \/ Crash
  PROVE  QueueInv'
<1> USE DEF QueueInv
<1>1. UNCHANGED <<Messages, OutQueue, added, wallet, mix, nym>>
  BY DEF QueueDone, muteprotoCreate, AllQueued, Recover, StoreEnvelopeFails, CallFails,
         Crash, Return, msgdb, tokens, call
<1>2. TypeOK'
  BY <1>1 DEF TypeOK, Steps, QueueDone, muteprotoCreate, AllQueued, Recover,
         StoreEnvelopeFails, CallFails, Crash, Return, tokens, call, faults
<1>3. Placed'
  BY <1>1 DEF Placed
<1>4. Held'
  <2>1. GetOutQueue(nym)' = GetOutQueue(nym) /\ Entry' = Entry
    BY <1>1, GetOutQueueIsFirst DEF Entry
  <2> QED
    BY <1>1, <2>1 DEF Held, QueueDone, muteprotoCreate, AllQueued, Recover,
         StoreEnvelopeFails, CallFails, Crash, Return, tokens, call
<1>5. Paid'
  <2>1. crashes' = 0 => crashes = 0 /\ (pc # "del" \/ pc' = pc)
    BY DEF QueueDone, muteprotoCreate, AllQueued, Recover, StoreEnvelopeFails, CallFails,
         Crash, Return, faults, TypeOK
  <2> QED
    BY <1>1, <2>1, GetOutQueueIsFirst DEF Paid
<1> QED
  BY <1>2, <1>3, <1>4, <1>5

(* wallet.GetToken: the token is not in the outqueue.                       *)
LEMMA GetTokenInv ==
  ASSUME QueueInv, GetToken
  PROVE  QueueInv'
<1> USE DEF QueueInv
<1>1. PICK t \in IF wallet # locked THEN wallet \ locked ELSE NewToken :
        /\ wallet' = wallet \cup {t}
        /\ locked' = locked \cup {t}
        /\ token' = t
  BY DEF GetToken
<1>2. UNCHANGED <<Messages, OutQueue, added, mix, nym, crashes>> /\ pc = "proc" /\ pc' = "create"
  BY DEF GetToken, msgdb, faults
<1>3. locked = {} /\ t \in Tokens
  BY <1>1, FreshToken DEF GetToken, Held, TypeOK
<1>4. crashes = 0 => \A i \in DOMAIN OutQueue : OutQueue[i].token # t
  <2>1. CASE t \in wallet
    BY <1>2, <2>1 DEF Paid
  <2>2. CASE t \notin wallet
    <3>1. t \notin InUse
      BY <1>1, <2>2, FreshToken DEF GetToken
    <3> QED
      BY <3>1 DEF InUse
  <2> QED
    BY <2>1, <2>2
<1>5. TypeOK'
  BY <1>1, <1>2, <1>3 DEF TypeOK, Steps
<1>6. Placed'
  BY <1>2 DEF Placed
<1>7. Held'
  BY <1>1, <1>2, <1>3, GetOutQueueIsFirst DEF Held, Entry, GetToken
<1>8. Paid'
  BY <1>1, <1>2, <1>4, GetOutQueueIsFirst DEF Paid
<1> QED
  BY <1>5, <1>6, <1>7, <1>8

(* SetOutQueue stores the envelope and its token.                           *)
LEMMA StoreEnvelopeInv ==
  ASSUME QueueInv, StoreEnvelope
  PROVE  QueueInv'
<1> USE DEF QueueInv
<1> DEFINE g == First(OutQueue, nym)
<1>1. /\ pc = "set" /\ pc' = "del"
      /\ UNCHANGED <<Messages, added, wallet, locked, mix, nym, token, crashes>>
  BY DEF StoreEnvelope, SetOutQueue, tokens, call, faults
<1>2. /\ OutQueue \in Seq(Row) /\ \A i \in DOMAIN OutQueue : OutQueue[i] \in Row
      /\ g \in DOMAIN OutQueue /\ g \in 1 .. Len(OutQueue)
  BY <1>1, GetOutQueueIsFirst, FirstFacts DEF TypeOK, Held
<1>3. token \in Tokens /\ token \in wallet
  BY <1>1 DEF Held, TypeOK
<1>4. OutQueue' = [OutQueue EXCEPT ![g] = [OutQueue[g] EXCEPT !.token = token]]
  BY GetOutQueueIsFirst DEF StoreEnvelope, SetOutQueue
<1>5. [OutQueue[g] EXCEPT !.token = token] \in Row
  BY <1>2, <1>3 DEF Row
<1>6. /\ OutQueue' \in Seq(Row) /\ Len(OutQueue') = Len(OutQueue)
      /\ DOMAIN OutQueue' = DOMAIN OutQueue
      /\ \A i \in DOMAIN OutQueue :
           /\ OutQueue'[i].self = OutQueue[i].self
           /\ OutQueue'[i].msgID = OutQueue[i].msgID
           /\ OutQueue'[i].resend = OutQueue[i].resend
           /\ OutQueue'[i].token = IF i = g THEN token ELSE OutQueue[i].token
  <2> HIDE DEF g
  <2> QED
    BY <1>2, <1>4, <1>5 DEF Row
<1>7. GetOutQueue(nym)' = g
  BY <1>1, <1>2, <1>6, SameFirst, GetOutQueueIsFirst
<1> HIDE DEF g
<1>8. TypeOK'
  BY <1>1, <1>6 DEF TypeOK, Steps
<1>9. Placed'
  BY <1>1, <1>6 DEF Placed
<1>10. Held'
  BY <1>1, <1>2, <1>6, <1>7 DEF Held, Entry
<1>11. Paid'
  BY <1>1, <1>2, <1>3, <1>6, <1>7, MsgBound DEF Paid
<1> QED
  BY <1>8, <1>9, <1>10, <1>11

(* DelToken: the token has left the wallet.                                 *)
LEMMA DelTokenInv ==
  ASSUME QueueInv, DelToken
  PROVE  QueueInv'
<1> USE DEF QueueInv
<1>1. /\ pc = "del" /\ pc' = "deliver" /\ locked' = {} /\ wallet' = wallet \ {token}
      /\ token' = None
      /\ UNCHANGED <<Messages, OutQueue, added, mix, nym, crashes>>
  BY DEF DelToken, msgdb, faults, Held
<1>2. TypeOK'
  BY <1>1 DEF TypeOK, Steps
<1>3. Placed'
  BY <1>1 DEF Placed
<1>4. GetOutQueue(nym)' = GetOutQueue(nym) /\ Entry' = Entry
  BY <1>1, GetOutQueueIsFirst DEF Entry
<1>5. Held'
  BY <1>1, <1>4 DEF Held
<1>6. Paid'
  BY <1>1, <1>4 DEF Paid, Held, Entry
<1> QED
  BY <1>2, <1>3, <1>5, <1>6

(* A delivery whose answer is "sent" has reached the mix.                   *)
LEMMA SentIsAccepted ==
  ASSUME NEW m, NEW t, NEW o \in muteprotoDeliver(m, t)
  PROVE  /\ AfterDelivery(o) \in {"remove", "resend", "retract", "idle"}
         /\ AfterDelivery(o) = "remove" => o.accepted
<1>1. ASSUME NEW s \in SendMail(m, t)
      PROVE  /\ s.err = "ErrFinal" => s.last # "nil"
             /\ s.err = "nil" => s.accepted
  <2>1. CASE s = [accepted |-> FALSE, err |-> "ErrFinal", last |-> "ErrNoHost"]
    BY <2>1
  <2>2. CASE \E a \in {"4xx", "5xx", "token", "broken"} :
               s = [accepted |-> FALSE, err |-> parseError(a), last |-> a]
    BY <2>2 DEF parseError
  <2>3. CASE \E a \in {"ok", "4xx", "broken"} :
               s = [accepted |-> TRUE, err |-> parseError(a), last |-> a]
    BY <2>3 DEF parseError
  <2> QED
    BY <2>1, <2>2, <2>3 DEF SendMail
<1>2. ASSUME NEW s \in SendMail(m, t), NEW d, d = deliver(MessageOutputDeliver(s))
      PROVE  /\ d.accepted = s.accepted
             /\ d.err = "nil" /\ ~d.resend => s.err = "nil"
  BY <1>1, <1>2 DEF deliver, MessageOutputDeliver
<1>3. CASE o.err = "exit"
  BY <1>3 DEF AfterDelivery
<1>4. CASE o.err # "exit"
  <2>1. PICK s \in SendMail(m, t) : o = deliver(MessageOutputDeliver(s))
    BY <1>4 DEF muteprotoDeliver
  <2> QED
    BY <1>1, <1>2, <2>1 DEF AfterDelivery
<1> QED
  BY <1>3, <1>4

(* The mix has the message when it accepted it, whatever the answer.        *)
LEMMA DeliveryInv ==
  ASSUME QueueInv, Delivery
  PROVE  QueueInv'
<1> USE DEF QueueInv
<1>1. PICK o \in Outcomes : DeliverEnvelope(o)
  BY DEF Delivery
<1>2. /\ UNCHANGED <<Messages, OutQueue, added, wallet, locked, nym, token, crashes>>
      /\ mix' = IF o.accepted THEN mix \cup {Entry.msgID} ELSE mix
      /\ pc' = AfterDelivery(o)
      /\ o \in muteprotoDeliver(Entry.msgID, Entry.token)
      /\ pc \in {"deliver", "proc"} /\ GetOutQueue(nym) # 0
  BY <1>1 DEF DeliverEnvelope, msgdb, call, faults, HasEnvelope, Held
<1>3. /\ pc' \in {"remove", "resend", "retract", "idle"}
      /\ pc' = "remove" => Entry.msgID \in mix'
  BY <1>2, SentIsAccepted
<1>4. GetOutQueue(nym)' = GetOutQueue(nym) /\ Entry' = Entry
  BY <1>2, GetOutQueueIsFirst DEF Entry
<1>5. Entry.msgID \in 1 .. added
  <2>1. GetOutQueue(nym) \in DOMAIN OutQueue
    BY <1>2, GetOutQueueIsFirst, FirstFacts DEF TypeOK
  <2> QED
    BY <2>1 DEF Entry, Placed, TypeOK
<1>6. TypeOK'
  BY <1>2, <1>3, <1>5 DEF TypeOK, Steps
<1>7. Placed'
  BY <1>2 DEF Placed
<1>8. Held'
  BY <1>2, <1>3, <1>4 DEF Held
<1>9. Paid'
  BY <1>2, <1>4 DEF Paid
<1> QED
  BY <1>6, <1>7, <1>8, <1>9

(* RemoveOutQueue, SetResendOutQueue or RetractOutQueue.                    *)
LEMMA RecordDeliveryInv ==
  ASSUME QueueInv, RecordDelivery
  PROVE  QueueInv'
<1> USE DEF QueueInv
<1> DEFINE g == First(OutQueue, nym)
           m == OutQueue[g].msgID
<1>1. /\ pc \in {"remove", "resend", "retract"} /\ pc' = "proc"
      /\ UNCHANGED <<added, wallet, locked, mix, nym, token, crashes>>
  BY DEF RecordDelivery, tokens, call, faults
<1>2. /\ OutQueue \in Seq(Row) /\ \A i \in DOMAIN OutQueue : OutQueue[i] \in Row
      /\ g \in DOMAIN OutQueue /\ g \in 1 .. Len(OutQueue)
  BY <1>1, GetOutQueueIsFirst, FirstFacts DEF TypeOK, Held
<1>3. Messages \in [DOMAIN Messages -> Msg] /\ m \in DOMAIN Messages
  BY <1>2 DEF TypeOK, Placed
<1>4. CASE pc = "resend"
  <2>1. /\ OutQueue' = [OutQueue EXCEPT ![g] = [OutQueue[g] EXCEPT !.resend = TRUE]]
        /\ Messages' = Messages
    BY <1>4, GetOutQueueIsFirst DEF RecordDelivery, SetResendOutQueue
  <2>2. [OutQueue[g] EXCEPT !.resend = TRUE] \in Row
    BY <1>2 DEF Row
  <2> HIDE DEF g
  <2>3. /\ OutQueue' \in Seq(Row)
        /\ DOMAIN OutQueue' = DOMAIN OutQueue
        /\ \A i \in DOMAIN OutQueue :
             /\ OutQueue'[i].self = OutQueue[i].self
             /\ OutQueue'[i].msgID = OutQueue[i].msgID
             /\ OutQueue'[i].token = OutQueue[i].token
    BY <1>2, <2>1, <2>2 DEF Row
  <2>4. TypeOK'
    BY <1>1, <2>1, <2>3 DEF TypeOK, Steps
  <2>5. Placed'
    BY <2>1, <2>3 DEF Placed
  <2>6. Held' /\ Paid'
    BY <1>1, <2>3 DEF Held, Paid
  <2> QED
    BY <2>4, <2>5, <2>6
<1>5. CASE pc \in {"remove", "retract"}
  <2>1. /\ OutQueue' = RemoveAt(OutQueue, g)
        /\ \/ pc = "remove" /\ Messages' = [Messages EXCEPT ![m].sent = TRUE]
           \/ pc = "retract" /\ Messages' = [Messages EXCEPT ![m].toSend = TRUE]
    BY <1>5, GetOutQueueIsFirst DEF RecordDelivery, RemoveOutQueue, RetractOutQueue
  <2>2. OutQueue' \in Seq(Row) /\ Picks(OutQueue', OutQueue, DOMAIN OutQueue \ {g})
    <3> HIDE DEF g
    <3> QED
      BY <1>2, <2>1, RemoveAtPicks
  <2>3. PICK f \in [DOMAIN OutQueue' -> DOMAIN OutQueue \ {g}] :
          /\ \A j \in DOMAIN OutQueue' : OutQueue'[j] = OutQueue[f[j]]
          /\ \A j, k \in DOMAIN OutQueue' : f[j] = f[k] => j = k
          /\ \A i \in DOMAIN OutQueue \ {g} : \E j \in DOMAIN OutQueue' : f[j] = i
    BY <2>2 DEF Picks
  <2> HIDE DEF g
  <2>4. /\ Messages' \in [DOMAIN Messages -> Msg]
        /\ \A x \in DOMAIN Messages : x # m => Messages'[x] = Messages[x]
        /\ Messages'[m].self = Messages[m].self
        /\ Messages'[m].toSend # Messages'[m].sent
    <3>1. ~Messages[m].toSend /\ ~Messages[m].sent
      BY <1>2 DEF Placed
    <3>2. Messages[m] \in Msg
      BY <1>3
    <3> HIDE DEF m
    <3>3. CASE pc = "remove"
      <4>1. Messages' = [Messages EXCEPT ![m] = [Messages[m] EXCEPT !.sent = TRUE]]
        BY <2>1, <3>3
      <4>2. [Messages[m] EXCEPT !.sent = TRUE] \in Msg
        BY <3>2 DEF Msg
      <4> QED
        BY <1>3, <3>1, <3>2, <4>1, <4>2 DEF Msg
    <3>4. CASE pc = "retract"
      <4>1. Messages' = [Messages EXCEPT ![m] = [Messages[m] EXCEPT !.toSend = TRUE]]
        BY <2>1, <3>4
      <4>2. [Messages[m] EXCEPT !.toSend = TRUE] \in Msg
        BY <3>2 DEF Msg
      <4> QED
        BY <1>3, <3>1, <3>2, <4>1, <4>2 DEF Msg
    <3> QED
      BY <1>5, <3>3, <3>4
  <2>5. \A i \in DOMAIN OutQueue \ {g} : OutQueue[i].msgID # m
    BY <1>2 DEF Placed
  <2>6. TypeOK'
    BY <1>1, <2>2, <2>4 DEF TypeOK, Steps
  <2>7. Placed'
    <3>1. \A i, j \in DOMAIN OutQueue' : OutQueue'[i].msgID = OutQueue'[j].msgID => i = j
      BY <2>3 DEF Placed
    <3>2. \A i \in DOMAIN OutQueue' :
            /\ OutQueue'[i].msgID \in DOMAIN Messages'
            /\ OutQueue'[i].self = Messages'[OutQueue'[i].msgID].self
            /\ ~Messages'[OutQueue'[i].msgID].toSend
            /\ ~Messages'[OutQueue'[i].msgID].sent
      BY <2>3, <2>4, <2>5 DEF Placed
    <3>3. ASSUME NEW x \in DOMAIN Messages'
          PROVE  /\ ~(Messages'[x].toSend /\ Messages'[x].sent)
                 /\ \/ Messages'[x].toSend
                    \/ Messages'[x].sent
                    \/ \E i \in DOMAIN OutQueue' : OutQueue'[i].msgID = x
      <4>1. CASE x = m
        BY <2>4, <4>1 DEF Msg
      <4>2. CASE x # m
        <5>1. Messages'[x] = Messages[x] /\ x \in DOMAIN Messages
          BY <2>4, <4>2
        <5>2. ASSUME NEW i \in DOMAIN OutQueue, OutQueue[i].msgID = x
              PROVE  \E j \in DOMAIN OutQueue' : OutQueue'[j].msgID = x
          BY <2>3, <4>2, <5>2
        <5> QED
          BY <5>1, <5>2 DEF Placed
      <4> QED
        BY <4>1, <4>2
    <3> QED
      BY <3>1, <3>2, <3>3 DEF Placed
  <2>8. Held' /\ Paid'
    BY <1>1, <2>3 DEF Held, Paid
  <2> QED
    BY <2>6, <2>7, <2>8
<1> QED
  BY <1>1, <1>4, <1>5

(* AddOutQueue: the oldest message to be encrypted gets an entry.           *)
LEMMA EncryptAndQueueInv ==
  ASSUME QueueInv, EncryptAndQueue
  PROVE  QueueInv'
<1> USE DEF QueueInv
<1> DEFINE m == Min(Undelivered(nym))
           e == [self |-> nym, msgID |-> m, token |-> None, resend |-> FALSE]
<1>1. /\ pc = "undelivered" /\ UNCHANGED <<added, wallet, locked, mix, pc, nym, token, crashes>>
      /\ Messages' = [Messages EXCEPT ![m] = [Messages[m] EXCEPT !.toSend = FALSE]]
      /\ OutQueue' = Append(OutQueue, e)
  BY DEF EncryptAndQueue, AddOutQueue, tokens, call, faults
<1>2. /\ m \in DOMAIN Messages /\ Messages[m].self = nym /\ Messages[m].toSend
      /\ m \in MsgNums
  <2>1. Undelivered(nym) \in SUBSET Nat /\ Undelivered(nym) # {}
    BY DEF EncryptAndQueue, Undelivered, TypeOK
  <2>2. m \in Undelivered(nym)
    BY <2>1, MinNat
  <2> QED
    BY <2>2, MsgBound DEF Undelivered, TypeOK, MsgNums
<1> HIDE DEF m
<1>3. OutQueue \in Seq(Row) /\ Messages \in [DOMAIN Messages -> Msg] /\ Messages[m] \in Msg
  BY <1>2 DEF TypeOK
<1>4. e \in Row
  BY <1>2, <1>3 DEF Row, Msg
<1>5. /\ Messages' \in [DOMAIN Messages -> Msg]
      /\ \A x \in DOMAIN Messages : x # m => Messages'[x] = Messages[x]
      /\ Messages'[m].self = nym /\ ~Messages'[m].toSend /\ ~Messages'[m].sent
  <2>1. [Messages[m] EXCEPT !.toSend = FALSE] \in Msg
    BY <1>3 DEF Msg
  <2>2. ~Messages[m].sent
    BY <1>2 DEF Placed
  <2> QED
    BY <1>1, <1>2, <1>3, <2>1, <2>2 DEF Msg
<1> DEFINE l == Len(OutQueue) + 1
<1>6. /\ OutQueue' \in Seq(Row)
      /\ DOMAIN OutQueue' = DOMAIN OutQueue \cup {l}
      /\ \A i \in DOMAIN OutQueue : i # l /\ OutQueue'[i] = OutQueue[i]
      /\ OutQueue'[l] = e
  <2> HIDE DEF e
  <2> QED
    BY <1>1, <1>3, <1>4
<1> HIDE DEF l
<1>7. \A i \in DOMAIN OutQueue : OutQueue[i].msgID # m
  BY <1>2 DEF Placed
<1>8. TypeOK'
  BY <1>1, <1>5, <1>6 DEF TypeOK
<1>9. Placed'
  <2>1. \A i, j \in DOMAIN OutQueue' : OutQueue'[i].msgID = OutQueue'[j].msgID => i = j
    BY <1>6, <1>7 DEF Placed
  <2>2. \A i \in DOMAIN OutQueue' :
          /\ OutQueue'[i].msgID \in DOMAIN Messages'
          /\ OutQueue'[i].self = Messages'[OutQueue'[i].msgID].self
          /\ ~Messages'[OutQueue'[i].msgID].toSend
          /\ ~Messages'[OutQueue'[i].msgID].sent
    BY <1>2, <1>5, <1>6, <1>7 DEF Placed
  <2>3. ASSUME NEW x \in DOMAIN Messages'
        PROVE  /\ ~(Messages'[x].toSend /\ Messages'[x].sent)
               /\ \/ Messages'[x].toSend
                  \/ Messages'[x].sent
                  \/ \E i \in DOMAIN OutQueue' : OutQueue'[i].msgID = x
    <3>1. CASE x = m
      BY <1>5, <1>6, <3>1
    <3>2. CASE x # m
      BY <1>5, <1>6, <3>2 DEF Placed
    <3> QED
      BY <3>1, <3>2
  <2> QED
    BY <2>1, <2>2, <2>3 DEF Placed
<1>10. Held'
  BY <1>1 DEF Held
<1>11. Paid'
  BY <1>1, <1>6, MsgBound DEF Paid, TypeOK
<1> QED
  BY <1>8, <1>9, <1>10, <1>11

(* Every step keeps up the invariant.                                       *)
LEMMA NextInv == QueueInv /\ [Next]_vars => QueueInv'
<1> SUFFICES ASSUME QueueInv, [Next]_vars
             PROVE  QueueInv'
  OBVIOUS
<1>1. CASE UNCHANGED vars
  <2>1. UNCHANGED <<Messages, OutQueue, added, wallet, locked, mix, pc, nym, token, crashes>>
    BY <1>1 DEF vars, msgdb, tokens, call, faults
  <2>2. GetOutQueue(nym)' = GetOutQueue(nym) /\ Entry' = Entry
    BY <2>1, GetOutQueueIsFirst DEF Entry
  <2> QED
    BY <2>1, <2>2 DEF QueueInv, TypeOK, Placed, Held, Paid
<1>2. CASE Progress
  BY <1>2, MoveOnInv, GetTokenInv, StoreEnvelopeInv, DelTokenInv, RecordDeliveryInv,
     EncryptAndQueueInv DEF Progress
<1> QED
  BY <1>1, <1>2, MsgAddInv, MsgSendInv, MsgDeleteInv, DeliveryInv, MoveOnInv DEF Next

(* The outqueue and the messages agree in every state, whatever fails or    *)
(* crashes: the conjunction that is inductive.                              *)
THEOREM Inductive == Spec => []QueueInv
<1> QED
  BY InitInv, NextInv, PTL DEF Spec

-----------------------------------------------------------------------------
(* What follows from it *)

(* The inductive invariant contains QueueSound.                             *)
LEMMA InvImpliesSound == QueueInv => QueueSound
<1> SUFFICES ASSUME QueueInv
             PROVE  QueueSound
  OBVIOUS
<1>1. ASSUME NEW m \in DOMAIN Messages
      PROVE  Cardinality({i \in DOMAIN OutQueue : OutQueue[i].msgID = m})
               + (IF Messages[m].toSend THEN 1 ELSE 0)
               + (IF Messages[m].sent THEN 1 ELSE 0) = 1
  <2> DEFINE entries == {i \in DOMAIN OutQueue : OutQueue[i].msgID = m}
  <2>1. CASE entries = {}
    <3>1. Cardinality(entries) = 0
      BY <2>1, FS_EmptySet
    <3>2. Messages[m].toSend # Messages[m].sent /\ Messages[m] \in Msg
      BY <2>1 DEF QueueInv, Placed, TypeOK, Msg
    <3> QED
      BY <3>1, <3>2 DEF Msg
  <2>2. CASE entries # {}
    <3>1. PICK i \in DOMAIN OutQueue : OutQueue[i].msgID = m
      BY <2>2
    <3>2. entries = {i}
      BY <3>1 DEF QueueInv, Placed
    <3>3. Cardinality(entries) = 1
      BY <3>2, FS_Singleton
    <3>4. ~Messages[m].toSend /\ ~Messages[m].sent
      BY <3>1 DEF QueueInv, Placed
    <3> QED
      BY <3>3, <3>4
  <2> QED
    BY <2>1, <2>2
<1>2. ExactlyOnePlace
  BY <1>1 DEF ExactlyOnePlace, QueueInv, Placed
<1>3. TokenUsedOnce
  BY DEF TokenUsedOnce, QueueInv, Paid
<1> QED
  BY <1>2, <1>3 DEF QueueSound

(* A message that was added and not deleted is to be encrypted, has exactly *)
(* one entry in the outqueue, or was sent; and without a crash no token     *)
(* pays for two entries: however the calls of msgSend and procOutQueue      *)
(* fail, for any number of nyms, messages and crashes.                      *)
THEOREM Sound == Spec => []QueueSound
<1> QED
  BY Inductive, InvImpliesSound, PTL

(* The messages that Outbox calls pending.                                  *)
Pending ==
  {m \in DOMAIN Messages :
     \/ Messages[m].toSend
     \/ \E i \in DOMAIN OutQueue : OutQueue[i].msgID = m}

Sent == {m \in DOMAIN Messages : Messages[m].sent}

(* By Placed, a message is pending until it is marked as sent.              *)
LEMMA PendingIsUnsent ==
  /\ QueueInv => Pending = DOMAIN Messages \ Sent
  /\ QueueInv' => Pending' = DOMAIN Messages' \ Sent'
BY DEF QueueInv, Placed, Pending, Sent

(* An empty queue is an empty outbox.                                       *)
LEMMA OutboxInit == Init => O!Init
<1> SUFFICES ASSUME Init
             PROVE  O!Init
  OBVIOUS
<1>1. DOMAIN Messages = {} /\ mix = {}
  BY DEF Init
<1> QED
  BY <1>1 DEF O!Init

(* The steps of Outbox, in terms of the variables here.                     *)
LEMMA OutboxSteps ==
  /\ \A m \in MsgNums : O!Add(m) <=>
       /\ m \notin DOMAIN Messages \cup mix
       /\ DOMAIN Messages' = DOMAIN Messages \cup {m}
       /\ Pending' = Pending \cup {m}
       /\ mix' = mix /\ Sent' = Sent
  /\ \A m \in MsgNums : O!Deliver(m) <=>
       /\ m \in Pending
       /\ mix' = mix \cup {m}
       /\ DOMAIN Messages' = DOMAIN Messages /\ Pending' = Pending /\ Sent' = Sent
  /\ \A m \in MsgNums : O!Acknowledge(m) <=>
       /\ m \in Pending \cap mix
       /\ Pending' = Pending \ {m}
       /\ Sent' = Sent \cup {m}
       /\ DOMAIN Messages' = DOMAIN Messages /\ mix' = mix
  /\ \A m \in MsgNums : O!Delete(m) <=>
       /\ m \in DOMAIN Messages
       /\ DOMAIN Messages' = DOMAIN Messages \ {m}
       /\ Pending' = Pending \ {m}
       /\ Sent' = Sent \ {m}
       /\ mix' = mix
BY DEF O!Add, O!Deliver, O!Acknowledge, O!Delete, Pending, Sent

(* Every step here is a step of Outbox, or none: a message becomes known    *)
(* with msg add, is delivered when the mix accepts it, is acknowledged by   *)
(* RemoveOutQueue and deleted by msg delete.                                *)
LEMMA OutboxNext ==
  QueueInv /\ QueueInv' /\ [Next]_vars =>
    [O!Next]_<<DOMAIN Messages, Pending, mix, Sent>>
<1> SUFFICES ASSUME QueueInv, QueueInv', [Next]_vars
             PROVE  \/ O!Next
                    \/ UNCHANGED <<DOMAIN Messages, Pending, mix, Sent>>
  OBVIOUS
<1>1. ASSUME DOMAIN Messages' = DOMAIN Messages, Sent' = Sent
      PROVE  Pending' = Pending
  BY <1>1, PendingIsUnsent
<1>2. ASSUME Messages' = Messages
      PROVE  DOMAIN Messages' = DOMAIN Messages /\ Sent' = Sent
  BY <1>2 DEF Sent
<1>3. ASSUME NEW n \in Nyms, MsgAdd(n)
      PROVE  O!Next
  <2> DEFINE m == added + 1
  <2>1. m \in MsgNums /\ m \notin DOMAIN Messages \cup mix /\ mix' = mix
    BY <1>3, MsgBound DEF MsgAdd, MsgNums, QueueInv, TypeOK
  <2>2. /\ DOMAIN Messages' = DOMAIN Messages \cup {m}
        /\ \A x \in DOMAIN Messages : Messages'[x] = Messages[x]
        /\ ~Messages'[m].sent
    BY <1>3, <2>1 DEF MsgAdd, AddMessage
  <2> HIDE DEF m
  <2>3. Sent' = Sent
    BY <2>1, <2>2 DEF Sent
  <2>4. Pending' = Pending \cup {m}
    BY <2>1, <2>2, <2>3, PendingIsUnsent DEF Sent
  <2> QED
    BY <2>1, <2>2, <2>3, <2>4, OutboxSteps DEF O!Next
<1>4. ASSUME NEW m \in MsgNums, MsgDelete(m)
      PROVE  O!Next
  <2>1. /\ m \in DOMAIN Messages /\ mix' = mix
        /\ DOMAIN Messages' = DOMAIN Messages \ {m}
        /\ \A x \in DOMAIN Messages' : Messages'[x] = Messages[x]
    BY <1>4 DEF MsgDelete, DelMessage
  <2>2. Sent' = Sent \ {m}
    BY <2>1 DEF Sent
  <2>3. Pending' = Pending \ {m}
    BY <2>1, <2>2, PendingIsUnsent
  <2> QED
    BY <2>1, <2>2, <2>3, OutboxSteps DEF O!Next
<1>5. ASSUME GetOutQueue(nym) # 0
      PROVE  Entry.msgID \in Pending /\ Entry.msgID \in MsgNums
  <2>1. GetOutQueue(nym) \in DOMAIN OutQueue /\ Entry \in Row
    BY <1>5, GetOutQueueIsFirst, FirstFacts DEF QueueInv, TypeOK, Entry
  <2> QED
    BY <2>1 DEF Entry, Pending, QueueInv, Placed, Row
<1>6. CASE Delivery
  <2>1. PICK o \in Outcomes : DeliverEnvelope(o)
    BY <1>6 DEF Delivery
  <2>2. /\ mix' = IF o.accepted THEN mix \cup {Entry.msgID} ELSE mix
        /\ Messages' = Messages /\ GetOutQueue(nym) # 0
    BY <2>1 DEF DeliverEnvelope, msgdb, HasEnvelope, QueueInv, Held
  <2>3. CASE o.accepted
    BY <1>1, <1>2, <1>5, <2>2, <2>3, OutboxSteps DEF O!Next
  <2>4. CASE ~o.accepted
    BY <1>1, <1>2, <2>2, <2>4
  <2> QED
    BY <2>3, <2>4
<1>7. CASE RecordDelivery
  <2>1. mix' = mix /\ GetOutQueue(nym) # 0
    BY <1>7 DEF RecordDelivery, QueueInv, Held
  <2> DEFINE m == Entry.msgID
  <2>2. m \in Pending /\ m \in MsgNums /\ m \in DOMAIN Messages /\ Messages \in [DOMAIN Messages -> Msg]
    BY <1>5, <2>1 DEF Pending, QueueInv, TypeOK
  <2>3. CASE pc = "remove"
    <3>1. Messages' = [Messages EXCEPT ![m] = [Messages[m] EXCEPT !.sent = TRUE]]
      BY <1>7, <2>3 DEF RecordDelivery, RemoveOutQueue, Entry
    <3> HIDE DEF m
    <3>2. DOMAIN Messages' = DOMAIN Messages /\ Sent' = Sent \cup {m}
      BY <2>2, <3>1 DEF Sent, Msg
    <3>3. Pending' = Pending \ {m}
      BY <3>2, PendingIsUnsent
    <3>4. m \in mix
      BY <2>3 DEF QueueInv, Held, m
    <3> QED
      BY <2>1, <2>2, <3>2, <3>3, <3>4, OutboxSteps DEF O!Next
  <2>4. CASE pc = "retract"
    <3>1. Messages' = [Messages EXCEPT ![m] = [Messages[m] EXCEPT !.toSend = TRUE]]
      BY <1>7, <2>4 DEF RecordDelivery, RetractOutQueue, Entry
    <3> HIDE DEF m
    <3>2. DOMAIN Messages' = DOMAIN Messages /\ Sent' = Sent
      BY <2>2, <3>1 DEF Sent, Msg
    <3> QED
      BY <1>1, <2>1, <3>2
  <2>5. CASE pc = "resend"
    BY <1>1, <1>2, <1>7, <2>1, <2>5 DEF RecordDelivery, SetResendOutQueue
  <2> QED
    BY <1>7, <2>3, <2>4, <2>5 DEF RecordDelivery
<1>8. CASE EncryptAndQueue
  <2> DEFINE m == Min(Undelivered(nym))
  <2>1. mix' = mix /\ Messages' = [Messages EXCEPT ![m] = [Messages[m] EXCEPT !.toSend = FALSE]]
    BY <1>8 DEF EncryptAndQueue, AddOutQueue
  <2> HIDE DEF m
  <2>2. DOMAIN Messages' = DOMAIN Messages /\ Sent' = Sent
    BY <2>1 DEF Sent, QueueInv, TypeOK, Msg
  <2> QED
    BY <1>1, <2>1, <2>2
<1>9. CASE \/ UNCHANGED vars \/ QueueDone \/ GetToken \/ muteprotoCreate \/ StoreEnvelope
           \/ DelToken \/ AllQueued \/ StoreEnvelopeFails \/ CallFails \/ Crash \/ Recover
           \/ \E n \in Nyms : MsgSend(n)
  <2>1. Messages' = Messages /\ mix' = mix
    BY <1>9 DEF vars, msgdb, QueueDone, GetToken, muteprotoCreate, StoreEnvelope,
         SetOutQueue, DelToken, AllQueued, StoreEnvelopeFails, CallFails, Crash, Recover,
         MsgSend
  <2> QED
    BY <1>1, <1>2, <2>1
<1> QED
  BY <1>3, <1>4, <1>6, <1>7, <1>8, <1>9 DEF Next, Progress

(* `msg send' implements Outbox: nothing pending is lost, nothing is        *)
(* reported as sent that did not reach the mix, and nothing that was        *)
(* deleted or reported as sent reaches the mix again.                       *)
THEOREM Implements == Spec => ImplementsOutbox
<1>1. QueueInv /\ QueueInv' /\ [Next]_vars =>
        [O!Next]_<<DOMAIN Messages,
                   {m \in DOMAIN Messages :
                      \/ Messages[m].toSend
                      \/ \E i \in DOMAIN OutQueue : OutQueue[i].msgID = m},
                   mix,
                   {m \in DOMAIN Messages : Messages[m].sent}>>
  BY OutboxNext DEF Pending, Sent
<1> QED
  BY <1>1, Inductive, OutboxInit, PTL DEF Spec, ImplementsOutbox, O!Spec
====

------------------------------- MODULE KeyDB -------------------------------
(***************************************************************************)
(* The session tables of the encrypted key database (package keydb), which *)
(* CryptEngine uses as its session.Store: Sessions and MessageKeys, and    *)
(* the rows other calls insert on the same connection (SessionKeys,        *)
(* SessionStates).  `mem' is msg/session/memstore run on the same calls,   *)
(* the store that msg's own tests use; the properties compare the two.     *)
(*                                                                         *)
(* SQLite is external: a table with an INTEGER PRIMARY KEY gives a new row *)
(* the largest ID plus one, and LastInsertId is the ID of the row that the *)
(* connection inserted last, into whatever table; an UPDATE does not       *)
(* change it, and it is 0 on a connection that has inserted nothing.  A    *)
(* message key is named by the session and the position it is made for.    *)
(***************************************************************************)
EXTENDS SessionStore, FiniteSets, FiniteSetsExt

CONSTANTS SessionKeys,   \* the session keys that occur
          MaxBatches,    \* bound: calls of StoreSession per session
          MaxInserts     \* bound: rows inserted by calls outside sessions

VARIABLES
  Sessions,      \* Sessions[id]: the rows of table Sessions, never deleted
  MessageKeys,   \* MessageKeys[id]: the rows of table MessageKeys
  others,        \* the number of rows of the other table
  lastInsertId,  \* last_insert_rowid of the connection
  mem            \* the sessions of a MemStore

vars == <<Sessions, MessageKeys, others, lastInsertId, mem>>

Directions == BOOLEAN    \* Direction 1 (TRUE): sender key, 0: receiver key

NextID(table) == IF DOMAIN table = {} THEN 1 ELSE Max(DOMAIN table) + 1

(* The rows that getSessionQuery and getSessionIDQuery find. *)
Rows(sk) == {id \in DOMAIN Sessions : Sessions[id].sessionKey = sk}

(* The keys GetMessageKey may return; it fails if there is none.            *)
GetMessageKey(sk, sender, i) ==
  {MessageKeys[r].key : r \in
     {r \in DOMAIN MessageKeys :
        /\ MessageKeys[r].sessionID \in Rows(sk)
        /\ MessageKeys[r].number = i
        /\ MessageKeys[r].direction = sender}}

Init ==
  /\ Sessions = [id \in {} |-> Nil]
  /\ MessageKeys = [id \in {} |-> Nil]
  /\ others = 0
  /\ lastInsertId = 0
  /\ mem = [s \in {} |-> Nil]

(* The keys of a batch for sk that starts at position offset. *)
Batch(sk, offset, num, sender) ==
  [i \in 0 .. (num - 1) |->
     [session |-> sk, number |-> offset + i, sender |-> sender]]

(* The Number column of the i-th key; faulty variant: without the offset.   *)
KeyNumberFromZero(offset, i) == i

KeyNumber(offset, i) == offset + i

(* The rows for the message keys, a sender and a receiver key in turn.      *)
InsertKeys(sk, sessionID, offset, num) ==
  LET first == NextID(MessageKeys)
      last  == first + 2 * num - 1
      Row(k) == LET sender == (k % 2 = 0)
                IN  [sessionID |-> sessionID, number |-> KeyNumber(offset, k \div 2),
                     direction |-> sender,
                     key |-> Batch(sk, offset, num, sender)[k \div 2]]
  IN  /\ MessageKeys' = [r \in DOMAIN MessageKeys \cup first .. last |->
                           IF r < first THEN MessageKeys[r]
                           ELSE Row(r - first)]
      /\ lastInsertId' = last

StoreInMem(sk, offset, num) ==
  mem' = StoreSession(mem, sk, <<"root", sk, offset>>,
                      <<"chain", sk, offset + num>>,
                      Batch(sk, offset, num, TRUE),
                      Batch(sk, offset, num, FALSE), num)

(* AddSession, session not found. *)
AddSession(sk) ==
  LET id == NextID(Sessions)
  IN  /\ Rows(sk) = {}
      /\ Sessions' = [s \in DOMAIN Sessions \cup {id} |->
                        IF s # id THEN Sessions[s]
                        ELSE [sessionKey |-> sk,
                              rootKeyHash |-> <<"root", sk, 0>>,
                              chainKey |-> <<"chain", sk, NumOfKeys>>,
                              numOfKeys |-> NumOfKeys]]
      /\ InsertKeys(sk, id, 0, NumOfKeys)
      /\ StoreInMem(sk, 0, NumOfKeys)
      /\ UNCHANGED others

(* AddSession, session found: num more keys, filed under LastInsertId.      *)
UpdateSession(sk, num) ==
  \E id \in Rows(sk) :
    LET offset == Sessions[id].numOfKeys
    IN  /\ offset + num <= MaxBatches * NumOfKeys
        /\ Sessions' = [s \in DOMAIN Sessions |->
                          IF s \notin Rows(sk) THEN Sessions[s]
                          ELSE [Sessions[s] EXCEPT
                                  !.chainKey = <<"chain", sk, offset + num>>,
                                  !.numOfKeys = offset + num]]
        /\ InsertKeys(sk, lastInsertId, offset, num)
        /\ StoreInMem(sk, offset, num)
        /\ UNCHANGED others

(* Encrypt and Decrypt look up a message key, use it and delete it; a call  *)
(* that does not find the key fails and changes nothing.  They top up first *)
(* if i is not below the number of keys.                                    *)
UseMessageKey(sk, sender, i) ==
  /\ \E id \in Rows(sk) : i < Sessions[id].numOfKeys
  /\ GetMessageKey(sk, sender, i) # {}
  /\ MessageKeys' =
       [r \in {r \in DOMAIN MessageKeys :
                 ~ /\ MessageKeys[r].sessionID \in Rows(sk)
                   /\ MessageKeys[r].number = i
                   /\ MessageKeys[r].direction = sender}
          |-> MessageKeys[r]]
  /\ mem' = DelMessageKey(mem, sk, sender, i)
  /\ UNCHANGED <<Sessions, others, lastInsertId>>

(* AddSessionKey, or SetSessionState of a new conversation. *)
InsertElsewhere ==
  /\ others < MaxInserts
  /\ others' = others + 1
  /\ lastInsertId' = others + 1
  /\ UNCHANGED <<Sessions, MessageKeys, mem>>

(* A new mutecrypt process opens the database on a new connection. *)
Reopen ==
  /\ lastInsertId' = 0
  /\ UNCHANGED <<Sessions, MessageKeys, others, mem>>

Next ==
  \/ \E sk \in SessionKeys :
       \/ AddSession(sk)
       \/ \E b \in 1 .. (MaxBatches - 1) : UpdateSession(sk, b * NumOfKeys)
       \/ \E sender \in Directions, i \in 0 .. (MaxBatches * NumOfKeys - 1) :
            UseMessageKey(sk, sender, i)
  \/ InsertElsewhere
  \/ Reopen

Spec == Init /\ [][Next]_vars

-----------------------------------------------------------------------------
(* Properties *)

(* GetSession (and with it HasSession, NumMessageKeys, GetRootKeyHash and   *)
(* GetChainKey) always answers as MemStore does: one row per session,       *)
(* though no constraint of the table says so, with the root key hash of its *)
(* first batch and the chain key and the number of keys of its last.        *)
SessionRowsAgree ==
  /\ \A id \in DOMAIN Sessions : Sessions[id].sessionKey \in DOMAIN mem
  /\ \A sk \in DOMAIN mem :
       /\ Cardinality(Rows(sk)) = 1
       /\ \A id \in Rows(sk) :
            /\ Sessions[id].rootKeyHash = mem[sk].rootKeyHash
            /\ Sessions[id].chainKey = mem[sk].chainKey
            /\ Sessions[id].numOfKeys = mem[sk].num

(* The keys of the store that are not yet used. *)
Unused(sk, sender, i) ==
  (IF sender THEN {mem[sk].send[i]} ELSE {mem[sk].recv[i]}) \ {Used}

(* For the first batch of a session GetMessageKey answers as MemStore does, *)
(* before and after the key is deleted, even though later batches may be    *)
(* filed under the ID of another session.                                   *)
FirstBatchFound ==
  \A sk \in DOMAIN mem, sender \in Directions, i \in 0 .. (NumOfKeys - 1) :
    GetMessageKey(sk, sender, i) = Unused(sk, sender, i)

-----------------------------------------------------------------------------
(* What the documentation says and the code does not do *)

(* session.Store: GetMessageKey returns the message key with index msgIndex,*)
(* for every index below NumMessageKeys.  AddSession files the keys it adds *)
(* to a known session under the ID of the row inserted last.                *)
AllBatchesFound ==
  \A sk \in DOMAIN mem, sender \in Directions :
    \A i \in 0 .. (mem[sk].num - 1) :
      GetMessageKey(sk, sender, i) = Unused(sk, sender, i)
====

---------------------------- MODULE SessionStore ----------------------------
(***************************************************************************)
(* The sessions of a session.Store, as msg/session/memstore keeps them: a  *)
(* map from session keys to a root key hash, a chain key and the arrays of *)
(* precomputed send and receive message keys, and the number of keys that  *)
(* Decrypt asks generateMessageKeys for when they run out.                 *)
(***************************************************************************)
EXTENDS Naturals

CONSTANTS Nil,           \* Go's nil
          NumOfKeys,     \* message keys precomputed per batch (50)
          MaxNumOfKeys   \* mime.MaxMsgSize/MaxContentLength+NumOfFutureKeys

ASSUME PositiveBatch == NumOfKeys \in Nat \ {0}
ASSUME LimitIsNat == MaxNumOfKeys \in Nat

Used == [chain |-> Nil, pub |-> Nil]   \* a message key that was deleted

(* Appending the num keys new[0..num-1] to the keys old[0..n-1]. *)
AppendKeys(old, n, new, num) ==
  [i \in 0 .. (n + num - 1) |-> IF i < n THEN old[i] ELSE new[i - n]]

(* Store.StoreSession: a new session, or more keys for a known one, whose   *)
(* root key hash stays.                                                     *)
StoreSession(store, sk, rootKeyHash, chainKey, send, recv, num) ==
  [s \in DOMAIN store \cup {sk} |->
     IF s # sk THEN store[s]
     ELSE IF sk \in DOMAIN store
     THEN [rootKeyHash |-> store[sk].rootKeyHash,
           chainKey |-> chainKey,
           num |-> store[sk].num + num,
           send |-> AppendKeys(store[sk].send, store[sk].num, send, num),
           recv |-> AppendKeys(store[sk].recv, store[sk].num, recv, num)]
     ELSE [rootKeyHash |-> rootKeyHash, chainKey |-> chainKey, num |-> num,
           send |-> send, recv |-> recv]]

(* Faulty variant of DelMessageKey: the key is kept. *)
KeepMessageKey(store, sk, sender, i) == store

(* Store.DelMessageKey. *)
DelMessageKey(store, sk, sender, i) ==
  [s \in DOMAIN store |->
     IF s # sk THEN store[s]
     ELSE [rootKeyHash |-> store[sk].rootKeyHash,
           chainKey |-> store[sk].chainKey,
           num |-> store[sk].num,
           send |-> IF sender THEN [store[sk].send EXCEPT ![i] = Used]
                    ELSE store[sk].send,
           recv |-> IF sender THEN store[sk].recv
                    ELSE [store[sk].recv EXCEPT ![i] = Used]]]

(* ceil(count/NumOfKeys)*NumOfKeys keys are generated on a top-up.          *)
TopUp(count) ==
  LET batches == IF count % NumOfKeys > 0 THEN count \div NumOfKeys + 1
                 ELSE count \div NumOfKeys
  IN  batches * NumOfKeys
====

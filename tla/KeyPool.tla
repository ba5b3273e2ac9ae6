------------------------------ MODULE KeyPool ------------------------------
(***************************************************************************)
(* The pool of token signing keys (package serviceguard/common/keypool):   *)
(* the keys known to this process, their storage (keydir or keydb), and    *)
(* the current and the previous key of a process that generates keys.      *)
(*                                                                         *)
(* Readers call Lookup concurrently, under a read lock; LoadKey and        *)
(* Current take the write lock and are one step each.  A key is named by   *)
(* its KeyID, which is a hash of its other parts.  The key lookup service  *)
(* and the storage medium are external.                                    *)
(***************************************************************************)
EXTENDS Naturals, FiniteSets

CONSTANTS Served,      \* keys of the key lookup service: KeyID |-> Expire
          Own,         \* KeyIDs of the keys this process generates
          Readers,     \* goroutines that call Lookup
          ExpireTime,  \* of the generator
          MaxTime,     \* bound: the clock
          MaxRestarts, \* bound: restarts
          Database,    \* TRUE: keydb is the storage, FALSE: keydir
          CanFail,     \* writes to the storage may fail
          None         \* nil

VARIABLES
  now,           \* times.Now()
  keys,          \* KeyPool.keys: KeyID |-> Expire
  stored,        \* the keys in storage: KeyID |-> Expire
  VerifyPubKeys, \* TRUE once the signers of all keys are known
  currentKey, previousKey,
  pc,            \* of each reader: "idle", "fetch", "write"
  want,          \* the KeyID a reader looks up
  found,         \* the last answer of Lookup to a reader
  handedOut,     \* keys that Current has returned
  returned,      \* the key Current has returned since the clock moved
  restarts

pool == <<keys, VerifyPubKeys, currentKey, previousKey>>
calls == <<pc, want, found>>
current == <<handedOut, returned>>
vars == <<now, pool, stored, calls, current, restarts>>

KeyIDs == Own \cup DOMAIN Served

With(f, id, e) == [k \in DOMAIN f \cup {id} |-> IF k = id THEN e ELSE f[k]]

Init ==
  /\ now = 0
  /\ keys = [k \in {} |-> 0] /\ stored = [k \in {} |-> 0]
  /\ VerifyPubKeys = FALSE
  /\ currentKey = None /\ previousKey = None
  /\ pc = [r \in Readers |-> "idle"]
  /\ want = [r \in Readers |-> None]
  /\ found = [r \in Readers |-> None]
  /\ handedOut = {} /\ returned = None /\ restarts = 0

WriteLocked == \A r \in Readers : pc[r] = "idle"

-----------------------------------------------------------------------------

(* lookup, without lock: the answer for a key of the pool.                  *)
lookup(id) == IF keys[id] > now THEN id ELSE None

(* loadKey: what keeps a key out. *)
Loadable(e) == e >= now /\ VerifyPubKeys

(* WriteKey down to keydir's or keydb's callback.  keydb's drops the error. *)
(* Faulty variant: nothing is written.                                      *)
NotWritten(id, e) == UNCHANGED stored

Written(id, e) == stored' = With(stored, id, e)

WriteFails == CanFail /\ UNCHANGED stored

(* Lookup, first part. *)
Lookup(r, id) ==
  /\ pc[r] = "idle"
  /\ \/ /\ id \in DOMAIN keys
        /\ found' = [found EXCEPT ![r] = lookup(id)]
        /\ UNCHANGED <<pc, want>>
     \/ /\ id \notin DOMAIN keys
        /\ pc' = [pc EXCEPT ![r] = "fetch"]
        /\ want' = [want EXCEPT ![r] = id]
        /\ UNCHANGED found
  /\ UNCHANGED <<now, pool, stored, current, restarts>>

(* FetchKeyCallBack reads the key from the database; keydir has none.       *)
FetchKey(r) ==
  LET there == Database /\ want[r] \in DOMAIN stored
  IN  /\ pc[r] = "fetch"
      /\ pc' = [pc EXCEPT ![r] = IF there THEN "write" ELSE "idle"]
      /\ found' = IF there THEN found ELSE [found EXCEPT ![r] = None]
      /\ UNCHANGED <<now, pool, stored, want, current, restarts>>

(* loadKey, under the read lock only. *)
Answer(id) == IF Loadable(stored[id]) THEN id ELSE None

FetchedKey(r) ==
  LET id == want[r]
  IN  /\ pc[r] = "write"
      /\ keys' = IF Loadable(stored[id]) THEN With(keys, id, stored[id]) ELSE keys
      /\ found' = [found EXCEPT ![r] = Answer(id)]
      /\ pc' = [pc EXCEPT ![r] = "idle"]
      /\ UNCHANGED <<now, stored, VerifyPubKeys, currentKey, previousKey, want,
                     current, restarts>>

(* getPubKey: a key from the key lookup service is loaded; WalletToken and  *)
(* Reissue also save it.                                                    *)
LoadKey(id) ==
  /\ WriteLocked /\ id \notin DOMAIN keys
  /\ Loadable(Served[id])
  /\ keys' = With(keys, id, Served[id])
  /\ UNCHANGED <<now, VerifyPubKeys, currentKey, previousKey, stored, calls,
                 current, restarts>>

(* SaveKey: only a key that lookup finds. *)
SaveKey(id) ==
  /\ id \in DOMAIN keys /\ lookup(id) = id
  /\ Written(id, keys[id]) \/ WriteFails
  /\ UNCHANGED <<now, pool, calls, current, restarts>>

(* The key is to be replaced; "Key has half expired".                       *)
HalfExpired(e) == e + (ExpireTime \div 2) < now

NeedKey == IF currentKey = None THEN TRUE ELSE HalfExpired(keys[currentKey])

(* The previous key once id is current. *)
Previous(id) == IF currentKey # None THEN currentKey ELSE previousKey

(* Current.  A failing write is an error with keydir, none with keydb.      *)
Generate(id) ==
  /\ id \notin DOMAIN keys \cup DOMAIN stored /\ id \notin handedOut
  /\ Written(id, now + ExpireTime) \/ (Database /\ WriteFails)
  /\ previousKey' = Previous(id)
  /\ currentKey' = id
  /\ keys' = With(keys, id, now + ExpireTime)

Current ==
  /\ WriteLocked
  /\ \/ /\ NeedKey
        /\ \E id \in Own : Generate(id)
     \/ /\ ~NeedKey
        /\ UNCHANGED <<stored, keys, currentKey, previousKey>>
  /\ handedOut' = handedOut \cup {currentKey'}
  /\ returned' = currentKey'
  /\ UNCHANGED <<now, VerifyPubKeys, calls, restarts>>

(* GetVerifyKeys: AddVerifyKey for every signer. *)
GetVerifyKeys ==
  /\ ~VerifyPubKeys
  /\ VerifyPubKeys' = TRUE
  /\ UNCHANGED <<now, keys, currentKey, previousKey, stored, calls, current, restarts>>

(* A new process: New, then Load, which ignores the errors of loadKey.      *)
(* No signer is known yet.                                                  *)
Load == [k \in {k \in DOMAIN stored : stored[k] >= now /\ VerifyPubKeys'} |-> stored[k]]

Restart ==
  /\ restarts < MaxRestarts
  /\ restarts' = restarts + 1
  /\ VerifyPubKeys' = FALSE
  /\ keys' = Load
  /\ currentKey' = None /\ previousKey' = None
  /\ pc' = [r \in Readers |-> "idle"]
  /\ found' = [r \in Readers |-> None]
  /\ returned' = None
  /\ UNCHANGED <<now, stored, want, handedOut>>

Tick ==
  /\ now < MaxTime
  /\ now' = now + 1
  /\ found' = [r \in Readers |-> None]
  /\ returned' = None
  /\ UNCHANGED <<pool, stored, pc, want, handedOut, restarts>>

Next ==
  \/ \E r \in Readers :
       \/ \E id \in KeyIDs : Lookup(r, id)
       \/ FetchKey(r)
       \/ FetchedKey(r)
  \/ \E id \in DOMAIN Served : LoadKey(id)
  \/ \E id \in KeyIDs : SaveKey(id)
  \/ Current
  \/ GetVerifyKeys
  \/ Restart
  \/ Tick

Spec == Init /\ [][Next]_vars

-----------------------------------------------------------------------------
(* Properties *)

ExpireOf(id) == IF id \in DOMAIN keys THEN keys[id] ELSE stored[id]

(* Lookup returns a key only before its time is over, wherever it comes     *)
(* from and whenever the clock moves during the fetch.                      *)
NoExpiredKey ==
  \A r \in Readers : found[r] # None => ExpireOf(found[r]) >= now

(* A key that Current handed out stays in reach of verification until it    *)
(* expires: in the pool, or after a restart in the storage.                 *)
HandedOutKept ==
  \A id \in handedOut : id \in DOMAIN keys \cup DOMAIN stored

(* Current's previous key is one it handed out before, never the current.   *)
PreviousHandedOut ==
  previousKey # None => previousKey \in handedOut /\ previousKey # currentKey

-----------------------------------------------------------------------------
(* What the documentation says and the code does not do *)

(* generator.go: "Key has half expired, generate new one": the key that     *)
(* Current returns has at least half of its time to go.                     *)
CurrentNotHalfExpired ==
  returned # None => keys[returned] >= now + (ExpireTime \div 2)

(* keys.go: Expire is the "Last unixtime for which this key is usable for   *)
(* verification"; lookup refuses the key at that time.                      *)
UsableToTheEnd ==
  \A id \in DOMAIN keys : keys[id] >= now => lookup(id) = id

(* generator.go: "Load calls the load callback chain to load keys from      *)
(* storage".                                                                *)
LoadLoads ==
  [][restarts' > restarts =>
       \A id \in DOMAIN stored : stored[id] >= now => id \in DOMAIN keys']_vars

(* impl.go: the fetch callback "locks the keypool during fetch".  Two       *)
(* readers never write the map of keys at the same time.                    *)
NoConcurrentWrites ==
  \A r, s \in Readers : pc[r] = "write" /\ pc[s] = "write" => r = s
====

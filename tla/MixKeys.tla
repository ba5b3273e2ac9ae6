---- MODULE MixKeys ----
(***************************************************************************)
(* The keys of a mix (KeyList of package mixaddr) and the nym addresses    *)
(* that clients make from its statement (NewNymAddress, package nymaddr)   *)
(* and others send to (mixcrypt).  A key is a number and has the time it   *)
(* expires; a nym address has the key it is encrypted to and a time of its *)
(* own.  The unit of time is the period of the ticker in Maintain.         *)
(*                                                                         *)
(* The mix daemon is external: it calls New, Unmarshal of the newest file  *)
(* of Safedir if there is one, and Maintain; it may crash at any time.  A  *)
(* write in saveKeys may fail, and the error is ignored.                   *)
(***************************************************************************)
EXTENDS Integers, FiniteSets

CONSTANTS Duration, NewKeyFrequency,  \* of the KeyList
          SaveFails,                  \* whether writes may fail
          MaxTime,                    \* bound: the time that is modelled
          MaxAddresses                \* bound: the nym addresses made

VARIABLES
  now,        \* the time
  expire,     \* expire[k]: the time key k expires, for all keys ever made
  up,         \* the mix runs
  due,        \* the ticker has fired and Maintain has not run yet
  lastAdd,    \* of Maintain; long ago when it starts
  Keys,       \* the keys of the KeyList
  statement,  \* the addresses of the statement, {} if there is none
  file,       \* the keys in the newest file of Safedir
  fetched,    \* the statement a client has got from GetMixKeys
  addresses,  \* the nym addresses made
  since       \* history: ticks Maintain has handled since the mix runs, at most 1

vars == <<now, expire, up, due, lastAdd, Keys, statement, file, fetched, addresses, since>>

LongAgo == 0 - NewKeyFrequency

Init ==
  /\ now = 1
  /\ expire = << >>
  /\ up = FALSE /\ due = FALSE
  /\ lastAdd = LongAgo
  /\ Keys = {} /\ statement = {} /\ file = {}
  /\ fetched = {} /\ addresses = {}
  /\ since = 0

-----------------------------------------------------------------------------
(* The KeyList of the mix *)

(* expire, the method. *)
Expired(keys) == {k \in keys : expire[k] < now}

(* What AddKey saves; faulty variant: the list without the new key.         *)
SavedBefore(k) == Keys

Saved(k) == Keys \cup {k}

AddKey ==
  LET k == Cardinality(DOMAIN expire) + 1
  IN  /\ expire' = [x \in 1 .. k |-> IF x = k THEN now + Duration ELSE expire[x]]
      /\ Keys' = Keys \cup {k}
      /\ \/ file' = Saved(k)
         \/ SaveFails /\ UNCHANGED file
      /\ statement' = Keys'

(* Whether it is time for a new key. *)
AddDue == lastAdd < now - NewKeyFrequency

(* A tick in Maintain: a new key, or Expire, which leaves the statement.    *)
Maintain ==
  /\ up /\ due
  /\ \/ AddDue /\ lastAdd' = now /\ AddKey
     \/ ~AddDue /\ Keys' = Keys \ Expired(Keys)
        /\ UNCHANGED <<expire, lastAdd, file, statement>>
  /\ due' = FALSE
  /\ since' = 1
  /\ UNCHANGED <<now, up, fetched, addresses>>

(* Unmarshal, if there is a file: expire and updateStatement.               *)
Start ==
  /\ ~up
  /\ up' = TRUE
  /\ Keys' = file \ Expired(file)
  /\ statement' = Keys'
  /\ lastAdd' = LongAgo
  /\ due' = FALSE /\ since' = 0
  /\ UNCHANGED <<now, expire, file, fetched, addresses>>

Crash ==
  /\ up
  /\ up' = FALSE
  /\ Keys' = {} /\ statement' = {}
  /\ due' = FALSE /\ since' = 0
  /\ UNCHANGED <<now, expire, lastAdd, file, fetched, addresses>>

(* Time passes; Maintain is done with a tick before the next.               *)
Tick ==
  /\ now < MaxTime
  /\ ~due
  /\ now' = now + 1
  /\ due' = up
  /\ UNCHANGED <<expire, up, lastAdd, Keys, statement, file, fetched, addresses, since>>

(* GetPrivateKey *)
HasPrivateKey(k) == k \in Keys /\ ~(expire[k] < now)

-----------------------------------------------------------------------------
(* Clients *)

(* GetMixKeys: GET /keys, answered with GetStatement. *)
GetMixKeys ==
  /\ up
  /\ fetched' = statement
  /\ UNCHANGED <<now, expire, up, due, lastAdd, Keys, statement, file, addresses, since>>

(* MixCandidates.Expire(tmp.Expire) *)
Candidates(stmt, t) == {k \in stmt : expire[k] > t}

(* NewAddress with tmp.Expire = t; it fails without a candidate.  The new   *)
(* address is parsed at once, which fails if it has expired.                *)
NewAddress(t) ==
  /\ t >= now
  /\ Cardinality(addresses) < MaxAddresses
  /\ \E k \in Candidates(fetched, t) : addresses' = addresses \cup {[key |-> k, expire |-> t]}
  /\ fetched' = {}
  /\ UNCHANGED <<now, expire, up, due, lastAdd, Keys, statement, file, since>>

(* ParseAddress, of the sender in NewRelayMessage and of the mix.           *)
ParseAddress(a) == ~(a.expire < now)

(* ReceiveMessage of the mix, for a message to a: Decrypt and GetMixData    *)
(* look up the key.                                                         *)
ReceiveMessage(a) == HasPrivateKey(a.key) /\ ParseAddress(a)

Next ==
  \/ Maintain \/ Start \/ Crash \/ Tick \/ GetMixKeys
  \/ \E t \in 1 .. (MaxTime + Duration) : NewAddress(t)

Spec == Init /\ [][Next]_vars

-----------------------------------------------------------------------------
(* Properties *)

(* A message to a nym address that has not expired, when it is sent or when *)
(* it arrives, is received by the mix: the key of the address is there and  *)
(* has not expired either, though the mix has crashed and restarted any     *)
(* number of times and the client's statement was old.                      *)
AddressServed ==
  \A a \in addresses : (up /\ ParseAddress(a)) => ReceiveMessage(a)

(* Between two ticks, the statement of a mix that has run for one has a key *)
(* for a nym address for the next Duration - NewKeyFrequency - 1 ticks,     *)
(* whatever keys it has lost: the client is not refused with ErrNoMix.      *)
StatementFresh ==
  (up /\ since = 1 /\ ~due) =>
    Candidates(statement, now + Duration - NewKeyFrequency - 1) # {}
====

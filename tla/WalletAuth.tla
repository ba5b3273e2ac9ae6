----------------------------- MODULE WalletAuth -----------------------------
(***************************************************************************)
(* How a token that was paid for reaches the wallet: getTokenFromWallet    *)
(* calls the wallet server with an authentication token, keeps that token  *)
(* for the next try if the call fails, and gives it up after               *)
(* AuthTokenRetry tries.                                                   *)
(*                                                                         *)
(* The wallet server is external: it issues a token for an authentication  *)
(* token whose counter is larger than the last one it saw, answers an      *)
(* authentication token that it took with the same token again, and any    *)
(* other with ErrReplay and the last counter.  Other clients of the same   *)
(* wallet key may call it at any time.  An authentication token holds      *)
(* random bytes; here they are a number never used twice.                  *)
(***************************************************************************)
EXTENDS Naturals, FiniteSets

CONSTANTS AuthTokenRetry,  \* constants.go: tries with one authentication token
          MaxTokens,       \* bound: tokens the wallet server issues to us
          MaxFaults,       \* bound: lost calls and lost answers
          MaxOthers,       \* bound: calls by other clients of the wallet key
          MaxRestarts,     \* bound: restarts of the client
          None             \* nil

VARIABLES
  cache,           \* Storage.cache: [AuthToken, AuthTries], or None
  stored,          \* the row CONFIGCACHE that writeCache wrote, or None
  LastAuthCounter, \* of the WalletClient
  LastAuthToken,   \* of the WalletClient
  tries,           \* of getTokenFromWallet
  pc,              \* "idle", "call" or "store"
  i,               \* walletrpc.GetToken: replays it may still skip
  auth,            \* the authentication token of the call
  random,          \* random numbers drawn so far
  lastCounter,     \* wallet server: the last counter it saw
  callcache,       \* wallet server: the token issued for a random number
  wallet,          \* tokens in the wallet store
  wanted,          \* the user waits for a token
  gaveUp,          \* random numbers of authentication tokens given up
  faults, others, restarts

client == <<cache, stored, LastAuthCounter, LastAuthToken, tries, pc, i, auth, random>>
server == <<lastCounter, callcache>>
bounds == <<faults, others, restarts>>
vars == <<client, server, wallet, wanted, gaveUp, bounds>>

Issued == {callcache[r] : r \in DOMAIN callcache}

Init ==
  /\ cache = None /\ stored = None
  /\ LastAuthCounter = 0 /\ LastAuthToken = None
  /\ tries = 0 /\ pc = "idle" /\ i = 0 /\ auth = None /\ random = 0
  /\ lastCounter = 0 /\ callcache = [r \in {} |-> 0]
  /\ wallet = {} /\ wanted = FALSE /\ gaveUp = {}
  /\ faults = 0 /\ others = 0 /\ restarts = 0

-----------------------------------------------------------------------------

(* CreateToken *)
CreateToken(counter) == [counter |-> counter, random |-> random + 1]

(* The authentication token of the next call: the cached one, or a new one  *)
(* with the counter after lastcounter.                                      *)
NextCall(cached, lastcounter) ==
  /\ auth' = IF cached # None THEN cached ELSE CreateToken(lastcounter + 1)
  /\ random' = IF cached # None THEN random ELSE random + 1

(* GetAuthToken.  readCache scans two columns into one variable, which      *)
(* fails, so nothing is ever read from the row.                             *)
GetAuthToken == IF cache # None THEN cache ELSE [AuthToken |-> None, AuthTries |-> 0]

SetAuthToken(authToken, t) ==
  /\ cache' = [AuthToken |-> authToken, AuthTries |-> t]
  /\ stored' = cache'

(* The retry limit; faulty variant: one try fewer.                          *)
TooManyOrEqual(t) == t >= AuthTokenRetry

TooMany(t) == t > AuthTokenRetry

(* The authentication token to use again. *)
Again(c) == IF TooMany(c.AuthTries) THEN None ELSE c.AuthToken

(* getTokenFromWallet up to the first call. *)
GetTokenFromWallet ==
  LET c == GetAuthToken
      drop == TooMany(c.AuthTries)
      cached == Again(c)
  IN  /\ pc = "idle" /\ wanted
      /\ LastAuthToken' = cached
      /\ tries' = IF drop THEN 0 ELSE c.AuthTries
      /\ gaveUp' = IF drop /\ c.AuthToken # None THEN gaveUp \cup {c.AuthToken.random}
                   ELSE gaveUp
      /\ NextCall(cached, LastAuthCounter)
      /\ i' = 3
      /\ pc' = "call"
      /\ UNCHANGED <<cache, stored, LastAuthCounter, server, wallet, wanted, bounds>>

(* What the server makes of auth. *)
Answer ==
  CASE auth.random \in DOMAIN callcache -> "token"
    [] auth.random \notin DOMAIN callcache /\ auth.counter > lastCounter -> "issue"
    [] OTHER -> "replay"

ServerTakes ==
  CASE Answer = "issue" ->
         /\ lastCounter' = auth.counter
         /\ callcache' = [r \in DOMAIN callcache \cup {auth.random} |->
                            IF r = auth.random THEN Cardinality(Issued) + 1
                            ELSE callcache[r]]
    [] OTHER -> UNCHANGED server

(* A call that returns the token. *)
ResetAuthToken == SetAuthToken(None, 0)

CallReturns ==
  /\ pc = "call" /\ Answer \in {"token", "issue"}
  /\ Answer = "issue" => Cardinality(Issued) < MaxTokens
  /\ ServerTakes
  /\ ResetAuthToken
  /\ pc' = "store"
  /\ UNCHANGED <<LastAuthCounter, LastAuthToken, tries, i, auth, random, wallet,
                 wanted, gaveUp, bounds>>

(* walletrpc.GetToken: ErrReplay, and the loop goes on with the counter of  *)
(* the answer.                                                              *)
CallReplayed ==
  /\ pc = "call" /\ Answer = "replay" /\ i > 0
  /\ LastAuthCounter' = lastCounter
  /\ i' = i - 1
  /\ NextCall(LastAuthToken, lastCounter)
  /\ UNCHANGED <<cache, stored, LastAuthToken, tries, pc, server, wallet, wanted,
                 gaveUp, bounds>>

(* walletrpc.GetToken returns an error, getTokenFromWallet ErrRetry. *)
CacheAuthToken == SetAuthToken(auth, tries + 1)

Retry ==
  /\ LastAuthToken' = auth
  /\ CacheAuthToken
  /\ pc' = "idle"
  /\ UNCHANGED <<tries, i, auth, random, wallet, wanted, gaveUp, others, restarts>>

ReplayedTooOften ==
  /\ pc = "call" /\ Answer = "replay" /\ i = 0
  /\ LastAuthCounter' = lastCounter
  /\ Retry
  /\ UNCHANGED <<server, faults>>

(* The call is lost on its way, or its answer is.                           *)
CallFails ==
  /\ pc = "call" /\ faults < MaxFaults
  /\ faults' = faults + 1
  /\ \/ UNCHANGED server
     \/ Answer = "issue" /\ Cardinality(Issued) < MaxTokens /\ ServerTakes
  /\ Retry
  /\ UNCHANGED LastAuthCounter

(* The funds are exhausted: ErrFinal. *)
InsufficientFunds ==
  /\ pc = "call" /\ Answer = "issue" /\ Cardinality(Issued) = MaxTokens
  /\ pc' = "idle"
  /\ LastAuthToken' = auth
  /\ wanted' = FALSE
  /\ UNCHANGED <<cache, stored, LastAuthCounter, tries, i, auth, random, server,
                 wallet, gaveUp, bounds>>

(* WalletToken stores the token. *)
StoreToken ==
  /\ pc = "store"
  /\ wallet' = wallet \cup {callcache[auth.random]}
  /\ wanted' = FALSE
  /\ pc' = "idle"
  /\ UNCHANGED <<cache, stored, LastAuthCounter, LastAuthToken, tries, i, auth,
                 random, server, gaveUp, bounds>>

(* The user wants a token (wallet.GetToken tries again on ErrRetry). *)
Want ==
  /\ pc = "idle" /\ ~wanted /\ Cardinality(Issued) < MaxTokens
  /\ wanted' = TRUE
  /\ UNCHANGED <<client, server, wallet, gaveUp, bounds>>

(* Another client of the wallet key; the tokens are its own. *)
OtherClient ==
  /\ others < MaxOthers
  /\ others' = others + 1
  /\ lastCounter' = lastCounter + 1
  /\ UNCHANGED <<client, callcache, wallet, wanted, gaveUp, faults, restarts>>

(* The next command runs in a new process, on the same store. *)
Restart ==
  /\ pc = "idle" /\ restarts < MaxRestarts
  /\ restarts' = restarts + 1
  /\ cache' = None /\ LastAuthCounter' = 0 /\ LastAuthToken' = None
  /\ wanted' = FALSE
  /\ UNCHANGED <<stored, tries, pc, i, auth, random, server, wallet, gaveUp,
                 faults, others>>

Step ==
  \/ GetTokenFromWallet \/ CallReturns \/ CallReplayed \/ ReplayedTooOften
  \/ InsufficientFunds \/ StoreToken

Next == Step \/ CallFails \/ Want \/ OtherClient \/ Restart

Spec == Init /\ [][Next]_vars

(* wallet.GetToken keeps trying; the faults and the other clients end. *)
Fairness == WF_vars(Step)

FairSpec == Spec /\ Fairness

-----------------------------------------------------------------------------
(* Properties *)

InReach(r) ==
  \/ callcache[r] \in wallet
  \/ auth # None /\ auth.random = r /\ pc \in {"call", "store"}
  \/ GetAuthToken.AuthToken # None /\ GetAuthToken.AuthToken.random = r

(* A token the server has issued to us arrives, or the authentication token *)
(* it was issued for is kept for the next try.  It is lost only once that   *)
(* was given up, which takes more than AuthTokenRetry failed calls.         *)
PaidTokensInReach ==
  \A r \in DOMAIN callcache :
    InReach(r) \/ (r \in gaveUp /\ faults > AuthTokenRetry)

(* Whatever failed before and whoever else calls the server, a token that   *)
(* the user waits for arrives, or the funds are exhausted: a cached         *)
(* authentication token that the server answers with ErrReplay does not     *)
(* block the wallet for ever.                                               *)
TokenArrives == wanted ~> ~wanted

-----------------------------------------------------------------------------
(* What the documentation says and the code does not do *)

(* store.go: "GetAuthToken gets authtoken from store".  After a restart the *)
(* authentication token cached before is not found.                         *)
AuthTokenKept == stored # None => GetAuthToken = stored
====

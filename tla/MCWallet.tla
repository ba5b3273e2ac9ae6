------------------------------ MODULE MCWallet ------------------------------
(***************************************************************************)
(* The wallet and the keys its tokens are verified with, for TLC: Wallet,  *)
(* WalletAuth and KeyPool.  They share no variable and no property speaks  *)
(* of two of them, so that it is enough to move one part at a time, with   *)
(* the others at rest in their initial states:                             *)
(*   "wallet"  one process with a caller and the runner, crashes, restarts *)
(*   "two"     a second process with a caller on the same store            *)
(*   "auth"    tokens from the wallet server                               *)
(*   "lookup"  two readers of a key pool, keys in the database             *)
(*   "current" one reader and new keys, in a directory that may be full    *)
(***************************************************************************)
EXTENDS Wallet, TLC

CONSTANTS c1, c2, r1, AuthTokenRetry, s1, s2, o1, o2

VARIABLES
  part,
  cache, authStored, LastAuthCounter, LastAuthToken, tries, authPC, i, auth, random,
  lastCounter, callcache, wallet, wanted, gaveUp, lost, others, authRestarts,
  now, keys, stored, VerifyPubKeys, currentKey, previousKey, readerPC, want, found,
  handedOut, returned, restarts

OneProcess == {{c1, r1}}

Two == INSTANCE Wallet WITH Processes <- {{c1, r1}, {c2}}, Callers <- {c1, c2},
         MaxTokens <- 1, MaxFaults <- 1, MaxOpens <- 0, Expiring <- {1}, Foreign <- {9}
Auth == INSTANCE WalletAuth WITH stored <- authStored, pc <- authPC, faults <- lost,
          restarts <- authRestarts, MaxTokens <- 2, MaxFaults <- 5, MaxOthers <- 2,
          MaxRestarts <- 1
Lookup == INSTANCE KeyPool WITH pc <- readerPC, Served <- (s1 :> 2) @@ (s2 :> 9),
            Own <- {o1}, Readers <- {c1, c2}, ExpireTime <- 2, MaxTime <- 3,
            MaxRestarts <- 1, Database <- TRUE, CanFail <- FALSE
Current == INSTANCE KeyPool WITH pc <- readerPC, Served <- (s1 :> 2) @@ (s2 :> 9),
             Own <- {o1, o2}, Readers <- {c1}, ExpireTime <- 2, MaxTime <- 5,
             MaxRestarts <- 1, Database <- FALSE, CanFail <- TRUE

authVars == <<cache, authStored, LastAuthCounter, LastAuthToken, tries, authPC, i,
              auth, random, lastCounter, callcache, wallet, wanted, gaveUp, lost,
              others, authRestarts>>
poolVars == <<now, keys, stored, VerifyPubKeys, currentKey, previousKey, readerPC,
              want, found, handedOut, returned, restarts>>

MCInit ==
  /\ part \in {"wallet", "two", "auth", "lookup", "current"}
  /\ IF part = "two" THEN Two!Init ELSE Init
  /\ Auth!Init
  /\ IF part = "lookup" THEN Lookup!Init ELSE Current!Init

WalletMoves(p) == part = p /\ UNCHANGED <<part, authVars, poolVars>>
PoolMoves(p) == part = p /\ UNCHANGED <<part, vars, authVars>>

MCNext ==
  \/ WalletMoves("wallet") /\ Next
  \/ WalletMoves("two") /\ Two!Next
  \/ part = "auth" /\ Auth!Next /\ UNCHANGED <<part, vars, poolVars>>
  \/ PoolMoves("lookup") /\ Lookup!Next
  \/ PoolMoves("current") /\ Current!Next

MCSpec == MCInit /\ [][MCNext]_<<part, vars, authVars, poolVars>>

(* Whatever fails, a token that the issuer has taken can be exchanged still *)
(* or has been, but for the one whose answer is in hand when it is deleted; *)
(* it is never sent with a second packet, which the issuer would refuse;    *)
(* and no token is used twice, though the runner repeats a reissue.         *)
TakenRecoverable == part = "wallet" => Recoverable /\ OnePacket /\ UsedOnce

(* LockToken "locks token against other use": no two actors hold one token, *)
(* be it in one process or in two on the same store.                        *)
LockHolds == IF part = "two" THEN Two!HeldByOne ELSE HeldByOne

(* A token that the wallet server has issued arrives, or can be asked for   *)
(* again with the authentication token that getTokenFromWallet keeps; a     *)
(* restart forgets that token (readCache never finds it).                   *)
PaidTokensInReach == (part = "auth" /\ authRestarts = 0) => Auth!PaidTokensInReach

(* Lookup returns no expired key, whenever the clock moves during a fetch;  *)
(* and a key that Current handed out stays in reach of verification, though *)
(* a write to the storage fails or the process restarts; the previous key   *)
(* is one it handed out before.                                             *)
PoolKeysServe ==
  /\ part = "lookup" => Lookup!NoExpiredKey
  /\ part = "current" => Current!HandedOutKept /\ Current!PreviousHandedOut
====

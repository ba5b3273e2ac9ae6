----------------------------- MODULE MCProcess -----------------------------
(***************************************************************************)
(* What the goroutines of a process bring to an end, for TLC: Runner, the  *)
(* turns of Wallet that the runner takes, WalletAuth, and Shutdown.  They  *)
(* share no variable and no property speaks of two of them, so that it is  *)
(* enough to move one part at a time, with the others at rest in an        *)
(* initial state:                                                          *)
(*   "twice"     two starts of the runner and another user                 *)
(*   "one"       one runner, under fairness                                *)
(*   "reissue"   the wallet of a process with a caller and the runner      *)
(*   "auth"      tokens from the wallet server                             *)
(*   "mutectrl"  its shutdown, Ctrl-C once the handler is registered       *)
(*   "mutecrypt" its shutdown, Ctrl-C from the first instruction on        *)
(***************************************************************************)
EXTENDS Runner

CONSTANTS r1, c1, None, MaxSignals

VARIABLES
  part,
  walletTokens, made, taken, issued, actor, tok, entry, lockID, used, gone, opens,
  faults, panicked,
  cache, stored, LastAuthCounter, LastAuthToken, tries, authPC, i, auth, random,
  lastCounter, callcache, authWallet, wanted, gaveUp, lost, others, restarts,
  main, handler, engine, callbacks, pending, signals, db, connection, failed, result

One == INSTANCE Runner WITH Starts <- {r1}, Users <- {}, HighWaterMark <- 2,
         MaxSpends <- 3
Reissue == INSTANCE Wallet WITH Processes <- {{c1, r1}}, Callers <- {c1}, pc <- actor,
             MaxTokens <- 2, MaxPackets <- 2, MaxFaults <- 2, MaxOpens <- 2,
             Expiring <- {}, Foreign <- {}
Auth == INSTANCE WalletAuth WITH pc <- authPC, wallet <- authWallet, faults <- lost,
          AuthTokenRetry <- 1, MaxTokens <- 1, MaxFaults <- 2, MaxOthers <- 1,
          MaxRestarts <- 1
Ctrl == INSTANCE Shutdown WITH EngineCloses <- FALSE, Early <- FALSE, conn <- connection
Crypt == INSTANCE Shutdown WITH EngineCloses <- TRUE, Early <- TRUE, conn <- connection

wallet == <<walletTokens, made, taken, issued, actor, tok, entry, lockID, used, gone,
            opens, faults, panicked>>
authVars == <<cache, stored, LastAuthCounter, LastAuthToken, tries, authPC, i, auth,
              random, lastCounter, callcache, authWallet, wanted, gaveUp, lost, others,
              restarts>>
shutdown == <<main, handler, engine, callbacks, pending, signals, db, connection,
              failed, result>>

ProcessInit ==
  /\ part \in {"twice", "one", "reissue", "auth", "mutectrl", "mutecrypt"}
  /\ Init /\ Reissue!Init /\ Auth!Init /\ Ctrl!Init

RunnerMoves(p) == part = p /\ UNCHANGED <<part, wallet, authVars, shutdown>>
ShutdownMoves(p) == part = p /\ UNCHANGED <<part, vars, wallet, authVars>>

ProcessNext ==
  \/ RunnerMoves("twice") /\ Next
  \/ RunnerMoves("one") /\ One!Next
  \/ part = "reissue" /\ Reissue!Next /\ UNCHANGED <<part, vars, authVars, shutdown>>
  \/ part = "auth" /\ Auth!Next /\ UNCHANGED <<part, vars, wallet, shutdown>>
  \/ ShutdownMoves("mutectrl") /\ Ctrl!Next
  \/ ShutdownMoves("mutecrypt") /\ Crypt!Next

ProcessSpec ==
  /\ ProcessInit /\ [][ProcessNext]_<<part, vars, wallet, authVars, shutdown>>
  /\ part = "one" => One!Fairness
  /\ part = "reissue" => Reissue!Fairness
  /\ Auth!Fairness
  /\ part = "mutectrl" => Ctrl!Fairness

(* Although the runner goes on for ever, GoOffline returns, SetTarget gets  *)
(* runnerLock from it, and a target is met at last or the client offline.   *)
RunnerGoesOffline ==
  part = "one" => One!OfflineReturns /\ One!SetTargetReturns /\ One!TargetMet

(* The runner: "Check for unfinished reissues".  Every reissue that has got *)
(* as far as a stored packet is finished at last, whatever has failed; and  *)
(* a token that the user waits for arrives, or the funds are exhausted.     *)
ReissuesFinish == Reissue!ReissuesFinish /\ Auth!TokenArrives

(* After a Ctrl-C the process ends, even if the engine waits for input for  *)
(* ever; it does not end without an error if the engine has failed before,  *)
(* nor with an open database if the engine has returned.                    *)
ProcessEnds ==
  /\ part = "mutectrl" => Ctrl!InterruptEnds
  /\ [](Ctrl!ErrorReported /\ Ctrl!ClosedAtExit)
====

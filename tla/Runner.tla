------------------------------- MODULE Runner -------------------------------
(***************************************************************************)
(* The goroutines of a wallet client (package serviceguard/client): the    *)
(* background runner, which fills the wallet up to its target, StopRunner, *)
(* SetTarget, GoOffline, and a caller that uses the internet connection.   *)
(* What a turn of the runner does to the tokens is in Wallet; here are     *)
(* runnerLock, the unbuffered channel stopChan, the wait group onlineGroup *)
(* and the water marks of the target.                                      *)
(***************************************************************************)
EXTENDS Naturals

CONSTANTS Starts,        \* goroutines started by Runner()
          Users,         \* goroutines that call ReissueToken
          LowWaterMark, HighWaterMark,  \* of the target
          MaxSpends,     \* bound: tokens taken from the wallet
          Nobody         \* runnerLock is free

Callers == {"stop", "offline", "set"}

ASSUME Distinct == Starts \cap Users = {} /\ (Starts \cup Users) \cap Callers = {}

ASSUME WaterMarks == LowWaterMark \in Nat /\ HighWaterMark \in Nat
                     /\ LowWaterMark <= HighWaterMark /\ MaxSpends \in Nat

VARIABLES
  runnerLock,     \* who holds it
  runnerRunning,
  online,
  onlineGroup,    \* the goroutines counted
  target,         \* SetTarget was called
  loading,        \* target.balance
  balance,        \* tokens for the target's owner
  spends,         \* tokens taken so far
  pc              \* of each goroutine; "stop", "offline" and "set" are those
                  \* that call StopRunner, GoOffline and SetTarget (Callers)

locks == <<runnerLock, runnerRunning>>
conn == <<online, onlineGroup>>
fill == <<target, loading, balance, spends>>
vars == <<locks, conn, fill, pc>>

Goroutines == Starts \cup Users \cup Callers

Init ==
  /\ runnerLock = Nobody /\ runnerRunning = FALSE
  /\ online = TRUE /\ onlineGroup = {}
  /\ target = FALSE /\ loading = 0 /\ balance = 0 /\ spends = 0
  /\ pc = [g \in Goroutines |-> "start"]

Goto(g, label) == pc' = [pc EXCEPT ![g] = label]

(* "Prevent double-start" *)
MayRun == ~runnerRunning

(* runner(): a second start returns with runnerLock held.                   *)
Run(g) ==
  /\ pc[g] = "start" /\ runnerLock = Nobody
  /\ \/ /\ MayRun
        /\ runnerRunning' = TRUE
        /\ Goto(g, "loop")
        /\ UNCHANGED runnerLock
     \/ /\ ~MayRun
        /\ runnerLock' = g
        /\ Goto(g, "ended")
        /\ UNCHANGED runnerRunning
  /\ UNCHANGED <<conn, fill>>

(* A turn.  It would end the goroutine if len(stopChan) > 0, but the length *)
(* of an unbuffered channel is always 0.                                    *)
Turn(g) ==
  /\ pc[g] = "loop"
  /\ onlineGroup' = onlineGroup \cup {g}
  /\ Goto(g, "reissue")
  /\ UNCHANGED <<locks, online, fill>>

(* ReissueToken of the runner; it uses the connection if the client is      *)
(* online.                                                                  *)
TurnReissue(g) ==
  /\ pc[g] = "reissue"
  /\ Goto(g, IF online THEN "using" ELSE "meet")
  /\ UNCHANGED <<locks, conn, fill>>

TurnReissued(g) ==
  /\ g \in Starts /\ pc[g] = "using"
  /\ Goto(g, "meet")
  /\ UNCHANGED <<locks, conn, fill>>

(* Whether to load, by the balance and the water marks. *)
Load == ~ (balance >= LowWaterMark /\ loading = 0) /\ balance < HighWaterMark

(* onlineGroup.Done and runnerLock.Unlock at the end of a turn; faulty      *)
(* variant: the first is left out.                                          *)
NotDone(g) == onlineGroup

Done(g) == onlineGroup \ {g}

Unlock(g) == Nobody

(* meetTarget loads one token, if the wallet server gives one.              *)
MeetTarget(g) ==
  /\ pc[g] = "meet" /\ runnerLock = Nobody
  /\ \/ /\ target /\ Load
        /\ loading' = HighWaterMark - balance
        /\ UNCHANGED balance
     \/ /\ target /\ Load /\ online
        /\ loading' = HighWaterMark - balance - 1
        /\ balance' = balance + 1
     \/ /\ target /\ ~Load
        /\ loading' = IF balance >= HighWaterMark THEN 0 ELSE loading
        /\ UNCHANGED balance
     \/ ~target /\ UNCHANGED <<loading, balance>>
  /\ runnerLock' = Unlock(g)
  /\ onlineGroup' = Done(g)
  /\ Goto(g, "loop")
  /\ UNCHANGED <<runnerRunning, online, target, spends>>

(* stopChan <- true: a receiver never comes. *)
StopRunner ==
  /\ pc["stop"] = "start"
  /\ Goto("stop", "sending")
  /\ UNCHANGED <<locks, conn, fill>>

SetTarget ==
  /\ pc["set"] = "waiting" /\ runnerLock = Nobody
  /\ target' = TRUE
  /\ Goto("set", "start")
  /\ UNCHANGED <<locks, conn, loading, balance, spends>>

WantTarget ==
  /\ pc["set"] = "start"
  /\ Goto("set", "waiting")
  /\ UNCHANGED <<locks, conn, fill>>

(* A token is taken from the wallet and used. *)
Spend ==
  /\ balance > 0 /\ spends < MaxSpends
  /\ balance' = balance - 1
  /\ spends' = spends + 1
  /\ UNCHANGED <<locks, conn, target, loading, pc>>

(* ReissueToken of a user: it tests online, then joins the group.           *)
TestOnline(g) ==
  /\ pc[g] = "start"
  /\ Goto(g, IF online THEN "tested" ELSE "ended")
  /\ UNCHANGED <<locks, conn, fill>>

Join(g) ==
  /\ pc[g] = "tested"
  /\ onlineGroup' = onlineGroup \cup {g}
  /\ Goto(g, "using")
  /\ UNCHANGED <<locks, online, fill>>

Leave(g) ==
  /\ g \in Users /\ pc[g] = "using"
  /\ onlineGroup' = Done(g)
  /\ Goto(g, "ended")
  /\ UNCHANGED <<locks, online, fill>>

(* GoOffline; faulty variant of its wait: it does not wait.                 *)
WaitForNobody == TRUE

WaitGroup == onlineGroup = {}

GoOffline ==
  /\ pc["offline"] = "start"
  /\ online' = FALSE
  /\ Goto("offline", "waiting")
  /\ UNCHANGED <<locks, onlineGroup, fill>>

Offline ==
  /\ pc["offline"] = "waiting" /\ WaitGroup
  /\ Goto("offline", "offline")
  /\ UNCHANGED <<locks, conn, fill>>

RunnerStep(g) ==
  Run(g) \/ Turn(g) \/ TurnReissue(g) \/ TurnReissued(g) \/ MeetTarget(g)

UserStep(g) == TestOnline(g) \/ Join(g) \/ Leave(g)

Next ==
  \/ \E g \in Starts : RunnerStep(g)
  \/ \E g \in Users : UserStep(g)
  \/ StopRunner \/ WantTarget \/ SetTarget \/ Spend \/ GoOffline \/ Offline

Spec == Init /\ [][Next]_vars

(* The scheduler runs every goroutine that is not blocked; runnerLock is    *)
(* handed to who waits for it, Done wakes who waits for the group, and the  *)
(* wallet server gives a token again and again.                             *)
Fairness ==
  /\ \A g \in Starts :
       /\ WF_vars(RunnerStep(g))
       /\ SF_vars(MeetTarget(g))
       /\ SF_vars(MeetTarget(g) /\ (online /\ target /\ Load => balance' > balance))
  /\ \A g \in Users : WF_vars(UserStep(g))
  /\ WF_vars(SetTarget) /\ SF_vars(SetTarget) /\ SF_vars(Offline)

FairSpec == Spec /\ Fairness

-----------------------------------------------------------------------------
(* Properties *)

Running(g) == pc[g] \notin {"start", "ended"}

(* runner.go: "Prevent double-start".  However often and concurrently       *)
(* Runner is called, one runner at most is in its loop.                     *)
OneRunner == \A g, h \in Starts : Running(g) /\ Running(h) => g = h

(* The inductive invariant of both: a runner that runs is the one           *)
(* runnerRunning stands for; it is in the group during a turn; and the      *)
(* client is offline from the time GoOffline waits.                         *)
RunnerInv ==
  /\ DOMAIN pc = Goroutines
  /\ OneRunner
  /\ \A g \in Starts :
       /\ Running(g) => runnerRunning
       /\ pc[g] \in {"reissue", "using"} => g \in onlineGroup
       /\ pc["offline"] = "offline" => pc[g] # "using"
  /\ pc["offline"] \in {"waiting", "offline"} => ~online

(* That much is true of the runner, which joins the group before it tests   *)
(* whether the client is online: once GoOffline has returned, no runner     *)
(* uses the connection.                                                     *)
RunnerQuiet == pc["offline"] = "offline" => \A g \in Starts : pc[g] # "using"

(* GoOffline returns, although the runner goes on for ever. *)
OfflineReturns == pc["offline"] = "waiting" ~> pc["offline"] = "offline"

(* SetTarget gets runnerLock from the runner. *)
SetTargetReturns == pc["set"] = "waiting" ~> pc["set"] = "start"

(* meetTarget: "We need to load. Either we are below LowWaterMark or we are *)
(* in loading already".  A target is met at last, or the client is offline. *)
TargetMet == target ~> (balance >= LowWaterMark \/ ~online)

-----------------------------------------------------------------------------
(* What the documentation says and the code does not do *)

(* clientlib.go: GoOffline "will block until all routines using the         *)
(* internet connection have returned".                                      *)
OfflineQuiet == pc["offline"] = "offline" => \A g \in Goroutines : pc[g] # "using"

(* runner.go: "StopRunner stops the runner". *)
RunnerStops ==
  \A g \in Starts : (pc["stop"] = "sending" /\ pc[g] = "loop") ~> pc[g] = "ended"
====

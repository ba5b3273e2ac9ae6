---------------------------- MODULE RunnerProofs ----------------------------
(***************************************************************************)
(* For any number of calls of Runner and of other users: one runner at     *)
(* most is in its loop, and none uses the connection once GoOffline has    *)
(* returned.                                                               *)
(***************************************************************************)
EXTENDS Runner, TLAPS

(* The goroutines that call StopRunner, GoOffline and SetTarget are no      *)
(* runners and no users.                                                    *)
LEMMA CallersApart ==
  /\ \A g \in Starts : g # "stop" /\ g # "offline" /\ g # "set" /\ g \notin Users
  /\ \A g \in Users : g # "stop" /\ g # "offline" /\ g # "set"
  /\ Starts \cup Users \cup {"stop", "offline", "set"} = Goroutines
BY Distinct DEF Goroutines, Callers

(* Initially no goroutine has been started and nobody is in the group.     *)
LEMMA InitInv == Init => RunnerInv
BY CallersApart DEF Init, RunnerInv, OneRunner, Running, Goroutines, Callers

(* runner() starts its loop only if none runs, and joins the group in every *)
(* turn before it tests whether the client is online.                       *)
LEMMA RunnerStepInv ==
  ASSUME RunnerInv, NEW g \in Starts, RunnerStep(g)
  PROVE  RunnerInv'
<1>. USE CallersApart DEF RunnerInv, OneRunner, Running, Goto
<1>1. CASE Run(g)
  BY <1>1 DEF Run, MayRun, conn, fill
<1>2. CASE Turn(g)
  BY <1>2 DEF Turn, locks, fill
<1>3. CASE TurnReissue(g)
  BY <1>3 DEF TurnReissue, locks, conn, fill
<1>4. CASE TurnReissued(g)
  BY <1>4 DEF TurnReissued, locks, conn, fill
<1>5. CASE MeetTarget(g)
  BY <1>5 DEF MeetTarget, Done, Unlock
<1>. QED  BY <1>1, <1>2, <1>3, <1>4, <1>5 DEF RunnerStep

(* A user joins and leaves the group for itself alone. *)
LEMMA UserStepInv ==
  ASSUME RunnerInv, NEW g \in Users, UserStep(g)
  PROVE  RunnerInv'
<1>. USE CallersApart DEF RunnerInv, OneRunner, Running, Goto
<1>1. CASE TestOnline(g)
  BY <1>1 DEF TestOnline, locks, conn, fill
<1>2. CASE Join(g)
  BY <1>2 DEF Join, locks, fill
<1>3. CASE Leave(g)
  BY <1>3 DEF Leave, Done, locks, fill
<1>. QED  BY <1>1, <1>2, <1>3 DEF UserStep

(* GoOffline goes offline before it waits for the group to be empty. *)
LEMMA CallerStepInv ==
  ASSUME RunnerInv,
         \/ StopRunner \/ WantTarget \/ SetTarget \/ Spend \/ GoOffline \/ Offline
  PROVE  RunnerInv'
<1>. USE CallersApart DEF RunnerInv, OneRunner, Running, Goto
<1>1. CASE StopRunner
  BY <1>1 DEF StopRunner, locks, conn, fill
<1>2. CASE WantTarget
  BY <1>2 DEF WantTarget, locks, conn, fill
<1>3. CASE SetTarget
  BY <1>3 DEF SetTarget, locks, conn
<1>4. CASE Spend
  BY <1>4 DEF Spend, locks, conn
<1>5. CASE GoOffline
  BY <1>5 DEF GoOffline, locks, fill
<1>6. CASE Offline
  BY <1>6 DEF Offline, WaitGroup, locks, conn, fill
<1>. QED  BY <1>1, <1>2, <1>3, <1>4, <1>5, <1>6

(* Every step of Runner keeps the invariant.                                *)
LEMMA NextInv == RunnerInv /\ [Next]_vars => RunnerInv'
<1>. SUFFICES ASSUME RunnerInv, [Next]_vars  PROVE RunnerInv'
  OBVIOUS
<1>1. CASE UNCHANGED vars
  BY <1>1 DEF RunnerInv, OneRunner, Running, vars, locks, conn, fill
<1>2. CASE Next
  BY <1>2, RunnerStepInv, UserStepInv, CallerStepInv DEF Next
<1>. QED  BY <1>1, <1>2

(* The inductive invariant holds in every reachable state. *)
THEOREM Invariant == Spec => []RunnerInv
BY InitInv, NextInv, PTL DEF Spec

(* However often and concurrently Runner is called, "Prevent double-start"  *)
(* leaves one runner at most in its loop.                                   *)
THEOREM NoDoubleStart == Spec => []OneRunner
<1>1. RunnerInv => OneRunner
  BY DEF RunnerInv
<1>. QED  BY <1>1, Invariant, PTL

(* Once GoOffline has returned, no runner uses the internet connection.     *)
THEOREM NoRunnerOnline == Spec => []RunnerQuiet
<1>1. RunnerInv => RunnerQuiet
  BY DEF RunnerInv, RunnerQuiet
<1>. QED  BY <1>1, Invariant, PTL
====

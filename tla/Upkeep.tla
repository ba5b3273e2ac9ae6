------------------------------- MODULE Upkeep -------------------------------
(***************************************************************************)
(* `upkeep accounts' and `upkeep all' (ctrlengine/upkeep.go): renewing the *)
(* account of a nym on its mix server when little of the paid time is      *)
(* left.  `uid new' makes one account for a nym, so the loop over the      *)
(* accounts has one turn.  The message database keeps the account's server *)
(* and load time and when each command was last executed; the account      *)
(* server and the time paid for are external.  A command is a sequence of  *)
(* calls of the account server and of the database: any of them may fail,  *)
(* and the process may die between two of them (Fail).  The retries of     *)
(* PayAccount and AccountStat after a replayed token do not reach an       *)
(* account; WalletAuth is about them.                                      *)
(***************************************************************************)
EXTENDS Naturals

CONSTANTS Procs,         \* the mutectrl processes
          Servers,       \* the servers that the round robin distributes over
          Faults,        \* whether calls may fail
          Load,          \* the time one payment adds to an account
          Periods,       \* the values of --period
          Remainings,    \* the values of --remaining
          AllRemaining,  \* the remaining time of `upkeep all' (2160h)
          MaxTime,       \* bound: the time of the last step
          MaxExpire      \* bound: the time an account is paid for

VARIABLES
  now,       \* the time, the same for everybody
  server,    \* Accounts.Server
  loadTime,  \* Accounts.LoadTime, 0 if not yet known
  expire,    \* expire[s]: until when the account exists on server s
  lastAcc,   \* Nyms.UpkeepAccounts, 0 if never executed
  lastAll,   \* Nyms.UpkeepAll
  loc        \* loc[p]: the command p executes

vars == <<now, server, loadTime, expire, lastAcc, lastAll, loc>>

Idle == [pc |-> "idle"]

(* `uid new' has made an account on a server of the round robin's choice.   *)
Init ==
  /\ now = 1
  /\ server \in Servers
  /\ loadTime = 0
  /\ expire = [s \in Servers |-> IF s = server THEN now + Load ELSE 0]
  /\ lastAcc = 0
  /\ lastAll = 0
  /\ loc = [p \in Procs |-> Idle]

Goto(p, pc) == loc' = [loc EXCEPT ![p].pc = pc]

Return(p) == loc' = [loc EXCEPT ![p] = Idle]

At(p, pc) == loc[p].pc = pc

(* checkExecution.  Period 0 stands for always. *)
Due(past, period) == period = 0 \/ past = 0 \/ past + period <= now

Command(all, period, remain, startAll) ==
  [pc |-> "check", all |-> all, period |-> period, remain |-> remain,
   startAll |-> startAll, start |-> 0, last |-> 0]

UpkeepAccounts(p, period, remain) ==
  /\ At(p, "idle")
  /\ loc' = [loc EXCEPT ![p] = Command(FALSE, period, remain, 0)]
  /\ UNCHANGED <<now, server, loadTime, expire, lastAcc, lastAll>>

UpkeepAll(p, period) ==
  /\ At(p, "idle")
  /\ Due(lastAll, period)
  /\ loc' = [loc EXCEPT ![p] = Command(TRUE, period, AllRemaining, now)]
  /\ UNCHANGED <<now, server, loadTime, expire, lastAcc, lastAll>>

(* The end of upkeepAccounts; upkeepAll goes on.                            *)
EndAccounts(p) == IF loc[p].all THEN Goto(p, "all") ELSE Return(p)

CheckAccounts(p) ==
  /\ At(p, "check")
  /\ IF Due(lastAcc, loc[p].period)
     THEN loc' = [loc EXCEPT ![p].pc = "time", ![p].start = now]
     ELSE EndAccounts(p)
  /\ UNCHANGED <<now, server, loadTime, expire, lastAcc, lastAll>>

(* Whether the account is to be renewed; faulty variant: only once it has   *)
(* expired.                                                                 *)
ShortExpired(remain, last) == now >= last

Short(remain, last) == now + remain >= last

Compare(p, last) ==
  Goto(p, IF Short(loc[p].remain, last) THEN "pay" ELSE "record")

GetAccountTime(p) ==
  /\ At(p, "time")
  /\ IF loadTime = 0 THEN Goto(p, "stat0") ELSE Compare(p, loadTime)
  /\ UNCHANGED <<now, server, loadTime, expire, lastAcc, lastAll>>

AccountStat(p) ==
  /\ At(p, "stat0") \/ At(p, "stat")
  /\ loc' = [loc EXCEPT ![p].last = expire[server],
                        ![p].pc = IF @ = "stat0" THEN "set0" ELSE "set"]
  /\ UNCHANGED <<now, server, loadTime, expire, lastAcc, lastAll>>

(* What SetAccountTime stores. *)
Stored(p) == loc[p].last

SetAccountTime(p) ==
  /\ At(p, "set0") \/ At(p, "set")
  /\ loadTime' = Stored(p)
  /\ IF At(p, "set0") THEN Compare(p, loc[p].last) ELSE Goto(p, "record")
  /\ UNCHANGED <<now, server, expire, lastAcc, lastAll>>

(* The servers a pay call for an account on `known' may reach: payAccount   *)
(* always calls the round robin.                                            *)
PayServers(known) == Servers

(* LoadAccount on server s. *)
Loaded(s) ==
  /\ expire[s] + Load <= MaxExpire
  /\ expire' = [expire EXCEPT ![s] = (IF @ < now THEN now ELSE @) + Load]

(* GetToken, PayAccount and DelToken. *)
PayAccount(p) ==
  /\ At(p, "pay")
  /\ \E s \in PayServers(server) : Loaded(s)
  /\ Goto(p, "stat")
  /\ UNCHANGED <<now, server, loadTime, lastAcc, lastAll>>

(* The answer to the pay call is lost: UnlockToken, and an error.           *)
PayAnswerLost(p) ==
  /\ Faults
  /\ At(p, "pay")
  /\ \E s \in PayServers(server) : Loaded(s)
  /\ Return(p)
  /\ UNCHANGED <<now, server, loadTime, lastAcc, lastAll>>

SetUpkeepAccounts(p) ==
  /\ At(p, "record")
  /\ lastAcc' = loc[p].start
  /\ EndAccounts(p)
  /\ UNCHANGED <<now, server, loadTime, expire, lastAll>>

SetUpkeepAll(p) ==
  /\ At(p, "all")
  /\ lastAll' = loc[p].startAll
  /\ Return(p)
  /\ UNCHANGED <<now, server, loadTime, expire, lastAcc>>

(* A call fails and the command returns its error, or the process dies.     *)
Fail(p) ==
  /\ Faults
  /\ ~At(p, "idle")
  /\ Return(p)
  /\ UNCHANGED <<now, server, loadTime, expire, lastAcc, lastAll>>

Tick ==
  /\ now < MaxTime
  /\ now' = now + 1
  /\ UNCHANGED <<server, loadTime, expire, lastAcc, lastAll, loc>>

Next ==
  \/ Tick
  \/ \E p \in Procs :
       \/ \E period \in Periods :
            \/ UpkeepAll(p, period)
            \/ \E remain \in Remainings : UpkeepAccounts(p, period, remain)
       \/ CheckAccounts(p) \/ GetAccountTime(p) \/ AccountStat(p)
       \/ SetAccountTime(p) \/ PayAccount(p) \/ PayAnswerLost(p)
       \/ SetUpkeepAccounts(p) \/ SetUpkeepAll(p) \/ Fail(p)

Spec == Init /\ [][Next]_vars

-----------------------------------------------------------------------------
(* Properties *)

(* The load time in the database never promises more than the server keeps, *)
(* whatever calls of two commands fail or overtake each other: an account   *)
(* is not believed to be paid when it is not.                               *)
NotOverstated == loadTime <= expire[server]

(* When `upkeep accounts' has been executed, and its time is recorded, the  *)
(* account exists for the remaining time asked for, counted from its start. *)
(* It is not looked at again before the period is over.                     *)
RecordedIsRenewed ==
  [][\A p \in Procs :
       SetUpkeepAccounts(p) => expire[server] >= loc[p].start + loc[p].remain
    ]_vars

-----------------------------------------------------------------------------
(* What the documentation says and the code does not do *)

(* `renew account only if remaining time is less than remaining': a payment *)
(* for an account that is paid for longer than that is never made.  The     *)
(* database learns of a payment by the AccountStat after it.                *)
RenewedOnlyIfShort ==
  [][\A p \in Procs :
       (At(p, "pay") /\ expire' # expire /\ loc'[p].pc \in {"stat", "idle"}) =>
         expire[server] <= now + loc[p].remain
    ]_vars
====

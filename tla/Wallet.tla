------------------------------- MODULE Wallet -------------------------------
(***************************************************************************)
(* The token wallet (package serviceguard/client) on its SQL store         *)
(* (walletstore): handing out tokens under a lock, reissuing a token to    *)
(* its new owner, receiving and expiring tokens.                           *)
(*                                                                         *)
(* The actors of one or more processes share one store: Callers call       *)
(* GetToken, use the token and then delete or unlock it; the others do     *)
(* what a turn of the wallet runner does.  A step is one statement on the  *)
(* store or one call of a server.  Every call may fail, and a process may  *)
(* crash between any two steps; its next start opens the store again.      *)
(*                                                                         *)
(* The wallet server and the issuer are external.  The issuer takes a      *)
(* token once; it answers the packet it took again when it is sent again,  *)
(* and any other packet for that token with "token double spend".  How a   *)
(* token reaches the client is the subject of WalletAuth; here the wallet  *)
(* server's answer and SetToken are one step.  Lock IDs are random 31-bit  *)
(* numbers; an actor's name stands for the ID it drew.                     *)
(***************************************************************************)
EXTENDS Naturals, FiniteSets

CONSTANTS Processes,   \* processes on one store, each a set of actors
          Callers,     \* actors that call GetToken, the others are runners
          MaxTokens,   \* bound: tokens the wallet server issues
          MaxPackets,  \* bound: blinding packets made for one token
          MaxFaults,   \* bound: failed calls, refusals and crashes
          MaxOpens,    \* bound: restarts of a process
          Expiring,    \* tokens that come to their expiry time
          Foreign,     \* tokens that others hand to the wallet
          None         \* no lock, no packet

ASSUME WalletBounds ==
  /\ MaxTokens \in Nat /\ MaxPackets \in Nat
  /\ MaxFaults \in Nat /\ MaxOpens \in Nat
  /\ Callers \subseteq UNION Processes /\ None \notin UNION Processes \cup Nat
  /\ \A t \in Foreign : t > 2 * MaxTokens

Actors == UNION Processes
Runners == Actors \ Callers

(* The token the issuer makes from token t. *)
New(t) == t + MaxTokens
Issued == 1 .. MaxTokens
Tokens == 1 .. (2 * MaxTokens) \cup Foreign

VARIABLES
  walletTokens, \* the table, by hash: a lock and a TokenEntry [self, owner,
                \* params, packet]; self is column OwnedSelf (the private key
                \* is there), packet # None column HasState
  made,         \* made[t]: the number of packets made for t
  taken,        \* taken[t]: the packet the issuer took for t
  issued,       \* the number of tokens the wallet server has issued
  pc,           \* what an actor does next, "down" after a crash
  tok,          \* the token an actor works on
  entry,        \* the TokenEntry that ReissueToken has read
  lockID,       \* LockToken's result: the lock's ID, or None for -1
  used,         \* how often a token was used
  gone,         \* tokens that expired, or were lost with the answer to Reissue
  opens,        \* restarts so far
  faults,       \* faults so far
  panicked      \* ReissueToken has dereferenced a nil owner

issuer == <<made, taken, issued>>
locals == <<tok, entry, lockID>>
history == <<used, gone, panicked>>
vars == <<walletTokens, issuer, pc, locals, history, opens, faults>>

Hashes == DOMAIN walletTokens
Entry(t) == walletTokens[t].entry
HasState(t) == Entry(t).packet # None
Unlocked(t) == walletTokens[t].lock = None

NoEntry == [self |-> FALSE, owner |-> "other", params |-> FALSE, packet |-> None]

Init ==
  /\ walletTokens = [t \in {} |-> [lock |-> None, entry |-> NoEntry]]
  /\ made = [t \in Issued |-> 0]
  /\ taken = [t \in Issued |-> None]
  /\ issued = 0
  /\ pc = [a \in Actors |-> "idle"]
  /\ tok = [a \in Actors |-> 0]
  /\ entry = [a \in Actors |-> NoEntry]
  /\ lockID = [a \in Actors |-> None]
  /\ used = [t \in Tokens |-> 0]
  /\ gone = {}
  /\ opens = 0 /\ faults = 0
  /\ panicked = FALSE

-----------------------------------------------------------------------------
(* walletstore.Storage: the table after the call *)

(* SetToken inserts an unlocked row, or updates all columns but the lock.   *)
SetToken(t, e) ==
  [h \in Hashes \cup {t} |->
     IF h # t THEN walletTokens[h]
     ELSE [lock |-> IF t \in Hashes THEN walletTokens[t].lock ELSE None,
           entry |-> e]]

DelToken(S) == [h \in Hashes \ S |-> walletTokens[h]]

(* LockToken for actor a; faulty variant: takes the lock of another.        *)
StealLock(a, t) ==
  /\ lockID' = [lockID EXCEPT ![a] = IF t \in Hashes THEN a ELSE None]
  /\ walletTokens' = [h \in Hashes |->
       IF h = t THEN [walletTokens[h] EXCEPT !.lock = a] ELSE walletTokens[h]]

LockToken(a, t) ==
  LET free == t \in Hashes /\ Unlocked(t)
  IN  /\ lockID' = [lockID EXCEPT ![a] = IF free THEN a ELSE None]
      /\ walletTokens' = IF free THEN [walletTokens EXCEPT ![t].lock = a]
                         ELSE walletTokens

UnlockToken(t) ==
  [h \in Hashes |-> IF h = t THEN [walletTokens[h] EXCEPT !.lock = None]
                    ELSE walletTokens[h]]

(* GetToken enforces the lock only for a valid lock ID.                     *)
Readable(t, id) ==
  t \in Hashes /\ (id # None => walletTokens[t].lock \in {None, id})

(* findTokenOwnerQuery, findTokenSelfQuery, getExpireQuery, getReissueQuery *)
FindTokenOwner ==
  {t \in Hashes : Unlocked(t) /\ ~HasState(t) /\ ~Entry(t).self
                  /\ Entry(t).owner = "other"}

FindToken == {t \in Hashes : Unlocked(t) /\ ~HasState(t) /\ Entry(t).self}

GetExpire == {t \in FindToken \cap Expiring : ~Entry(t).params}

(* Faulty variant: tokens of other owners only. *)
InReissueOfOthers == {t \in Hashes : Unlocked(t) /\ HasState(t) /\ ~Entry(t).self}

GetInReissue == {t \in Hashes : Unlocked(t) /\ HasState(t)}

(* CleanLocks(false), from initDB: LockTime < now + MaxLockAge is true of   *)
(* every lock.                                                              *)
CleanLocks ==
  [h \in Hashes |-> [walletTokens[h] EXCEPT !.lock = None]]

-----------------------------------------------------------------------------
(* Client *)

Goto(a, label) == pc' = [pc EXCEPT ![a] = label]

(* The process P ends. *)
End(P) == pc' = [a \in Actors |-> IF a \in P THEN "down" ELSE pc[a]]

Fault == faults < MaxFaults /\ faults' = faults + 1

(* A restarted process opens the store. *)
Open(P) ==
  /\ \A a \in P : pc[a] = "down"
  /\ opens < MaxOpens
  /\ opens' = opens + 1
  /\ walletTokens' = CleanLocks
  /\ pc' = [a \in Actors |-> IF a \in P THEN "idle" ELSE pc[a]]
  /\ UNCHANGED <<issuer, locals, history, faults>>

(* GetToken: GetAndLockToken finds and locks an entry made out to the owner *)
(* of the service (a lost race is tried again).                             *)
GetAndLockToken(a) ==
  \E t \in FindTokenOwner :
    /\ LockToken(a, t)
    /\ tok' = [tok EXCEPT ![a] = t]
    /\ Goto(a, "held")
    /\ UNCHANGED entry

(* GetToken: no such entry, but one of our own that can be reissued. *)
FindOwn(a) ==
  \E t \in FindToken :
    /\ FindTokenOwner = {}
    /\ tok' = [tok EXCEPT ![a] = t]
    /\ Goto(a, "lock")
    /\ UNCHANGED <<walletTokens, entry, lockID>>

GetToken(a) ==
  /\ a \in Callers /\ pc[a] = "idle"
  /\ GetAndLockToken(a) \/ FindOwn(a)
  /\ UNCHANGED <<issuer, history, opens, faults>>

(* GetToken: neither; WalletToken stores a new token, made out to the       *)
(* wallet's own key, with or without params, and reissues it.               *)
WalletToken(a) ==
  /\ a \in Callers /\ pc[a] = "idle" /\ issued < MaxTokens
  /\ FindTokenOwner = {} /\ FindToken = {}
  /\ issued' = issued + 1
  /\ \E p \in BOOLEAN :
       walletTokens' = SetToken(issued', [self |-> TRUE, owner |-> "wallet",
                                          params |-> p, packet |-> None])
  /\ tok' = [tok EXCEPT ![a] = issued']
  /\ Goto(a, "lock")
  /\ UNCHANGED <<made, taken, entry, lockID, history, opens, faults>>

(* ReceiveToken: a verified token of the right usage that is made out to    *)
(* the wallet's key and is not in the store; Verify fills in no private key.*)
ReceiveToken(a, t) ==
  /\ a \in Callers /\ pc[a] = "idle"
  /\ t \notin Hashes /\ used[t] = 0
  /\ walletTokens' = SetToken(t, [NoEntry EXCEPT !.owner = "wallet"])
  /\ UNCHANGED <<issuer, pc, locals, history, opens, faults>>

(* The runner takes an unfinished reissue, or a token about to expire; it   *)
(* calls ReissueToken without an owner.                                     *)
RunnerReissue(a) ==
  /\ a \in Runners /\ pc[a] = "idle"
  /\ \E t \in GetInReissue \cup GetExpire : tok' = [tok EXCEPT ![a] = t]
  /\ Goto(a, "lock")
  /\ UNCHANGED <<walletTokens, issuer, entry, lockID, history, opens, faults>>

(* The runner deletes tokens long expired, locked or not. *)
ExpireUnusable(a) ==
  /\ a \in Runners /\ pc[a] = "idle"
  /\ \E t \in Hashes \cap Expiring :
       walletTokens' = DelToken({t}) /\ gone' = gone \cup {t}
  /\ UNCHANGED <<issuer, pc, locals, used, panicked, opens, faults>>

-----------------------------------------------------------------------------
(* ReissueToken.  It goes on whether or not LockToken succeeds: it tests    *)
(* the lock ID for 0, which LockToken never returns.                        *)

ReissueLock(a) ==
  /\ pc[a] = "lock"
  /\ LockToken(a, tok[a])
  /\ Goto(a, "get")
  /\ UNCHANGED <<issuer, tok, entry, history, opens, faults>>

(* A return with an error; the deferred UnlockToken does not ask whose lock *)
(* it is.                                                                   *)
Return(a) ==
  /\ walletTokens' = UnlockToken(tok[a])
  /\ Goto(a, "idle")

ReissueGet(a) ==
  LET t == tok[a]
  IN  /\ pc[a] = "get"
      /\ \/ /\ Readable(t, lockID[a]) /\ Entry(t).self
            /\ entry' = [entry EXCEPT ![a] = Entry(t)]
            /\ Goto(a, CASE Entry(t).packet # None -> "call"
                         [] Entry(t).params        -> "packet"
                         [] OTHER                  -> "params")
            /\ UNCHANGED walletTokens
         \/ /\ ~ (Readable(t, lockID[a]) /\ Entry(t).self)
            /\ Return(a)
            /\ UNCHANGED entry
      /\ UNCHANGED <<issuer, tok, lockID, history, opens, faults>>

ReissueParams(a) ==
  /\ pc[a] = "params"
  /\ entry' = [entry EXCEPT ![a].params = TRUE]
  /\ walletTokens' = SetToken(tok[a], entry'[a])
  /\ Goto(a, "packet")
  /\ UNCHANGED <<issuer, tok, lockID, history, opens, faults>>

(* What is written before the packet is sent; faulty variant: no packet.    *)
StoreNothing(t, e) == walletTokens

StorePacket(t, e) == SetToken(t, e)

(* A nil owner ends the process: copy(ownerPubkey[:], pk).                  *)
ReissuePacket(a) ==
  LET t == tok[a]
  IN  /\ pc[a] = "packet"
      /\ \/ /\ a \in Callers /\ made[t] < MaxPackets
            /\ made' = [made EXCEPT ![t] = @ + 1]
            /\ entry' = [entry EXCEPT ![a].packet = made'[t]]
            /\ walletTokens' = StorePacket(t, entry'[a])
            /\ Goto(a, "call")
            /\ UNCHANGED panicked
         \/ /\ a \in Runners
            /\ panicked' = TRUE
            /\ End(CHOOSE P \in Processes : a \in P)
            /\ UNCHANGED <<made, entry, walletTokens>>
      /\ UNCHANGED <<taken, issued, tok, lockID, used, gone, opens, faults>>

(* The issuer takes the packet or has taken it before, and answers.         *)
ReissueCall(a) ==
  LET t == tok[a]
  IN  /\ pc[a] = "call"
      /\ taken[t] \in {None, entry[a].packet}
      /\ taken' = [taken EXCEPT ![t] = entry[a].packet]
      /\ Goto(a, "delete")
      /\ UNCHANGED <<walletTokens, made, issued, locals, history, opens, faults>>

(* The issuer has taken another packet for the token: ErrFinal. *)
ReissueRefused(a) ==
  /\ pc[a] = "call"
  /\ taken[tok[a]] \notin {None, entry[a].packet}
  /\ Return(a)
  /\ UNCHANGED <<issuer, locals, history, opens, faults>>

(* The call fails: the packet or the answer is lost, or the issuer refuses  *)
(* it, say because the params have expired.                                 *)
ReissueCallFails(a) ==
  LET t == tok[a]
  IN  /\ pc[a] = "call" /\ Fault
      /\ Return(a)
      /\ \/ UNCHANGED taken
         \/ /\ taken[t] = None
            /\ taken' = [taken EXCEPT ![t] = entry[a].packet]
      /\ UNCHANGED <<made, issued, locals, history, opens>>

(* "Delete old token, it's invalid from here" *)
DelOld(t) == DelToken({t})

ReissueDelete(a) ==
  /\ pc[a] = "delete"
  /\ walletTokens' = DelOld(tok[a])
  /\ Goto(a, "new")
  /\ UNCHANGED <<issuer, locals, history, opens, faults>>

(* The answer is unblinded and stored, for the owner the packet was made    *)
(* for.  A runner is then done; a caller locks the new token.               *)
ReissueNew(a) ==
  LET t == tok[a]
  IN  /\ pc[a] = "new"
      /\ walletTokens' = SetToken(New(t), NoEntry)
      /\ tok' = [tok EXCEPT ![a] = New(t)]
      /\ Goto(a, IF a \in Callers THEN "locknew" ELSE "idle")
      /\ UNCHANGED <<issuer, entry, lockID, history, opens, faults>>

(* GetToken: LockToken of the new token, and GetToken. *)
LockNew(a) ==
  /\ pc[a] = "locknew"
  /\ LockToken(a, tok[a])
  /\ Goto(a, IF lockID'[a] = None THEN "idle" ELSE "held")
  /\ UNCHANGED <<issuer, tok, entry, history, opens, faults>>

(* The caller used the token and deletes it, or failed and unlocks it. *)
UseToken(a) ==
  /\ pc[a] = "held"
  /\ \/ /\ used' = [used EXCEPT ![tok[a]] = @ + 1]
        /\ walletTokens' = DelToken({tok[a]})
     \/ /\ walletTokens' = UnlockToken(tok[a])
        /\ UNCHANGED used
  /\ Goto(a, "idle")
  /\ UNCHANGED <<issuer, locals, gone, panicked, opens, faults>>

(* The answer to Reissue is lost if the old token is deleted already.       *)
Lose(P) ==
  gone' = gone \cup {tok[a] : a \in {a \in P : pc[a] = "new"}}

(* A call of a server or of the key pool fails, or an answer cannot be      *)
(* unblinded.                                                               *)
CallFails(a) ==
  /\ pc[a] \in {"get", "params", "packet", "new"} /\ Fault
  /\ Return(a)
  /\ Lose({a})
  /\ UNCHANGED <<issuer, locals, used, panicked, opens>>

Crash(P) ==
  /\ \E a \in P : pc[a] # "down"
  /\ Fault
  /\ End(P)
  /\ Lose(P)
  /\ UNCHANGED <<walletTokens, issuer, locals, used, panicked, opens>>

Reissue(a) ==
  \/ ReissueLock(a) \/ ReissueGet(a) \/ ReissueParams(a) \/ ReissuePacket(a)
  \/ ReissueCall(a) \/ ReissueRefused(a) \/ ReissueDelete(a) \/ ReissueNew(a)

Next ==
  \/ \E a \in Actors :
       \/ GetToken(a)
       \/ WalletToken(a)
       \/ \E t \in Foreign : ReceiveToken(a, t)
       \/ RunnerReissue(a)
       \/ ExpireUnusable(a)
       \/ Reissue(a)
       \/ ReissueCallFails(a)
       \/ LockNew(a)
       \/ UseToken(a)
       \/ CallFails(a)
  \/ \E P \in Processes : Open(P) \/ Crash(P)

Spec == Init /\ [][Next]_vars

(* A process is started again, the runner goes on turning, a call of        *)
(* ReissueToken goes on; the faults end.                                    *)
Fairness ==
  /\ \A P \in Processes : WF_vars(Open(P))
  /\ \A a \in Actors : WF_vars(Reissue(a))
  /\ \A a \in Runners : SF_vars(RunnerReissue(a))

FairSpec == Spec /\ Fairness

-----------------------------------------------------------------------------
(* Properties *)

(* ReissueToken stores a packet before it sends it and uses the stored one  *)
(* on every later try: no token ever has a second packet, which the issuer  *)
(* would refuse as a double spend.                                          *)
OnePacket == \A t \in Issued : made[t] <= 1

(* The old token can be exchanged for the new one: the packet the issuer    *)
(* took for it is stored.                                                   *)
Repeatable(t) == t \in Hashes /\ Entry(t).packet = taken[t]

(* The new token is there, or was used. *)
Arrived(t) ==
  \/ New(t) \in Hashes \/ used[New(t)] > 0 \/ New(t) \in gone
  \/ \E a \in Actors : tok[a] = t /\ pc[a] = "new"

(* Whatever fails, a token that the issuer has taken can be exchanged still *)
(* or has been; but for the one whose answer is in hand when it is deleted. *)
Recoverable ==
  \A t \in Issued : taken[t] # None => Repeatable(t) \/ Arrived(t) \/ t \in gone

(* No token is used twice, though a reissue may be repeated by the runner.  *)
UsedOnce == \A t \in Tokens : used[t] <= 1

(* LockToken "locks token against other use": no two actors hold one token. *)
HeldByOne ==
  \A a, b \in Actors : pc[a] = "held" /\ pc[b] = "held" /\ tok[a] = tok[b] => a = b

(* The runner: "Check for unfinished reissues".  Every reissue that has got *)
(* as far as a stored packet is finished at last.                           *)
ReissuesFinish ==
  \A t \in Issued : (t \in Hashes /\ HasState(t)) ~> (t \notin Hashes)

-----------------------------------------------------------------------------
(* What the documentation says and the code does not do *)

(* runner.go: "Errors should be recoverd by c.walletStore.GetInReissue(),   *)
(* c.ReissueToken".  The old token is deleted before the new one is stored, *)
(* so an error or a crash between the two loses both.                       *)
ErrorsRecovered ==
  \A t \in Issued : taken[t] # None => Repeatable(t) \/ Arrived(t)

(* reissue.go: "Generate new owner if no owner is specified"; the runner    *)
(* specifies none for a token about to expire.                              *)
OwnerGenerated == ~panicked

(* types.go: OwnedSelf "Is token owned by myself".  ReceiveToken stores a   *)
(* token made out to the wallet's own key without its private key.          *)
OwnedSelf ==
  \A t \in Hashes : Entry(t).owner = "wallet" => Entry(t).self
====

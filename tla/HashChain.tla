----------------------------- MODULE HashChain -----------------------------
(***************************************************************************)
(* The local copy of a key server's hash chain (package cryptengine): sync,*)
(* validate, search, lookup and delete, and mutectrl's use of them when a  *)
(* contact is added.  Processes of mutecrypt share one key database.       *)
(*                                                                         *)
(* The key server is external.  It appends an entry for every UID message, *)
(* its own among them, and signs its reply with the signature key that its *)
(* last UID message announced; it may lose its way and continue an earlier *)
(* version of the chain (Rewrite).  The hash of an entry stands for its    *)
(* content and the hash before it; here it is the sequence of all contents *)
(* up to the entry.  Positions start with 0.  Hashchains may get two rows  *)
(* for a position; only the first is ever read, so that the table is a     *)
(* function.  A step is one call of the server or one row written; the     *)
(* commands that only read are one step.                                   *)
(***************************************************************************)
EXTENDS Integers, Sequences, FiniteSets, FiniteSetsExt

CONSTANTS Procs,        \* processes of mutecrypt
          Contacts,     \* identities other than the key server
          Me,           \* our own identity, a member of Contacts
          Keyserver,    \* "keyserver@domain"
          Commands,     \* commands given one by one, besides contact add
          MaxLen,       \* bound: length of the server's chain
          MaxRewrites,  \* bound: rewrites by the server
          MaxFaults     \* bound: failed calls, failed writes, crashes

ASSUME ChainBounds ==
  /\ MaxLen \in Nat /\ MaxRewrites \in Nat /\ MaxFaults \in Nat
  /\ Me \in Contacts /\ Keyserver \notin Contacts
ASSUME CommandNames ==
  Commands \subseteq {"sync", "validate", "search", "lookup", "delete"}

Ids == Contacts \cup {Keyserver}

VARIABLES
  chain,       \* the server's entries; the one at position i is chain[i + 1]
  branch,      \* rewrites so far
  Hashchains,  \* the local entries, by position
  PublicUIDs,  \* rows [id, pos, content]
  reply,       \* the entry of our latest UIDMessageReply, by position
  todo,        \* todo[p]: commands still to run, the first one is running
  loc,         \* loc[p]: local variables of its command
  outcome,     \* outcome[p]: how the last contact add or command ended
  faults

server == <<chain, branch, reply>>
keydb == <<Hashchains, PublicUIDs>>
vars == <<server, keydb, todo, loc, outcome, faults>>

(* The server's signature key is named by the position that announced it.   *)
SrvKey(s) == Max({0} \cup {i \in 0 .. Len(s) - 1 : s[i + 1].content.id = Keyserver})

Entry(s, id) ==
  LET content == [id |-> id, srv |-> SrvKey(s), branch |-> branch]
      prev    == IF s = <<>> THEN <<>> ELSE s[Len(s)].hash
  IN  [content |-> content, hash |-> Append(prev, content)]

(* told: the server's last position; got: entries to store from position i; *)
(* max: the last local position; list: positions to look at; match: found.  *)
Rest == [pc |-> "ready", told |-> -1, got |-> <<>>, i |-> 0,
         max |-> -1, list |-> <<>>, match |-> FALSE]

Init ==
  /\ branch = 0
  /\ chain = <<[content |-> [id |-> Keyserver, srv |-> 0, branch |-> 0],
                hash |-> <<[id |-> Keyserver, srv |-> 0, branch |-> 0]>>]>>
  /\ Hashchains = [i \in {} |-> chain[1]]
  /\ PublicUIDs = {} /\ reply = [i \in {} |-> chain[1]]
  /\ todo = [p \in Procs |-> <<>>]
  /\ loc = [p \in Procs |-> Rest]
  /\ outcome = [p \in Procs |-> ""]
  /\ faults = 0

-----------------------------------------------------------------------------
(* The key server *)

(* A UID message is accepted; the reply to one of ours, registered by a      *)
(* process that does nothing else, is kept.                                 *)
CreateUID(id) ==
  /\ Len(chain) < MaxLen
  /\ id = Me => \E p \in Procs : todo[p] = <<>>
  /\ chain' = Append(chain, Entry(chain, id))
  /\ reply' = IF id = Me THEN [i \in {Len(chain)} |-> chain'[Len(chain')]] ELSE reply
  /\ UNCHANGED <<branch, keydb, todo, loc, outcome, faults>>

Rewrite ==
  /\ branch < MaxRewrites
  /\ branch' = branch + 1
  /\ \E n \in 1 .. Len(chain) - 1 : chain' = SubSeq(chain, 1, n)
  /\ UNCHANGED <<reply, keydb, todo, loc, outcome, faults>>

-----------------------------------------------------------------------------
(* keydb *)

GetLastHashChainPos == Max({-1} \cup DOMAIN Hashchains)

AddHashChainEntry(pos, e) ==
  Hashchains' = [i \in DOMAIN Hashchains \cup {pos} |->
                   IF i \in DOMAIN Hashchains THEN Hashchains[i] ELSE e]

(* GetPublicUID: the highest position up to maxpos, -1 if there is none.    *)
GetPublicUID(id, maxpos) ==
  Max({-1} \cup {u.pos : u \in {u \in PublicUIDs : u.id = id /\ u.pos <= maxpos}})

-----------------------------------------------------------------------------
(* The commands of process p *)

Command(p) == todo[p][1]
Running(p, cmd, pc) == todo[p] # <<>> /\ Command(p).cmd = cmd /\ loc[p].pc = pc

Goto(p, l) == loc' = [loc EXCEPT ![p] = l]

(* A command ends well: the next one follows, or all is done.               *)
Done(p) ==
  /\ todo' = [todo EXCEPT ![p] = Tail(@)]
  /\ Goto(p, Rest)
  /\ outcome' = [outcome EXCEPT ![p] = IF Len(todo[p]) = 1 THEN "done" ELSE ""]

(* It fails: mutecryptAddContact returns the error.                         *)
Error(p, what) ==
  /\ todo' = [todo EXCEPT ![p] = <<>>]
  /\ Goto(p, Rest)
  /\ outcome' = [outcome EXCEPT ![p] = what]

(* mutecryptAddContact *)
AddContact(id) ==
  <<[cmd |-> "sync", id |-> id], [cmd |-> "validate", id |-> id],
    [cmd |-> "search", id |-> Keyserver], [cmd |-> "search", id |-> id],
    [cmd |-> "keyinit", id |-> id]>>

Start(p) ==
  /\ todo[p] = <<>>
  /\ \/ \E id \in Contacts : todo' = [todo EXCEPT ![p] = AddContact(id)]
     \/ \E c \in Commands, id \in Ids :
          todo' = [todo EXCEPT ![p] = <<[cmd |-> c, id |-> id]>>]
  /\ outcome' = [outcome EXCEPT ![p] = ""]
  /\ UNCHANGED <<server, keydb, loc, faults>>

(* syncHashChain: the last position of the server.                          *)
FetchLastHashChain(p) ==
  /\ Running(p, "sync", "ready")
  /\ Goto(p, [loc[p] EXCEPT !.pc = "fetch", !.told = Len(chain) - 1])
  /\ UNCHANGED <<server, keydb, todo, outcome, faults>>

(* The first entry to fetch. *)
NextPosition == GetLastHashChainPos + 1

(* syncHashChain: what is missing.  The entries fetched are those of the    *)
(* chain as it is now.                                                      *)
FetchHashChain(p) ==
  /\ Running(p, "sync", "fetch")
  /\ \/ /\ GetLastHashChainPos >= loc[p].told
        /\ Done(p)
     \/ /\ GetLastHashChainPos < loc[p].told
        /\ loc[p].told < Len(chain)
        /\ Goto(p, [loc[p] EXCEPT !.pc = "store", !.i = NextPosition,
                     !.got = SubSeq(chain, NextPosition + 1, loc[p].told + 1)])
        /\ UNCHANGED <<todo, outcome>>
     \/ /\ GetLastHashChainPos < loc[p].told
        /\ loc[p].told >= Len(chain)
        /\ Error(p, "refused")
  /\ UNCHANGED <<server, keydb, faults>>

StoreEntry(p) ==
  /\ Running(p, "sync", "store")
  /\ \/ /\ loc[p].got # <<>>
        /\ AddHashChainEntry(loc[p].i, loc[p].got[1])
        /\ Goto(p, [loc[p] EXCEPT !.i = @ + 1, !.got = Tail(@)])
        /\ UNCHANGED <<todo, outcome>>
     \/ /\ loc[p].got = <<>>
        /\ Done(p)
        /\ UNCHANGED Hashchains
  /\ UNCHANGED <<server, PublicUIDs, faults>>

(* AddHashChainEntry fails: "return nil".                                   *)
StoreFails(p) ==
  /\ Running(p, "sync", "store") /\ loc[p].got # <<>>
  /\ faults < MaxFaults
  /\ faults' = faults + 1
  /\ Done(p)
  /\ UNCHANGED <<server, keydb>>

(* validateHashChain: every hash is that of the content and the hash before *)
(* it, and the reply to our own latest UID message is in the chain; faulty  *)
(* variant: the previous hash is not part of the sum.                       *)
LinkedByContent(i) ==
  LET h == Hashchains[i].hash IN h[Len(h)] = Hashchains[i].content

Linked(i) ==
  Hashchains[i].hash =
    Append(IF i = 0 THEN <<>> ELSE Hashchains[i - 1].hash, Hashchains[i].content)

Validate(p) ==
  LET max == GetLastHashChainPos
  IN  /\ Running(p, "validate", "ready")
      /\ IF /\ max >= 0
            /\ \A i \in 0 .. max : i \in DOMAIN Hashchains /\ Linked(i)
            /\ \A i \in DOMAIN reply : i <= max => reply[i] = Hashchains[i]
         THEN Done(p)
         ELSE Error(p, "invalid")
      /\ UNCHANGED <<server, keydb, faults>>

(* searchHashChain reads the last position and goes through the entries;    *)
(* lookupHashChain goes through the positions the server names.             *)
SearchBegin(p) ==
  LET max == GetLastHashChainPos
  IN  /\ Running(p, "search", "ready")
      /\ IF max < 0 THEN Error(p, "empty")
         ELSE /\ Goto(p, [loc[p] EXCEPT !.pc = "entry", !.max = max,
                           !.list = [k \in 1 .. max + 1 |-> k - 1]])
              /\ UNCHANGED <<todo, outcome>>
      /\ UNCHANGED <<server, keydb, faults>>

LookupUID(p) ==
  LET HasID(i) == chain[i + 1].content.id = Command(p).id
  IN  /\ Running(p, "lookup", "ready")
      /\ Goto(p, [loc[p] EXCEPT !.pc = "entry",
                   !.list = SelectSeq([k \in 1 .. Len(chain) |-> k - 1], HasID)])
      /\ UNCHANGED <<server, keydb, todo, outcome, faults>>

(* "UID exists already -> skip"; faulty variant: a UID of that identity.    *)
AnyUIDExists(id, i) == GetPublicUID(id, i) >= 0

UIDExists(id, i) == GetPublicUID(id, i) = i

(* verifyServerSig: the key that the key server used when it signed, taken  *)
(* from the UIDs that are stored; not for its first UID message.  Faulty    *)
(* variant: it is enough that some key is stored.                           *)
SomeServerKey(content, i) ==
  \/ content.id = Keyserver /\ i = 0
  \/ GetPublicUID(Keyserver, i) >= 0

VerifyServerSig(content, i) ==
  \/ content.id = Keyserver /\ i = 0
  \/ GetPublicUID(Keyserver, i) = content.srv

(* fetchUID: the server answers for the UIDIndex of the entry.              *)
FetchUID(i) == Hashchains[i].content

Skip(p, match) ==
  /\ Goto(p, [loc[p] EXCEPT !.list = Tail(@), !.match = @ \/ match])
  /\ UNCHANGED <<PublicUIDs, todo, outcome>>

Fails(p, what) == Error(p, what) /\ UNCHANGED PublicUIDs

AddPublicUID(p, id, i) ==
  /\ PublicUIDs' = PublicUIDs \cup {[id |-> id, pos |-> i, content |-> FetchUID(i)]}
  /\ Goto(p, [loc[p] EXCEPT !.list = Tail(@), !.match = TRUE])
  /\ UNCHANGED <<todo, outcome>>

(* An entry of the identity at position i.                                  *)
MatchingEntry(p, id, i) ==
  \/ UIDExists(id, i) /\ Skip(p, TRUE)
  \/ /\ ~ UIDExists(id, i)
     /\ IF VerifyServerSig(FetchUID(i), i) THEN AddPublicUID(p, id, i)
        ELSE Fails(p, "signature")

NextEntry(p, cmd) == Running(p, cmd, "entry") /\ loc[p].list # <<>>

SearchEntry(p) ==
  LET id == Command(p).id
      i  == loc[p].list[1]
  IN  /\ NextEntry(p, "search")
      /\ IF i \notin DOMAIN Hashchains THEN Fails(p, "noentry")
         ELSE \/ Hashchains[i].content.id # id /\ Skip(p, FALSE)
              \/ Hashchains[i].content.id = id /\ MatchingEntry(p, id, i)
      /\ UNCHANGED <<server, Hashchains, faults>>

LookupEntry(p) ==
  LET id == Command(p).id
      i  == loc[p].list[1]
  IN  /\ NextEntry(p, "lookup")
      /\ IF i \notin DOMAIN Hashchains THEN Fails(p, "noentry")
         ELSE \/ Hashchains[i].content.id # id /\ Fails(p, "bogus")
              \/ Hashchains[i].content.id = id /\ MatchingEntry(p, id, i)
      /\ UNCHANGED <<server, Hashchains, faults>>

SearchEnd(p) ==
  /\ todo[p] # <<>> /\ loc[p].pc = "entry" /\ loc[p].list = <<>>
  /\ IF loc[p].match THEN Done(p) ELSE Error(p, "notfound")
  /\ UNCHANGED <<server, keydb, faults>>

(* fetchKeyInit starts with the UID of the contact. *)
FetchKeyInit(p) ==
  /\ Running(p, "keyinit", "ready")
  /\ IF GetPublicUID(Command(p).id, MaxLen) >= 0
     THEN Done(p) ELSE Error(p, "nouid")
  /\ UNCHANGED <<server, keydb, faults>>

DelHashChain(p) ==
  /\ Running(p, "delete", "ready")
  /\ Hashchains' = [i \in {} |-> chain[1]]
  /\ Done(p)
  /\ UNCHANGED <<server, PublicUIDs, faults>>

(* A call of the server fails, or the process ends in the middle.           *)
Fault(p) ==
  /\ todo[p] # <<>>
  /\ faults < MaxFaults
  /\ faults' = faults + 1
  /\ Error(p, "fault")
  /\ UNCHANGED <<server, keydb>>

Next ==
  \/ \E id \in Ids : CreateUID(id)
  \/ Rewrite
  \/ \E p \in Procs :
       \/ Start(p)
       \/ FetchLastHashChain(p) \/ FetchHashChain(p)
       \/ StoreEntry(p) \/ StoreFails(p)
       \/ Validate(p)
       \/ SearchBegin(p) \/ SearchEntry(p) \/ SearchEnd(p)
       \/ LookupUID(p) \/ LookupEntry(p)
       \/ FetchKeyInit(p)
       \/ DelHashChain(p)
       \/ Fault(p)

Spec == Init /\ [][Next]_vars

-----------------------------------------------------------------------------
(* Properties *)

(* validateHashChain and searchHashChain read every position from 0 to the  *)
(* last: whatever was interrupted or failed in between, and with two        *)
(* processes syncing at once, the rows of syncHashChain leave no gap.       *)
Gapless == DOMAIN Hashchains = 0 .. GetLastHashChainPos

(* The signature of a stored UID was verified with a key that is itself     *)
(* stored, down to the first UID message of the key server, though searches *)
(* for the key server and for contacts run in any order.                    *)
ServerKeysKnown ==
  \A u \in PublicUIDs :
    u.pos > 0 =>
      \E k \in PublicUIDs : k.id = Keyserver /\ k.pos = u.content.srv

(* A command of process p ends well in this step.                           *)
Succeeds(p, cmd) ==
  /\ todo[p] # <<>> /\ Command(p).cmd = cmd
  /\ todo'[p] # todo[p] /\ outcome'[p] \in {"", "done"}

(* "If no further entry can be found, the latest UIDMessage entry has been  *)
(* found": a search that succeeds has stored every UID of the identity up   *)
(* to the position it looked at, in particular the latest one.              *)
LatestFound ==
  [][\A p \in Procs : Succeeds(p, "search") =>
       \A i \in DOMAIN Hashchains \cap 0 .. loc[p].max :
         Hashchains[i].content.id = Command(p).id =>
           \E u \in PublicUIDs' : u.id = Command(p).id /\ u.pos = i]_vars

(* A contact add never fails at a signature of an honest key server, however*)
(* often the server has changed its key: mutecryptAddContact has searched   *)
(* for all keys of the server before it searches for the contact.           *)
ContactVerifies == \A p \in Procs : outcome[p] # "signature"

(* When a contact is added, the local chain is one that the server could    *)
(* have published: the last hash commits to all contents in their order,    *)
(* and our own UID message is where the server promised.  A server that     *)
(* goes on from an earlier version of its chain is not followed.            *)
ContactOnOneChain ==
  [][\A p \in Procs : Succeeds(p, "keyinit") =>
       /\ \A i \in DOMAIN Hashchains :
            Hashchains[i].hash = [j \in 1 .. i + 1 |-> Hashchains[j - 1].content]
       /\ \A i \in DOMAIN reply \cap DOMAIN Hashchains :
            reply[i] = Hashchains[i]]_vars

-----------------------------------------------------------------------------
(* What the documentation says and the code does not do *)

(* "syncHashChain brings local hash chain in sync with key server": when it *)
(* succeeds the local chain reaches the position the server has named.      *)
InSync ==
  [][\A p \in Procs :
       Succeeds(p, "sync") => GetLastHashChainPos >= loc[p].told]_vars
====

-------------------------- MODULE HashChainProofs --------------------------
(***************************************************************************)
(* Proofs about HashChain, for any number of processes, identities,        *)
(* entries, rewrites and faults:                                           *)
(*   - the rows of syncHashChain leave no gap (NoGap), a search that       *)
(*     succeeds has found every UID (Latest): both as long as no process   *)
(*     deletes the chain while another one works on it;                    *)
(*   - a stored UID was verified with a stored key (KnownKeys);            *)
(*   - a contact is added on one chain (OneChain), unless a second process *)
(*     follows the server onto a rewritten chain in between;               *)
(*   - contact add does not fail at a signature (Verifies).                *)
(* Every invariant below is inductive relative to the ones before it.      *)
(***************************************************************************)
EXTENDS HashChain, WellFoundedInduction, TLAPS

(* The provers get more time than by default. *)
USE SMTT(30), ZenonT(30)

(* Commands are given one after the other. *)
OneProcess == \A p, q \in Procs : p = q

(* No process deletes the chain under another one.                          *)
DeletesAlone == "delete" \in Commands => OneProcess

(* No process syncs from a rewritten chain behind another one.              *)
RewritesAlone == MaxRewrites > 0 => OneProcess

Content == [id : Ids, srv : Nat, branch : Nat]
Row == [content : Content, hash : Seq(Content)]
Position == 0 .. MaxLen

(* What is left of mutecryptAddContact, or a command given by hand.         *)
Steps == <<"sync", "validate", "search", "search", "keyinit">>

CmdNames == {"sync", "validate", "search", "lookup", "delete", "keyinit"}
Cmd == [cmd : CmdNames, id : Ids]

Plan(t) ==
  /\ t \in Seq(Cmd)
  /\ Len(t) <= 5
  /\ Len(t) = 1 => t[1].cmd \in Commands \cup {"keyinit"}
  /\ Len(t) > 1 => \A k \in 1 .. Len(t) : t[k].cmd = Steps[5 - Len(t) + k]
  /\ Len(t) > 2 => t[Len(t) - 2].id = Keyserver

LocType(l) ==
  /\ DOMAIN l = {"pc", "told", "got", "i", "max", "list", "match"}
  /\ l.told \in Int /\ l.got \in Seq(Row) /\ l.i \in Nat /\ l.max \in Int
  /\ l.match \in BOOLEAN
  /\ l.pc = "store" => l.i + Len(l.got) <= MaxLen + 1

PcFits(p) ==
  /\ loc[p].pc \in {"fetch", "store"} => todo[p] # <<>> /\ Command(p).cmd = "sync"
  /\ loc[p].pc = "entry" => todo[p] # <<>> /\ Command(p).cmd \in {"search", "lookup"}

ProcTypes ==
  /\ todo \in [Procs -> Seq(Cmd)]
  /\ DOMAIN loc = Procs
  /\ DOMAIN outcome = Procs
  /\ \A p \in Procs : Plan(todo[p]) /\ LocType(loc[p]) /\ PcFits(p)

DataTypes ==
  /\ chain \in Seq(Row) /\ Len(chain) \in 1 .. MaxLen + 1
  /\ branch \in 0 .. MaxRewrites
  /\ Hashchains \in [DOMAIN Hashchains -> Row] /\ DOMAIN Hashchains \subseteq Position
  /\ PublicUIDs \subseteq [id : Ids, pos : Position, content : Content]
  /\ reply \in [DOMAIN reply -> Row] /\ DOMAIN reply \subseteq Position

ChainType == ProcTypes /\ DataTypes

(* The rows before the next one to be stored are there.                     *)
CopyInv ==
  /\ Gapless
  /\ \A p \in Procs :
       loc[p].pc = "store" => 0 .. loc[p].i - 1 \subseteq DOMAIN Hashchains

Stored(id, i) == \E u \in PublicUIDs : u.id = id /\ u.pos = i

(* The entries a search has passed; the rest of its list is ascending.      *)
Searching(p) ==
  LET l == loc[p]
      n == Len(l.list)
  IN  /\ l.list \in Seq(Int) /\ n <= l.max + 1
      /\ \A k \in 1 .. n : l.list[k] = l.max - n + k
      /\ 0 .. l.max \subseteq DOMAIN Hashchains
      /\ \A i \in 0 .. l.max - n :
           Hashchains[i].content.id = Command(p).id => Stored(Command(p).id, i)

SearchInv == \A p \in Procs : Running(p, "search", "entry") => Searching(p)

(* The hash of an entry of the server stands for all contents up to it.     *)
ServerLinked ==
  \A i \in 1 .. Len(chain) : chain[i].hash = [j \in 1 .. i |-> chain[j].content]

(* A server that never rewrites its chain: rows are entries of the chain.   *)
HonestInv ==
  /\ \A i \in DOMAIN Hashchains : i < Len(chain) /\ Hashchains[i] = chain[i + 1]
  /\ \A i \in DOMAIN reply : i < Len(chain) /\ reply[i] = chain[i + 1]
  /\ \A p \in Procs :
       loc[p].pc = "store" =>
         /\ loc[p].i + Len(loc[p].got) <= Len(chain)
         /\ \A k \in 1 .. Len(loc[p].got) : loc[p].got[k] = chain[loc[p].i + k]

(* What ContactOnOneChain says of a state.                                  *)
Validated ==
  /\ \A i \in DOMAIN Hashchains :
       Hashchains[i].hash = [j \in 1 .. i + 1 |-> Hashchains[j - 1].content]
  /\ \A i \in DOMAIN reply \cap DOMAIN Hashchains : reply[i] = Hashchains[i]

PastValidate(t) == Len(t) \in {2, 3} \/ (Len(t) = 1 /\ t[1].cmd = "keyinit")

(* With one process, the chain is as it was when validate returned.         *)
ValidInv == \A p \in Procs : PastValidate(todo[p]) => Validated

(* The server signs with the key that its last UID message announced.       *)
SignedBy(i) ==
  LET s == chain[i].content.srv
  IN  /\ s <= i - 2 /\ chain[s + 1].content.id = Keyserver
      /\ \A j \in s + 2 .. i - 1 : chain[j].content.id # Keyserver

ServerSigns == chain[1].content.id = Keyserver /\ \A i \in 2 .. Len(chain) : SignedBy(i)

(* UIDs are those of the server's chain.                                    *)
UIDsOfChain ==
  \A u \in PublicUIDs : u.pos < Len(chain) /\ chain[u.pos + 1].content.id = u.id

(* When a contact is searched for, the keys of the server are stored.       *)
KeysStored ==
  \A p \in Procs :
    /\ Running(p, "search", "entry") => DOMAIN Hashchains \subseteq 0 .. loc[p].max
    /\ Len(todo[p]) = 2 =>
         \A i \in DOMAIN Hashchains :
           Hashchains[i].content.id = Keyserver => Stored(Keyserver, i)

-----------------------------------------------------------------------------
(* Lemmas about the operators *)

(* A set of naturals that is not empty has a least element.                 *)
LEMMA LeastNat ==
  ASSUME NEW S \in SUBSET Nat, S # {}
  PROVE  \E x \in S : \A y \in S : x <= y
<1> DEFINE less == {ss \in Nat \X Nat : ss[1] < ss[2]}
<1>1. IsWellFoundedOn(less, Nat)
  BY NatLessThanWellFounded, Zenon DEF OpToRel
<1>2. PICK x \in S : \A y \in S : ~ (<<y, x>> \in less)
  <2> HIDE DEF less
  <2> QED
    BY <1>1, WFMin, Zenon
<1>3. ASSUME NEW y \in S
      PROVE  x <= y
  <2>1. x \in Nat /\ y \in Nat
    OBVIOUS
  <2>2. ~(y < x)
    BY <1>2, <2>1, Zenon
  <2> QED
    BY <2>1, <2>2
<1> QED
  BY <1>3

(* A bounded set of integers has a maximum.                                 *)
LEMMA MaxIn ==
  ASSUME NEW S \in SUBSET Int, S # {}, NEW b \in Int, \A s \in S : s <= b
  PROVE  Max(S) \in S /\ \A s \in S : s <= Max(S)
<1> DEFINE T == {n \in Nat : b - n \in S}
<1>1. PICK s \in S : TRUE
  BY Zenon
<1>2. b - s \in Nat /\ b - (b - s) = s
  OBVIOUS
<1>3. T \in SUBSET Nat /\ T # {}
  BY <1>2, Zenon
<1>4. PICK x \in T : \A y \in T : x <= y
  BY <1>3, LeastNat, Zenon
<1>5. ASSUME NEW y \in S
      PROVE  b - x >= y
  <2>1. b - y \in T
    <3>1. b - y \in Nat /\ b - (b - y) = y
      OBVIOUS
    <3> QED BY <3>1
  <2>2. x <= b - y /\ x \in Nat
    BY <1>4, <2>1, Zenon
  <2> HIDE DEF T
  <2> QED BY <2>2
<1>6. \E m \in S : \A y \in S : m >= y
  BY <1>4, <1>5
<1>7. Max(S) \in S /\ \A y \in S : Max(S) >= y
  BY <1>6, Zenon DEF Max
<1> QED BY <1>7

(* The last position of a chain without gap.                                *)
LEMMA MaxOfInterval ==
  ASSUME NEW n \in Int, n >= -1
  PROVE  Max({-1} \cup 0 .. n) = n
<1> DEFINE S == {-1} \cup 0 .. n
<1>1. S \in SUBSET Int /\ S # {} /\ n \in S /\ \A s \in S : s <= n
  OBVIOUS
<1> HIDE DEF S
<1>2. Max(S) \in S /\ n <= Max(S)
  BY <1>1, MaxIn
<1>3. Max(S) <= n /\ Max(S) \in Int
  BY <1>1, <1>2, Zenon
<1>4. Max(S) = n
  BY <1>2, <1>3
<1> QED BY <1>4 DEF S

(* GetLastHashChainPos.                                                     *)
LEMMA LastPosition ==
  ASSUME DataTypes
  PROVE  /\ GetLastHashChainPos \in -1 .. MaxLen
         /\ \A i \in DOMAIN Hashchains : i <= GetLastHashChainPos
         /\ GetLastHashChainPos >= 0 => GetLastHashChainPos \in DOMAIN Hashchains
<1> DEFINE S == {-1} \cup DOMAIN Hashchains
<1>1. S \in SUBSET Int /\ S # {} /\ \A s \in S : s <= MaxLen
  BY ChainBounds DEF DataTypes, Position
<1>2. Max(S) \in S /\ \A s \in S : s <= Max(S)
  <2> HIDE DEF S
  <2> QED BY <1>1, MaxIn, ChainBounds
<1>3. Max(S) \in -1 .. MaxLen
  BY <1>1, <1>2, ChainBounds DEF DataTypes, Position
<1>4. GetLastHashChainPos = Max(S)
  BY DEF GetLastHashChainPos
<1>5. Max(S) >= 0 => Max(S) \in DOMAIN Hashchains
  BY <1>2
<1>6. \A i \in DOMAIN Hashchains : i <= Max(S)
  BY <1>2, Zenon
<1> QED BY <1>3, <1>4, <1>5, <1>6

(* GetPublicUID.                                                            *)
LEMMA UIDPosition ==
  ASSUME DataTypes, NEW id, NEW m \in Int
  PROVE  /\ GetPublicUID(id, m) \in -1 .. MaxLen
         /\ GetPublicUID(id, m) >= 0 => GetPublicUID(id, m) <= m
                                         /\ Stored(id, GetPublicUID(id, m))
         /\ \A u \in PublicUIDs :
              u.id = id /\ u.pos <= m => u.pos <= GetPublicUID(id, m)
<1> DEFINE R == {u \in PublicUIDs : u.id = id /\ u.pos <= m}
           S == {-1} \cup {u.pos : u \in R}
<1>1. \A u \in PublicUIDs : u.pos \in 0 .. MaxLen
  BY DEF DataTypes, Position
<1>2. S \in SUBSET Int /\ S # {} /\ \A s \in S : s <= MaxLen
  BY <1>1, ChainBounds
<1>3. Max(S) \in S /\ \A s \in S : s <= Max(S)
  <2> HIDE DEF S
  <2> QED BY <1>2, MaxIn, ChainBounds
<1>4. GetPublicUID(id, m) = Max(S)
  BY DEF GetPublicUID
<1>5. Max(S) \in -1 .. MaxLen
  BY <1>1, <1>2, <1>3, ChainBounds
<1>6. Max(S) >= 0 => Max(S) <= m /\ Stored(id, Max(S))
  <2> SUFFICES ASSUME Max(S) >= 0
               PROVE  Max(S) <= m /\ Stored(id, Max(S))
    OBVIOUS
  <2>1. PICK u \in R : Max(S) = u.pos
    BY <1>3
  <2> QED BY <2>1, Zenon DEF Stored
<1>7. ASSUME NEW u \in PublicUIDs, u.id = id, u.pos <= m
      PROVE  u.pos <= Max(S)
  BY <1>3, <1>7, Zenon
<1> QED BY <1>4, <1>5, <1>6, <1>7

(* The server's signature key.                                              *)
LEMMA ServerKey ==
  ASSUME NEW s \in Seq(Row)
  PROVE  /\ SrvKey(s) \in Nat
         /\ SrvKey(s) = 0 \/ (SrvKey(s) < Len(s)
                               /\ s[SrvKey(s) + 1].content.id = Keyserver)
         /\ \A i \in 0 .. Len(s) - 1 :
              s[i + 1].content.id = Keyserver => i <= SrvKey(s)
<1> DEFINE K == {i \in 0 .. Len(s) - 1 : s[i + 1].content.id = Keyserver}
           S == {0} \cup K
<1>1. S \in SUBSET Int /\ S # {} /\ \A x \in S : x <= Len(s)
  OBVIOUS
<1>2. Max(S) \in S /\ \A x \in S : x <= Max(S)
  <2> HIDE DEF S
  <2>1. Len(s) \in Int
    OBVIOUS
  <2> QED BY <1>1, <2>1, MaxIn, Zenon
<1>3. SrvKey(s) = Max(S)
  BY DEF SrvKey
<1> QED BY <1>1, <1>2, <1>3

-----------------------------------------------------------------------------
(* Types *)

(* A command that has not begun.                                            *)
LEMMA RestType == LocType(Rest) /\ Rest.pc = "ready"
BY ChainBounds DEF LocType, Rest

(* A process without commands has a plan.                                   *)
LEMMA PlanNone == Plan(<<>>)
BY DEF Plan

(* The commands of mutecryptAddContact are a plan.                          *)
LEMMA PlanContact ==
  ASSUME NEW id \in Contacts
  PROVE  Plan(AddContact(id))
<1> DEFINE t == AddContact(id)
<1>1. /\ Len(t) = 5
      /\ t[1].cmd = "sync" /\ t[2].cmd = "validate" /\ t[3].cmd = "search"
      /\ t[4].cmd = "search" /\ t[5].cmd = "keyinit" /\ t[3].id = Keyserver
  BY DEF AddContact
<1>2. t \in Seq(Cmd)
  BY DEF AddContact, Ids, CmdNames, Cmd
<1> HIDE DEF t
<1>3. \A k \in 1 .. 5 : t[k].cmd = Steps[k]
  BY <1>1 DEF Steps
<1>4. \A k \in 1 .. 5 : 5 - 5 + k = k
  OBVIOUS
<1> QED BY <1>1, <1>2, <1>3, <1>4 DEF Plan, t

(* A command given by hand is a plan.                                       *)
LEMMA PlanCommand ==
  ASSUME NEW c \in Commands, NEW id \in Ids
  PROVE  Plan(<<[cmd |-> c, id |-> id]>>)
<1> DEFINE t == <<[cmd |-> c, id |-> id]>>
<1>1. c \in CmdNames
  BY CommandNames DEF CmdNames
<1>2. t \in Seq(Cmd) /\ Len(t) = 1 /\ t[1].cmd = c
  BY <1>1 DEF Cmd
<1> HIDE DEF t
<1> QED BY <1>2 DEF Plan, t

(* What is left of a plan after its first command is a plan.                *)
LEMMA PlanTail ==
  ASSUME NEW t, Plan(t), t # <<>>
  PROVE  Plan(Tail(t)) /\ Len(t) \in Nat /\ Len(Tail(t)) = Len(t) - 1
<1> DEFINE n == Len(t)
<1>1. t \in Seq(Cmd) /\ n \in 1 .. 5 /\ n <= 5
  <2>1. t \in Seq(Cmd) /\ n <= 5
    BY DEF Plan
  <2>2. n \in Nat /\ n # 0
    BY <2>1
  <2> HIDE DEF n
  <2> QED BY <2>1, <2>2
<1>2. /\ Tail(t) \in Seq(Cmd) /\ Len(Tail(t)) = n - 1
      /\ \A k \in 1 .. n - 1 : Tail(t)[k] = t[k + 1]
  BY <1>1
<1>3. n - 1 > 1 => \A k \in 1 .. n - 1 : Tail(t)[k].cmd = Steps[5 - (n - 1) + k]
  <2> SUFFICES ASSUME n - 1 > 1, NEW k \in 1 .. n - 1
               PROVE  Tail(t)[k].cmd = Steps[5 - (n - 1) + k]
    OBVIOUS
  <2>1. t[k + 1].cmd = Steps[5 - n + (k + 1)]
    BY <1>1 DEF Plan
  <2>2. 5 - n + (k + 1) = 5 - (n - 1) + k
    BY <1>1
  <2> QED BY <1>2, <2>1, <2>2
<1>4. n - 1 = 1 => Tail(t)[1].cmd = "keyinit"
  <2> SUFFICES ASSUME n - 1 = 1
               PROVE  Tail(t)[1].cmd = "keyinit"
    OBVIOUS
  <2>0. n = 2
    <3> HIDE DEF n
    <3> QED BY <1>1
  <2>1. t[2].cmd = Steps[5 - n + 2]
    BY <1>1, <2>0 DEF Plan
  <2>2. Steps[5] = "keyinit" /\ 5 - n + 2 = 5
    BY <2>0 DEF Steps
  <2>3. 1 \in 1 .. n - 1 /\ 1 + 1 = 2
    BY <2>0
  <2>4. Tail(t)[1] = t[1 + 1]
    BY <1>2, <2>3
  <2>5. t[2].cmd = "keyinit"
    BY <2>1, <2>2
  <2> QED BY <2>3, <2>4, <2>5
<1>5. n - 1 > 2 => Tail(t)[(n - 1) - 2].id = Keyserver
  <2> SUFFICES ASSUME n - 1 > 2
               PROVE  Tail(t)[(n - 1) - 2].id = Keyserver
    OBVIOUS
  <2>1. t[n - 2].id = Keyserver
    BY <1>1 DEF Plan
  <2>2. (n - 1) - 2 \in 1 .. n - 1 /\ ((n - 1) - 2) + 1 = n - 2
    BY <1>1
  <2> QED BY <1>2, <2>1, <2>2
<1> HIDE DEF n
<1>6. Plan(Tail(t))
  BY <1>1, <1>2, <1>3, <1>4, <1>5 DEF Plan
<1> QED BY <1>1, <1>2, <1>6 DEF n

(* The command that runs.                                                   *)
LEMMA FirstCommand ==
  ASSUME NEW t, Plan(t), t # <<>>
  PROVE  /\ Len(t) \in 1 .. 5
         /\ t[1].cmd = "sync" => Len(t) = 5 \/ Len(t) = 1
         /\ Len(t) = 5 => t[1].cmd = "sync"
         /\ Len(t) = 4 => t[1].cmd = "validate"
         /\ Len(t) = 3 => t[1].cmd = "search" /\ t[1].id = Keyserver
         /\ Len(t) = 2 => t[1].cmd = "search"
         /\ Len(t) = 1 => t[1].cmd \in Commands \cup {"keyinit"}
         /\ t[1].cmd = "delete" => "delete" \in Commands
<1> DEFINE n == Len(t)
<1>1. t \in Seq(Cmd) /\ n <= 5
  BY DEF Plan
<1>2. n \in Nat /\ n # 0
  BY <1>1
<1>3. n > 1 => \A k \in 1 .. n : t[k].cmd = Steps[5 - n + k]
  BY DEF Plan
<1>4. (n > 2 => t[n - 2].id = Keyserver) /\ (n = 1 => t[1].cmd \in Commands \cup {"keyinit"})
  BY DEF Plan
<1> HIDE DEF n
<1>5. n \in 1 .. 5
  BY <1>1, <1>2
<1>6. n > 1 => t[1].cmd = Steps[5 - n + 1]
  BY <1>3, <1>5
<1>7. /\ Steps[1] = "sync" /\ Steps[2] = "validate"
      /\ Steps[3] = "search" /\ Steps[4] = "search"
  BY DEF Steps
<1>8. /\ n = 5 => t[1].cmd = "sync"
      /\ n = 4 => t[1].cmd = "validate"
      /\ n = 3 => t[1].cmd = "search"
      /\ n = 2 => t[1].cmd = "search"
  BY <1>6, <1>7
<1>9. n = 3 => t[1].id = Keyserver
  BY <1>4
<1>10. n = 1 \/ n = 2 \/ n = 3 \/ n = 4 \/ n = 5
  BY <1>5
<1> QED BY <1>4, <1>5, <1>8, <1>9, <1>10 DEF n

(* A process begins, goes on within a command, ends it well or with an      *)
(* error.                                                                   *)
LEMMA StartType ==
  ASSUME ProcTypes, NEW p \in Procs, Start(p)
  PROVE  ProcTypes'
<1>1. PICK t : Plan(t) /\ t # <<>> /\ todo' = [todo EXCEPT ![p] = t]
  <2>1. CASE \E id \in Contacts : todo' = [todo EXCEPT ![p] = AddContact(id)]
    <3>1. \A id : AddContact(id) # <<>>
      BY DEF AddContact
    <3> QED BY <2>1, <3>1, PlanContact, Zenon
  <2>2. CASE \E c \in Commands, id \in Ids :
               todo' = [todo EXCEPT ![p] = <<[cmd |-> c, id |-> id]>>]
    BY <2>2, PlanCommand, Zenon
  <2> QED BY <2>1, <2>2, Zenon DEF Start
<1>2. loc' = loc /\ todo[p] = <<>> /\ outcome' = [outcome EXCEPT ![p] = ""]
  BY Zenon DEF Start
<1>3. loc[p].pc \notin {"fetch", "store", "entry"}
  BY <1>2, Zenon DEF ProcTypes, PcFits
<1>4. ASSUME NEW q \in Procs
      PROVE  (Plan(todo[q]) /\ LocType(loc[q]) /\ PcFits(q))'
  <2>1. CASE q = p
    BY <1>1, <1>2, <1>3, <2>1, Zenon DEF ProcTypes, PcFits
  <2>2. CASE q # p
    BY <1>1, <1>2, <2>2, Zenon DEF ProcTypes, PcFits, Command
  <2> QED BY <2>1, <2>2
<1>5. todo' \in [Procs -> Seq(Cmd)]
  BY <1>1 DEF ProcTypes, Plan
<1>6. DOMAIN outcome' = Procs
  BY <1>2, Zenon DEF ProcTypes
<1> QED BY <1>2, <1>4, <1>5, <1>6, Zenon DEF ProcTypes

(* A step within a command keeps the types of the processes.                *)
LEMMA GotoType ==
  ASSUME ProcTypes, NEW p \in Procs, NEW l, Goto(p, l), UNCHANGED <<todo, outcome>>,
         LocType(l),
         l.pc \in {"fetch", "store"} => todo[p] # <<>> /\ Command(p).cmd = "sync",
         l.pc = "entry" => todo[p] # <<>> /\ Command(p).cmd \in {"search", "lookup"}
  PROVE  ProcTypes'
<1>1. DOMAIN loc' = Procs /\ loc'[p] = l /\ \A q \in Procs : q # p => loc'[q] = loc[q]
  BY DEF ProcTypes, Goto
<1>2. ASSUME NEW q \in Procs
      PROVE  (Plan(todo[q]) /\ LocType(loc[q]) /\ PcFits(q))'
  <2>1. CASE q = p
    BY <1>1, <2>1 DEF ProcTypes, PcFits, Command
  <2>2. CASE q # p
    BY <1>1, <2>2 DEF ProcTypes, PcFits, Command
  <2> QED BY <2>1, <2>2
<1> QED BY <1>1, <1>2 DEF ProcTypes

(* So does the end of a command, whatever is left to do.                    *)
LEMMA EndType ==
  ASSUME ProcTypes, NEW p \in Procs, NEW t, Plan(t), NEW o,
         todo' = [todo EXCEPT ![p] = t], Goto(p, Rest),
         outcome' = [outcome EXCEPT ![p] = o]
  PROVE  ProcTypes'
<1>1. DOMAIN loc' = Procs /\ loc'[p] = Rest /\ \A q \in Procs : q # p => loc'[q] = loc[q]
  BY DEF ProcTypes, Goto
<1>2. todo' \in [Procs -> Seq(Cmd)] /\ todo'[p] = t
      /\ \A q \in Procs : q # p => todo'[q] = todo[q]
  BY DEF ProcTypes, Plan
<1>3. ASSUME NEW q \in Procs
      PROVE  (Plan(todo[q]) /\ LocType(loc[q]) /\ PcFits(q))'
  <2>1. CASE q = p
    BY <1>1, <1>2, <2>1, RestType DEF PcFits
  <2>2. CASE q # p
    BY <1>1, <1>2, <2>2 DEF ProcTypes, PcFits, Command
  <2> QED BY <2>1, <2>2
<1>4. DOMAIN outcome' = Procs
  BY DEF ProcTypes
<1> QED BY <1>1, <1>2, <1>3, <1>4 DEF ProcTypes

(* A command that ends well (Done) keeps the types.                         *)
LEMMA DoneType ==
  ASSUME ProcTypes, NEW p \in Procs, todo[p] # <<>>, Done(p)
  PROVE  ProcTypes'
<1>1. Plan(Tail(todo[p]))
  BY PlanTail DEF ProcTypes
<1>2. todo' = [todo EXCEPT ![p] = Tail(todo[p])]
  BY Zenon DEF Done, ProcTypes
<1> QED BY <1>1, <1>2, EndType, Zenon DEF Done

(* A command that fails (Error) keeps the types.                            *)
LEMMA ErrorType ==
  ASSUME ProcTypes, NEW p \in Procs, NEW what, Error(p, what)
  PROVE  ProcTypes'
BY PlanNone, EndType, Zenon DEF Error

(* The entry that the server appends.                                       *)
LEMMA EntryType ==
  ASSUME DataTypes, NEW id \in Ids
  PROVE  /\ Entry(chain, id) \in Row
         /\ Entry(chain, id).content.id = id
         /\ Entry(chain, id).content.srv = SrvKey(chain)
         /\ Entry(chain, id).hash =
              Append(chain[Len(chain)].hash, Entry(chain, id).content)
<1> DEFINE c == [id |-> id, srv |-> SrvKey(chain), branch |-> branch]
<1>1. chain \in Seq(Row) /\ Len(chain) \in 1 .. MaxLen + 1 /\ branch \in Nat
  BY ChainBounds DEF DataTypes
<1>2. chain # <<>> /\ chain[Len(chain)] \in Row
  <2> HIDE DEF Row
  <2>1. Len(chain) >= 1 /\ Len(chain) \in Nat
    BY <1>1, ChainBounds
  <2>2. chain # <<>>
    BY <2>1
  <2> QED BY <1>1, <2>1, <2>2
<1>3. SrvKey(chain) \in Nat
  BY <1>1, ServerKey
<1>4. c \in Content
  BY <1>1, <1>3 DEF Content
<1>5. chain[Len(chain)].hash \in Seq(Content)
  BY <1>2 DEF Row
<1>6. Entry(chain, id) = [content |-> c, hash |-> Append(chain[Len(chain)].hash, c)]
  BY <1>2 DEF Entry
<1>7. Append(chain[Len(chain)].hash, c) \in Seq(Content)
  <2> HIDE DEF Content, c
  <2> QED BY <1>4, <1>5
<1> QED
  BY <1>4, <1>6, <1>7 DEF Row

(* The steps of the server.                                                 *)
LEMMA CreateType ==
  ASSUME ChainType, NEW id \in Ids, CreateUID(id)
  PROVE  ChainType'
<1> USE DEF ChainType
<1>1. ProcTypes'
  BY DEF CreateUID, ProcTypes, PcFits, Command
<1>2. /\ chain \in Seq(Row) /\ Len(chain) \in Nat /\ Len(chain) >= 1
      /\ Len(chain) < MaxLen /\ Entry(chain, id) \in Row
      /\ chain' = Append(chain, Entry(chain, id))
  BY EntryType, ChainBounds DEF CreateUID, DataTypes
<1>3. chain' \in Seq(Row) /\ Len(chain') = Len(chain) + 1 /\ chain'[Len(chain')] \in Row
  <2> HIDE DEF Row
  <2>1. chain' \in Seq(Row) /\ Len(chain') = Len(chain) + 1
    BY <1>2
  <2>2. chain'[Len(chain')] \in Row
    BY <1>2, <2>1
  <2> QED BY <2>1, <2>2
<1>4. reply' \in [DOMAIN reply' -> Row] /\ DOMAIN reply' \subseteq Position
  <2>1. CASE id = Me
    <3>1. reply' = [i \in {Len(chain)} |-> chain'[Len(chain')]]
      BY <2>1 DEF CreateUID
    <3>2. Len(chain) \in Position
      BY <1>2, ChainBounds DEF Position
    <3> QED BY <1>3, <3>1, <3>2
  <2>2. CASE id # Me
    BY <2>2 DEF CreateUID, DataTypes
  <2> QED BY <2>1, <2>2
<1>5. UNCHANGED <<branch, Hashchains, PublicUIDs>>
  BY DEF CreateUID, keydb
<1>6. Len(chain') \in 1 .. MaxLen + 1
  BY <1>2, <1>3, ChainBounds
<1> QED BY <1>1, <1>3, <1>4, <1>5, <1>6 DEF DataTypes

(* A server that goes on from a prefix of its chain keeps the types.        *)
LEMMA RewriteType ==
  ASSUME ChainType, Rewrite
  PROVE  ChainType'
<1> USE DEF ChainType
<1>1. ProcTypes'
  BY DEF Rewrite, ProcTypes, PcFits, Command
<1>2. PICK n \in 1 .. Len(chain) - 1 : chain' = SubSeq(chain, 1, n)
  BY DEF Rewrite
<1>3. chain \in Seq(Row) /\ Len(chain) \in 1 .. MaxLen + 1 /\ n <= Len(chain) /\ n \in Nat
  BY <1>2, ChainBounds DEF DataTypes
<1>4. chain' \in Seq(Row) /\ Len(chain') = n
  <2> HIDE DEF Row
  <2> QED BY <1>2, <1>3
<1>5. Len(chain') \in 1 .. MaxLen + 1
  BY <1>2, <1>3, <1>4, ChainBounds
<1>6. branch' \in 0 .. MaxRewrites
  BY ChainBounds DEF Rewrite, DataTypes
<1>7. UNCHANGED <<Hashchains, PublicUIDs, reply>>
  BY DEF Rewrite, keydb
<1> QED BY <1>1, <1>4, <1>5, <1>6, <1>7 DEF DataTypes

(* The steps of a process that leave the key database as it is.             *)
LEMMA DataSame ==
  ASSUME DataTypes, UNCHANGED <<server, keydb>>
  PROVE  DataTypes'
BY DEF DataTypes, server, keydb

(* syncHashChain keeps the types while it fetches or gives up.              *)
LEMMA SyncType ==
  ASSUME ChainType, NEW p \in Procs,
         FetchLastHashChain(p) \/ FetchHashChain(p) \/ StoreFails(p)
  PROVE  ChainType'
<1> USE DEF ChainType
<1>1. DataTypes'
  BY DataSame DEF FetchLastHashChain, FetchHashChain, StoreFails
<1>2. CASE FetchLastHashChain(p)
  <2> DEFINE l == [loc[p] EXCEPT !.pc = "fetch", !.told = Len(chain) - 1]
  <2>1. LocType(l) /\ l.pc = "fetch"
    BY DEF ProcTypes, DataTypes, LocType
  <2>2. Goto(p, l) /\ UNCHANGED <<todo, outcome>>
        /\ todo[p] # <<>> /\ Command(p).cmd = "sync"
    BY <1>2 DEF FetchLastHashChain, Running
  <2> HIDE DEF l
  <2> QED BY <1>1, <2>1, <2>2, GotoType
<1>3. CASE FetchHashChain(p)
  <2>0. todo[p] # <<>> /\ Command(p).cmd = "sync"
    BY <1>3 DEF FetchHashChain, Running
  <2>1. CASE Done(p)
    BY <1>1, <2>0, <2>1, DoneType
  <2>2. CASE Error(p, "refused")
    BY <1>1, <2>2, ErrorType
  <2>3. CASE /\ GetLastHashChainPos < loc[p].told
             /\ loc[p].told < Len(chain)
             /\ Goto(p, [loc[p] EXCEPT !.pc = "store", !.i = NextPosition,
                           !.got = SubSeq(chain, NextPosition + 1, loc[p].told + 1)])
             /\ UNCHANGED <<todo, outcome>>
    <3> DEFINE n == NextPosition
               k == loc[p].told
               g == SubSeq(chain, n + 1, k + 1)
               l == [loc[p] EXCEPT !.pc = "store", !.i = NextPosition,
                           !.got = SubSeq(chain, NextPosition + 1, loc[p].told + 1)]
    <3>1. n \in Nat /\ k \in Int /\ n <= k /\ k + 1 <= Len(chain)
      BY <2>3, LastPosition, ChainBounds DEF NextPosition, ProcTypes, LocType, DataTypes
    <3>2. chain \in Seq(Row) /\ Len(chain) \in Nat /\ Len(chain) <= MaxLen + 1
      BY ChainBounds DEF DataTypes
    <3>3. g \in Seq(Row) /\ Len(g) = k + 1 - n
      <4> HIDE DEF Row, n, k
      <4> QED BY <3>1, <3>2
    <3>4. /\ DOMAIN l = DOMAIN loc[p]
          /\ l.pc = "store" /\ l.i = n /\ l.got = g /\ l.told = loc[p].told
          /\ l.max = loc[p].max /\ l.match = loc[p].match
      BY Zenon DEF ProcTypes, LocType
    <3> HIDE DEF n, k, g, l
    <3>5. n + Len(g) <= MaxLen + 1
      BY <3>1, <3>2, <3>3, ChainBounds
    <3>6. LocType(l)
      BY <3>1, <3>3, <3>4, <3>5 DEF ProcTypes, LocType
    <3>7. Goto(p, l)
      BY <2>3 DEF l
    <3> QED BY <1>1, <2>0, <2>3, <3>4, <3>6, <3>7, GotoType
  <2> QED BY <1>3, <2>1, <2>2, <2>3 DEF FetchHashChain
<1>4. CASE StoreFails(p)
  BY <1>1, <1>4, DoneType DEF StoreFails, Running
<1> QED BY <1>2, <1>3, <1>4

(* syncHashChain keeps the types when it stores a row.                      *)
LEMMA StoreType ==
  ASSUME ChainType, NEW p \in Procs, StoreEntry(p)
  PROVE  ChainType'
<1> USE DEF ChainType
<1>1. todo[p] # <<>> /\ Command(p).cmd = "sync" /\ loc[p].pc = "store"
  BY DEF StoreEntry, Running
<1>2. CASE loc[p].got = <<>> /\ Done(p) /\ UNCHANGED Hashchains
  <2>1. DataTypes'
    BY <1>2 DEF StoreEntry, DataTypes, server
  <2> QED BY <1>1, <1>2, <2>1, DoneType
<1>3. CASE /\ loc[p].got # <<>>
           /\ AddHashChainEntry(loc[p].i, loc[p].got[1])
           /\ Goto(p, [loc[p] EXCEPT !.i = @ + 1, !.got = Tail(@)])
           /\ UNCHANGED <<todo, outcome>>
  <2> DEFINE g == loc[p].got
             l == [loc[p] EXCEPT !.i = @ + 1, !.got = Tail(@)]
  <2>1. g \in Seq(Row) /\ g # <<>> /\ loc[p].i \in Nat /\ loc[p].i + Len(g) <= MaxLen + 1
    BY <1>1, <1>3 DEF ProcTypes, LocType
  <2>2. g[1] \in Row /\ Len(g) \in Nat /\ Len(g) >= 1
        /\ Tail(g) \in Seq(Row) /\ Len(Tail(g)) = Len(g) - 1
    <3> HIDE DEF Row, g
    <3>1. Len(g) \in Nat /\ Len(g) # 0
      BY <2>1
    <3> QED BY <2>1, <3>1
  <2>3. loc[p].i \in Position
    BY <2>1, <2>2, ChainBounds DEF Position
  <2>4. DataTypes'
    <3>1. /\ DOMAIN Hashchains' = DOMAIN Hashchains \cup {loc[p].i}
          /\ \A i \in DOMAIN Hashchains' :
               Hashchains'[i] = IF i \in DOMAIN Hashchains THEN Hashchains[i] ELSE g[1]
          /\ Hashchains' = [i \in DOMAIN Hashchains' |-> Hashchains'[i]]
      BY <1>3 DEF AddHashChainEntry
    <3>2. \A i \in DOMAIN Hashchains : Hashchains[i] \in Row
      BY DEF DataTypes
    <3> HIDE DEF g
    <3>3. \A i \in DOMAIN Hashchains' : Hashchains'[i] \in Row
      BY <2>2, <3>1, <3>2
    <3>4. Hashchains' \in [DOMAIN Hashchains' -> Row]
      BY <3>1, <3>3
    <3>5. DOMAIN Hashchains' \subseteq Position
      BY <2>3, <3>1 DEF DataTypes
    <3>6. UNCHANGED <<chain, branch, reply, PublicUIDs>>
      BY DEF StoreEntry, server
    <3> QED BY <3>4, <3>5, <3>6 DEF DataTypes
  <2>5. /\ DOMAIN l = DOMAIN loc[p]
        /\ l.pc = "store" /\ l.i = loc[p].i + 1 /\ l.got = Tail(g) /\ l.told = loc[p].told
        /\ l.max = loc[p].max /\ l.match = loc[p].match
    BY <1>1 DEF ProcTypes, LocType
  <2>6. Goto(p, l)
    BY <1>3
  <2> HIDE DEF g, l
  <2>7. LocType(l)
    BY <2>1, <2>2, <2>5, ChainBounds DEF ProcTypes, LocType
  <2> QED BY <1>1, <1>3, <2>4, <2>5, <2>6, <2>7, GotoType
<1> QED BY <1>2, <1>3 DEF StoreEntry

(* What the step of a search or a lookup at entry i of its list does: it    *)
(* fails, passes on, or adds the UID.                                       *)
EntryFails(p, id, i) ==
  /\ UNCHANGED PublicUIDs
  /\ \/ Error(p, "noentry") \/ Error(p, "bogus")
     \/ /\ i \in DOMAIN Hashchains /\ Hashchains[i].content.id = id
        /\ ~UIDExists(id, i) /\ ~VerifyServerSig(FetchUID(i), i)
        /\ Error(p, "signature")

EntryPasses(p, id, i) ==
  /\ i \in DOMAIN Hashchains
  /\ Hashchains[i].content.id # id \/ UIDExists(id, i)
  /\ \E m \in BOOLEAN : Skip(p, m)

EntryAdds(p, id, i) ==
  /\ i \in DOMAIN Hashchains /\ Hashchains[i].content.id = id
  /\ VerifyServerSig(FetchUID(i), i)
  /\ AddPublicUID(p, id, i)

(* SearchEntry and LookupEntry do one of the three.                         *)
LEMMA EntryShape ==
  ASSUME NEW p \in Procs, SearchEntry(p) \/ LookupEntry(p)
  PROVE  /\ todo[p] # <<>> /\ loc[p].pc = "entry" /\ loc[p].list # <<>>
         /\ Command(p).cmd \in {"search", "lookup"}
         /\ UNCHANGED <<server, Hashchains, faults>>
         /\ \/ EntryFails(p, Command(p).id, loc[p].list[1])
            \/ EntryPasses(p, Command(p).id, loc[p].list[1])
            \/ EntryAdds(p, Command(p).id, loc[p].list[1])
<1> DEFINE id == Command(p).id
           i == loc[p].list[1]
<1>1. /\ todo[p] # <<>> /\ loc[p].pc = "entry" /\ loc[p].list # <<>>
      /\ Command(p).cmd \in {"search", "lookup"}
      /\ UNCHANGED <<server, Hashchains, faults>>
  BY Zenon DEF SearchEntry, LookupEntry, NextEntry, Running
<1>2. CASE Fails(p, "noentry") \/ Fails(p, "bogus")
  BY <1>1, <1>2 DEF Fails, EntryFails
<1>3. CASE i \in DOMAIN Hashchains /\ Hashchains[i].content.id # id /\ Skip(p, FALSE)
  BY <1>1, <1>3, Zenon DEF EntryPasses
<1>4. CASE i \in DOMAIN Hashchains /\ Hashchains[i].content.id = id /\ MatchingEntry(p, id, i)
  <2>1. CASE UIDExists(id, i) /\ Skip(p, TRUE)
    BY <1>1, <1>4, <2>1, Zenon DEF EntryPasses
  <2>2. CASE ~UIDExists(id, i) /\ VerifyServerSig(FetchUID(i), i) /\ AddPublicUID(p, id, i)
    BY <1>1, <1>4, <2>2 DEF EntryAdds
  <2>3. CASE ~UIDExists(id, i) /\ ~VerifyServerSig(FetchUID(i), i) /\ Fails(p, "signature")
    BY <1>1, <1>4, <2>3 DEF EntryFails, Fails
  <2> QED BY <1>4, <2>1, <2>2, <2>3, Zenon DEF MatchingEntry
<1> QED
  BY <1>2, <1>3, <1>4, Zenon DEF SearchEntry, LookupEntry

(* searchHashChain and lookupHashChain keep the types at an entry.          *)
LEMMA EntryStepType ==
  ASSUME ChainType, NEW p \in Procs, SearchEntry(p) \/ LookupEntry(p)
  PROVE  ChainType'
<1> USE DEF ChainType
<1> DEFINE id == Command(p).id
           i == loc[p].list[1]
<1>1. todo[p] # <<>> /\ loc[p].pc = "entry" /\ Command(p).cmd \in {"search", "lookup"}
  BY EntryShape
<1>2. UNCHANGED <<chain, branch, reply, Hashchains>>
  BY EntryShape DEF server
<1>3. id \in Ids
  <2>1. todo[p] \in Seq(Cmd)
    BY DEF ProcTypes
  <2>2. todo[p][1] \in Cmd
    BY <1>1, <2>1
  <2> QED BY <2>2 DEF Command, Cmd
<1>4. CASE EntryFails(p, id, i)
  <2>1. DataTypes'
    BY <1>2, <1>4 DEF DataTypes, EntryFails
  <2> QED BY <1>4, <2>1, ErrorType DEF EntryFails
<1>5. CASE EntryPasses(p, id, i)
  <2>1. PICK m \in BOOLEAN : Skip(p, m)
    BY <1>5 DEF EntryPasses
  <2> DEFINE l == [loc[p] EXCEPT !.list = Tail(@), !.match = @ \/ m]
  <2>2. LocType(l) /\ l.pc = "entry"
    BY <1>1 DEF ProcTypes, LocType
  <2>3. Goto(p, l) /\ UNCHANGED <<PublicUIDs, todo, outcome>>
    BY <2>1 DEF Skip
  <2> HIDE DEF l
  <2>4. DataTypes'
    BY <1>2, <2>3 DEF DataTypes
  <2> QED BY <1>1, <2>2, <2>3, <2>4, GotoType
<1>6. CASE EntryAdds(p, id, i)
  <2> DEFINE l == [loc[p] EXCEPT !.list = Tail(@), !.match = TRUE]
  <2>1. LocType(l) /\ l.pc = "entry"
    BY <1>1 DEF ProcTypes, LocType
  <2>2. /\ Goto(p, l) /\ UNCHANGED <<todo, outcome>> /\ i \in DOMAIN Hashchains
        /\ PublicUIDs' = PublicUIDs \cup {[id |-> id, pos |-> i, content |-> FetchUID(i)]}
    BY <1>6 DEF EntryAdds, AddPublicUID
  <2> HIDE DEF l, id, i
  <2>3. FetchUID(i) \in Content /\ i \in Position
    BY <2>2 DEF DataTypes, FetchUID, Row
  <2>4. PublicUIDs' \subseteq [id : Ids, pos : Position, content : Content]
    BY <1>3, <2>2, <2>3 DEF DataTypes
  <2>5. DataTypes'
    BY <1>2, <2>4 DEF DataTypes
  <2> QED BY <1>1, <2>1, <2>2, <2>5, GotoType
<1> QED BY <1>4, <1>5, <1>6, EntryShape

(* The other commands.                                                      *)
LEMMA CommandType ==
  ASSUME ChainType, NEW p \in Procs,
         \/ Validate(p) \/ SearchBegin(p) \/ SearchEnd(p) \/ LookupUID(p)
         \/ FetchKeyInit(p) \/ DelHashChain(p) \/ Fault(p)
  PROVE  ChainType'
<1> USE DEF ChainType
<1>1. CASE Validate(p)
  BY <1>1, DoneType, ErrorType, DataSame DEF Validate, Running
<1>2. CASE SearchBegin(p)
  <2>1. DataTypes'
    BY <1>2, DataSame DEF SearchBegin
  <2>2. todo[p] # <<>> /\ Command(p).cmd = "search"
    BY <1>2 DEF SearchBegin, Running
  <2>3. CASE Error(p, "empty")
    BY <2>1, <2>3, ErrorType
  <2>4. CASE /\ Goto(p, [loc[p] EXCEPT !.pc = "entry", !.max = GetLastHashChainPos,
                           !.list = [k \in 1 .. GetLastHashChainPos + 1 |-> k - 1]])
             /\ UNCHANGED <<todo, outcome>>
    <3> DEFINE l == [loc[p] EXCEPT !.pc = "entry", !.max = GetLastHashChainPos,
                       !.list = [k \in 1 .. GetLastHashChainPos + 1 |-> k - 1]]
    <3>1. LocType(l) /\ l.pc = "entry"
      BY LastPosition, ChainBounds DEF ProcTypes, LocType
    <3> HIDE DEF l
    <3>2. Goto(p, l)
      BY <2>4 DEF l
    <3> QED BY <2>1, <2>2, <2>4, <3>1, <3>2, GotoType
  <2> QED BY <1>2, <2>3, <2>4 DEF SearchBegin
<1>3. CASE SearchEnd(p)
  BY <1>3, DoneType, ErrorType, DataSame DEF SearchEnd
<1>4. CASE LookupUID(p)
  <2>1. DataTypes'
    BY <1>4, DataSame DEF LookupUID
  <2>2. todo[p] # <<>> /\ Command(p).cmd = "lookup" /\ UNCHANGED <<todo, outcome>>
    BY <1>4 DEF LookupUID, Running
  <2>3. PICK s : Goto(p, [loc[p] EXCEPT !.pc = "entry", !.list = s])
    BY <1>4, Zenon DEF LookupUID
  <2> DEFINE l == [loc[p] EXCEPT !.pc = "entry", !.list = s]
  <2>4. LocType(l) /\ l.pc = "entry" /\ Goto(p, l)
    BY <2>3 DEF ProcTypes, LocType
  <2> HIDE DEF l
  <2> QED BY <2>1, <2>2, <2>4, GotoType
<1>5. CASE FetchKeyInit(p)
  BY <1>5, DoneType, ErrorType, DataSame DEF FetchKeyInit, Running
<1>6. CASE DelHashChain(p)
  <2>1. ProcTypes'
    BY <1>6, DoneType DEF DelHashChain, Running
  <2>2. Hashchains' = [i \in {} |-> chain[1]]
    BY <1>6 DEF DelHashChain
  <2>3. Hashchains' \in [DOMAIN Hashchains' -> Row] /\ DOMAIN Hashchains' \subseteq Position
    BY <2>2
  <2>4. UNCHANGED <<chain, branch, reply, PublicUIDs>>
    BY <1>6 DEF DelHashChain, server
  <2> QED BY <2>1, <2>3, <2>4 DEF DataTypes
<1>7. CASE Fault(p)
  BY <1>7, ErrorType, DataSame DEF Fault
<1> QED BY <1>1, <1>2, <1>3, <1>4, <1>5, <1>6, <1>7

(* Type correctness.                                                        *)
LEMMA NextType == ChainType /\ [Next]_vars => ChainType'
<1> SUFFICES ASSUME ChainType, [Next]_vars
             PROVE  ChainType'
  OBVIOUS
<1>1. CASE UNCHANGED vars
  BY <1>1 DEF vars, server, keydb, ChainType, ProcTypes, DataTypes, PcFits, Command
<1>2. CASE \E p \in Procs : Start(p)
  <2>1. PICK p \in Procs : Start(p)
    BY <1>2
  <2> QED BY <2>1, StartType, DataSame, Zenon DEF Start, ChainType
<1> QED
  BY <1>1, <1>2, CreateType, RewriteType, SyncType, StoreType, EntryStepType,
     CommandType DEF Next

(* The types hold of an empty key database.                                 *)
LEMMA InitType == Init => ChainType
<1> SUFFICES ASSUME Init PROVE ChainType
  OBVIOUS
<1>1. ProcTypes
  <2>1. \A p \in Procs : todo[p] = <<>> /\ loc[p] = Rest
    BY Zenon DEF Init
  <2>2. \A p \in Procs : PcFits(p)
    BY <2>1, RestType DEF PcFits
  <2>3. todo \in [Procs -> Seq(Cmd)]
    <3>1. todo = [p \in Procs |-> <<>>]
      BY Zenon DEF Init
    <3>2. <<>> \in Seq(Cmd)
      OBVIOUS
    <3> QED BY <3>1, <3>2
  <2> QED BY <2>1, <2>2, <2>3, RestType, PlanNone, Zenon DEF Init, ProcTypes
<1>2. DataTypes
  <2> DEFINE c == [id |-> Keyserver, srv |-> 0, branch |-> 0]
             e == [content |-> c, hash |-> <<c>>]
  <2>1. c \in Content
    BY DEF Content, Ids
  <2>2. e \in Row
    <3> HIDE DEF c, Content
    <3> QED BY <2>1 DEF Row
  <2>3. chain = <<e>>
    BY Zenon DEF Init
  <2> HIDE DEF e, Row
  <2>4. chain \in Seq(Row) /\ Len(chain) = 1
    BY <2>2, <2>3
  <2>5. Len(chain) \in 1 .. MaxLen + 1
    BY <2>4, ChainBounds
  <2>6. branch = 0
    BY Zenon DEF Init
  <2>7. 0 \in 0 .. MaxRewrites
    BY ChainBounds
  <2> QED BY <2>4, <2>5, <2>6, <2>7, Zenon DEF Init, DataTypes
<1> QED BY <1>1, <1>2 DEF ChainType

-----------------------------------------------------------------------------
(* The keys of stored UIDs *)

(* ServerKeysKnown is inductive: the key that a UID is verified with is the *)
(* one that GetPublicUID has found.                                         *)
LEMMA NextKnown == ChainType /\ ServerKeysKnown /\ [Next]_vars => ServerKeysKnown'
<1> SUFFICES ASSUME ChainType, ServerKeysKnown, [Next]_vars
             PROVE  ServerKeysKnown'
  OBVIOUS
<1>1. CASE UNCHANGED PublicUIDs
  BY <1>1 DEF ServerKeysKnown
<1>2. CASE \E p \in Procs : SearchEntry(p) \/ LookupEntry(p)
  <2>1. PICK p \in Procs : SearchEntry(p) \/ LookupEntry(p)
    BY <1>2
  <2> DEFINE id == Command(p).id
             i == loc[p].list[1]
  <2>2. CASE EntryFails(p, id, i) \/ EntryPasses(p, id, i)
    BY <1>1, <2>2, Zenon DEF EntryFails, EntryPasses, Skip
  <2>3. CASE EntryAdds(p, id, i)
    <3> DEFINE c == FetchUID(i)
               new == [id |-> id, pos |-> i, content |-> c]
    <3>1. /\ i \in DOMAIN Hashchains /\ c.id = id /\ VerifyServerSig(c, i)
          /\ PublicUIDs' = PublicUIDs \cup {new}
      BY <2>3 DEF EntryAdds, AddPublicUID, FetchUID
    <3>2. i \in Nat /\ c \in Content
      BY <3>1, ChainBounds DEF ChainType, DataTypes, Position, Row, FetchUID
    <3>3. c.srv \in Nat
      BY <3>2 DEF Content
    <3> HIDE DEF c, id, i
    <3>4. CASE c.id = Keyserver /\ i = 0
      BY <3>1, <3>4 DEF ServerKeysKnown
    <3>5. CASE GetPublicUID(Keyserver, i) = c.srv
      <4>1. Stored(Keyserver, c.srv)
        BY <3>2, <3>3, <3>5, UIDPosition DEF ChainType
      <4> QED BY <3>1, <4>1 DEF ServerKeysKnown, Stored
    <3> QED BY <3>1, <3>4, <3>5 DEF VerifyServerSig
  <2> QED BY <2>1, <2>2, <2>3, EntryShape
<1>3. CASE \E id \in Ids : CreateUID(id)
  BY <1>1, <1>3 DEF CreateUID, keydb
<1>4. CASE Rewrite
  BY <1>1, <1>4 DEF Rewrite, keydb
<1>5. CASE \E p \in Procs : \/ Start(p) \/ FetchLastHashChain(p) \/ FetchHashChain(p)
                            \/ StoreEntry(p) \/ StoreFails(p) \/ Validate(p)
  BY <1>1, <1>5, Zenon DEF Start, FetchLastHashChain, FetchHashChain, StoreEntry, StoreFails,
                    Validate, keydb
<1>6. CASE \E p \in Procs : \/ SearchBegin(p) \/ SearchEnd(p) \/ LookupUID(p)
                            \/ FetchKeyInit(p) \/ DelHashChain(p) \/ Fault(p)
  BY <1>1, <1>6 DEF SearchBegin, SearchEnd, LookupUID, FetchKeyInit, DelHashChain,
                    Fault, keydb
<1>7. CASE UNCHANGED vars
  BY <1>1, <1>7 DEF vars, keydb
<1> QED BY <1>2, <1>3, <1>4, <1>5, <1>6, <1>7 DEF Next

(* Every stored UID but the first was verified with a server key that is    *)
(* itself stored, in whatever order processes search, sync, delete and fail.*)
THEOREM KnownKeys == Spec => []ServerKeysKnown
<1>1. Init => ServerKeysKnown
  BY Zenon DEF Init, ServerKeysKnown
<1> QED
  BY <1>1, InitType, NextType, NextKnown, PTL DEF Spec

-----------------------------------------------------------------------------
(* No gap *)

(* How a step changes the rows: not at all, by one, or by deleting them all.*)
LEMMA RowsChange ==
  ASSUME [Next]_vars
  PROVE  \/ UNCHANGED Hashchains
         \/ \E p \in Procs : StoreEntry(p) /\ loc[p].got # <<>>
         \/ \E p \in Procs : DelHashChain(p)
<1>1. CASE \E id \in Ids : CreateUID(id)
  BY <1>1 DEF CreateUID, keydb
<1>2. CASE Rewrite
  BY <1>2 DEF Rewrite, keydb
<1>3. CASE \E p \in Procs : \/ Start(p) \/ FetchLastHashChain(p) \/ FetchHashChain(p)
                            \/ StoreEntry(p) \/ StoreFails(p) \/ Validate(p)
  BY <1>3, Zenon DEF Start, FetchLastHashChain, FetchHashChain, StoreEntry, StoreFails,
              Validate, keydb
<1>4. CASE \E p \in Procs : \/ SearchBegin(p) \/ SearchEnd(p) \/ LookupUID(p)
                            \/ FetchKeyInit(p) \/ Fault(p)
  BY <1>4 DEF SearchBegin, SearchEnd, LookupUID, FetchKeyInit, Fault, keydb
<1>5. CASE \E p \in Procs : SearchEntry(p) \/ LookupEntry(p)
  BY <1>5, EntryShape
<1>6. CASE UNCHANGED vars
  BY <1>6 DEF vars, keydb
<1> QED BY <1>1, <1>2, <1>3, <1>4, <1>5, <1>6 DEF Next

(* A row is stored.                                                         *)
LEMMA StoreRow ==
  ASSUME ChainType, NEW p \in Procs, StoreEntry(p), loc[p].got # <<>>
  PROVE  /\ loc[p].pc = "store" /\ loc[p].i \in Nat
         /\ loc[p].got \in Seq(Row) /\ Len(loc[p].got) \in Nat /\ Len(loc[p].got) > 0
         /\ DOMAIN Hashchains' = DOMAIN Hashchains \cup {loc[p].i}
         /\ \A i \in DOMAIN Hashchains : Hashchains'[i] = Hashchains[i]
         /\ loc[p].i \notin DOMAIN Hashchains => Hashchains'[loc[p].i] = loc[p].got[1]
         /\ loc'[p].pc = "store" /\ loc'[p].i = loc[p].i + 1
         /\ loc'[p].got = Tail(loc[p].got)
         /\ \A q \in Procs : q # p => loc'[q] = loc[q]
         /\ UNCHANGED <<server, PublicUIDs, todo>>
<1>1. /\ loc[p].pc = "store"
      /\ AddHashChainEntry(loc[p].i, loc[p].got[1])
      /\ Goto(p, [loc[p] EXCEPT !.i = @ + 1, !.got = Tail(@)])
      /\ UNCHANGED <<server, PublicUIDs, todo>>
  BY DEF StoreEntry, Running
<1>2. loc[p].i \in Nat /\ loc[p].got \in Seq(Row) /\ DOMAIN loc = Procs
  BY DEF ChainType, ProcTypes, LocType
<1>3. Len(loc[p].got) \in Nat /\ Len(loc[p].got) > 0
  <2> DEFINE g == loc[p].got
  <2> HIDE DEF Row, g
  <2>1. g \in Seq(Row) /\ g # <<>>
    BY <1>2 DEF g
  <2>2. Len(g) \in Nat /\ Len(g) # 0
    BY <2>1
  <2> QED BY <2>2 DEF g
<1>4. /\ DOMAIN Hashchains' = DOMAIN Hashchains \cup {loc[p].i}
      /\ \A i \in DOMAIN Hashchains : Hashchains'[i] = Hashchains[i]
      /\ loc[p].i \notin DOMAIN Hashchains => Hashchains'[loc[p].i] = loc[p].got[1]
  BY <1>1 DEF AddHashChainEntry
<1>5. /\ loc'[p].pc = "store" /\ loc'[p].i = loc[p].i + 1
      /\ loc'[p].got = Tail(loc[p].got)
      /\ \A q \in Procs : q # p => loc'[q] = loc[q]
  BY <1>1, <1>2 DEF Goto, ChainType, ProcTypes, LocType
<1> QED BY <1>1, <1>2, <1>3, <1>4, <1>5

(* Process p has just fetched the rows that follow the last one.            *)
Fetched(p) ==
  /\ loc[p].pc = "fetch"
  /\ GetLastHashChainPos < loc[p].told /\ loc[p].told < Len(chain)
  /\ loc'[p].i = GetLastHashChainPos + 1
  /\ loc'[p].got = SubSeq(chain, GetLastHashChainPos + 2, loc[p].told + 1)
  /\ UNCHANGED <<server, keydb>>

(* A process that is about to store rows has been so before, has just       *)
(* fetched them, or has stored one of them.                                 *)
LEMMA StoringNext ==
  ASSUME ChainType, [Next]_vars, NEW q \in Procs, loc'[q].pc = "store"
  PROVE  \/ loc'[q] = loc[q]
         \/ Fetched(q)
         \/ StoreEntry(q) /\ loc[q].got # <<>>
<1> SUFFICES ASSUME loc'[q] # loc[q]
             PROVE  Fetched(q) \/ (StoreEntry(q) /\ loc[q].got # <<>>)
  OBVIOUS
<1>1. \A p \in Procs : \A l : Goto(p, l) =>
        (loc'[p] = l /\ \A r \in Procs : r # p => loc'[r] = loc[r])
  BY DEF Goto, ChainType, ProcTypes
<1>2. \A p \in Procs : ~Done(p) \/ q # p
  BY <1>1, RestType, Zenon DEF Done
<1>3. \A p \in Procs : \A what : ~Error(p, what) \/ q # p
  BY <1>1, RestType DEF Error
<1>4. LocType(loc[q])
  BY DEF ChainType, ProcTypes
<1>5. CASE \/ \E id \in Ids : CreateUID(id)
           \/ Rewrite
           \/ \E p \in Procs : Start(p)
           \/ UNCHANGED vars
  BY <1>5, Zenon DEF CreateUID, Rewrite, Start, vars
<1>6. CASE \E p \in Procs : FetchLastHashChain(p)
  <2>1. PICK p \in Procs : FetchLastHashChain(p)
    BY <1>6
  <2>2. Goto(p, [loc[p] EXCEPT !.pc = "fetch", !.told = Len(chain) - 1]) /\ p = q
    BY <1>1, <2>1 DEF FetchLastHashChain
  <2>3. loc'[q] = [loc[q] EXCEPT !.pc = "fetch", !.told = Len(chain) - 1]
    BY <1>1, <2>2
  <2> QED BY <1>4, <2>3 DEF LocType
<1>7. CASE \E p \in Procs : FetchHashChain(p)
  <2>1. PICK p \in Procs : FetchHashChain(p)
    BY <1>7
  <2>2. CASE Done(p) \/ Error(p, "refused")
    BY <1>1, <1>2, <1>3, <2>2, Zenon DEF Done, Error
  <2>3. CASE /\ GetLastHashChainPos < loc[p].told
             /\ loc[p].told < Len(chain)
             /\ Goto(p, [loc[p] EXCEPT !.pc = "store", !.i = NextPosition,
                           !.got = SubSeq(chain, NextPosition + 1, loc[p].told + 1)])
    <3>1. p = q /\ loc[p].pc = "fetch" /\ UNCHANGED <<server, keydb>>
      BY <1>1, <2>1, <2>3 DEF FetchHashChain, Running
    <3>2. loc'[q].i = NextPosition
          /\ loc'[q].got = SubSeq(chain, NextPosition + 1, loc[q].told + 1)
      <4>1. loc'[q] = [loc[q] EXCEPT !.pc = "store", !.i = NextPosition,
                         !.got = SubSeq(chain, NextPosition + 1, loc[q].told + 1)]
        BY <1>1, <2>3, <3>1
      <4> QED BY <1>4, <4>1, Zenon DEF LocType
    <3>3. NextPosition = GetLastHashChainPos + 1
          /\ NextPosition + 1 = GetLastHashChainPos + 2
      BY LastPosition DEF NextPosition, ChainType
    <3> QED BY <2>3, <3>1, <3>2, <3>3, Zenon DEF Fetched
  <2> QED BY <2>1, <2>2, <2>3 DEF FetchHashChain
<1>8. CASE \E p \in Procs : StoreEntry(p)
  <2>1. PICK p \in Procs : StoreEntry(p)
    BY <1>8
  <2>2. CASE loc[p].got = <<>> /\ Done(p)
    BY <1>1, <1>2, <2>2, Zenon DEF Done
  <2>3. CASE loc[p].got # <<>>
    BY <2>1, <2>3, StoreRow, Zenon
  <2> QED BY <2>1, <2>2, <2>3 DEF StoreEntry
<1>9. CASE \E p \in Procs : StoreFails(p) \/ Validate(p) \/ SearchEnd(p) \/ FetchKeyInit(p)
                            \/ DelHashChain(p) \/ Fault(p)
  <2>1. PICK p \in Procs : Done(p) \/ \E what : Error(p, what)
    BY <1>9 DEF StoreFails, Validate, SearchEnd, FetchKeyInit, DelHashChain, Fault
  <2> QED BY <1>1, <1>2, <1>3, <2>1, Zenon DEF Done, Error
<1>10. CASE \E p \in Procs : SearchBegin(p) \/ LookupUID(p)
  <2>1. PICK p \in Procs : SearchBegin(p) \/ LookupUID(p)
    BY <1>10
  <2>2. CASE Error(p, "empty")
    BY <1>1, <1>3, <2>2, Zenon DEF Error
  <2>3. CASE \E m, s : Goto(p, [loc[p] EXCEPT !.pc = "entry", !.max = m, !.list = s])
                       \/ Goto(p, [loc[p] EXCEPT !.pc = "entry", !.list = s])
    <3>1. PICK m, s : \/ Goto(p, [loc[p] EXCEPT !.pc = "entry", !.max = m, !.list = s])
                      \/ Goto(p, [loc[p] EXCEPT !.pc = "entry", !.list = s])
      BY <2>3, Zenon
    <3>2. p = q
      BY <1>1, <3>1
    <3>3. \/ loc'[q] = [loc[q] EXCEPT !.pc = "entry", !.max = m, !.list = s]
          \/ loc'[q] = [loc[q] EXCEPT !.pc = "entry", !.list = s]
      BY <1>1, <3>1, <3>2
    <3> QED BY <1>4, <3>3, Zenon DEF LocType
  <2> QED BY <2>1, <2>2, <2>3, Zenon DEF SearchBegin, LookupUID
<1>11. CASE \E p \in Procs : SearchEntry(p) \/ LookupEntry(p)
  <2>1. PICK p \in Procs : SearchEntry(p) \/ LookupEntry(p)
    BY <1>11
  <2>2. loc[p].pc = "entry"
    BY <2>1, EntryShape
  <2>3. CASE EntryFails(p, Command(p).id, loc[p].list[1])
    BY <1>1, <1>3, <2>3 DEF EntryFails, Error
  <2>4. CASE \/ EntryPasses(p, Command(p).id, loc[p].list[1])
             \/ EntryAdds(p, Command(p).id, loc[p].list[1])
    <3>1. PICK m, s : Goto(p, [loc[p] EXCEPT !.list = s, !.match = m])
      BY <2>4, Zenon DEF EntryPasses, EntryAdds, Skip, AddPublicUID
    <3>2. p = q
      BY <1>1, <3>1
    <3>3. loc'[q] = [loc[q] EXCEPT !.list = s, !.match = m]
      BY <1>1, <3>1, <3>2
    <3> QED BY <1>4, <2>2, <3>2, <3>3 DEF LocType
  <2> QED BY <2>1, <2>3, <2>4, EntryShape
<1> QED
  BY <1>5, <1>6, <1>7, <1>8, <1>9, <1>10, <1>11 DEF Next

(* Nobody else is there when the chain is deleted.                          *)
LEMMA DeleteAlone ==
  ASSUME DeletesAlone, ChainType, NEW p \in Procs, DelHashChain(p)
  PROVE  OneProcess /\ Done(p) /\ DOMAIN Hashchains' = {}
<1>1. todo[p] # <<>> /\ Command(p).cmd = "delete" /\ Done(p) /\ DOMAIN Hashchains' = {}
  BY DEF DelHashChain, Running
<1>2. Plan(todo[p]) /\ todo[p][1].cmd = "delete"
  BY <1>1 DEF ChainType, ProcTypes, Command
<1> QED BY <1>1, <1>2, FirstCommand DEF DeletesAlone

(* CopyInv is inductive as long as nobody deletes the chain meanwhile: the  *)
(* rows are fetched from the last one on, and stored one by one.            *)
LEMMA NextCopy ==
  ASSUME DeletesAlone
  PROVE  ChainType /\ CopyInv /\ [Next]_vars => CopyInv'
<1> SUFFICES ASSUME ChainType, CopyInv, [Next]_vars
             PROVE  CopyInv'
  OBVIOUS
<1> DEFINE last == GetLastHashChainPos
<1>1. last \in -1 .. MaxLen /\ DOMAIN Hashchains = 0 .. last
  BY LastPosition DEF ChainType, CopyInv, Gapless
<1>2. CASE UNCHANGED Hashchains
  <2>1. Gapless' /\ last' = last
    BY <1>2 DEF CopyInv, Gapless, GetLastHashChainPos
  <2>2. ASSUME NEW q \in Procs, loc'[q].pc = "store"
        PROVE  0 .. loc'[q].i - 1 \subseteq DOMAIN Hashchains
    <3>1. CASE loc'[q] = loc[q]
      BY <2>2, <3>1 DEF CopyInv
    <3>2. CASE Fetched(q)
      BY <1>1, <3>2, ChainBounds DEF Fetched
    <3>3. CASE StoreEntry(q) /\ loc[q].got # <<>>
      <4>1. loc[q].i \in DOMAIN Hashchains /\ loc[q].i \in Nat /\ loc'[q].i = loc[q].i + 1
        BY <1>2, <3>3, StoreRow, Zenon
      <4>2. 0 .. loc[q].i - 1 \subseteq DOMAIN Hashchains
        BY <3>3, StoreRow, Zenon DEF CopyInv
      <4>3. 0 .. (loc[q].i + 1) - 1 = (0 .. loc[q].i - 1) \cup {loc[q].i}
        BY <4>1
      <4> QED BY <4>1, <4>2, <4>3
    <3> QED BY <2>2, <3>1, <3>2, <3>3, StoringNext
  <2> QED BY <1>2, <2>1, <2>2 DEF CopyInv
<1>3. CASE \E p \in Procs : StoreEntry(p) /\ loc[p].got # <<>>
  <2>1. PICK p \in Procs : StoreEntry(p) /\ loc[p].got # <<>>
    BY <1>3
  <2> DEFINE n == loc[p].i
  <2>2. /\ n \in Nat /\ loc[p].pc = "store"
        /\ DOMAIN Hashchains' = DOMAIN Hashchains \cup {n}
        /\ loc'[p].i = n + 1
        /\ \A q \in Procs : q # p => loc'[q] = loc[q]
    BY <2>1, StoreRow, Zenon
  <2>3. 0 .. n - 1 \subseteq DOMAIN Hashchains
    BY <2>2 DEF CopyInv
  <2>4. n <= last + 1
    <3> HIDE DEF n, last
    <3>1. CASE n = 0
      BY <1>1, <3>1
    <3>2. CASE n # 0
      <4>1. n - 1 \in 0 .. n - 1
        BY <2>2, <3>2
      <4>2. n - 1 \in 0 .. last
        BY <1>1, <2>3, <4>1
      <4> QED BY <1>1, <2>2, <4>2
    <3> QED BY <3>1, <3>2
  <2>5. PICK m \in Int : m >= -1 /\ DOMAIN Hashchains' = 0 .. m
    <3> HIDE DEF n, last
    <3>1. CASE n = last + 1
      <4>1. DOMAIN Hashchains' = 0 .. n
        BY <1>1, <2>2, <3>1
      <4> QED BY <2>2, <4>1
    <3>2. CASE n # last + 1
      <4>1. n \in 0 .. last
        BY <1>1, <2>2, <2>4, <3>2
      <4>2. DOMAIN Hashchains' = 0 .. last
        BY <1>1, <2>2, <4>1
      <4> QED BY <1>1, <4>2
    <3> QED BY <3>1, <3>2
  <2>6. Gapless'
    BY <2>5, MaxOfInterval DEF Gapless, GetLastHashChainPos
  <2>7. ASSUME NEW q \in Procs, loc'[q].pc = "store"
        PROVE  0 .. loc'[q].i - 1 \subseteq DOMAIN Hashchains'
    <3>1. CASE q = p
      <4>1. 0 .. (n + 1) - 1 = (0 .. n - 1) \cup {n}
        BY <2>2
      <4> QED BY <2>2, <2>3, <3>1, <4>1
    <3>2. CASE q # p
      BY <2>2, <2>7, <3>2 DEF CopyInv
    <3> QED BY <3>1, <3>2
  <2> QED BY <2>6, <2>7 DEF CopyInv
<1>4. CASE \E p \in Procs : DelHashChain(p)
  <2>1. PICK p \in Procs : DelHashChain(p)
    BY <1>4
  <2>2. OneProcess /\ Done(p) /\ DOMAIN Hashchains' = {}
    BY <2>1, DeleteAlone
  <2>4. \A q \in Procs : loc'[q].pc # "store"
    BY <2>2, RestType, Zenon DEF Done, Goto, ChainType, ProcTypes, OneProcess
  <2>5. Gapless'
    <3>1. DOMAIN Hashchains' = 0 .. -1
      BY <2>2
    <3> QED BY <3>1, MaxOfInterval DEF Gapless, GetLastHashChainPos
  <2> QED BY <2>4, <2>5 DEF CopyInv
<1> QED BY <1>2, <1>3, <1>4, RowsChange

(* An empty table has no gap.                                               *)
LEMMA InitCopy == Init => CopyInv
<1> SUFFICES ASSUME Init PROVE CopyInv
  OBVIOUS
<1>1. DOMAIN Hashchains = 0 .. -1
  <2>1. DOMAIN Hashchains = {}
    BY Zenon DEF Init
  <2> QED BY <2>1
<1>2. Gapless
  BY <1>1, MaxOfInterval DEF Gapless, GetLastHashChainPos
<1>3. \A p \in Procs : loc[p].pc # "store"
  BY RestType, Zenon DEF Init
<1> QED BY <1>2, <1>3 DEF CopyInv

(* Whatever was interrupted or failed, and with any number of processes     *)
(* syncing at once, the rows of syncHashChain leave no gap, as long as no   *)
(* process deletes the chain while another one stores rows.                 *)
THEOREM NoGap ==
  ASSUME DeletesAlone
  PROVE  Spec => []Gapless
<1>1. CopyInv => Gapless
  BY DEF CopyInv
<1>2. ChainType /\ CopyInv /\ [Next]_vars => CopyInv'
  BY NextCopy
<1> QED
  BY <1>1, <1>2, InitType, InitCopy, NextType, PTL DEF Spec

-----------------------------------------------------------------------------
(* Search *)

(* A step of the commands of process p.                                     *)
ProcStep(p) ==
  \/ Start(p)
  \/ FetchLastHashChain(p) \/ FetchHashChain(p)
  \/ StoreEntry(p) \/ StoreFails(p)
  \/ Validate(p)
  \/ SearchBegin(p) \/ SearchEntry(p) \/ SearchEnd(p)
  \/ LookupUID(p) \/ LookupEntry(p)
  \/ FetchKeyInit(p)
  \/ DelHashChain(p)
  \/ Fault(p)

(* Every step is one of the server or one of a process.                     *)
LEMMA NextCases ==
  ASSUME [Next]_vars
  PROVE  \/ (\E id \in Ids : CreateUID(id)) \/ Rewrite \/ UNCHANGED vars
         \/ \E p \in Procs : ProcStep(p)
BY DEF Next, ProcStep

(* A step of the server leaves the processes alone.                         *)
LEMMA ServerStep ==
  ASSUME (\E id \in Ids : CreateUID(id)) \/ Rewrite \/ UNCHANGED vars
  PROVE  UNCHANGED <<Hashchains, PublicUIDs, todo, loc, outcome>>
BY DEF CreateUID, Rewrite, vars, keydb

(* What a step of p does to its own command.                                *)
LEMMA OwnStep ==
  ASSUME NEW p \in Procs, ProcStep(p)
  PROVE  \/ Start(p)
         \/ (\E l : Goto(p, l)) /\ UNCHANGED <<todo, outcome>>
         \/ todo[p] # <<>> /\ (Done(p) \/ \E what : Error(p, what))
<1>1. CASE Start(p) \/ FetchLastHashChain(p) \/ FetchHashChain(p)
  BY <1>1 DEF FetchLastHashChain, FetchHashChain, Running
<1>2. CASE StoreEntry(p) \/ StoreFails(p) \/ Validate(p)
  BY <1>2 DEF StoreEntry, StoreFails, Validate, Running
<1>3. CASE SearchBegin(p) \/ SearchEnd(p) \/ LookupUID(p)
  BY <1>3 DEF SearchBegin, SearchEnd, LookupUID, Running
<1>4. CASE FetchKeyInit(p) \/ DelHashChain(p) \/ Fault(p)
  BY <1>4 DEF FetchKeyInit, DelHashChain, Fault, Running
<1>5. CASE SearchEntry(p) \/ LookupEntry(p)
  BY <1>5, EntryShape, Zenon DEF EntryFails, EntryPasses, EntryAdds, Skip, AddPublicUID
<1> QED BY <1>1, <1>2, <1>3, <1>4, <1>5, Zenon DEF ProcStep

(* It leaves the commands of other processes alone.                         *)
LEMMA OtherProcs ==
  ASSUME ChainType, NEW p \in Procs, ProcStep(p), NEW q \in Procs, q # p
  PROVE  todo'[q] = todo[q] /\ loc'[q] = loc[q] /\ outcome'[q] = outcome[q]
<1>1. DOMAIN todo = Procs /\ DOMAIN loc = Procs /\ DOMAIN outcome = Procs
  BY DEF ChainType, ProcTypes
<1>2. CASE Start(p)
  BY <1>1, <1>2, Zenon DEF Start
<1>3. CASE (\E l : Goto(p, l)) /\ UNCHANGED <<todo, outcome>>
  BY <1>1, <1>3 DEF Goto
<1>4. CASE Done(p) \/ \E what : Error(p, what)
  BY <1>1, <1>4, Zenon DEF Done, Error, Goto
<1> QED BY <1>2, <1>3, <1>4, OwnStep

(* Stored UIDs stay.                                                        *)
LEMMA UIDsGrow ==
  ASSUME [Next]_vars
  PROVE  PublicUIDs \subseteq PublicUIDs'
<1>1. CASE (\E id \in Ids : CreateUID(id)) \/ Rewrite \/ UNCHANGED vars
  BY <1>1, ServerStep
<1>2. ASSUME NEW p \in Procs, ProcStep(p)
      PROVE  PublicUIDs \subseteq PublicUIDs'
  <2>1. CASE SearchEntry(p) \/ LookupEntry(p)
    BY <2>1, EntryShape, Zenon DEF EntryFails, EntryPasses, EntryAdds, Skip, AddPublicUID
  <2>2. CASE \/ Start(p) \/ FetchLastHashChain(p) \/ FetchHashChain(p)
             \/ StoreEntry(p) \/ StoreFails(p) \/ Validate(p)
    BY <2>2, Zenon DEF Start, FetchLastHashChain, FetchHashChain, StoreEntry, StoreFails,
                Validate, keydb
  <2>3. CASE \/ SearchBegin(p) \/ SearchEnd(p) \/ LookupUID(p)
             \/ FetchKeyInit(p) \/ DelHashChain(p) \/ Fault(p)
    BY <2>3 DEF SearchBegin, SearchEnd, LookupUID, FetchKeyInit, DelHashChain,
                Fault, keydb
  <2> QED BY <1>2, <2>1, <2>2, <2>3 DEF ProcStep
<1> QED BY <1>1, <1>2, NextCases

(* While a process is searching, the rows that are there stay.              *)
LEMMA RowsStay ==
  ASSUME DeletesAlone, ChainType, [Next]_vars, NEW q \in Procs, loc'[q].pc = "entry"
  PROVE  /\ DOMAIN Hashchains \subseteq DOMAIN Hashchains'
         /\ \A i \in DOMAIN Hashchains : Hashchains'[i] = Hashchains[i]
<1>1. CASE UNCHANGED Hashchains
  BY <1>1
<1>2. CASE \E p \in Procs : StoreEntry(p) /\ loc[p].got # <<>>
  BY <1>2, StoreRow, Zenon
<1>3. CASE \E p \in Procs : DelHashChain(p)
  <2>1. PICK p \in Procs : DelHashChain(p)
    BY <1>3
  <2>2. OneProcess /\ Done(p)
    BY <2>1, DeleteAlone
  <2>3. loc'[p] = Rest
    BY <2>2, Zenon DEF Done, Goto, ChainType, ProcTypes
  <2>4. p = q
    BY <2>2 DEF OneProcess
  <2> QED BY <2>3, <2>4, RestType
<1> QED BY <1>1, <1>2, <1>3, RowsChange

(* A process that searches has done so before, or begins.                   *)
Same(q) == loc'[q] = loc[q] /\ todo'[q] = todo[q]

Begun(q) ==
  /\ UNCHANGED <<server, keydb>> /\ todo'[q] = todo[q]
  /\ GetLastHashChainPos >= 0
  /\ loc'[q].max = GetLastHashChainPos
  /\ loc'[q].list = [k \in 1 .. GetLastHashChainPos + 1 |-> k - 1]

Passed(q) ==
  LET i  == loc[q].list[1]
      id == Command(q).id
  IN  /\ Running(q, "search", "entry") /\ loc[q].list # <<>>
      /\ UNCHANGED <<server, Hashchains>> /\ todo'[q] = todo[q]
      /\ loc'[q].list = Tail(loc[q].list) /\ loc'[q].max = loc[q].max
      /\ i \in DOMAIN Hashchains
      /\ Hashchains[i].content.id = id => \E u \in PublicUIDs' : u.id = id /\ u.pos = i

(* A search goes on as it was, begins, or passes an entry.                  *)
LEMMA SearchNext ==
  ASSUME ChainType, [Next]_vars, NEW q \in Procs, Running(q, "search", "entry")'
  PROVE  Same(q) \/ Begun(q) \/ Passed(q)
<1>1. todo'[q] # <<>> /\ todo'[q][1].cmd = "search" /\ loc'[q].pc = "entry"
  BY DEF Running, Command
<1>2. /\ DOMAIN todo = Procs /\ DOMAIN loc = Procs /\ LocType(loc[q]) /\ PcFits(q)
      /\ Plan(todo[q])
  BY DEF ChainType, ProcTypes
<1>3. CASE UNCHANGED <<todo, loc>>
  BY <1>3 DEF Same
<1>4. ASSUME NEW p \in Procs, ProcStep(p), p # q
      PROVE  Same(q)
  BY <1>4, OtherProcs DEF Same
<1>5. CASE ProcStep(q)
  <2>1. \A l : Goto(q, l) => loc'[q] = l
    BY <1>2 DEF Goto
  <2>2. ~Done(q) /\ ~ \E what : Error(q, what)
    BY <1>1, <2>1, RestType, Zenon DEF Done, Error
  <2>3. ~Start(q)
    BY <1>1, <1>2, Zenon DEF Start, PcFits
  <2>4. CASE FetchLastHashChain(q)
    <3>1. loc'[q] = [loc[q] EXCEPT !.pc = "fetch", !.told = Len(chain) - 1]
      BY <2>1, <2>4 DEF FetchLastHashChain
    <3> QED BY <1>1, <1>2, <3>1 DEF LocType
  <2>5. CASE FetchHashChain(q)
    <3>1. PICK n, g : loc'[q] = [loc[q] EXCEPT !.pc = "store", !.i = n, !.got = g]
      BY <2>1, <2>2, <2>5, Zenon DEF FetchHashChain
    <3> QED BY <1>1, <1>2, <3>1 DEF LocType
  <2>6. CASE StoreEntry(q)
    <3>1. loc[q].got # <<>>
      BY <2>2, <2>6 DEF StoreEntry
    <3> QED BY <1>1, <2>6, <3>1, StoreRow, Zenon
  <2>7. CASE \/ StoreFails(q) \/ Validate(q) \/ SearchEnd(q) \/ FetchKeyInit(q)
             \/ DelHashChain(q) \/ Fault(q)
    BY <2>2, <2>7 DEF StoreFails, Validate, SearchEnd, FetchKeyInit, DelHashChain, Fault
  <2>8. CASE LookupUID(q)
    BY <1>1, <2>8 DEF LookupUID, Running, Command
  <2>9. CASE SearchBegin(q)
    <3>1. /\ GetLastHashChainPos >= 0 /\ UNCHANGED <<server, keydb, todo>>
          /\ Goto(q, [loc[q] EXCEPT !.pc = "entry", !.max = GetLastHashChainPos,
                        !.list = [k \in 1 .. GetLastHashChainPos + 1 |-> k - 1]])
      BY <2>2, <2>9, LastPosition DEF SearchBegin, ChainType
    <3>2. loc'[q] = [loc[q] EXCEPT !.pc = "entry", !.max = GetLastHashChainPos,
                       !.list = [k \in 1 .. GetLastHashChainPos + 1 |-> k - 1]]
      BY <2>1, <3>1
    <3>3. /\ loc'[q].max = GetLastHashChainPos
          /\ loc'[q].list = [k \in 1 .. GetLastHashChainPos + 1 |-> k - 1]
      BY <1>2, <3>2 DEF LocType
    <3> QED BY <3>1, <3>3 DEF Begun
  <2>10. CASE SearchEntry(q) \/ LookupEntry(q)
    <3> DEFINE id == Command(q).id
               i == loc[q].list[1]
    <3>1. /\ todo[q] # <<>> /\ loc[q].pc = "entry" /\ loc[q].list # <<>>
          /\ UNCHANGED <<server, Hashchains>>
      BY <2>10, EntryShape
    <3>2. EntryPasses(q, id, i) \/ EntryAdds(q, id, i)
      BY <2>2, <2>10, EntryShape DEF EntryFails
    <3>3. i \in DOMAIN Hashchains /\ UNCHANGED todo
          /\ \E m : loc'[q] = [loc[q] EXCEPT !.list = Tail(loc[q].list), !.match = m]
      <4>1. CASE EntryPasses(q, id, i)
        <5>1. PICK m \in BOOLEAN : Skip(q, m)
          BY <4>1 DEF EntryPasses
        <5>2. loc'[q] = [loc[q] EXCEPT !.list = Tail(@), !.match = @ \/ m]
          BY <2>1, <5>1 DEF Skip
        <5>3. loc'[q] = [loc[q] EXCEPT !.list = Tail(loc[q].list),
                                       !.match = loc[q].match \/ m]
          BY <1>2, <5>2 DEF LocType
        <5> QED BY <4>1, <5>1, <5>3, Zenon DEF EntryPasses, Skip
      <4>2. CASE EntryAdds(q, id, i)
        <5>1. loc'[q] = [loc[q] EXCEPT !.list = Tail(@), !.match = TRUE]
          BY <2>1, <4>2 DEF EntryAdds, AddPublicUID
        <5>2. loc'[q] = [loc[q] EXCEPT !.list = Tail(loc[q].list), !.match = TRUE]
          BY <1>2, <5>1 DEF LocType
        <5> QED BY <4>2, <5>2, Zenon DEF EntryAdds, AddPublicUID
      <4> QED BY <3>2, <4>1, <4>2, Zenon
    <3>4. loc'[q].list = Tail(loc[q].list) /\ loc'[q].max = loc[q].max
      BY <1>2, <3>3 DEF LocType
    <3>5. Hashchains[i].content.id = id => \E u \in PublicUIDs' : u.id = id /\ u.pos = i
      <4>1. CASE EntryPasses(q, id, i)
        <5> SUFFICES ASSUME Hashchains[i].content.id = id
                     PROVE  \E u \in PublicUIDs' : u.id = id /\ u.pos = i
          OBVIOUS
        <5>1. GetPublicUID(id, i) = i /\ i \in Nat
          BY <3>3, <4>1, ChainBounds DEF EntryPasses, UIDExists, ChainType, DataTypes, Position
        <5>2. Stored(id, i)
          BY <5>1, UIDPosition DEF ChainType
        <5>3. PublicUIDs \subseteq PublicUIDs'
          BY UIDsGrow
        <5> QED BY <5>2, <5>3 DEF Stored
      <4>2. CASE EntryAdds(q, id, i)
        <5>1. PublicUIDs' = PublicUIDs \cup {[id |-> id, pos |-> i, content |-> FetchUID(i)]}
          BY <4>2 DEF EntryAdds, AddPublicUID
        <5> DEFINE u == [id |-> id, pos |-> i, content |-> FetchUID(i)]
        <5>2. u \in PublicUIDs' /\ u.id = id /\ u.pos = i
          BY <5>1
        <5> QED BY <5>2
      <4> QED BY <3>2, <4>1, <4>2
    <3>6. Running(q, "search", "entry")
      BY <1>1, <3>1, <3>3 DEF Running, Command
    <3> QED BY <3>1, <3>3, <3>4, <3>5, <3>6 DEF Passed
  <2> QED BY <1>5, <2>3, <2>4, <2>5, <2>6, <2>7, <2>8, <2>9, <2>10 DEF ProcStep
<1>6. CASE (\E id \in Ids : CreateUID(id)) \/ Rewrite \/ UNCHANGED vars
  BY <1>3, <1>6, ServerStep
<1> QED BY <1>4, <1>5, <1>6, NextCases

(* SearchInv is inductive.                                                  *)
LEMMA NextSearch ==
  ASSUME DeletesAlone
  PROVE  ChainType /\ CopyInv /\ SearchInv /\ [Next]_vars => SearchInv'
<1> SUFFICES ASSUME ChainType, CopyInv, SearchInv, [Next]_vars,
                    NEW q \in Procs, Running(q, "search", "entry")'
             PROVE  Searching(q)'
  BY DEF SearchInv
<1> DEFINE l == loc[q]
           n == Len(l.list)
           id == Command(q).id
<1>1. /\ DOMAIN Hashchains \subseteq DOMAIN Hashchains'
      /\ \A i \in DOMAIN Hashchains : Hashchains'[i] = Hashchains[i]
  BY RowsStay DEF Running
<1>2. \A i : Stored(id, i) => \E u \in PublicUIDs' : u.id = id /\ u.pos = i
  BY UIDsGrow DEF Stored
<1>3. CASE Same(q)
  <2>1. Running(q, "search", "entry") /\ id' = id
    BY <1>3 DEF Same, Running, Command
  <2>2. /\ l.list \in Seq(Int) /\ n <= l.max + 1
        /\ \A k \in 1 .. n : l.list[k] = l.max - n + k
        /\ 0 .. l.max \subseteq DOMAIN Hashchains
        /\ \A i \in 0 .. l.max - n : Hashchains[i].content.id = id => Stored(id, i)
    BY <2>1 DEF SearchInv, Searching
  <2>3. 0 .. l.max - n \subseteq 0 .. l.max
    <3>1. n \in Nat /\ l.max \in Int
      BY <2>2 DEF ChainType, ProcTypes, LocType
    <3> HIDE DEF n, l
    <3> QED BY <3>1
  <2>4. \A i \in 0 .. l.max - n :
          Hashchains'[i].content.id = id => \E u \in PublicUIDs' : u.id = id /\ u.pos = i
    BY <1>1, <1>2, <2>2, <2>3, Zenon
  <2>5. l' = l
    BY <1>3 DEF Same
  <2>6. \A i \in 0 .. l.max - n : Hashchains'[i].content.id = id' => Stored(id, i)'
    BY <2>1, <2>4 DEF Stored
  <2>7. 0 .. l.max \subseteq DOMAIN Hashchains'
    BY <1>1, <2>2
  <2> HIDE DEF id
  <2> QED BY <2>2, <2>5, <2>6, <2>7 DEF Searching, id
<1>4. CASE Begun(q)
  <2> DEFINE m == GetLastHashChainPos
  <2>1. m \in Nat /\ DOMAIN Hashchains = 0 .. m
    BY <1>4, LastPosition, ChainBounds DEF Begun, ChainType, CopyInv, Gapless
  <2>2. l'.max = m /\ l'.list = [k \in 1 .. m + 1 |-> k - 1]
    BY <1>4 DEF Begun
  <2> HIDE DEF m
  <2>3. l'.list \in Seq(Int) /\ Len(l'.list) = m + 1
        /\ \A k \in 1 .. m + 1 : l'.list[k] = k - 1
    BY <2>1, <2>2
  <2>4. 0 .. l'.max - Len(l'.list) = {}
    BY <2>1, <2>2, <2>3
  <2>5. \A k \in 1 .. Len(l'.list) : l'.list[k] = l'.max - Len(l'.list) + k
    BY <2>1, <2>2, <2>3
  <2>6. 0 .. l'.max \subseteq DOMAIN Hashchains'
    BY <1>1, <2>1, <2>2
  <2> QED BY <2>1, <2>2, <2>3, <2>4, <2>5, <2>6 DEF Searching
<1>5. CASE Passed(q)
  <2> DEFINE i0 == l.list[1]
  <2>1. /\ Running(q, "search", "entry") /\ l.list # <<>>
        /\ l'.list = Tail(l.list) /\ l'.max = l.max /\ id' = id
        /\ Hashchains' = Hashchains
        /\ Hashchains[i0].content.id = id => \E u \in PublicUIDs' : u.id = id /\ u.pos = i0
    BY <1>5 DEF Passed, Command
  <2>2. /\ l.list \in Seq(Int) /\ n <= l.max + 1
        /\ \A k \in 1 .. n : l.list[k] = l.max - n + k
        /\ 0 .. l.max \subseteq DOMAIN Hashchains
        /\ \A i \in 0 .. l.max - n : Hashchains[i].content.id = id => Stored(id, i)
    BY <2>1 DEF SearchInv, Searching
  <2>3. l.max \in Int
    BY DEF ChainType, ProcTypes, LocType
  <2> DEFINE s == l.list
             m == l.max
  <2> HIDE DEF s, m
  <2>4. s \in Seq(Int) /\ s # <<>>
    BY <2>1, <2>2 DEF s
  <2>5. Len(s) \in Nat /\ Len(s) > 0
    <3>1. Len(s) \in Nat /\ Len(s) # 0
      BY <2>4
    <3> QED BY <3>1
  <2>6. Tail(s) \in Seq(Int) /\ Len(Tail(s)) = Len(s) - 1
        /\ \A k \in 1 .. Len(s) - 1 : Tail(s)[k] = s[k + 1]
    BY <2>4, <2>5
  <2>7. s[1] = m - Len(s) + 1 /\ \A k \in 1 .. Len(s) - 1 : s[k + 1] = m - Len(s) + (k + 1)
    <3>1. \A k \in 1 .. Len(s) : s[k] = m - Len(s) + k
      BY <2>2 DEF s, m
    <3> QED BY <2>5, <3>1
  <2>8. \A k \in 1 .. Len(Tail(s)) : Tail(s)[k] = m - Len(Tail(s)) + k
    <3>1. \A k \in 1 .. Len(s) - 1 : Tail(s)[k] = m - Len(s) + (k + 1)
      BY <2>6, <2>7
    <3>2. \A k \in 1 .. Len(s) - 1 : m - Len(s) + (k + 1) = m - (Len(s) - 1) + k
      BY <2>3, <2>5 DEF m
    <3> QED BY <2>6, <3>1, <3>2
  <2>9. ASSUME NEW i \in 0 .. m - Len(Tail(s)), Hashchains[i].content.id = id
        PROVE  \E u \in PublicUIDs' : u.id = id /\ u.pos = i
    <3>1. i = s[1] \/ i \in 0 .. m - Len(s)
      BY <2>3, <2>5, <2>6, <2>7 DEF m
    <3>2. CASE i = s[1]
      BY <2>1, <2>9, <3>2 DEF s
    <3>3. CASE i \in 0 .. m - Len(s)
      BY <1>2, <2>2, <2>9, <3>3 DEF s, m
    <3> QED BY <3>1, <3>2, <3>3
  <2>10. Len(Tail(s)) <= m + 1
    BY <2>2, <2>3, <2>5, <2>6 DEF s, m
  <2>11. l'.list = Tail(s) /\ l'.max = m
    BY <2>1 DEF s, m
  <2>12. \A i \in 0 .. m - Len(Tail(s)) : Hashchains'[i].content.id = id' => Stored(id, i)'
    BY <2>1, <2>9 DEF Stored
  <2>13. 0 .. m \subseteq DOMAIN Hashchains'
    BY <2>1, <2>2 DEF m
  <2> HIDE DEF id
  <2> QED BY <2>6, <2>8, <2>10, <2>11, <2>12, <2>13 DEF Searching, id
<1> QED BY <1>3, <1>4, <1>5, SearchNext

(* Nobody searches at first.                                                *)
LEMMA InitSearch == Init => SearchInv
BY Zenon DEF Init, SearchInv, Running

(* When a command ends well, it was by Done.                                *)
LEMMA SuccessIsDone ==
  ASSUME ChainType, [Next]_vars, NEW p \in Procs, NEW cmd, Succeeds(p, cmd)
  PROVE  ProcStep(p) /\ Done(p) /\ todo[p] # <<>> /\ Command(p).cmd = cmd
<1>1. todo[p] # <<>> /\ Command(p).cmd = cmd /\ todo'[p] # todo[p]
      /\ outcome'[p] \in {"", "done"}
  BY Zenon DEF Succeeds
<1>2. ProcStep(p)
  <2>1. CASE (\E id \in Ids : CreateUID(id)) \/ Rewrite \/ UNCHANGED vars
    BY <1>1, <2>1, ServerStep, Zenon
  <2>2. ASSUME NEW q \in Procs, ProcStep(q), q # p
        PROVE  FALSE
    BY <1>1, <2>2, OtherProcs, Zenon
  <2> QED BY <2>1, <2>2, NextCases
<1>3. ~Start(p)
  BY <1>1, Zenon DEF Start
<1>4. \A what : Error(p, what) => outcome'[p] = what
  BY DEF Error, ChainType, ProcTypes
<1>5. \A what \in {"refused", "invalid", "empty", "noentry", "bogus", "signature",
                   "notfound", "nouid", "fault"} : ~Error(p, what)
  BY <1>1, <1>4, Zenon
<1>6. CASE FetchLastHashChain(p) \/ FetchHashChain(p) \/ StoreEntry(p) \/ StoreFails(p)
  BY <1>1, <1>2, <1>5, <1>6, Zenon DEF FetchLastHashChain, FetchHashChain, StoreEntry, StoreFails
<1>7. CASE Validate(p) \/ SearchBegin(p) \/ SearchEnd(p) \/ LookupUID(p)
  BY <1>1, <1>2, <1>5, <1>7, Zenon DEF Validate, SearchBegin, SearchEnd, LookupUID
<1>8. CASE FetchKeyInit(p) \/ DelHashChain(p) \/ Fault(p)
  BY <1>1, <1>2, <1>5, <1>8, Zenon DEF FetchKeyInit, DelHashChain, Fault
<1>9. CASE SearchEntry(p) \/ LookupEntry(p)
  BY <1>1, <1>2, <1>5, <1>9, EntryShape, Zenon
     DEF EntryFails, EntryPasses, EntryAdds, Skip, AddPublicUID
<1> QED BY <1>2, <1>3, <1>6, <1>7, <1>8, <1>9, Zenon DEF ProcStep

(* A search that ends well has come to the end of its list.                 *)
LEMMA SearchDone ==
  ASSUME ChainType, NEW p \in Procs, ProcStep(p), Done(p), todo[p] # <<>>,
         Command(p).cmd = "search"
  PROVE  SearchEnd(p)
<1>1. /\ Len(todo[p]) \in Nat /\ Len(Tail(todo[p])) = Len(todo[p]) - 1
      /\ todo'[p] = Tail(todo[p]) /\ outcome'[p] \in {"", "done"}
  BY PlanTail, Zenon DEF Done, ChainType, ProcTypes
<1>2. todo'[p] # todo[p]
  <2>1. \A n \in Nat : n - 1 # n
    OBVIOUS
  <2> QED BY <1>1, <2>1, Zenon
<1>3. CASE \/ Start(p) \/ FetchLastHashChain(p) \/ FetchHashChain(p) \/ StoreEntry(p)
           \/ StoreFails(p) \/ Validate(p) \/ LookupUID(p) \/ FetchKeyInit(p)
           \/ DelHashChain(p)
  BY <1>3, Zenon DEF Start, FetchLastHashChain, FetchHashChain, StoreEntry, StoreFails,
                     Validate, LookupUID, FetchKeyInit, DelHashChain, Running
<1>4. \A what : Error(p, what) => outcome'[p] = what
  BY DEF Error, ChainType, ProcTypes
<1>5. \A what \in {"empty", "noentry", "bogus", "signature", "fault"} : ~Error(p, what)
  BY <1>1, <1>4, Zenon
<1>6. CASE SearchBegin(p) \/ Fault(p)
  BY <1>2, <1>5, <1>6 DEF SearchBegin, Fault
<1>7. CASE SearchEntry(p) \/ LookupEntry(p)
  BY <1>2, <1>5, <1>7, EntryShape, Zenon
     DEF EntryFails, EntryPasses, EntryAdds, Skip, AddPublicUID
<1> QED BY <1>3, <1>6, <1>7, Zenon DEF ProcStep

(* A search that succeeds has stored every UID of the identity up to the    *)
(* position it looked at, though other processes sync and search meanwhile, *)
(* as long as none of them deletes the chain.                               *)
THEOREM Latest ==
  ASSUME DeletesAlone
  PROVE  Spec => LatestFound
<1> DEFINE Found ==
             \A p \in Procs : Succeeds(p, "search") =>
               \A i \in DOMAIN Hashchains \cap 0 .. loc[p].max :
                 Hashchains[i].content.id = Command(p).id =>
                   \E u \in PublicUIDs' : u.id = Command(p).id /\ u.pos = i
<1>1. ChainType /\ SearchInv /\ [Next]_vars => Found
  <2> SUFFICES ASSUME ChainType, SearchInv, [Next]_vars,
                      NEW p \in Procs, Succeeds(p, "search"),
                      NEW i \in DOMAIN Hashchains \cap 0 .. loc[p].max,
                      Hashchains[i].content.id = Command(p).id
               PROVE  \E u \in PublicUIDs' : u.id = Command(p).id /\ u.pos = i
    OBVIOUS
  <2>1. ProcStep(p) /\ Done(p) /\ todo[p] # <<>> /\ Command(p).cmd = "search"
    BY SuccessIsDone
  <2>2. loc[p].pc = "entry" /\ loc[p].list = <<>>
    BY <2>1, SearchDone DEF SearchEnd
  <2>3. Searching(p)
    BY <2>1, <2>2 DEF SearchInv, Running
  <2>4. i \in 0 .. loc[p].max - Len(loc[p].list)
    <3>1. Len(loc[p].list) = 0 /\ loc[p].max \in Int
      BY <2>2 DEF ChainType, ProcTypes, LocType
    <3> QED BY <3>1
  <2>5. Stored(Command(p).id, i)
    BY <2>3, <2>4 DEF Searching
  <2> QED BY <2>5, UIDsGrow DEF Stored
<1>2. ChainType /\ CopyInv /\ [Next]_vars => CopyInv'
  BY NextCopy
<1>3. ChainType /\ CopyInv /\ SearchInv /\ [Next]_vars => SearchInv'
  BY NextSearch
<1>4. LatestFound <=> [][Found]_vars
  BY DEF LatestFound
<1> HIDE DEF Found
<1> QED
  BY <1>1, <1>2, <1>3, <1>4, InitType, InitCopy, InitSearch, NextType, PTL DEF Spec

-----------------------------------------------------------------------------
(* A contact is added on one chain *)

(* A sequence and one more element is the function that has them all.       *)
LEMMA AppendIs ==
  ASSUME NEW C, NEW n \in Nat, NEW s \in Seq(C), Len(s) = n, NEW c \in C,
         NEW f \in [1 .. n + 1 -> C],
         \A j \in 1 .. n : f[j] = s[j], f[n + 1] = c
  PROVE  Append(s, c) = f
<1> DEFINE a == Append(s, c)
<1>1. a \in Seq(C) /\ Len(a) = n + 1 /\ a[n + 1] = c
      /\ \A j \in 1 .. n : a[j] = s[j]
  OBVIOUS
<1> HIDE DEF a
<1>2. \A j \in 1 .. n + 1 : a[j] = f[j]
  <2>1. \A j \in 1 .. n + 1 : j \in 1 .. n \/ j = n + 1
    OBVIOUS
  <2> QED BY <1>1, <2>1
<1>3. a = [j \in 1 .. n + 1 |-> a[j]] /\ f = [j \in 1 .. n + 1 |-> f[j]]
  BY <1>1
<1> QED BY <1>2, <1>3 DEF a

(* What validateHashChain finds link by link holds of the chain as a whole. *)
LEMMA LinksMakeChain ==
  ASSUME DataTypes, NEW m \in Nat, DOMAIN Hashchains = 0 .. m,
         \A i \in 0 .. m : Linked(i)
  PROVE  \A i \in 0 .. m :
           Hashchains[i].hash = [j \in 1 .. i + 1 |-> Hashchains[j - 1].content]
<1> DEFINE f(i) == [j \in 1 .. i + 1 |-> Hashchains[j - 1].content]
           Bad == {i \in 0 .. m : Hashchains[i].hash # f(i)}
<1>1. \A i \in 0 .. m : Hashchains[i].content \in Content /\ Hashchains[i].hash \in Seq(Content)
  BY DEF DataTypes, Row
<1>2. ASSUME Bad # {}
      PROVE  FALSE
  <2>1. Bad \in SUBSET Nat
    OBVIOUS
  <2>2. PICK i \in Bad : \A k \in Bad : i <= k
    <3> HIDE DEF Bad
    <3> QED BY <1>2, <2>1, LeastNat
  <2>3. i \in 0 .. m /\ Hashchains[i].hash # f(i)
    BY <2>2
  <2> DEFINE c == Hashchains[i].content
             s == IF i = 0 THEN <<>> ELSE Hashchains[i - 1].hash
             g == f(i)
  <2>4. Hashchains[i].hash = Append(s, c) /\ c \in Content
    BY <1>1, <2>3 DEF Linked
  <2>5. s \in Seq(Content) /\ Len(s) = i /\ \A j \in 1 .. i : s[j] = Hashchains[j - 1].content
    <3>1. CASE i = 0
      BY <3>1
    <3>2. CASE i # 0
      <4>1. i - 1 \in 0 .. m /\ i - 1 \notin Bad
        BY <2>2, <2>3, <3>2
      <4>2. Hashchains[i - 1].hash = f(i - 1) /\ Hashchains[i - 1].hash \in Seq(Content)
        BY <1>1, <4>1
      <4>3. s = [j \in 1 .. i |-> Hashchains[j - 1].content] /\ s \in Seq(Content)
        <5>1. (i - 1) + 1 = i
          BY <2>3
        <5> QED BY <3>2, <4>2, <5>1
      <4> HIDE DEF s
      <4> QED BY <2>3, <4>3
    <3> QED BY <3>1, <3>2
  <2>6. /\ g \in [1 .. i + 1 -> Content]
        /\ \A j \in 1 .. i : g[j] = Hashchains[j - 1].content
        /\ g[i + 1] = c
    <3>1. i + 1 \in 1 .. i + 1 /\ (i + 1) - 1 = i /\ \A j \in 1 .. i : j \in 1 .. i + 1
      BY <2>3
    <3>2. \A j \in 1 .. i + 1 : Hashchains[j - 1].content \in Content
      BY <1>1, <2>3
    <3> QED BY <3>1, <3>2
  <2>7. Append(s, c) = g
    <3>1. i \in Nat /\ \A j \in 1 .. i : g[j] = s[j]
      BY <2>3, <2>5, <2>6
    <3> HIDE DEF g, s, c
    <3> QED BY <2>4, <2>5, <2>6, <3>1, AppendIs
  <2> QED BY <2>3, <2>4, <2>7, Zenon DEF g
<1> QED BY <1>2, Zenon

(* A step of a process leaves the server alone.                             *)
LEMMA ProcKeepsServer ==
  ASSUME NEW p \in Procs, ProcStep(p)
  PROVE  UNCHANGED <<chain, branch, reply>>
<1>1. CASE \/ Start(p) \/ FetchLastHashChain(p) \/ FetchHashChain(p) \/ StoreEntry(p)
           \/ StoreFails(p) \/ Validate(p) \/ SearchBegin(p) \/ SearchEnd(p)
  BY <1>1, Zenon DEF Start, FetchLastHashChain, FetchHashChain, StoreEntry, StoreFails, Validate,
              SearchBegin, SearchEnd, server
<1>2. CASE LookupUID(p) \/ FetchKeyInit(p) \/ DelHashChain(p) \/ Fault(p)
  BY <1>2 DEF LookupUID, FetchKeyInit, DelHashChain, Fault, server
<1>3. CASE SearchEntry(p) \/ LookupEntry(p)
  BY <1>3, EntryShape DEF server
<1> QED BY <1>1, <1>2, <1>3 DEF ProcStep

(* ServerLinked is inductive: the server appends, or goes on from a prefix. *)
LEMMA NextLinked == ChainType /\ ServerLinked /\ [Next]_vars => ServerLinked'
<1> SUFFICES ASSUME ChainType, ServerLinked, [Next]_vars
             PROVE  ServerLinked'
  OBVIOUS
<1> DEFINE n == Len(chain)
<1>1. chain \in Seq(Row) /\ n \in Nat /\ n >= 1
  BY ChainBounds DEF ChainType, DataTypes
<1>2. ASSUME NEW i \in 1 .. n, \A j \in 1 .. i : chain'[j] = chain[j]
      PROVE  chain'[i].hash = [j \in 1 .. i |-> chain'[j].content]
  <2>1. chain[i].hash = [j \in 1 .. i |-> chain[j].content]
    BY DEF ServerLinked
  <2>2. [j \in 1 .. i |-> chain'[j].content] = [j \in 1 .. i |-> chain[j].content]
    BY <1>2
  <2>3. chain'[i] = chain[i]
    BY <1>1, <1>2
  <2> QED BY <2>1, <2>2, <2>3
<1>3. ASSUME NEW id \in Ids, CreateUID(id)
      PROVE  ServerLinked'
  <2> DEFINE e == Entry(chain, id)
             f == [j \in 1 .. n + 1 |-> chain'[j].content]
             s == chain[n].hash
             c == e.content
  <2>1. e \in Row /\ e.hash = Append(s, c) /\ chain' = Append(chain, e)
    BY <1>3, EntryType DEF CreateUID, ChainType
  <2>2. Len(chain') = n + 1 /\ chain'[n + 1] = e /\ \A i \in 1 .. n : chain'[i] = chain[i]
    <3> HIDE DEF e, Row
    <3> QED BY <1>1, <2>1
  <2>3. s = [j \in 1 .. n |-> chain[j].content] /\ c \in Content /\ s \in Seq(Content)
    <3>1. n \in 1 .. n
      BY <1>1
    <3>2. chain[n] \in Row
      <4> HIDE DEF Row
      <4> QED BY <1>1, <3>1
    <3> QED BY <2>1, <3>1, <3>2 DEF ServerLinked, Row
  <2>4. Len(s) = n /\ \A j \in 1 .. n : s[j] = chain[j].content
    <3> HIDE DEF s
    <3> QED BY <1>1, <2>3
  <2>5. f \in [1 .. n + 1 -> Content] /\ f[n + 1] = c /\ \A j \in 1 .. n : f[j] = s[j]
    <3>1. n + 1 \in 1 .. n + 1 /\ \A j \in 1 .. n : j \in 1 .. n + 1
      BY <1>1
    <3>2. \A j \in 1 .. n : chain[j].content \in Content
      <4>1. \A j \in 1 .. n : chain[j] \in Row
        <5> HIDE DEF Row
        <5> QED BY <1>1
      <4> QED BY <4>1 DEF Row
    <3>3. \A j \in 1 .. n + 1 : j \in 1 .. n \/ j = n + 1
      BY <1>1
    <3> HIDE DEF s, e
    <3> QED BY <2>2, <2>3, <2>4, <3>1, <3>2, <3>3
  <2>6. Append(s, c) = f
    <3> HIDE DEF s, c, f, Content, n
    <3> QED BY <1>1, <2>3, <2>4, <2>5, AppendIs
  <2>7. ASSUME NEW i \in 1 .. Len(chain')
        PROVE  chain'[i].hash = [j \in 1 .. i |-> chain'[j].content]
    <3>1. CASE i = n + 1
      BY <2>1, <2>2, <2>6, <3>1
    <3>2. CASE i # n + 1
      <4>1. i \in 1 .. n /\ \A j \in 1 .. i : j \in 1 .. n
        BY <1>1, <2>2, <2>7, <3>2
      <4> QED BY <1>2, <2>2, <4>1
    <3> QED BY <3>1, <3>2
  <2> QED BY <2>7, Zenon DEF ServerLinked
<1>4. CASE Rewrite
  <2>1. PICK k \in 1 .. n - 1 : chain' = SubSeq(chain, 1, k)
    BY <1>4 DEF Rewrite
  <2>2. Len(chain') = k /\ \A i \in 1 .. k : chain'[i] = chain[i] /\ i \in 1 .. n
    <3> HIDE DEF Row
    <3> QED BY <1>1, <2>1
  <2>3. ASSUME NEW i \in 1 .. k
        PROVE  chain'[i].hash = [j \in 1 .. i |-> chain'[j].content]
    <3>1. i \in 1 .. n /\ \A j \in 1 .. i : j \in 1 .. k
      BY <1>1
    <3> QED BY <1>2, <2>2, <3>1
  <2> QED BY <2>2, <2>3 DEF ServerLinked
<1>5. CASE UNCHANGED chain
  BY <1>5 DEF ServerLinked
<1>6. CASE UNCHANGED vars \/ \E p \in Procs : ProcStep(p)
  <2>1. UNCHANGED chain
    BY <1>6, ProcKeepsServer DEF vars, server
  <2> QED BY <1>5, <2>1
<1> QED BY <1>3, <1>4, <1>6, NextCases

(* The first entry of the server.                                           *)
LEMMA InitLinked == Init => ServerLinked
<1> SUFFICES ASSUME Init PROVE ServerLinked
  OBVIOUS
<1> DEFINE c == [id |-> Keyserver, srv |-> 0, branch |-> 0]
<1>1. chain = <<[content |-> c, hash |-> <<c>>]>>
  BY Zenon DEF Init
<1>2. Len(chain) = 1 /\ chain[1].content = c /\ chain[1].hash = <<c>>
  BY <1>1
<1> HIDE DEF c
<1>3. <<c>> = [j \in 1 .. 1 |-> c]
  OBVIOUS
<1>4. [j \in 1 .. 1 |-> chain[j].content] = [j \in 1 .. 1 |-> c]
  BY <1>2
<1> QED BY <1>2, <1>3, <1>4 DEF ServerLinked

(* A server that never rewrites its chain only appends to it.               *)
LEMMA ServerGrows ==
  ASSUME MaxRewrites = 0, ChainType, [Next]_vars
  PROVE  /\ Len(chain') \in Nat /\ Len(chain) <= Len(chain')
         /\ \A i \in 1 .. Len(chain) : chain'[i] = chain[i]
         /\ \/ reply' = reply
            \/ /\ reply' = [i \in {Len(chain)} |-> chain'[Len(chain) + 1]]
               /\ Len(chain) < Len(chain')
<1> DEFINE n == Len(chain)
<1>1. chain \in Seq(Row) /\ n \in Nat /\ branch = 0
  BY ChainBounds DEF ChainType, DataTypes
<1>2. ASSUME NEW id \in Ids, CreateUID(id)
      PROVE  /\ Len(chain') = n + 1 /\ \A i \in 1 .. n : chain'[i] = chain[i]
             /\ reply' = reply \/ reply' = [i \in {n} |-> chain'[n + 1]]
  <2>1. Entry(chain, id) \in Row /\ chain' = Append(chain, Entry(chain, id))
    BY <1>2, EntryType DEF CreateUID, ChainType
  <2>2. Len(chain') = n + 1 /\ \A i \in 1 .. n : chain'[i] = chain[i]
    <3> HIDE DEF Row
    <3> QED BY <1>1, <2>1
  <2> QED BY <1>2, <2>2 DEF CreateUID
<1>3. CASE \E id \in Ids : CreateUID(id)
  <2> HIDE DEF n
  <2>1. n < n + 1 /\ n + 1 \in Nat /\ n <= n + 1
    BY <1>1
  <2> QED BY <1>2, <1>3, <2>1, Zenon DEF n
<1>4. ~ Rewrite
  BY <1>1 DEF Rewrite
<1>5. CASE UNCHANGED vars \/ \E p \in Procs : ProcStep(p)
  <2>1. UNCHANGED <<chain, reply>>
    BY <1>5, ProcKeepsServer DEF vars, server
  <2> QED BY <1>1, <2>1
<1> QED BY <1>3, <1>4, <1>5, NextCases

(* HonestInv is inductive when the server never rewrites its chain.         *)
LEMMA NextHonest ==
  ASSUME MaxRewrites = 0
  PROVE  ChainType /\ HonestInv /\ [Next]_vars => HonestInv'
<1> SUFFICES ASSUME ChainType, HonestInv, [Next]_vars
             PROVE  HonestInv'
  OBVIOUS
<1> DEFINE n == Len(chain)
<1>1. /\ chain \in Seq(Row) /\ n \in Nat
      /\ DOMAIN Hashchains \subseteq Nat /\ DOMAIN reply \subseteq Nat
  BY ChainBounds DEF ChainType, DataTypes, Position
<1>2. /\ Len(chain') \in Nat /\ n <= Len(chain') /\ \A i \in 1 .. n : chain'[i] = chain[i]
      /\ reply' = reply \/ (reply' = [i \in {n} |-> chain'[n + 1]] /\ n < Len(chain'))
  BY ServerGrows
<1>3. \A i \in Nat : i < n => i < Len(chain') /\ chain'[i + 1] = chain[i + 1]
  BY <1>1, <1>2
<1>4. ASSUME NEW i \in DOMAIN Hashchains'
      PROVE  i < Len(chain') /\ Hashchains'[i] = chain'[i + 1]
  <2>1. CASE i \in DOMAIN Hashchains /\ Hashchains'[i] = Hashchains[i]
    BY <1>1, <1>3, <2>1 DEF HonestInv
  <2>2. CASE UNCHANGED Hashchains
    BY <1>4, <2>1, <2>2
  <2>3. ASSUME NEW p \in Procs, StoreEntry(p), loc[p].got # <<>>,
               i \notin DOMAIN Hashchains
        PROVE  i < Len(chain') /\ Hashchains'[i] = chain'[i + 1]
    <3> DEFINE l == loc[p]
    <3>1. /\ l.pc = "store" /\ l.i \in Nat /\ Len(l.got) \in Nat /\ Len(l.got) > 0
          /\ i = l.i /\ Hashchains'[i] = l.got[1]
      BY <1>4, <2>3, StoreRow, Zenon
    <3>2. /\ l.i + Len(l.got) <= n
          /\ \A k \in 1 .. Len(l.got) : l.got[k] = chain[l.i + k]
      BY <3>1 DEF HonestInv
    <3>3. 1 \in 1 .. Len(l.got) /\ l.i < n
      BY <1>1, <3>1, <3>2
    <3> QED BY <1>3, <3>1, <3>2, <3>3
  <2>4. ASSUME NEW p \in Procs, StoreEntry(p), loc[p].got # <<>>,
               i \in DOMAIN Hashchains
        PROVE  i < Len(chain') /\ Hashchains'[i] = chain'[i + 1]
    BY <2>1, <2>4, StoreRow, Zenon
  <2>5. CASE \E p \in Procs : DelHashChain(p)
    BY <1>4, <2>5 DEF DelHashChain
  <2> QED BY <2>2, <2>3, <2>4, <2>5, RowsChange
<1>5. ASSUME NEW i \in DOMAIN reply'
      PROVE  i < Len(chain') /\ reply'[i] = chain'[i + 1]
  <2>1. CASE reply' = reply
    BY <1>1, <1>3, <1>5, <2>1 DEF HonestInv
  <2>2. CASE reply' = [j \in {n} |-> chain'[n + 1]] /\ n < Len(chain')
    BY <1>5, <2>2
  <2> QED BY <1>2, <2>1, <2>2
<1>6. ASSUME NEW p \in Procs, loc'[p].pc = "store"
      PROVE  /\ loc'[p].i + Len(loc'[p].got) <= Len(chain')
             /\ \A k \in 1 .. Len(loc'[p].got) : loc'[p].got[k] = chain'[loc'[p].i + k]
  <2> DEFINE l == loc[p]
             g == loc'[p].got
             b == loc'[p].i
  <2>1. ASSUME b \in Nat, Len(g) \in Nat, b + Len(g) <= n,
               \A k \in 1 .. Len(g) : g[k] = chain[b + k]
        PROVE  b + Len(g) <= Len(chain') /\ \A k \in 1 .. Len(g) : g[k] = chain'[b + k]
    <3> HIDE DEF n, g, b
    <3>1. \A k \in 1 .. Len(g) : b + k \in 1 .. n
      BY <1>1, <2>1
    <3>2. b + Len(g) <= Len(chain')
      BY <1>1, <1>2, <2>1
    <3> QED BY <1>2, <2>1, <3>1, <3>2
  <2>2. l.i \in Nat /\ l.got \in Seq(Row) /\ Len(l.got) \in Nat /\ l.told \in Int
    BY DEF ChainType, ProcTypes, LocType
  <2>3. CASE loc'[p] = l
    BY <1>6, <2>1, <2>2, <2>3 DEF HonestInv
  <2>4. CASE Fetched(p)
    <3> DEFINE m == GetLastHashChainPos
               t == l.told
    <3>1. m \in Int /\ m >= -1
      BY LastPosition DEF ChainType
    <3>2. m < t /\ t < n /\ b = m + 1 /\ g = SubSeq(chain, m + 2, t + 1) /\ t \in Int
      BY <2>2, <2>4 DEF Fetched
    <3> HIDE DEF Row, m, t, n, g, b
    <3>3. m + 2 \in 1 .. n + 1 /\ t + 1 \in 1 .. n
      BY <1>1, <3>1, <3>2
    <3>4. Len(g) = t - m /\ \A k \in 1 .. t - m : g[k] = chain[m + 2 + k - 1]
      <4>1. (t + 1) - (m + 2) + 1 = t - m
        BY <3>1, <3>2
      <4> QED BY <1>1, <3>1, <3>2, <3>3, <4>1 DEF n
    <3>5. b \in Nat /\ Len(g) \in Nat /\ b + Len(g) <= n
      BY <1>1, <3>1, <3>2, <3>4
    <3>6. \A k \in 1 .. Len(g) : m + 2 + k - 1 = b + k
      BY <3>1, <3>2, <3>4
    <3>7. \A k \in 1 .. Len(g) : g[k] = chain[b + k]
      BY <3>4, <3>6
    <3> QED BY <2>1, <3>5, <3>7 DEF g, b, n
  <2>5. CASE StoreEntry(p) /\ l.got # <<>>
    <3> DEFINE h == l.got
               a == l.i
    <3>1. a \in Nat /\ h \in Seq(Row) /\ Len(h) \in Nat /\ Len(h) > 0 /\ l.pc = "store"
          /\ b = a + 1 /\ g = Tail(h)
      BY <2>5, StoreRow, Zenon
    <3>2. a + Len(h) <= n /\ \A k \in 1 .. Len(h) : h[k] = chain[a + k]
      BY <3>1 DEF HonestInv
    <3> HIDE DEF Row, h, a, n, g, b
    <3>3. Len(g) = Len(h) - 1 /\ \A k \in 1 .. Len(h) - 1 : g[k] = h[k + 1]
      BY <3>1
    <3>4. b \in Nat /\ Len(g) \in Nat /\ b + Len(g) <= n
      <4>1. a \in Nat /\ Len(h) \in Nat /\ Len(h) > 0 /\ n \in Nat /\ a + Len(h) <= n
        BY <1>1, <3>1, <3>2 DEF n
      <4>2. a + 1 \in Nat /\ Len(h) - 1 \in Nat /\ (a + 1) + (Len(h) - 1) <= n
        BY <4>1
      <4> QED BY <3>1, <3>3, <4>2, Zenon
    <3>5. \A k \in 1 .. Len(g) : k + 1 \in 1 .. Len(h) /\ a + (k + 1) = b + k
      BY <3>1, <3>3
    <3>6. \A k \in 1 .. Len(g) : g[k] = chain[b + k]
      BY <3>2, <3>3, <3>5
    <3> QED BY <2>1, <3>4, <3>6 DEF g, b, n
  <2> QED BY <1>6, <2>3, <2>4, <2>5, StoringNext
<1> QED BY <1>4, <1>5, <1>6 DEF HonestInv

(* There are no rows and no reply at first.                                 *)
LEMMA InitHonest == Init => HonestInv
BY RestType, Zenon DEF Init, HonestInv

(* Then the local chain is always one that the server has published.        *)
LEMMA HonestChain ==
  ASSUME ChainType, CopyInv, ServerLinked, HonestInv
  PROVE  Validated
<1>1. ASSUME NEW i \in DOMAIN Hashchains
      PROVE  Hashchains[i].hash = [j \in 1 .. i + 1 |-> Hashchains[j - 1].content]
  <2>1. i \in Nat /\ i < Len(chain) /\ Hashchains[i] = chain[i + 1] /\ Len(chain) \in Nat
    BY DEF HonestInv, ChainType, DataTypes, Position
  <2>2. DOMAIN Hashchains = 0 .. GetLastHashChainPos /\ GetLastHashChainPos \in Int
    BY LastPosition DEF ChainType, CopyInv, Gapless
  <2>3. \A j \in 1 .. i + 1 : j - 1 \in DOMAIN Hashchains /\ (j - 1) + 1 = j
    BY <2>1, <2>2
  <2>4. \A j \in 1 .. i + 1 : Hashchains[j - 1] = chain[j]
    BY <2>3 DEF HonestInv
  <2>5. chain[i + 1].hash = [j \in 1 .. i + 1 |-> chain[j].content]
    BY <2>1 DEF ServerLinked
  <2> QED BY <2>1, <2>4, <2>5
<1>2. \A i \in DOMAIN reply \cap DOMAIN Hashchains : reply[i] = Hashchains[i]
  BY DEF HonestInv
<1> QED BY <1>1, <1>2 DEF Validated

(* A plan is past validate after Done only if it was so before, or if its   *)
(* command was the validate of mutecryptAddContact.                         *)
LEMMA PastStep ==
  ASSUME NEW t, Plan(t), t # <<>>, PastValidate(Tail(t))
  PROVE  PastValidate(t) \/ t[1].cmd = "validate"
<1>1. Len(t) \in 1 .. 5 /\ Len(Tail(t)) = Len(t) - 1 /\ (Len(t) = 4 => t[1].cmd = "validate")
  BY PlanTail, FirstCommand
<1>2. Len(Tail(t)) \in {1, 2, 3}
  BY DEF PastValidate
<1>3. Len(t) \in {2, 3, 4}
  BY <1>1, <1>2
<1> QED BY <1>1, <1>3 DEF PastValidate

(* After validate the commands are search and keyinit.                      *)
LEMMA PastCommand ==
  ASSUME NEW t, Plan(t), PastValidate(t)
  PROVE  t # <<>> /\ t[1].cmd \in {"search", "keyinit"}
<1>1. t # <<>>
  BY DEF PastValidate
<1> QED BY <1>1, FirstCommand DEF PastValidate

(* With one process, ValidInv is inductive: between validate and keyinit    *)
(* neither the rows nor the reply change.                                   *)
LEMMA NextValid ==
  ASSUME OneProcess
  PROVE  ChainType /\ ValidInv /\ [Next]_vars => ValidInv'
<1> SUFFICES ASSUME ChainType, ValidInv, [Next]_vars,
                    NEW p \in Procs, PastValidate(todo[p])'
             PROVE  Validated'
  BY DEF ValidInv
<1>1. Plan(todo[p]) /\ DOMAIN todo = Procs /\ \A q \in Procs : q = p
  BY DEF ChainType, ProcTypes, OneProcess
<1>2. PastValidate(todo'[p])
  BY DEF PastValidate
<1>3. CASE UNCHANGED <<Hashchains, reply>> /\ PastValidate(todo[p])
  BY <1>3 DEF ValidInv, Validated
<1>4. CASE (\E id \in Ids : CreateUID(id)) \/ Rewrite \/ UNCHANGED vars
  <2>1. UNCHANGED <<Hashchains, todo>>
    BY <1>4, ServerStep
  <2>2. PastValidate(todo[p]) /\ todo[p] # <<>>
    BY <1>1, <1>2, <2>1, PastCommand
  <2>3. UNCHANGED reply
    BY <1>1, <1>4, <2>2 DEF CreateUID, Rewrite, vars, server
  <2> QED BY <1>3, <2>1, <2>2, <2>3
<1>5. CASE ProcStep(p)
  <2>1. UNCHANGED reply
    BY <1>5, ProcKeepsServer
  <2>2. CASE PastValidate(todo[p])
    <3>1. todo[p] # <<>> /\ Command(p).cmd \in {"search", "keyinit"}
      BY <1>1, <2>2, PastCommand DEF Command
    <3>2. ~ StoreEntry(p) /\ ~ DelHashChain(p)
      BY <3>1 DEF StoreEntry, DelHashChain, Running
    <3>3. UNCHANGED Hashchains
      BY <1>1, <3>2, RowsChange
    <3> QED BY <1>3, <2>1, <2>2, <3>3
  <2>3. CASE ~ PastValidate(todo[p])
    <3>1. todo'[p] # todo[p]
      BY <1>2, <2>3
    <3>2. ~ Start(p)
      <4>1. \A id : Len(AddContact(id)) = 5
        BY DEF AddContact
      <4>2. \A id : ~ PastValidate(AddContact(id))
        BY <4>1 DEF PastValidate
      <4>3. \A c \in Commands : c # "keyinit"
        BY CommandNames
      <4>4. \A c \in Commands : \A id : ~ PastValidate(<<[cmd |-> c, id |-> id]>>)
        BY <4>3 DEF PastValidate
      <4>5. ASSUME NEW t, todo' = [todo EXCEPT ![p] = t]
            PROVE  PastValidate(t)
        <5>1. todo'[p] = t
          BY <1>1, <4>5
        <5> QED BY <1>2, <5>1
      <4> QED BY <4>2, <4>4, <4>5, Zenon DEF Start
    <3>3. \A what : ~ Error(p, what)
      <4>1. ~ PastValidate(<<>>)
        BY DEF PastValidate
      <4> QED BY <1>1, <1>2, <4>1 DEF Error
    <3>4. todo[p] # <<>> /\ Done(p)
      BY <1>5, <3>1, <3>2, <3>3, OwnStep
    <3>5. todo'[p] = Tail(todo[p])
      BY <1>1, <3>4, Zenon DEF Done
    <3>6. Command(p).cmd = "validate"
      BY <1>1, <1>2, <2>3, <3>4, <3>5, PastStep DEF Command
    <3>7. ~ StoreEntry(p) /\ ~ DelHashChain(p)
      BY <3>6 DEF StoreEntry, DelHashChain, Running
    <3>8. UNCHANGED Hashchains
      BY <1>1, <3>7, RowsChange
    <3>9. Validate(p)
      <4>1. ~ (loc[p].pc \in {"fetch", "store", "entry"})
        BY <3>6 DEF ChainType, ProcTypes, PcFits
      <4>2. CASE \/ FetchLastHashChain(p) \/ FetchHashChain(p) \/ StoreEntry(p)
                 \/ StoreFails(p) \/ LookupUID(p) \/ FetchKeyInit(p) \/ DelHashChain(p)
                 \/ SearchBegin(p)
        BY <3>6, <4>2 DEF FetchLastHashChain, FetchHashChain, StoreEntry, StoreFails,
                          LookupUID, FetchKeyInit, DelHashChain, SearchBegin, Running
      <4>3. CASE SearchEnd(p) \/ Fault(p)
        BY <3>3, <4>1, <4>3 DEF SearchEnd, Fault
      <4>4. CASE SearchEntry(p) \/ LookupEntry(p)
        BY <4>1, <4>4, EntryShape
      <4> QED BY <1>5, <3>2, <4>2, <4>3, <4>4 DEF ProcStep
    <3> DEFINE m == GetLastHashChainPos
    <3>10. /\ m >= 0 /\ \A i \in 0 .. m : i \in DOMAIN Hashchains /\ Linked(i)
           /\ \A i \in DOMAIN reply : i <= m => reply[i] = Hashchains[i]
      BY <3>3, <3>9 DEF Validate
    <3>11. m \in Nat /\ DOMAIN Hashchains = 0 .. m
           /\ \A i \in DOMAIN Hashchains : i <= m
      <4>1. m \in -1 .. MaxLen /\ \A i \in DOMAIN Hashchains : i <= m
        BY LastPosition DEF ChainType
      <4>2. DOMAIN Hashchains \subseteq Nat
        BY DEF ChainType, DataTypes, Position
      <4> HIDE DEF m
      <4>3. m \in Nat
        BY <3>10, <4>1, ChainBounds
      <4>4. \A i \in DOMAIN Hashchains : i \in 0 .. m
        BY <4>1, <4>2, <4>3
      <4>5. \A i \in 0 .. m : i \in DOMAIN Hashchains
        BY <3>10
      <4> QED BY <4>1, <4>3, <4>4, <4>5, Zenon
    <3>12. \A i \in DOMAIN Hashchains :
             Hashchains[i].hash = [j \in 1 .. i + 1 |-> Hashchains[j - 1].content]
      <4> HIDE DEF m
      <4> QED BY <3>10, <3>11, LinksMakeChain DEF ChainType
    <3>13. Validated
      BY <3>10, <3>11, <3>12 DEF Validated
    <3> QED BY <2>1, <3>8, <3>13 DEF Validated
  <2> QED BY <2>2, <2>3
<1> QED BY <1>1, <1>4, <1>5, NextCases

(* No contact is being added at first.                                      *)
LEMMA InitValid == Init => ValidInv
<1>1. Init => \A p \in Procs : todo[p] = <<>>
  BY Zenon DEF Init
<1>2. ~ PastValidate(<<>>)
  BY DEF PastValidate
<1> QED BY <1>1, <1>2 DEF ValidInv

(* A contact is added only on a chain that the server could have published, *)
(* with our own UID message where it promised, though the server may go on  *)
(* from an earlier version of its chain, calls and writes fail and the      *)
(* command is interrupted anywhere.                                         *)
THEOREM OneChain ==
  ASSUME DeletesAlone, RewritesAlone
  PROVE  Spec => ContactOnOneChain
<1> DEFINE Known == (MaxRewrites = 0 => HonestInv) /\ (OneProcess => ValidInv)
           Added == \A p \in Procs : Succeeds(p, "keyinit") =>
             /\ \A i \in DOMAIN Hashchains :
                  Hashchains[i].hash = [j \in 1 .. i + 1 |-> Hashchains[j - 1].content]
             /\ \A i \in DOMAIN reply \cap DOMAIN Hashchains : reply[i] = Hashchains[i]
<1>1. ChainType /\ CopyInv /\ ServerLinked /\ Known /\ [Next]_vars => Added
  <2> SUFFICES ASSUME ChainType, CopyInv, ServerLinked, Known, [Next]_vars,
                      NEW p \in Procs, Succeeds(p, "keyinit")
               PROVE  Validated
    BY DEF Validated
  <2>1. CASE MaxRewrites = 0
    BY <2>1, HonestChain
  <2>2. CASE OneProcess
    <3>1. todo[p] # <<>> /\ todo[p][1].cmd = "keyinit" /\ Plan(todo[p])
      BY Zenon DEF Succeeds, Command, ChainType, ProcTypes
    <3>2. PastValidate(todo[p])
      BY <3>1, FirstCommand DEF PastValidate
    <3> QED BY <2>2, <3>2 DEF ValidInv
  <2> QED BY <2>1, <2>2, ChainBounds DEF RewritesAlone
<1>2. ChainType /\ CopyInv /\ [Next]_vars => CopyInv'
  BY NextCopy
<1>3. ChainType /\ Known /\ [Next]_vars => Known'
  BY NextHonest, NextValid DEF OneProcess
<1>4. Init => Known
  BY InitHonest, InitValid
<1>5. ContactOnOneChain <=> [][Added]_vars
  BY DEF ContactOnOneChain
<1> HIDE DEF Known, Added
<1> QED
  BY <1>1, <1>2, <1>3, <1>4, <1>5, InitType, InitCopy, InitLinked, NextType, NextLinked, PTL
     DEF Spec

-----------------------------------------------------------------------------
(* No contact add fails at a signature *)

(* ServerSigns is inductive when the server never rewrites its chain.       *)
LEMMA NextSigns ==
  ASSUME MaxRewrites = 0
  PROVE  ChainType /\ ServerSigns /\ [Next]_vars => ServerSigns'
<1> SUFFICES ASSUME ChainType, ServerSigns, [Next]_vars
             PROVE  ServerSigns'
  OBVIOUS
<1> DEFINE n == Len(chain)
           Key(i) == chain'[i].content.srv
<1>1. chain \in Seq(Row) /\ n \in Nat /\ n >= 1
  BY ChainBounds DEF ChainType, DataTypes
<1>2. \A i \in 1 .. n : chain'[i] = chain[i] /\ chain[i].content.srv \in Nat
  <2>1. \A i \in 1 .. n : chain[i] \in Row
    <3> HIDE DEF Row
    <3> QED BY <1>1
  <2>2. \A i \in 1 .. n : chain[i].content.srv \in Nat
    BY <2>1 DEF Row, Content
  <2> QED BY <2>2, ServerGrows
<1>3. chain'[1].content.id = Keyserver
  BY <1>1, <1>2 DEF ServerSigns
<1>4. ASSUME NEW i \in 2 .. n
      PROVE  SignedBy(i)'
  <2> DEFINE s == chain[i].content.srv
  <2>1. /\ s \in Nat /\ s <= i - 2 /\ chain[s + 1].content.id = Keyserver
        /\ \A j \in s + 2 .. i - 1 : chain[j].content.id # Keyserver
    BY <1>1, <1>2 DEF ServerSigns, SignedBy
  <2>2. chain'[i].content.srv = s
    BY <1>1, <1>2
  <2> HIDE DEF s
  <2>3. s + 1 \in 1 .. n /\ \A j \in s + 2 .. i - 1 : j \in 1 .. n
    BY <1>1, <2>1
  <2> QED BY <1>2, <2>1, <2>2, <2>3 DEF SignedBy
<1>5. ASSUME NEW id \in Ids, CreateUID(id), NEW m, m = n + 1
      PROVE  Len(chain') = m /\ SignedBy(m)'
  <2> DEFINE e == Entry(chain, id)
             k == SrvKey(chain)
  <2>1. e \in Row /\ e.content.srv = k /\ chain' = Append(chain, e)
    BY <1>5, EntryType DEF CreateUID, ChainType
  <2>2. Len(chain') = n + 1 /\ chain'[n + 1] = e
    <3> HIDE DEF e, Row
    <3> QED BY <1>1, <2>1
  <2>3. /\ k \in Nat
        /\ k = 0 \/ (k < n /\ chain[k + 1].content.id = Keyserver)
        /\ \A i \in 0 .. n - 1 : chain[i + 1].content.id = Keyserver => i <= k
    BY <1>1, ServerKey
  <2>4. k + 1 \in 1 .. n /\ chain[k + 1].content.id = Keyserver
    <3> HIDE DEF n, k
    <3> QED BY <1>1, <2>3 DEF ServerSigns
  <2>5. ASSUME NEW j \in k + 2 .. n
        PROVE  j \in 1 .. n /\ chain[j].content.id # Keyserver
    <3> HIDE DEF n, k
    <3>1. j - 1 \in 0 .. n - 1 /\ (j - 1) + 1 = j /\ ~ (j - 1 <= k) /\ j \in 1 .. n
      BY <1>1, <2>3
    <3> QED BY <2>3, <3>1
  <2>6. chain'[m].content.srv = k
    BY <1>5, <2>1, <2>2
  <2> HIDE DEF n, k
  <2>7. k <= m - 2 /\ m - 1 = n
    BY <1>1, <1>5, <2>3, <2>4
  <2>8. chain'[k + 1] = chain[k + 1] /\ \A j \in k + 2 .. n : chain'[j].content.id # Keyserver
    BY <1>2, <2>4, <2>5
  <2> QED BY <1>5, <2>2, <2>4, <2>6, <2>7, <2>8 DEF SignedBy
<1>6. CASE Len(chain') = n
  BY <1>3, <1>4, <1>6 DEF ServerSigns
<1>7. CASE \E id \in Ids : CreateUID(id)
  <2>1. Len(chain') = n + 1 /\ \A m : m = n + 1 => SignedBy(m)'
    BY <1>5, <1>7
  <2>2. ASSUME NEW i \in 2 .. Len(chain')
        PROVE  SignedBy(i)'
    <3>1. i \in 2 .. n \/ i = n + 1
      BY <1>1, <2>1
    <3> QED BY <1>4, <2>1, <3>1
  <2> QED BY <1>3, <2>2 DEF ServerSigns
<1>8. CASE Rewrite
  BY <1>8, ChainBounds DEF Rewrite, ChainType, DataTypes
<1>9. CASE UNCHANGED vars \/ \E p \in Procs : ProcStep(p)
  <2>1. chain' = chain
    BY <1>9, ProcKeepsServer DEF vars, server
  <2> QED BY <1>6, <2>1
<1> QED BY <1>7, <1>8, <1>9, NextCases

(* It holds of the server's first entry.                                    *)
LEMMA InitSigns == Init => ServerSigns
<1> SUFFICES ASSUME Init PROVE ServerSigns
  OBVIOUS
<1>1. Len(chain) = 1 /\ chain[1].content.id = Keyserver
  BY Zenon DEF Init
<1> QED BY <1>1 DEF ServerSigns

(* UIDsOfChain is inductive: a UID is added for a row.                      *)
LEMMA NextUIDs ==
  ASSUME MaxRewrites = 0
  PROVE  ChainType /\ HonestInv /\ UIDsOfChain /\ [Next]_vars => UIDsOfChain'
<1> SUFFICES ASSUME ChainType, HonestInv, UIDsOfChain, [Next]_vars,
                    NEW u \in PublicUIDs'
             PROVE  u.pos < Len(chain') /\ chain'[u.pos + 1].content.id = u.id
  BY DEF UIDsOfChain
<1> DEFINE n == Len(chain)
<1>1. /\ n \in Nat /\ Len(chain') \in Nat /\ n <= Len(chain')
      /\ \A i \in 1 .. n : chain'[i] = chain[i]
  BY ServerGrows DEF ChainType, DataTypes
<1>2. \A i \in Nat : i < n => i < Len(chain') /\ chain'[i + 1] = chain[i + 1]
  BY <1>1
<1>3. CASE u \in PublicUIDs
  <2>1. u.pos \in Nat
    BY <1>3 DEF ChainType, DataTypes, Position
  <2> QED BY <1>2, <1>3, <2>1 DEF UIDsOfChain
<1>4. ASSUME NEW p \in Procs, SearchEntry(p) \/ LookupEntry(p), u \notin PublicUIDs
      PROVE  u.pos < Len(chain') /\ chain'[u.pos + 1].content.id = u.id
  <2> DEFINE id == Command(p).id
             i == loc[p].list[1]
  <2>1. EntryAdds(p, id, i)
    BY <1>4, EntryShape, Zenon DEF EntryFails, EntryPasses, Skip
  <2>2. /\ i \in DOMAIN Hashchains /\ Hashchains[i].content.id = id
        /\ u = [id |-> id, pos |-> i, content |-> FetchUID(i)]
    BY <1>4, <2>1 DEF EntryAdds, AddPublicUID
  <2>3. u.id = id /\ u.pos = i
    BY <2>2
  <2>4. i \in Nat /\ i < n /\ Hashchains[i] = chain[i + 1]
    BY <2>2 DEF HonestInv, ChainType, DataTypes, Position
  <2> QED BY <1>2, <2>2, <2>3, <2>4
<1>5. CASE (\E id \in Ids : CreateUID(id)) \/ Rewrite \/ UNCHANGED vars
  BY <1>3, <1>5, ServerStep
<1>6. ASSUME NEW p \in Procs, ProcStep(p), u \notin PublicUIDs
      PROVE  SearchEntry(p) \/ LookupEntry(p)
  BY <1>6, Zenon
     DEF ProcStep, Start, FetchLastHashChain, FetchHashChain, StoreEntry, StoreFails,
         Validate, SearchBegin, SearchEnd, LookupUID, FetchKeyInit, DelHashChain, Fault, keydb
<1> QED BY <1>3, <1>4, <1>5, <1>6, NextCases

(* With one process, a search leaves the rows alone.                        *)
LEMMA SearchKeepsRows ==
  ASSUME OneProcess, [Next]_vars, NEW p \in Procs, todo[p] # <<>>, Command(p).cmd = "search"
  PROVE  UNCHANGED Hashchains
<1>1. \A q \in Procs : q = p
  BY DEF OneProcess
<1>2. ~ StoreEntry(p) /\ ~ DelHashChain(p)
  BY DEF StoreEntry, DelHashChain, Running
<1> QED BY <1>1, <1>2, RowsChange

(* KeysStored is inductive: mutecryptAddContact searches for the server     *)
(* before it searches for the contact.                                      *)
LEMMA NextStored ==
  ASSUME OneProcess
  PROVE  ChainType /\ CopyInv /\ SearchInv /\ KeysStored /\ [Next]_vars => KeysStored'
<1> SUFFICES ASSUME ChainType, CopyInv, SearchInv, KeysStored, [Next]_vars, NEW p \in Procs
             PROVE  /\ Running(p, "search", "entry")' => DOMAIN Hashchains' \subseteq 0 .. loc'[p].max
                    /\ Len(todo'[p]) = 2 =>
                         \A i \in DOMAIN Hashchains' :
                           Hashchains'[i].content.id = Keyserver => Stored(Keyserver, i)'
  BY DEF KeysStored
<1>1. /\ Plan(todo[p]) /\ DOMAIN todo = Procs /\ loc[p].max \in Int
      /\ \A q \in Procs : q = p
  BY DEF ChainType, ProcTypes, LocType, OneProcess
<1>2. ASSUME Running(p, "search", "entry")'
      PROVE  DOMAIN Hashchains' \subseteq 0 .. loc'[p].max
  <2>1. todo'[p] # <<>> /\ todo'[p][1].cmd = "search" /\ loc'[p].pc = "entry"
    BY <1>2 DEF Running, Command
  <2>2. CASE Same(p)
    <3>1. Running(p, "search", "entry")
      BY <2>1, <2>2 DEF Same, Running, Command
    <3>2. UNCHANGED Hashchains
      BY <3>1, SearchKeepsRows DEF Running
    <3> QED BY <2>2, <3>1, <3>2 DEF Same, KeysStored
  <2>3. CASE Begun(p)
    BY <2>3 DEF Begun, keydb, CopyInv, Gapless
  <2>4. CASE Passed(p)
    BY <2>4 DEF Passed, KeysStored
  <2> QED BY <1>2, <2>2, <2>3, <2>4, SearchNext
<1>3. ASSUME Len(todo'[p]) = 2, NEW i \in DOMAIN Hashchains',
             Hashchains'[i].content.id = Keyserver
      PROVE  Stored(Keyserver, i)'
  <2>1. ASSUME UNCHANGED Hashchains, Stored(Keyserver, i)
        PROVE  Stored(Keyserver, i)'
    BY <2>1, UIDsGrow DEF Stored
  <2>2. CASE todo'[p] = todo[p]
    <3>1. todo[p] # <<>> /\ Command(p).cmd = "search"
      <4>1. todo[p] # <<>>
        BY <1>3, <2>2
      <4> QED BY <1>1, <1>3, <2>2, <4>1, FirstCommand DEF Command
    <3>2. UNCHANGED Hashchains
      BY <3>1, SearchKeepsRows
    <3> QED BY <1>3, <2>1, <2>2, <3>2 DEF KeysStored
  <2>3. CASE todo'[p] # todo[p]
    <3>1. ProcStep(p)
      <4>1. CASE (\E id \in Ids : CreateUID(id)) \/ Rewrite \/ UNCHANGED vars
        BY <2>3, <4>1, ServerStep
      <4> QED BY <1>1, <4>1, NextCases
    <3>2. ~ Start(p)
      <4>1. \A id : Len(AddContact(id)) = 5
        BY DEF AddContact
      <4>2. \A x : Len(<<x>>) # 2
        OBVIOUS
      <4>3. ASSUME NEW t, Len(t) # 2
            PROVE  todo' # [todo EXCEPT ![p] = t]
        BY <1>1, <1>3, <4>3
      <4>4. \A id : todo' # [todo EXCEPT ![p] = AddContact(id)]
        BY <4>1, <4>3
      <4>5. \A x : todo' # [todo EXCEPT ![p] = <<x>>]
        BY <4>2, <4>3, Zenon
      <4> QED BY <4>4, <4>5, Zenon DEF Start
    <3>3. \A what : ~ Error(p, what)
      <4>1. \A what : Error(p, what) => todo'[p] = <<>>
        BY <1>1 DEF Error
      <4> QED BY <1>3, <4>1
    <3>4. todo[p] # <<>> /\ Done(p)
      BY <2>3, <3>1, <3>2, <3>3, OwnStep
    <3>5. todo'[p] = Tail(todo[p])
      BY <1>1, <3>4, Zenon DEF Done
    <3>6. Len(todo[p]) = 3
      <4>1. Len(todo[p]) \in Nat /\ Len(Tail(todo[p])) = Len(todo[p]) - 1
        BY <1>1, <3>4, PlanTail
      <4> QED BY <1>3, <3>5, <4>1
    <3>7. Command(p).cmd = "search" /\ Command(p).id = Keyserver
      BY <1>1, <3>4, <3>6, FirstCommand DEF Command
    <3>8. loc[p].pc = "entry" /\ loc[p].list = <<>> /\ UNCHANGED Hashchains
      BY <3>1, <3>4, <3>7, SearchDone, SearchKeepsRows DEF SearchEnd
    <3>9. Running(p, "search", "entry")
      BY <3>4, <3>7, <3>8 DEF Running
    <3>10. i \in 0 .. loc[p].max - Len(loc[p].list)
      <4>1. i \in 0 .. loc[p].max
        BY <1>3, <3>8, <3>9 DEF KeysStored
      <4>2. Len(loc[p].list) = 0
        BY <3>8
      <4> QED BY <1>1, <4>1, <4>2
    <3>11. Stored(Keyserver, i)
      BY <1>3, <3>7, <3>8, <3>9, <3>10 DEF SearchInv, Searching
    <3> QED BY <2>1, <3>8, <3>11
  <2> QED BY <2>2, <2>3
<1> QED BY <1>2, <1>3

(* Nothing is stored and nobody searches at first.                          *)
LEMMA InitStored == Init => UIDsOfChain /\ KeysStored
<1>1. Init => PublicUIDs = {} /\ \A p \in Procs : todo[p] = <<>>
  BY Zenon DEF Init
<1>2. Len(<<>>) # 2
  OBVIOUS
<1> QED BY <1>1, <1>2 DEF UIDsOfChain, KeysStored, Running

(* The key that verifyServerSig takes is the one that the server has signed *)
(* with, provided it is stored.                                             *)
LEMMA RightKey ==
  ASSUME ChainType, HonestInv, ServerSigns, UIDsOfChain,
         NEW i \in DOMAIN Hashchains, i # 0,
         Stored(Keyserver, Hashchains[i].content.srv),
         Hashchains[i].content.id # Keyserver \/ GetPublicUID(Keyserver, i) # i
  PROVE  GetPublicUID(Keyserver, i) = Hashchains[i].content.srv
<1> DEFINE s == Hashchains[i].content.srv
           g == GetPublicUID(Keyserver, i)
<1>1. i \in Nat /\ i < Len(chain) /\ Hashchains[i] = chain[i + 1] /\ Len(chain) \in Nat
  BY DEF HonestInv, ChainType, DataTypes, Position
<1>2. s \in Nat /\ s <= i - 1 /\ \A j \in s + 2 .. i : chain[j].content.id # Keyserver
  <2>1. i + 1 \in 2 .. Len(chain) /\ (i + 1) - 2 = i - 1 /\ (i + 1) - 1 = i
    BY <1>1
  <2>2. s \in Nat
    BY DEF ChainType, DataTypes, Row, Content
  <2> QED BY <1>1, <2>1, <2>2 DEF ServerSigns, SignedBy
<1>3. PICK u \in PublicUIDs : u.id = Keyserver /\ u.pos = s
  BY DEF Stored
<1>4. g \in Int /\ s <= g /\ g <= i /\ Stored(Keyserver, g)
  <2>1. /\ g \in -1 .. MaxLen
        /\ g >= 0 => g <= i /\ Stored(Keyserver, g)
        /\ \A v \in PublicUIDs : v.id = Keyserver /\ v.pos <= i => v.pos <= g
    BY <1>1, UIDPosition DEF ChainType
  <2> HIDE DEF g, s
  <2>2. s <= i
    BY <1>1, <1>2
  <2>3. s <= g
    BY <1>3, <2>1, <2>2
  <2>4. g \in Int /\ g >= 0
    BY <1>2, <2>1, <2>3, ChainBounds
  <2> QED BY <2>1, <2>3, <2>4
<1>5. chain[g + 1].content.id = Keyserver
  BY <1>4 DEF Stored, UIDsOfChain
<1>6. g # i
  BY <1>1, <1>5
<1>7. ~ (g + 1 \in s + 2 .. i)
  BY <1>2, <1>5
<1> HIDE DEF g, s
<1>8. g = s
  BY <1>1, <1>2, <1>4, <1>6, <1>7
<1> QED BY <1>8 DEF g, s

(* Search and lookup are only run by mutecryptAddContact.                   *)
OnlyContactAdd == Commands \cap {"search", "lookup"} = {}

(* What a contact add relies on to accept every signature.                  *)
KeysInv ==
  CopyInv /\ SearchInv /\ HonestInv /\ ServerSigns /\ UIDsOfChain /\ KeysStored

(* A search of mutecryptAddContact accepts the signature of every entry.    *)
LEMMA SignatureHolds ==
  ASSUME OneProcess, OnlyContactAdd, ChainType, KeysInv, NEW p \in Procs,
         SearchEntry(p) \/ LookupEntry(p),
         NEW id, id = Command(p).id, NEW i, i = loc[p].list[1],
         i \in DOMAIN Hashchains, Hashchains[i].content.id = id, ~ UIDExists(id, i)
  PROVE  VerifyServerSig(FetchUID(i), i)
<1> DEFINE l == loc[p]
           s == Hashchains[i].content.srv
<1>1. /\ todo[p] # <<>> /\ l.pc = "entry" /\ l.list # <<>> /\ Plan(todo[p])
      /\ Command(p).cmd \in {"search", "lookup"}
  BY EntryShape, Zenon DEF ChainType, ProcTypes
<1>2. /\ Command(p).cmd = "search"
      /\ (Len(todo[p]) = 3 /\ id = Keyserver) \/ Len(todo[p]) = 2
  <2> DEFINE t == todo[p]
  <2>1. /\ Len(t) \in 1 .. 5
        /\ Len(t) = 5 => t[1].cmd = "sync"
        /\ Len(t) = 4 => t[1].cmd = "validate"
        /\ Len(t) = 3 => t[1].cmd = "search" /\ t[1].id = Keyserver
        /\ Len(t) = 2 => t[1].cmd = "search"
        /\ Len(t) = 1 => t[1].cmd \in Commands \cup {"keyinit"}
    BY <1>1, FirstCommand, Zenon
  <2>2. t[1] = Command(p)
    BY Zenon DEF Command
  <2> HIDE DEF t
  <2>3. t[1].cmd \in {"search", "lookup"} /\ t[1].id = id
    BY <1>1, <2>2, Zenon
  <2>4. Len(t) # 1
    BY ONLY <2>1, <2>3, OnlyContactAdd DEF OnlyContactAdd
  <2>5. t[1].cmd = "search" /\ ((Len(t) = 3 /\ t[1].id = Keyserver) \/ Len(t) = 2)
    BY ONLY <2>1, <2>3, <2>4
  <2> QED BY <2>2, <2>3, <2>5, Zenon DEF t
<1>3. Running(p, "search", "entry")
  BY <1>1, <1>2 DEF Running
<1>4. i \in Nat /\ i < Len(chain) /\ Hashchains[i] = chain[i + 1] /\ Len(chain) \in Nat
  BY DEF KeysInv, HonestInv, ChainType, DataTypes, Position
<1>5. CASE i = 0
  BY <1>4, <1>5 DEF KeysInv, ServerSigns, VerifyServerSig, FetchUID
<1>6. CASE i # 0
  <2>1. s \in Nat /\ s <= i - 1 /\ chain[s + 1].content.id = Keyserver
    <3>1. i + 1 \in 2 .. Len(chain) /\ (i + 1) - 2 = i - 1
      BY <1>4, <1>6
    <3>2. s \in Nat
      BY DEF ChainType, DataTypes, Row, Content
    <3> QED BY <1>4, <3>1, <3>2, Zenon DEF KeysInv, ServerSigns, SignedBy
  <2>2. s \in DOMAIN Hashchains
    <3>1. DOMAIN Hashchains = 0 .. GetLastHashChainPos /\ GetLastHashChainPos \in Int
      BY LastPosition DEF ChainType, KeysInv, CopyInv, Gapless
    <3> HIDE DEF s
    <3> QED BY <1>4, <2>1, <3>1
  <2>3. Hashchains[s].content.id = Keyserver
    BY <2>1, <2>2, Zenon DEF KeysInv, HonestInv
  <2>4. Stored(Keyserver, s)
    <3>1. CASE Len(todo[p]) = 2
      BY <2>2, <2>3, <3>1, Zenon DEF KeysInv, KeysStored
    <3>2. CASE id = Keyserver
      <4>1. /\ l.list \in Seq(Int) /\ l.max \in Int
            /\ \A k \in 1 .. Len(l.list) : l.list[k] = l.max - Len(l.list) + k
            /\ \A j \in 0 .. l.max - Len(l.list) :
                 Hashchains[j].content.id = id => Stored(id, j)
        BY <1>3, Zenon DEF KeysInv, SearchInv, Searching, ChainType, ProcTypes, LocType
      <4> DEFINE n == Len(l.list)
                 m == l.max
      <4>2. n \in Nat /\ n > 0
        <5> DEFINE q == l.list
        <5>1. q \in Seq(Int) /\ q # <<>>
          BY <1>1, <4>1, Zenon
        <5> HIDE DEF q
        <5>2. Len(q) \in Nat /\ Len(q) # 0
          BY <5>1
        <5> QED BY <5>2 DEF q
      <4>3. i = m - n + 1
        <5>1. 1 \in 1 .. n
          BY <4>2
        <5> QED BY <4>1, <5>1
      <4>4. s \in 0 .. m - n
        <5>1. m \in Int
          BY <4>1
        <5> HIDE DEF n, m, s
        <5> QED BY <1>4, <2>1, <4>2, <4>3, <5>1
      <4> QED BY <2>3, <3>2, <4>1, <4>4, Zenon
    <3> QED BY <1>2, <3>1, <3>2
  <2>5. Hashchains[i].content.id # Keyserver \/ GetPublicUID(Keyserver, i) # i
    BY DEF UIDExists
  <2>6. GetPublicUID(Keyserver, i) = s
    BY <1>6, <2>4, <2>5, RightKey, Zenon DEF KeysInv
  <2> QED BY <2>6 DEF VerifyServerSig, FetchUID
<1> QED BY <1>5, <1>6

(* ContactVerifies is inductive relative to KeysInv.                        *)
LEMMA NextVerifies ==
  ASSUME OneProcess, OnlyContactAdd
  PROVE  ChainType /\ KeysInv /\ ContactVerifies /\ [Next]_vars => ContactVerifies'
<1> SUFFICES ASSUME ChainType, KeysInv, ContactVerifies, [Next]_vars, NEW p \in Procs
             PROVE  outcome'[p] # "signature"
  BY DEF ContactVerifies
<1>1. DOMAIN outcome = Procs /\ outcome[p] # "signature" /\ \A q \in Procs : q = p
  BY DEF ChainType, ProcTypes, ContactVerifies, OneProcess
<1>2. \A what : Error(p, what) => outcome'[p] = what
  BY <1>1 DEF Error
<1>3. Done(p) => outcome'[p] \in {"", "done"}
  BY <1>1, Zenon DEF Done
<1>4. CASE UNCHANGED outcome
  BY <1>1, <1>4
<1>5. CASE Start(p)
  BY <1>1, <1>5, Zenon DEF Start
<1>6. CASE FetchLastHashChain(p) \/ FetchHashChain(p) \/ StoreEntry(p) \/ StoreFails(p)
  BY <1>2, <1>3, <1>4, <1>6, Zenon DEF FetchLastHashChain, FetchHashChain, StoreEntry, StoreFails
<1>7. CASE Validate(p) \/ SearchBegin(p) \/ SearchEnd(p) \/ LookupUID(p)
  BY <1>2, <1>3, <1>4, <1>7, Zenon DEF Validate, SearchBegin, SearchEnd, LookupUID
<1>8. CASE FetchKeyInit(p) \/ DelHashChain(p) \/ Fault(p)
  BY <1>2, <1>3, <1>8, Zenon DEF FetchKeyInit, DelHashChain, Fault
<1>9. CASE SearchEntry(p) \/ LookupEntry(p)
  <2> DEFINE id == Command(p).id
             i == loc[p].list[1]
  <2>1. CASE EntryPasses(p, id, i) \/ EntryAdds(p, id, i)
    BY <1>4, <2>1, Zenon DEF EntryPasses, EntryAdds, Skip, AddPublicUID
  <2>2. CASE EntryFails(p, id, i)
    <3>1. CASE Error(p, "noentry") \/ Error(p, "bogus")
      BY <1>2, <3>1
    <3>2. CASE /\ i \in DOMAIN Hashchains /\ Hashchains[i].content.id = id
               /\ ~UIDExists(id, i) /\ ~VerifyServerSig(FetchUID(i), i)
      BY <1>9, <3>2, SignatureHolds, Zenon
    <3> QED BY <2>2, <3>1, <3>2 DEF EntryFails
  <2> QED BY <1>9, <2>1, <2>2, EntryShape
<1>10. CASE (\E id \in Ids : CreateUID(id)) \/ Rewrite \/ UNCHANGED vars
  BY <1>4, <1>10, ServerStep
<1> QED BY <1>1, <1>5, <1>6, <1>7, <1>8, <1>9, <1>10, NextCases, Zenon DEF ProcStep

(* A contact add never fails at a signature of an honest key server,        *)
(* however often the server changes its key and whatever is interrupted or  *)
(* deleted between two commands, as long as the commands are given one      *)
(* after the other and searching is left to mutecryptAddContact.            *)
THEOREM Verifies ==
  ASSUME OneProcess, OnlyContactAdd, MaxRewrites = 0
  PROVE  Spec => []ContactVerifies
<1> USE DEF KeysInv
<1>1. DeletesAlone
  BY DEF DeletesAlone
<1>2. ChainType /\ KeysInv /\ [Next]_vars => KeysInv'
  BY <1>1, NextCopy, NextSearch, NextHonest, NextSigns, NextUIDs, NextStored
<1>3. Init => ChainType /\ KeysInv
  BY InitType, InitCopy, InitSearch, InitHonest, InitSigns, InitStored
<1>4. Init => ContactVerifies
  BY Zenon DEF Init, ContactVerifies
<1>5. ChainType /\ KeysInv /\ ContactVerifies /\ [Next]_vars => ContactVerifies'
  BY NextVerifies
<1> HIDE DEF KeysInv
<1> QED BY <1>2, <1>3, <1>4, <1>5, NextType, PTL DEF Spec
====

---- MODULE ConfigClient ----
(***************************************************************************)
(* Fetching the system configuration (package configclient), as mutectrl   *)
(* does at the start of a command: Config.Update asks the configuration    *)
(* servers in an order of priorities, checks the date of the signed map it *)
(* gets and fetches the CA certificate if its hash has changed; mutectrl   *)
(* keeps the result in its message database and loads it for every command.*)
(*                                                                         *)
(* A signed map is its date and the hash of the CA certificate, or NoHash; *)
(* a CA certificate is its hash.  Signatures verify: only the operator     *)
(* signs.  The servers are external: each serves the map it was given last *)
(* or does not answer, and a server may be behind the others.  A step is a *)
(* request, or an access to the database.                                  *)
(***************************************************************************)
EXTENDS Naturals, Sequences, SequencesExt

CONSTANTS Procs,            \* mutectrl processes on one database
          Servers,          \* configuration servers of URLList
          prio,             \* prio[s]: priority of server s
          Hashes,           \* CA certificates that occur
          NoHash,           \* a map without CACertHash
          Nil,              \* no map, or no certificate
          MaxSignatureAge,  \* 14400 s, in units of two hours
          skew,             \* 82800 s, in these units
          Start, MaxTime    \* bound: the time in which commands run

VARIABLES
  now,        \* the time
  signed,     \* the map the operator has signed last
  served,     \* served[s]: the map server s serves
  saved,      \* the configuration in the message database
  config,     \* config[p]: CACert, Map and LastSignDate of process p
  order,      \* order[p]: its field servers
  curServer,  \* curServer[p]: its field curServer, from 0
  cert,       \* cert[p]: the map Update has received
  tried,      \* history: tried[p], the servers Update has asked for the map
  pc          \* pc[p]: "idle", in Update, or "panic"

vars == <<now, signed, served, saved, config, order, curServer, cert, tried, pc>>

NoConfig == [CACert |-> Nil, Map |-> Nil, LastSignDate |-> 0]

Init ==
  /\ now = Start
  /\ signed \in [date : {Start}, hash : Hashes]
  /\ served = [s \in Servers |-> signed]
  /\ saved = NoConfig
  /\ config = [p \in Procs |-> NoConfig]
  /\ order = [p \in Procs |-> << >>]
  /\ curServer = [p \in Procs |-> 0]
  /\ cert = [p \in Procs |-> Nil]
  /\ tried = [p \in Procs |-> {}]
  /\ pc = [p \in Procs |-> "idle"]

-----------------------------------------------------------------------------
(* The operator and the servers *)

Tick ==
  /\ now < MaxTime
  /\ now' = now + 1
  /\ UNCHANGED <<signed, served, saved, config, order, curServer, cert, tried, pc>>

Sign ==
  /\ signed.date < now
  /\ signed' \in [date : {now}, hash : Hashes \cup {NoHash}]
  /\ UNCHANGED <<now, served, saved, config, order, curServer, cert, tried, pc>>

Publish(s) ==
  /\ served[s] # signed
  /\ served' = [served EXCEPT ![s] = signed]
  /\ UNCHANGED <<now, signed, saved, config, order, curServer, cert, tried, pc>>

-----------------------------------------------------------------------------
(* roundrobin *)

(* ParseServers, sort.Sort and Order: by priority, at random within one.    *)
Order == {o \in SetToSeqs(Servers) :
            \A i, j \in DOMAIN o : i < j => prio[o[i]] <= prio[o[j]]}

(* append(servers[cur:], servers[:cur]...) *)
Rotate(o, cur) == SubSeq(o, cur + 1, Len(o)) \o SubSeq(o, 1, cur)

-----------------------------------------------------------------------------
(* sortedmap *)

diff(a, b) == IF a > b THEN a - b ELSE b - a

(* Certify.  Faulty variant: a map older than the last one is accepted.     *)
CertifyAnyDate(lastSignDate, c) == diff(now, c.date) <= MaxSignatureAge

Certify(lastSignDate, c) ==
  /\ c.date >= lastSignDate
  /\ diff(now, c.date) <= MaxSignatureAge

-----------------------------------------------------------------------------
(* Update, called after the saved configuration is loaded *)

Loaded(p) == IF saved = NoConfig THEN config[p] ELSE saved

(* The first step of Update.  If curServer is behind the list no server is  *)
(* asked, err stays nil and cert.Config dereferences nil.                   *)
Update(p) ==
  /\ pc[p] = "idle"
  /\ config' = [config EXCEPT ![p] =
       IF Loaded(p).LastSignDate = 0 THEN [Loaded(p) EXCEPT !.LastSignDate = now - skew]
       ELSE Loaded(p)]
  /\ \E o \in Order : order' = [order EXCEPT ![p] = o]
  /\ tried' = [tried EXCEPT ![p] = {}]
  /\ pc' = [pc EXCEPT ![p] = IF curServer[p] < Len(order'[p]) THEN "config" ELSE "panic"]
  /\ UNCHANGED <<now, signed, served, saved, curServer, cert>>

Current(p) == order[p][curServer[p] + 1]

(* A request fails: the next server, or err is returned after the last.     *)
Failed(p) ==
  /\ curServer' = [curServer EXCEPT ![p] = @ + 1]
  /\ pc' = [pc EXCEPT ![p] = IF curServer[p] + 1 < Len(order[p]) THEN @ ELSE "idle"]

(* The certificate has to be fetched. *)
NeedCACert(p, c) == c.hash # NoHash /\ config[p].CACert # c.hash

GetConfig(p) ==
  /\ pc[p] = "config"
  /\ tried' = [tried EXCEPT ![p] = @ \cup {Current(p)}]
  /\ \/ /\ Certify(config[p].LastSignDate, served[Current(p)])
        /\ cert' = [cert EXCEPT ![p] = served[Current(p)]]
        /\ order' = [order EXCEPT ![p] = Rotate(@, curServer[p])]
        /\ curServer' = [curServer EXCEPT ![p] = 0]
        /\ pc' = [pc EXCEPT ![p] = IF NeedCACert(p, served[Current(p)]) THEN "cacert" ELSE "map"]
     \/ Failed(p) /\ UNCHANGED <<order, cert>>
  /\ UNCHANGED <<now, signed, served, saved, config>>

(* getCACert; a failed request sets CACert to nil. *)
GetCACert(p) ==
  /\ pc[p] = "cacert"
  /\ \/ /\ served[Current(p)].hash = cert[p].hash
        /\ config' = [config EXCEPT ![p].CACert = cert[p].hash]
        /\ pc' = [pc EXCEPT ![p] = "map"]
        /\ UNCHANGED curServer
     \/ config' = [config EXCEPT ![p].CACert = Nil] /\ Failed(p)
  /\ UNCHANGED <<now, signed, served, saved, order, cert, tried>>

(* c.Map and c.LastSignDate are set, Update returns, and upkeepFetchconf    *)
(* saves the configuration.                                                 *)
SetMap(p) ==
  /\ pc[p] = "map"
  /\ config' = [config EXCEPT ![p].Map = cert[p], ![p].LastSignDate = cert[p].date]
  /\ saved' = config'[p]
  /\ pc' = [pc EXCEPT ![p] = "idle"]
  /\ UNCHANGED <<now, signed, served, order, curServer, cert, tried>>

(* The process ends, or crashes, and a new one is started. *)
Restart(p) ==
  /\ config' = [config EXCEPT ![p] = NoConfig]
  /\ curServer' = [curServer EXCEPT ![p] = 0]
  /\ pc' = [pc EXCEPT ![p] = "idle"]
  /\ UNCHANGED <<now, signed, served, saved, order, cert, tried>>

Next ==
  \/ Tick \/ Sign
  \/ \E s \in Servers : Publish(s)
  \/ \E p \in Procs : Update(p) \/ GetConfig(p) \/ GetCACert(p) \/ SetMap(p) \/ Restart(p)

Spec == Init /\ [][Next]_vars

-----------------------------------------------------------------------------
(* Properties *)

(* The certificate kept is the one the map kept names, through failed       *)
(* requests, servers that are behind and restarts.                          *)
CertificateOfMap ==
  (saved.Map # Nil /\ saved.Map.hash # NoHash) => saved.CACert = saved.Map.hash

(* The configuration in the database never gets older, though a server may  *)
(* be behind the one asked before: `ErrWalkBack is returned if an old       *)
(* certificate was presented.'                                              *)
NoWalkBack == [][saved'.LastSignDate >= saved.LastSignDate]_vars

-----------------------------------------------------------------------------
(* What the documentation says and the code does not do *)

(* curServer is the `current server in servers list': when the next Update  *)
(* starts, it is one.                                                       *)
CurrentInList ==
  \A p \in Procs : (pc[p] = "idle" /\ order[p] # << >>) => curServer[p] < Len(order[p])

(* `Change server ordering to make working and untested first': an Update   *)
(* that gets the map from no server has asked all of them.                  *)
AllTried ==
  [][\A p \in Procs :
       (pc[p] = "config" /\ pc'[p] = "idle"
          /\ curServer'[p] = Len(order[p]))
         => tried'[p] = Servers]_vars
====

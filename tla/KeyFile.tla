------------------------------ MODULE KeyFile ------------------------------
(***************************************************************************)
(* An encrypted database (package encdb): dbname.db, encrypted with a      *)
(* random key, and dbname.key, this key encrypted with the passphrase.     *)
(* Create makes both; Rekey writes dbname.key.new and renames it.          *)
(*                                                                         *)
(* A file is a name in `dir' for an inode, as the file system has it: who  *)
(* has a file open goes on writing to it when it is removed or renamed.    *)
(* Rename is atomic (external).  A key file has three parts.  Reading one  *)
(* with a wrong passphrase gives some other key, not an error, since       *)
(* CBCDecrypt has no check.  A process may end between any two steps.      *)
(***************************************************************************)
EXTENDS Naturals

CONSTANTS Procs, Passphrases,
          NoPass,      \* none of the Passphrases
          Exclusive,   \* one process at a time uses the database
          Stmts,       \* number of statements that initialise the database
          MaxInodes    \* bound: files created

ASSUME KeyFileBounds ==
  /\ Stmts \in Nat \ {0} /\ MaxInodes \in Nat
  /\ NoPass \notin Passphrases /\ Exclusive \in BOOLEAN

VARIABLES
  dir,      \* dir["key"], dir["new"]: the inodes of .key and .key.new, 0: none
  data,     \* data[inode]: [pass, key, parts]
  inodes,   \* inodes used
  stmts,    \* statements executed; the database file exists with the first
  loc,      \* loc[p]: [pc, name, old, new, key, fd]
  result    \* result[p]: what the last call returned

vars == <<dir, data, inodes, stmts, loc, result>>

Names == {"key", "new"}
Keys == {"raw", "other"}    \* the key of the database, another key
Parts == 3    \* number of iterations, salt, IV with the encrypted key

Nothing == [pass |-> NoPass, key |-> "other", parts |-> 0]
At(pc, name, old, new, key, fd) ==
  [pc |-> pc, name |-> name, old |-> old, new |-> new, key |-> key, fd |-> fd]
Idle == At("idle", "key", NoPass, NoPass, "other", 0)

Init ==
  /\ dir = [n \in Names |-> 0]
  /\ data = [i \in 1 .. MaxInodes |-> Nothing]
  /\ inodes = 0 /\ stmts = 0
  /\ loc = [p \in Procs |-> Idle]
  /\ result = [p \in Procs |-> "none"]

Goto(p, l) == loc' = [loc EXCEPT ![p] = l] /\ UNCHANGED result
Return(p, r) == /\ loc' = [loc EXCEPT ![p] = Idle]
                /\ result' = [result EXCEPT ![p] = r]

MayStart(p) ==
  /\ loc[p].pc = "idle"
  /\ Exclusive => \A q \in Procs : loc[q].pc = "idle"

(* ReadKeyfile has all parts to read.                                       *)
Complete(i) == i # 0 /\ data[i].parts = Parts

(* Open tests the key it has read with a query.                             *)
Opens(pass) ==
  /\ stmts > 0 /\ Complete(dir["key"])
  /\ data[dir["key"]].pass = pass /\ data[dir["key"]].key = "raw"

-----------------------------------------------------------------------------

(* Create: neither file may exist. *)
Create(p, new) ==
  /\ MayStart(p)
  /\ IF stmts > 0 \/ dir["key"] # 0 THEN Return(p, "refused")
     ELSE Goto(p, At("create", "key", NoPass, new, "raw", 0))
  /\ UNCHANGED <<dir, data, inodes, stmts>>

(* Rekey opens the database first, to test the old passphrase.              *)
Rekey(p, old, new) ==
  /\ MayStart(p)
  /\ IF ~ Opens(old) THEN Return(p, "wrong")
     ELSE Goto(p, At("read", "new", old, new, "other", 0))
  /\ UNCHANGED <<dir, data, inodes, stmts>>

(* The key that ReadKeyfile decrypts. *)
Decrypted(p, file) == IF file.pass = loc[p].old THEN file.key ELSE "other"

(* replaceKeyfile reads the key.                                            *)
ReadKeyfile(p) ==
  /\ loc[p].pc = "read"
  /\ IF ~ Complete(dir["key"]) THEN Return(p, "error")
     ELSE Goto(p, At("remove", "new", loc[p].old, loc[p].new,
                     Decrypted(p, data[dir["key"]]), 0))
  /\ UNCHANGED <<dir, data, inodes, stmts>>

(* os.Remove(tmpfile); faulty variant: the key file is removed too.         *)
RemoveBoth == [n \in Names |-> 0]

RemoveTmpfile == [dir EXCEPT !["new"] = 0]

Remove(p) ==
  /\ loc[p].pc = "remove"
  /\ dir' = RemoveTmpfile
  /\ Goto(p, [loc[p] EXCEPT !.pc = "create"])
  /\ UNCHANGED <<data, inodes, stmts>>

(* writeKeyfile: the file must not exist and is created (one step here),    *)
(* then written.                                                            *)
CreateKeyfile(p) ==
  /\ loc[p].pc = "create" /\ inodes < MaxInodes
  /\ IF dir[loc[p].name] # 0
     THEN Return(p, "exists") /\ UNCHANGED <<dir, data, inodes>>
     ELSE /\ inodes' = inodes + 1
          /\ dir' = [dir EXCEPT ![loc[p].name] = inodes + 1]
          /\ data' = [data EXCEPT ![inodes + 1] =
                        [pass |-> loc[p].new, key |-> loc[p].key, parts |-> 0]]
          /\ Goto(p, At("write", loc[p].name, loc[p].old, loc[p].new, loc[p].key, inodes + 1))
  /\ UNCHANGED stmts

Written(p) == data[loc[p].fd].parts = Parts

WriteKeyfile(p) ==
  /\ loc[p].pc = "write" /\ ~ Written(p)
  /\ data' = [data EXCEPT ![loc[p].fd].parts = @ + 1]
  /\ UNCHANGED <<dir, inodes, stmts, loc, result>>

CloseKeyfile(p) ==
  /\ loc[p].pc = "write" /\ Written(p)
  /\ Goto(p, [loc[p] EXCEPT !.pc = IF loc[p].name = "key" THEN "tables" ELSE "rename"])
  /\ UNCHANGED <<dir, data, inodes, stmts>>

(* createTables, and the version that keydb and msgdb add.                  *)
CreateTable(p) ==
  /\ loc[p].pc = "tables"
  /\ stmts' = stmts + 1
  /\ IF stmts' = Stmts THEN Return(p, "ok") ELSE UNCHANGED <<loc, result>>
  /\ UNCHANGED <<dir, data, inodes>>

Rename(p) ==
  /\ loc[p].pc = "rename"
  /\ IF dir["new"] = 0 THEN Return(p, "error") /\ UNCHANGED dir
     ELSE dir' = [n \in Names |-> IF n = "key" THEN dir["new"] ELSE 0] /\ Return(p, "ok")
  /\ UNCHANGED <<data, inodes, stmts>>

Crash(p) ==
  /\ loc[p].pc # "idle"
  /\ Return(p, "crashed")
  /\ UNCHANGED <<dir, data, inodes, stmts>>

Step(p) ==
  \/ \E new \in Passphrases : Create(p, new)
  \/ \E old, new \in Passphrases : Rekey(p, old, new)
  \/ ReadKeyfile(p) \/ Remove(p) \/ CreateKeyfile(p)
  \/ WriteKeyfile(p) \/ CloseKeyfile(p) \/ CreateTable(p) \/ Rename(p)
  \/ Crash(p)

Next == \E p \in Procs : Step(p)

Spec == Init /\ [][Next]_vars

-----------------------------------------------------------------------------
(* Properties *)

(* The passphrase that opens the database and finds its tables.             *)
CurrentPass ==
  IF stmts = Stmts /\ Complete(dir["key"]) /\ data[dir["key"]].key = "raw"
  THEN data[dir["key"]].pass ELSE NoPass

Promise == INSTANCE Passphrase WITH pass <- CurrentPass

(* encdb keeps its promise: once Create has succeeded, the database opens   *)
(* with one passphrase at every moment, also when a Rekey ends half-way;    *)
(* a passphrase is replaced in a single step and never lost.                *)
OnePassphrase == Promise!Spec

(* "The correct oldPassphrase must be supplied ... In case of error ... an  *)
(* error is returned": when Rekey returns no error, the database opens with *)
(* the new passphrase.                                                      *)
Rekeyed(p, new) ==
  /\ loc[p].pc = "rename" /\ loc[p].new = new
  /\ loc'[p].pc = "idle" /\ result'[p] = "ok"

RekeyTakes ==
  [][\A p \in Procs, new \in Passphrases : Rekeyed(p, new) => Opens(new)']_vars

(* What a crashed Rekey leaves behind does not refuse the next one.         *)
RekeyNotRefused == \A p \in Procs : result[p] # "exists"
====

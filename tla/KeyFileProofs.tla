--------------------------- MODULE KeyFileProofs ---------------------------
(***************************************************************************)
(* Proofs about KeyFile: while one process at a time uses the database,    *)
(* encdb keeps its promise for any number of processes, passphrases,       *)
(* files and statements, whatever the step at which a call ends.           *)
(***************************************************************************)
EXTENDS KeyFile, TLAPS

PassOrNone == Passphrases \cup {NoPass}
Pcs == {"idle", "create", "read", "remove", "write", "tables", "rename"}
Results == {"none", "refused", "wrong", "error", "exists", "ok", "crashed"}
Files == [pass : PassOrNone, key : Keys, parts : 0 .. Parts]
Locals == [pc : Pcs, name : Names, old : PassOrNone, new : PassOrNone,
           key : Keys, fd : 0 .. MaxInodes]

FilesOK ==
  /\ inodes \in 0 .. MaxInodes
  /\ dir \in [Names -> 0 .. inodes]
  /\ data \in [1 .. MaxInodes -> Files]
  /\ stmts \in 0 .. Stmts

CallsOK == loc \in [Procs -> Locals] /\ result \in [Procs -> Results]

TypeOK == FilesOK /\ CallsOK

(* The file holds the key of the database, encrypted with pass.             *)
Holds(i, pass) == Complete(i) /\ data[i].key = "raw" /\ data[i].pass = pass

(* One call at a time.                                                      *)
OneCall == \A p, q \in Procs : loc[p].pc # "idle" /\ loc[q].pc # "idle" => p = q

(* The two names are never names of one file.                               *)
TwoFiles == dir["key"] # 0 => dir["key"] # dir["new"]

(* Where there is a database, there is a complete key file.                 *)
KeyThere == stmts > 0 => \E pass \in Passphrases : Holds(dir["key"], pass)

(* What a call knows when it is at one of its steps.                        *)
CallInv(p) ==
  LET l == loc[p]
  IN  /\ l.pc # "idle" => l.new \in Passphrases
      /\ l.pc \in {"read", "remove"} => l.name = "new"
      /\ l.pc # "idle" /\ l.name = "new" => stmts > 0
      /\ l.pc = "read" => Holds(dir["key"], l.old)
      /\ l.pc \in {"remove", "create"} => l.key = "raw"
      /\ l.pc = "create" => dir[l.name] = 0
      /\ l.pc \in {"create", "write"} /\ l.name = "key" => stmts = 0
      /\ l.pc = "write" =>
           /\ l.fd = dir[l.name] /\ l.fd # 0
           /\ data[l.fd].key = "raw" /\ data[l.fd].pass = l.new
      /\ l.pc = "rename" => l.name = "new" /\ Holds(dir["new"], l.new)
      /\ l.pc = "tables" => /\ l.name = "key" /\ stmts < Stmts
                            /\ Holds(dir["key"], l.new)

Inv == TypeOK /\ OneCall /\ TwoFiles /\ KeyThere /\ \A p \in Procs : CallInv(p)

-----------------------------------------------------------------------------

(* The values of the local variables have their types.                      *)
LEMMA AtTyped ==
  ASSUME NEW pc \in Pcs, NEW name \in Names, NEW old \in PassOrNone,
         NEW new \in PassOrNone, NEW key \in Keys, NEW fd \in 0 .. MaxInodes
  PROVE  At(pc, name, old, new, key, fd) \in Locals
BY DEF At, Locals

(* A process that executes no call of encdb has typed local variables.      *)
LEMMA IdleTyped == Idle \in Locals /\ Idle.pc = "idle"
BY KeyFileBounds DEF Idle, At, Locals, Pcs, Names, PassOrNone, Keys

(* A step of a call keeps the types of the others.                          *)
LEMMA GotoTyped ==
  ASSUME CallsOK, NEW p \in Procs, NEW l \in Locals, Goto(p, l)
  PROVE  CallsOK'
BY DEF CallsOK, Goto

(* A call that returns keeps the types of the others.                       *)
LEMMA ReturnTyped ==
  ASSUME CallsOK, NEW p \in Procs, NEW r \in Results, Return(p, r)
  PROVE  CallsOK'
BY IdleTyped DEF CallsOK, Return

(* The database does not exist initially, and no call is under way.         *)
LEMMA InitInv == Init => Inv
<1>. SUFFICES ASSUME Init  PROVE Inv
  OBVIOUS
<1>. USE KeyFileBounds DEF Init, Idle, At, Nothing
<1>1. TypeOK
  <2>1. Nothing \in Files
    BY DEF Files, Keys, PassOrNone, Parts
  <2>. QED  BY <2>1, IdleTyped DEF TypeOK, FilesOK, CallsOK, Results, Names
<1>2. OneCall /\ TwoFiles /\ KeyThere
  BY DEF OneCall, TwoFiles, KeyThere, Names
<1>3. \A p \in Procs : CallInv(p)
  BY DEF CallInv
<1>. QED  BY <1>1, <1>2, <1>3 DEF Inv

(* After a step of p, when no other call is under way, none of the others   *)
(* is, and what p returns needs no more care.                               *)
LEMMA StepOfOne ==
  ASSUME Inv, NEW p \in Procs, \A q \in Procs : q # p => loc[q].pc = "idle",
         NEW l \in Locals, loc' = [loc EXCEPT ![p] = l]
  PROVE  /\ OneCall' /\ loc'[p] = l
         /\ \A q \in Procs : q # p => CallInv(q)'
         /\ l.pc = "idle" => CallInv(p)'
BY DEF Inv, TypeOK, CallsOK, OneCall, CallInv

(* With one call at a time, all processes but the one that steps are idle.  *)
LEMMA OthersIdle ==
  ASSUME Inv, NEW p \in Procs, loc[p].pc # "idle" \/ (Exclusive /\ MayStart(p))
  PROVE  \A q \in Procs : q # p => loc[q].pc = "idle"
BY DEF Inv, OneCall, MayStart

(* The files and the database are as before.                                *)
SameFiles == UNCHANGED <<dir, data, inodes, stmts>>

(* A step that leaves the files alone keeps what the invariant says of them.*)
LEMMA SameFilesInv ==
  ASSUME Inv, SameFiles
  PROVE  FilesOK' /\ TwoFiles' /\ KeyThere'
BY DEF Inv, SameFiles, TypeOK, FilesOK, TwoFiles, KeyThere, Holds, Complete

(* A call that returns and leaves the files alone keeps the invariant.      *)
LEMMA ReturnInv ==
  ASSUME Inv, NEW p \in Procs, loc[p].pc # "idle" \/ (Exclusive /\ MayStart(p)),
         NEW r \in Results, Return(p, r), SameFiles
  PROVE  Inv'
<1>1. TypeOK'
  BY ReturnTyped, SameFilesInv DEF Inv, TypeOK
<1>2. OneCall' /\ \A q \in Procs : CallInv(q)'
  BY OthersIdle, StepOfOne, IdleTyped DEF Return
<1>. QED  BY <1>1, <1>2, SameFilesInv DEF Inv

(* A call that goes on and leaves the files alone: its own part is left.    *)
LEMMA GotoInv ==
  ASSUME Inv, NEW p \in Procs, loc[p].pc # "idle" \/ (Exclusive /\ MayStart(p)),
         NEW l \in Locals, Goto(p, l), SameFiles,
         loc'[p] = l => CallInv(p)'
  PROVE  Inv'
<1>1. TypeOK'
  BY GotoTyped, SameFilesInv DEF Inv, TypeOK
<1>2. OneCall' /\ \A q \in Procs : CallInv(q)'
  BY OthersIdle, StepOfOne DEF Goto
<1>. QED  BY <1>1, <1>2, SameFilesInv DEF Inv

-----------------------------------------------------------------------------

(* Create starts when it has seen that there is no key file.                *)
LEMMA CreateInv ==
  ASSUME Inv, Exclusive, NEW p \in Procs, NEW new \in Passphrases, Create(p, new)
  PROVE  Inv'
<1>. DEFINE l == At("create", "key", NoPass, new, "raw", 0)
<1>1. MayStart(p) /\ SameFiles
  BY DEF Create, SameFiles
<1>2. CASE stmts > 0 \/ dir["key"] # 0
  BY <1>1, <1>2, ReturnInv DEF Create, Results
<1>3. CASE ~ (stmts > 0 \/ dir["key"] # 0)
  <2>1. l \in Locals
    BY AtTyped, KeyFileBounds DEF Pcs, Names, PassOrNone, Keys
  <2>2. loc'[p] = l => CallInv(p)'
    BY <1>1, <1>3, KeyFileBounds DEF CallInv, At, SameFiles, Inv, TypeOK, FilesOK, Names
  <2>. QED  BY <1>1, <1>3, <2>1, <2>2, GotoInv DEF Create
<1>. QED  BY <1>2, <1>3

(* Rekey starts when the database opens with the old passphrase.            *)
LEMMA RekeyInv ==
  ASSUME Inv, Exclusive, NEW p \in Procs, NEW old \in Passphrases, NEW new \in Passphrases,
         Rekey(p, old, new)
  PROVE  Inv'
<1>. DEFINE l == At("read", "new", old, new, "other", 0)
<1>1. MayStart(p) /\ SameFiles
  BY DEF Rekey, SameFiles
<1>2. CASE ~ Opens(old)
  BY <1>1, <1>2, ReturnInv DEF Rekey, Results
<1>3. CASE Opens(old)
  <2>1. l \in Locals
    BY AtTyped, KeyFileBounds DEF Pcs, Names, PassOrNone, Keys
  <2>2. loc'[p] = l => CallInv(p)'
    BY <1>1, <1>3 DEF CallInv, At, SameFiles, Opens, Holds, Complete
  <2>. QED  BY <1>1, <1>3, <2>1, <2>2, GotoInv DEF Rekey
<1>. QED  BY <1>2, <1>3

(* replaceKeyfile reads the key that Rekey has tested.                      *)
LEMMA ReadKeyfileInv ==
  ASSUME Inv, NEW p \in Procs, ReadKeyfile(p)
  PROVE  Inv'
<1>. DEFINE l == At("remove", "new", loc[p].old, loc[p].new, "raw", 0)
<1>1. loc[p].pc = "read" /\ SameFiles /\ loc[p] \in Locals /\ CallInv(p)
  BY DEF ReadKeyfile, SameFiles, Inv, TypeOK, CallsOK
<1>2. Complete(dir["key"]) /\ Decrypted(p, data[dir["key"]]) = "raw"
  BY <1>1 DEF CallInv, Holds, Decrypted
<1>3. Goto(p, l)
  BY <1>2 DEF ReadKeyfile
<1>4. l \in Locals
  <2>1. loc[p].old \in PassOrNone /\ loc[p].new \in PassOrNone
    BY <1>1 DEF Locals
  <2>. QED  BY <2>1, AtTyped, KeyFileBounds DEF Pcs, Names, Keys
<1>5. loc'[p] = l => CallInv(p)'
  BY <1>1 DEF CallInv, At, SameFiles
<1>. HIDE DEF l
<1>. QED  BY <1>1, <1>3, <1>4, <1>5, GotoInv

(* What is left of an earlier call is removed; the key file is not.         *)
LEMMA RemoveInv ==
  ASSUME Inv, NEW p \in Procs, Remove(p)
  PROVE  Inv'
<1>. DEFINE l == [loc[p] EXCEPT !.pc = "create"]
<1>1. loc[p].pc = "remove" /\ loc[p] \in Locals /\ CallInv(p)
  BY DEF Remove, Inv, TypeOK, CallsOK
<1>2. l \in Locals
  BY <1>1 DEF Locals, Pcs
<1>3. loc' = [loc EXCEPT ![p] = l] /\ CallsOK'
  BY <1>2, GotoTyped DEF Remove, Goto, Inv, TypeOK
<1>4. FilesOK' /\ TwoFiles' /\ KeyThere'
  BY DEF Remove, RemoveTmpfile, Inv, TypeOK, FilesOK, TwoFiles, KeyThere, Holds, Complete, Names
<1>5. loc'[p] = l => CallInv(p)'
  BY <1>1 DEF Remove, RemoveTmpfile, CallInv, Locals, Inv, TypeOK, FilesOK, Names
<1>. HIDE DEF l
<1>6. OneCall' /\ \A q \in Procs : CallInv(q)'
  BY <1>1, <1>2, <1>3, <1>5, OthersIdle, StepOfOne
<1>. QED  BY <1>3, <1>4, <1>6 DEF Inv, TypeOK

(* The file is created under a name that was free.                          *)
LEMMA CreateKeyfileInv ==
  ASSUME Inv, NEW p \in Procs, CreateKeyfile(p)
  PROVE  Inv'
<1>. DEFINE l == At("write", loc[p].name, loc[p].old, loc[p].new, loc[p].key, inodes + 1)
            f == [pass |-> loc[p].new, key |-> loc[p].key, parts |-> 0]
<1>1. loc[p].pc = "create" /\ loc[p] \in Locals /\ CallInv(p)
  BY DEF CreateKeyfile, Inv, TypeOK, CallsOK
<1>2. inodes \in Nat /\ inodes + 1 \in 1 .. MaxInodes
  BY KeyFileBounds DEF CreateKeyfile, Inv, TypeOK, FilesOK
<1>3. dir[loc[p].name] = 0 /\ loc[p].name \in Names /\ loc[p].key = "raw"
  BY <1>1 DEF CallInv, Locals
<1>4. /\ dir' = [dir EXCEPT ![loc[p].name] = inodes + 1]
      /\ data' = [data EXCEPT ![inodes + 1] = f]
      /\ inodes' = inodes + 1 /\ stmts' = stmts
      /\ Goto(p, l)
  BY <1>3 DEF CreateKeyfile
<1>5. l \in Locals /\ f \in Files
  <2>1. /\ loc[p].old \in PassOrNone /\ loc[p].new \in PassOrNone
        /\ loc[p].key \in Keys /\ "write" \in Pcs
    BY <1>1 DEF Locals, Pcs
  <2>2. l \in Locals
    BY <2>1, <1>2, <1>3, AtTyped
  <2>3. f \in Files
    BY <2>1 DEF Files, Parts
  <2>. QED  BY <2>2, <2>3
<1>6. loc' = [loc EXCEPT ![p] = l] /\ CallsOK'
  BY <1>4, <1>5, GotoTyped DEF Goto, Inv, TypeOK
<1>7. FilesOK'
  BY <1>2, <1>3, <1>4, <1>5 DEF Inv, TypeOK, FilesOK
<1>8. TwoFiles' /\ KeyThere'
  <2>1. dir["key"] \in 0 .. inodes /\ dir["new"] \in 0 .. inodes
    BY DEF Inv, TypeOK, FilesOK, Names
  <2>2. TwoFiles'
    BY <1>2, <1>3, <1>4, <2>1 DEF Inv, TypeOK, FilesOK, TwoFiles, Names
  <2>3. stmts > 0 => dir'["key"] = dir["key"]
    BY <1>1, <1>3, <1>4 DEF CallInv, Inv, TypeOK, FilesOK, Names
  <2>4. \A i \in 1 .. inodes : data'[i] = data[i]
    BY <1>2, <1>4 DEF Inv, TypeOK, FilesOK
  <2>5. KeyThere'
    BY <1>2, <1>4, <2>1, <2>3, <2>4 DEF Inv, KeyThere, Holds, Complete
  <2>. QED  BY <2>2, <2>5
<1>9. loc'[p] = l => CallInv(p)'
  <2>1. /\ dir'[loc[p].name] = inodes + 1
        /\ data'[inodes + 1].key = "raw" /\ data'[inodes + 1].pass = loc[p].new
    BY <1>2, <1>3, <1>4 DEF Inv, TypeOK, FilesOK
  <2>. QED  BY <1>1, <1>2, <1>4, <2>1 DEF CallInv, At
<1>. HIDE DEF l, f
<1>10. OneCall' /\ \A q \in Procs : CallInv(q)'
  BY <1>1, <1>5, <1>6, <1>9, OthersIdle, StepOfOne
<1>. QED  BY <1>6, <1>7, <1>8, <1>10 DEF Inv, TypeOK

(* writeKeyfile writes to a file that is not yet the key file of a database.*)
LEMMA WriteKeyfileInv ==
  ASSUME Inv, NEW p \in Procs, WriteKeyfile(p)
  PROVE  Inv'
<1>. DEFINE fd == loc[p].fd
<1>1. /\ loc[p].pc = "write" /\ loc[p] \in Locals /\ CallInv(p) /\ ~ Written(p)
      /\ UNCHANGED <<dir, inodes, stmts, loc, result>>
  BY DEF WriteKeyfile, Inv, TypeOK, CallsOK
<1>2. fd \in 1 .. MaxInodes /\ fd = dir[loc[p].name] /\ loc[p].name \in Names
  BY <1>1, KeyFileBounds DEF CallInv, Locals
<1>3. data[fd] \in Files /\ data[fd].parts \in 0 .. (Parts - 1)
  BY <1>1, <1>2 DEF Inv, TypeOK, FilesOK, Files, Written, Parts
<1>4. data' = [data EXCEPT ![fd] = [data[fd] EXCEPT !.parts = data[fd].parts + 1]]
  BY <1>2 DEF WriteKeyfile, Inv, TypeOK, FilesOK
<1>5. [data[fd] EXCEPT !.parts = data[fd].parts + 1] \in Files
  BY <1>3 DEF Files, Parts
<1>6. TypeOK'
  BY <1>1, <1>2, <1>4, <1>5 DEF Inv, TypeOK, FilesOK, CallsOK
<1>7. data'[fd].key = data[fd].key /\ data'[fd].pass = data[fd].pass
  BY <1>2, <1>3, <1>4 DEF Inv, TypeOK, FilesOK, Files
<1>8. \A i \in 1 .. MaxInodes : i # fd => data'[i] = data[i]
  BY <1>2, <1>4 DEF Inv, TypeOK, FilesOK
<1>9. dir["key"] \in 0 .. MaxInodes
  BY KeyFileBounds DEF Inv, TypeOK, FilesOK, Names
<1>10. OneCall' /\ TwoFiles'
  BY <1>1 DEF Inv, OneCall, TwoFiles
<1>11. KeyThere'
  <2>1. stmts > 0 => fd # dir["key"]
    BY <1>1, <1>2 DEF CallInv, Inv, TwoFiles, Names
  <2>. QED  BY <1>1, <1>8, <1>9, <2>1 DEF Inv, KeyThere, Holds, Complete
<1>12. CallInv(p)'
  BY <1>1, <1>2, <1>7 DEF CallInv
<1>13. ASSUME NEW q \in Procs, q # p  PROVE CallInv(q)'
  BY <1>1, <1>13, OthersIdle DEF CallInv
<1>. QED  BY <1>6, <1>10, <1>11, <1>12, <1>13 DEF Inv

(* writeKeyfile returns when the file is complete.                          *)
LEMMA CloseKeyfileInv ==
  ASSUME Inv, NEW p \in Procs, CloseKeyfile(p)
  PROVE  Inv'
<1>. DEFINE l == [loc[p] EXCEPT !.pc = IF loc[p].name = "key" THEN "tables" ELSE "rename"]
<1>1. loc[p].pc = "write" /\ SameFiles /\ loc[p] \in Locals /\ CallInv(p) /\ Written(p)
  BY DEF CloseKeyfile, SameFiles, Inv, TypeOK, CallsOK
<1>2. l \in Locals
  BY <1>1 DEF Locals, Pcs
<1>3. Goto(p, l)
  BY DEF CloseKeyfile
<1>4. Holds(dir[loc[p].name], loc[p].new)
  BY <1>1 DEF CallInv, Holds, Complete, Written
<1>5. loc'[p] = l => CallInv(p)'
  BY <1>1, <1>4, KeyFileBounds DEF CallInv, Holds, Complete, SameFiles, Locals, Names
<1>. HIDE DEF l
<1>. QED  BY <1>1, <1>2, <1>3, <1>5, GotoInv

(* The tables are created with a complete key file.                         *)
LEMMA CreateTableInv ==
  ASSUME Inv, NEW p \in Procs, CreateTable(p)
  PROVE  Inv'
<1>1. loc[p].pc = "tables" /\ CallInv(p) /\ stmts' = stmts + 1 /\ UNCHANGED <<dir, data, inodes>>
  BY DEF CreateTable, Inv
<1>2. FilesOK'
  BY <1>1, KeyFileBounds DEF CallInv, Inv, TypeOK, FilesOK
<1>3. TwoFiles' /\ KeyThere'
  BY <1>1 DEF CallInv, Inv, TwoFiles, KeyThere, Holds, Complete
<1>4. CASE stmts' = Stmts
  <2>1. Return(p, "ok")
    BY <1>4 DEF CreateTable
  <2>2. CallsOK'
    BY <2>1, ReturnTyped DEF Inv, TypeOK, Results
  <2>3. OneCall' /\ \A q \in Procs : CallInv(q)'
    BY <1>1, <2>1, OthersIdle, StepOfOne, IdleTyped DEF Return
  <2>. QED  BY <1>2, <1>3, <2>2, <2>3 DEF Inv, TypeOK
<1>5. CASE stmts' # Stmts
  <2>1. UNCHANGED <<loc, result>>
    BY <1>5 DEF CreateTable
  <2>2. CallsOK' /\ OneCall'
    BY <2>1 DEF Inv, TypeOK, CallsOK, OneCall
  <2>3. CallInv(p)'
    BY <1>1, <1>5, <2>1, KeyFileBounds DEF CallInv, Holds, Complete, Inv, TypeOK, FilesOK
  <2>4. ASSUME NEW q \in Procs, q # p  PROVE CallInv(q)'
    BY <1>1, <2>1, <2>4, OthersIdle DEF CallInv
  <2>. QED  BY <1>2, <1>3, <2>2, <2>3, <2>4 DEF Inv, TypeOK
<1>. QED  BY <1>4, <1>5

(* The complete new file takes the place of the key file.                   *)
LEMMA RenameInv ==
  ASSUME Inv, NEW p \in Procs, Rename(p)
  PROVE  Inv'
<1>1. loc[p].pc = "rename" /\ CallInv(p) /\ UNCHANGED <<data, inodes, stmts>>
  BY DEF Rename, Inv
<1>2. Holds(dir["new"], loc[p].new) /\ loc[p].new \in Passphrases
  BY <1>1 DEF CallInv
<1>3. dir' = [n \in Names |-> IF n = "key" THEN dir["new"] ELSE 0] /\ Return(p, "ok")
  BY <1>2 DEF Rename, Holds, Complete
<1>4. FilesOK'
  BY <1>1, <1>3 DEF Inv, TypeOK, FilesOK, Names
<1>5. dir'["key"] = dir["new"] /\ dir'["new"] = 0
  BY <1>3 DEF Names
<1>6. TwoFiles' /\ KeyThere'
  BY <1>1, <1>2, <1>5 DEF TwoFiles, KeyThere, Holds, Complete
<1>7. CallsOK'
  BY <1>3, ReturnTyped DEF Inv, TypeOK, Results
<1>8. OneCall' /\ \A q \in Procs : CallInv(q)'
  BY <1>1, <1>3, OthersIdle, StepOfOne, IdleTyped DEF Return
<1>. QED  BY <1>4, <1>6, <1>7, <1>8 DEF Inv, TypeOK

(* A call that ends leaves the files as they are.                           *)
LEMMA CrashInv ==
  ASSUME Inv, NEW p \in Procs, Crash(p)
  PROVE  Inv'
BY ReturnInv DEF Crash, SameFiles, Results

(* Every step keeps the invariant.                                          *)
LEMMA NextInv == Exclusive /\ Inv /\ [Next]_vars => Inv'
<1>. SUFFICES ASSUME Exclusive, Inv, [Next]_vars  PROVE Inv'
  OBVIOUS
<1>1. CASE UNCHANGED vars
  <2>1. SameFiles /\ UNCHANGED <<loc, result>>
    BY <1>1 DEF vars, SameFiles
  <2>2. CallsOK' /\ OneCall'
    BY <2>1 DEF Inv, TypeOK, CallsOK, OneCall
  <2>3. ASSUME NEW p \in Procs  PROVE CallInv(p)'
    BY <2>1 DEF SameFiles, Inv, CallInv, Holds, Complete
  <2>. QED  BY <2>1, <2>2, <2>3, SameFilesInv DEF Inv, TypeOK
<1>2. CASE Next
  BY <1>2, CreateInv, RekeyInv, ReadKeyfileInv, RemoveInv, CreateKeyfileInv, WriteKeyfileInv,
     CloseKeyfileInv, CreateTableInv, RenameInv, CrashInv DEF Next, Step
<1>. QED  BY <1>1, <1>2

-----------------------------------------------------------------------------

(* The inductive invariant holds whenever one call at a time is made.       *)
THEOREM InvHolds ==
  ASSUME Exclusive PROVE Spec => []Inv
<1>1. Inv /\ [Next]_vars => Inv'
  BY NextInv
<1>. QED  BY InitInv, <1>1, PTL DEF Spec

(* Statements are only added, and none to a database that is complete.      *)
LEMMA StaysComplete ==
  ASSUME Inv, [Next]_vars, stmts = Stmts
  PROVE  stmts' = Stmts
<1>1. ASSUME NEW p \in Procs, CreateTable(p)  PROVE FALSE
  BY <1>1, KeyFileBounds DEF CreateTable, Inv, CallInv
<1>2. CASE UNCHANGED vars
  BY <1>2 DEF vars
<1>3. ASSUME NEW p \in Procs, Step(p)  PROVE stmts' = Stmts
  BY <1>1, <1>3 DEF Step, Create, Rekey, ReadKeyfile, Remove, CreateKeyfile, WriteKeyfile,
     CloseKeyfile, Rename, Crash
<1>. QED  BY <1>2, <1>3 DEF Next

(* A step of q is no step of another call.                                  *)
LEMMA StepLocal ==
  ASSUME Inv, NEW q \in Procs, Step(q)
  PROVE  \A p \in Procs : p # q => loc'[p] = loc[p] /\ result'[p] = result[p]
<1>1. ASSUME NEW l, Goto(q, l)
      PROVE  \A p \in Procs : p # q => loc'[p] = loc[p] /\ result'[p] = result[p]
  BY <1>1 DEF Goto, Inv, TypeOK, CallsOK
<1>2. ASSUME NEW r, Return(q, r)
      PROVE  \A p \in Procs : p # q => loc'[p] = loc[p] /\ result'[p] = result[p]
  BY <1>2 DEF Return, Inv, TypeOK, CallsOK
<1>3. CASE UNCHANGED <<loc, result>>
  BY <1>3
<1>. QED  BY <1>1, <1>2, <1>3 DEF Step, Create, Rekey, ReadKeyfile, Remove, CreateKeyfile,
             WriteKeyfile, CloseKeyfile, CreateTable, Rename, Crash

(* encdb keeps its promise (package encdb, Create and Rekey): KeyFile with  *)
(* one call at a time implements Passphrase, so that a created database     *)
(* opens with one passphrase at every moment, whatever call ends half-way.  *)
THEOREM KeepsPassphrase ==
  ASSUME Exclusive PROVE Spec => OnePassphrase
<1>1. Init => Promise!Init
  BY KeyFileBounds DEF Init, Promise!Init, CurrentPass
<1>2. Inv /\ Inv' /\ [Next]_vars => [Promise!Next]_CurrentPass
  <2>. SUFFICES ASSUME Inv, Inv', [Next]_vars  PROVE [Promise!Next]_CurrentPass
    OBVIOUS
  <2>1. stmts = Stmts => CurrentPass \in Passphrases
    BY KeyFileBounds DEF Inv, KeyThere, Holds, CurrentPass
  <2>2. stmts # Stmts => CurrentPass = NoPass
    BY DEF CurrentPass
  <2>3. stmts' = Stmts => CurrentPass' \in Passphrases
    BY KeyFileBounds DEF Inv, KeyThere, Holds, CurrentPass
  <2>4. stmts' # Stmts => CurrentPass' = NoPass
    BY DEF CurrentPass
  <2>. QED  BY <2>1, <2>2, <2>3, <2>4, StaysComplete
            DEF Promise!Next, Promise!Create, Promise!Rekey
<1>. QED  BY <1>1, <1>2, InvHolds, PTL DEF Spec, OnePassphrase, Promise!Spec

(* Rekey returns no error only when the database opens with the new         *)
(* passphrase (encdb.Rekey, replaceKeyfile).                                *)
THEOREM RekeyTakesEffect ==
  ASSUME Exclusive PROVE Spec => RekeyTakes
<1>. DEFINE Takes == \A p \in Procs, new \in Passphrases : Rekeyed(p, new) => Opens(new)'
<1>1. ASSUME Inv, [Next]_vars, NEW p \in Procs, NEW new \in Passphrases, Rekeyed(p, new)
      PROVE  Opens(new)'
  <2>1. loc[p].pc = "rename" /\ loc[p].new = new /\ loc'[p].pc = "idle" /\ result'[p] = "ok"
    BY <1>1 DEF Rekeyed
  <2>2. PICK q \in Procs : Step(q)
    BY <1>1, <2>1 DEF Next, vars
  <2>3. Step(p)
    BY <1>1, <2>1, <2>2, StepLocal
  <2>4. Rename(p)
    <3>1. ~ Crash(p)
      BY <1>1, <2>1 DEF Crash, Return, Inv, TypeOK, CallsOK
    <3>. QED  BY <2>1, <2>3, <3>1 DEF Step, Create, Rekey, MayStart, ReadKeyfile, Remove,
                 CreateKeyfile, WriteKeyfile, CloseKeyfile, CreateTable
  <2>5. stmts > 0 /\ Holds(dir["new"], new)
    BY <1>1, <2>1 DEF Inv, CallInv
  <2>6. dir'["key"] = dir["new"] /\ data' = data /\ stmts' = stmts
    BY <2>4, <2>5 DEF Rename, Holds, Complete, Names
  <2>. QED  BY <2>5, <2>6 DEF Opens, Holds, Complete
<1>2. Inv /\ [Next]_vars => Takes
  BY <1>1
<1>. QED  BY <1>2, InvHolds, PTL DEF Spec, RekeyTakes

(* A Rekey is never refused because of what another one has left behind     *)
(* (writeKeyfile, after os.Remove in replaceKeyfile).                       *)
THEOREM NeverRefused ==
  ASSUME Exclusive PROVE Spec => []RekeyNotRefused
<1>1. Init => RekeyNotRefused
  BY DEF Init, RekeyNotRefused
<1>2. Inv /\ RekeyNotRefused /\ [Next]_vars => RekeyNotRefused'
  <2>. SUFFICES ASSUME Inv, RekeyNotRefused, [Next]_vars, NEW p \in Procs
                PROVE  result'[p] # "exists"
    BY DEF RekeyNotRefused
  <2>1. CASE UNCHANGED vars
    BY <2>1 DEF vars, RekeyNotRefused
  <2>2. ASSUME NEW q \in Procs, Step(q)  PROVE result'[p] # "exists"
    <3>1. CASE q # p
      BY <2>2, <3>1, StepLocal DEF RekeyNotRefused
    <3>2. ASSUME NEW l, Goto(p, l)  PROVE result'[p] # "exists"
      BY <3>2 DEF Goto, RekeyNotRefused
    <3>3. ASSUME NEW r, r # "exists", Return(p, r)  PROVE result'[p] # "exists"
      BY <3>3 DEF Return, Inv, TypeOK, CallsOK
    <3>4. CreateKeyfile(p) => dir[loc[p].name] = 0
      BY DEF CreateKeyfile, Inv, CallInv
    <3>5. UNCHANGED result => result'[p] # "exists"
      BY DEF RekeyNotRefused
    <3>. QED  BY <2>2, <3>1, <3>2, <3>3, <3>4, <3>5 DEF Step, Create, Rekey, ReadKeyfile,
                 Remove, CreateKeyfile, WriteKeyfile, CloseKeyfile, CreateTable, Rename, Crash
  <2>. QED  BY <2>1, <2>2 DEF Next
<1>. QED  BY <1>1, <1>2, InvHolds, PTL DEF Spec
====

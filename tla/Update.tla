------------------------------- MODULE Update -------------------------------
(***************************************************************************)
(* `upkeep update' (ctrlengine/upkeep.go): bringing the installed programs *)
(* to the release named by the configuration, by way of the source tree.   *)
(* git and the Go tool are external.  A commit is a number that grows with *)
(* its date.  A program carries the commit it was built from and, compiled *)
(* in from release/head.go, the commit it says it is.  Any step may fail,  *)
(* and the process may die at any step; `go install' replaces one program  *)
(* after the other.                                                        *)
(***************************************************************************)
EXTENDS Naturals, FiniteSets

CONSTANTS Binaries,      \* the programs under cmd/
          mutectrl,      \* the one that runs the update
          Partial,       \* whether `go install' may end half-way
          MaxCommit      \* bound: the last commit

VARIABLES
  remote,    \* the head of master on the server
  release,   \* release.Commit of the configuration
  master,    \* the head of master in the source tree
  head,      \* the commit checked out
  headGo,    \* the commit in release/head.go, 0 if there is none
  bin,       \* bin[b]: what program b was built from
  pc,        \* the next step of updateMuteFromSource, or "idle"
  commit,    \* the commit to update to
  todo       \* the programs still to be installed

tree == <<master, head, headGo>>
vars == <<remote, release, tree, bin, pc, commit, todo>>

(* The programs were installed from the release commit. *)
Init ==
  /\ remote = 1
  /\ release = 1
  /\ master = 1
  /\ head = 1
  /\ headGo = 1
  /\ bin = [b \in Binaries |-> [code |-> 1, stamp |-> 1]]
  /\ pc = "idle"
  /\ commit = 1
  /\ todo = {}

(* The maintainers push a commit, and declare a commit the release.         *)
Push ==
  /\ remote < MaxCommit
  /\ remote' = remote + 1
  /\ UNCHANGED <<release, tree, bin, pc, commit, todo>>

Release ==
  /\ \E c \in (release + 1) .. remote : release' = c
  /\ UNCHANGED <<remote, tree, bin, pc, commit, todo>>

(* The user builds the head of master by hand: a developer version.         *)
Develop ==
  /\ pc = "idle"
  /\ master' = remote
  /\ head' = remote
  /\ headGo' = remote
  /\ bin' = [b \in Binaries |-> [code |-> remote, stamp |-> remote]]
  /\ UNCHANGED <<remote, release, pc, commit, todo>>

(* Whether to update to commit c. *)
Outdated(c) == bin[mutectrl].stamp < c

(* upkeepUpdate, with the configuration just fetched. *)
UpkeepUpdate ==
  /\ pc = "idle"
  /\ Outdated(release)
  /\ commit' = release
  /\ pc' = "master"
  /\ UNCHANGED <<remote, release, tree, bin, todo>>

(* git status finds nothing, since head.go is ignored; git checkout master. *)
CheckoutMaster ==
  /\ pc = "master"
  /\ head' = master
  /\ pc' = "pull"
  /\ UNCHANGED <<remote, release, master, headGo, bin, commit, todo>>

Pull ==
  /\ pc = "pull"
  /\ master' = remote
  /\ head' = remote
  /\ pc' = "commit"
  /\ UNCHANGED <<remote, release, headGo, bin, commit, todo>>

(* GetHead, and git checkout of the commit if it is not the head. *)
CheckoutCommit ==
  /\ pc = "commit"
  /\ head' = commit
  /\ pc' = "generate"
  /\ UNCHANGED <<remote, release, master, headGo, bin, commit, todo>>

(* mutegenerate finds a head.go of another commit, or none; faulty variant: *)
(* any file will do.                                                        *)
NoFile == headGo = 0

commitChanged == headGo # head

(* What is installed: ./cmd/... *)
Cmds == Binaries

(* go install ./cmd/mutegenerate; go generate ./release: the file is        *)
(* created, and then written.                                               *)
Generate ==
  /\ pc = "generate"
  /\ headGo' = IF commitChanged THEN 0 ELSE headGo
  /\ pc' = IF commitChanged THEN "write" ELSE "install"
  /\ todo' = Cmds
  /\ UNCHANGED <<remote, release, master, head, bin, commit>>

WriteHeadGo ==
  /\ pc = "write"
  /\ headGo' = head
  /\ pc' = "install"
  /\ UNCHANGED <<remote, release, master, head, bin, commit, todo>>

(* go install ./cmd/... replaces the programs in some order. *)
Install ==
  /\ pc = "install"
  /\ \E done \in IF Partial THEN {{b} : b \in todo} ELSE {todo} :
       /\ bin' = [b \in Binaries |->
                    IF b \in done THEN [code |-> head, stamp |-> headGo]
                    ELSE bin[b]]
       /\ todo' = todo \ done
       /\ pc' = IF todo = done THEN "back" ELSE "install"
  /\ UNCHANGED <<remote, release, tree, commit>>

(* Back to master from the commit, and errExit. *)
BackHead == master

BackToMaster ==
  /\ pc = "back"
  /\ head' = BackHead
  /\ pc' = "idle"
  /\ UNCHANGED <<remote, release, master, headGo, bin, commit, todo>>

Fail ==
  /\ pc # "idle"
  /\ pc' = "idle"
  /\ todo' = {}
  /\ UNCHANGED <<remote, release, tree, bin, commit>>

Next ==
  \/ Push \/ Release \/ Develop
  \/ UpkeepUpdate \/ CheckoutMaster \/ Pull \/ CheckoutCommit
  \/ Generate \/ WriteHeadGo \/ Install \/ BackToMaster \/ Fail

Spec == Init /\ [][Next]_vars

-----------------------------------------------------------------------------
(* Properties *)

(* No update replaces a program by an older one, developer versions and     *)
(* half-finished updates included; and a program says what it is: the       *)
(* release.Commit compiled into it is the commit it was built from,         *)
(* whatever an earlier update left behind.                                  *)
NeverOlder ==
  [][\A b \in Binaries : /\ bin'[b].code >= bin[b].code
                         /\ bin'[b].stamp = bin'[b].code]_vars

(* An update that ends without error leaves every program at the commit it  *)
(* was to update to, with that commit as the release.Commit compiled into   *)
(* it, and the source tree on master, whatever an earlier update left.      *)
UpdateComplete ==
  [][BackToMaster =>
       /\ head' = master
       /\ \A b \in Binaries : bin[b] = [code |-> commit, stamp |-> commit]]_vars

-----------------------------------------------------------------------------
(* What the documentation says and the code does not do *)

(* `Mute is up-to-date', says upkeepUpdate when mutectrl is at the release  *)
(* commit: then the other programs are not older.                           *)
UpToDate ==
  (pc = "idle" /\ bin[mutectrl].stamp = release) =>
    \A b \in Binaries : bin[b].code >= release
====

------------------------------- MODULE Outbox -------------------------------
(***************************************************************************)
(* What `mutectrl msg send' promises of the messages added with `msg add': *)
(* a message stays pending until it has reached the mix or the user        *)
(* deletes it.  It may reach the mix more than once (a lost answer is      *)
(* retried), and it is reported as sent only after it got there.           *)
(***************************************************************************)
CONSTANT MsgNums     \* the messages that are ever added

VARIABLES known,     \* added, not deleted
          pending,   \* not yet reported as sent
          delivered, \* reached the mix, at least once
          sent       \* reported as sent

Init == known = {} /\ pending = {} /\ delivered = {} /\ sent = {}

Add(m) ==
  /\ m \notin known \cup delivered
  /\ known' = known \cup {m}
  /\ pending' = pending \cup {m}
  /\ UNCHANGED <<delivered, sent>>

Deliver(m) ==
  /\ m \in pending
  /\ delivered' = delivered \cup {m}
  /\ UNCHANGED <<known, pending, sent>>

Acknowledge(m) ==
  /\ m \in pending \cap delivered
  /\ pending' = pending \ {m}
  /\ sent' = sent \cup {m}
  /\ UNCHANGED <<known, delivered>>

Delete(m) ==
  /\ m \in known
  /\ known' = known \ {m}
  /\ pending' = pending \ {m}
  /\ sent' = sent \ {m}
  /\ UNCHANGED delivered

Next == \E m \in MsgNums : Add(m) \/ Deliver(m) \/ Acknowledge(m) \/ Delete(m)

Spec == Init /\ [][Next]_<<known, pending, delivered, sent>>
====

----------------------------- MODULE MCMessages -----------------------------
(***************************************************************************)
(* Message keys and the layout of a message, for TLC: KeyWindow at the     *)
(* sizes of the code (batches of 50 keys, 10485760 \div 41691 + 50 at      *)
(* most, 301, a thousand messages), KeyDB, and MsgSize with lengths and         *)
(* counters on both sides of their limits.  They share no variable and no  *)
(* property speaks of two of them, so that it is enough to move one part   *)
(* at a time, with the others at rest in an initial state.                 *)
(***************************************************************************)
EXTENDS KeyWindow, FiniteSets

CONSTANTS s1, s2

VARIABLES part, Sessions, MessageKeys, others, lastInsertId, mem, args, packets, result

Tables == INSTANCE KeyDB WITH SessionKeys <- {s1, s2}, NumOfKeys <- 1,
            MaxNumOfKeys <- 6, MaxBatches <- 2, MaxInserts <- 2
Size == INSTANCE MsgSize WITH
          Identities <- {[len |-> 5, domain |-> 3], [len |-> 254, domain |-> 189]},
          MsgCounts <- {0, 10}, NymLengths <- {0, 1568, 1569},
          Counters <- {9, 10, 1000000000},
          Lengths <- {0, 41658, 41690, 41691, 41692}

tables == <<Sessions, MessageKeys, others, lastInsertId, mem>>
message == <<args, packets, result>>

SomeArgs == CHOOSE a \in Size!Args : TRUE

MCInit ==
  /\ part \in {"window", "tables", "size"}
  /\ WindowInit /\ Tables!Init
  /\ IF part = "size" THEN Size!Init
     ELSE args = SomeArgs /\ packets = <<>> /\ result = Size!None

MCNext ==
  \/ part = "window" /\ WindowNext /\ UNCHANGED <<part, tables, message>>
  \/ part = "tables" /\ Tables!Next /\ UNCHANGED <<part, windowVars, message>>
  \/ part = "size" /\ Size!Next /\ UNCHANGED <<part, windowVars, tables>>

MCSpec == MCInit /\ [][MCNext]_<<part, windowVars, tables, message>>

(* The tables of keydb answer as the in-memory store does: for the row of a *)
(* session, and for the message keys of its first batch, even though later  *)
(* batches may be filed under the ID of another session.                    *)
TablesAgree == Tables!SessionRowsAgree /\ Tables!FirstBatchFound

(* Encrypt never fails at its own checks of the header length and of the    *)
(* message size, every message has EncodedMsgSize bytes, and Decrypt reads  *)
(* the content and the signature that Encrypt wrote.                        *)
SameSize == part = "size" => Size!SameSize /\ Size!Delivered
====

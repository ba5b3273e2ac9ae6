---- MODULE FetchPipe ----
(***************************************************************************)
(* How `mutectrl msg fetch' (muteprotoFetch) talks to the muteproto        *)
(* process it starts: status lines on stderr, messages on stdout, commands *)
(* on a third pipe.  In mutectrl a goroutine reads stdout (`reader') and,  *)
(* for each message, another one collects what it reads (`coll'), as       *)
(* stdout holds less than a message.  Inbox takes the whole exchange as    *)
(* one step per message; this module shows why it may.                     *)
(*                                                                         *)
(* A message is a sequence of units <<m, k>>, its k-th part.  Pipes are    *)
(* external: first in, first out, stdout with room for Cap units; a read   *)
(* returns between one and BufSize units.  muteproto may crash at any      *)
(* time and its calls of the account server, and the calls of the message  *)
(* database in mutectrl, may fail.                                         *)
(***************************************************************************)
EXTENDS Naturals, Sequences

CONSTANTS Lengths,   \* Lengths[m]: units of the m-th message listed
          Cap,       \* room in stdout
          BufSize    \* size of buf in the reader

ASSUME FetchBounds ==
  /\ Lengths \in Seq(Nat)
  /\ Cap \in Nat \ {0} /\ BufSize \in Nat \ {0}

VARIABLES
  known,     \* messages whose ID is in the cache when the fetch starts
  proto,     \* where muteproto is; "ended" when the process has ended
  at,        \* the message it is at
  left,      \* units of that message it has still to write
  stdout,    \* units in the pipe
  stderr,    \* status lines in the pipe
  command,   \* commands in the pipe
  closed,    \* mutectrl has closed its end of the command pipe
  reader,    \* where the reader is
  buf,       \* what it has read
  coll,      \* where the collector of the current message is
  stop,      \* the length the collector has received
  outbuf,    \* what the collector has collected
  main,      \* where muteprotoFetch is
  length,    \* the length it has read from LENGTH
  InQueue,   \* the messages it has put into InQueue
  orphaned   \* history: AddMessageIDCache has failed after NEXT

process == <<proto, at, left>>
readers == <<reader, buf>>
collector == <<coll, stop, outbuf>>
vars == <<known, process, stdout, stderr, command, closed, readers, collector,
          main, length, InQueue, orphaned>>

Msgs == DOMAIN Lengths

Content(m) == [k \in 1 .. Lengths[m] |-> <<m, k>>]

Init ==
  /\ known \in SUBSET Msgs
  /\ proto = "list" /\ at = 1 /\ left = << >>
  /\ stdout = << >> /\ stderr = << >> /\ command = << >> /\ closed = FALSE
  /\ reader = "read" /\ buf = << >>
  /\ coll = "none" /\ stop = 0 /\ outbuf = << >>
  /\ main = "cache" /\ length = 0
  /\ InQueue = << >>
  /\ orphaned = FALSE

Line(kind, value) == [kind |-> kind, value |-> value]

Write(lines) == stderr' = stderr \o lines

-----------------------------------------------------------------------------
(* muteproto fetch *)

mutectrl == <<known, closed, readers, collector, main, length, InQueue, orphaned>>

(* ListMessages and FetchMessage of the next message, which may fail; main  *)
(* then writes the error to stderr, "nothing" being the one of an account   *)
(* the server does not know.  After the last message, NONE.                 *)
Offer ==
  /\ proto = "list"
  /\ \/ at \in Msgs /\ Write(<<Line("MESSAGEID", at)>>) /\ proto' = "command"
     \/ at \notin Msgs /\ Write(<<Line("NONE", 0)>>) /\ proto' = "ended"
     \/ at \in Msgs /\ Write(<<Line("error", 0)>>) /\ proto' = "ended"
     \/ at = 1 /\ Write(<<Line("nothing", 0)>>) /\ proto' = "ended"
  /\ UNCHANGED <<mutectrl, at, left, stdout, command>>

(* scanner.Scan: NEXT, QUIT, or the end of the command pipe. *)
Command ==
  /\ proto = "command"
  /\ \/ /\ command # << >>
        /\ command' = Tail(command)
        /\ \/ Head(command) = "NEXT" /\ proto' = "write" /\ left' = Content(at)
           \/ Head(command) = "QUIT" /\ proto' = "ended" /\ UNCHANGED left
        /\ UNCHANGED stderr
     \/ /\ command = << >> /\ closed
        /\ Write(<<Line("error", 0)>>)
        /\ proto' = "ended"
        /\ UNCHANGED <<command, left>>
  /\ UNCHANGED <<mutectrl, at, stdout>>

(* io.WriteString(output, enc), which blocks while stdout is full. *)
WriteUnit ==
  /\ proto = "write" /\ left # << >>
  /\ Len(stdout) < Cap
  /\ stdout' = Append(stdout, Head(left))
  /\ left' = Tail(left)
  /\ UNCHANGED <<mutectrl, proto, at, stderr, command>>

WriteLength ==
  /\ proto = "write" /\ left = << >>
  /\ Write(<<Line("LENGTH", Lengths[at])>>)
  /\ proto' = "time"
  /\ UNCHANGED <<mutectrl, at, left, stdout, command>>

WriteTime ==
  /\ proto = "time"
  /\ Write(<<Line("RECEIVETIME", at)>>)
  /\ proto' = "list"
  /\ at' = at + 1
  /\ UNCHANGED <<mutectrl, left, stdout, command>>

ProtoCrash ==
  /\ proto # "ended"
  /\ proto' = "ended"
  /\ UNCHANGED <<mutectrl, at, left, stdout, stderr, command>>

-----------------------------------------------------------------------------
(* The goroutines of muteprotoFetch *)

(* stdout.Read: some of what is there, or the end. *)
Read ==
  /\ reader = "read"
  /\ \/ \E n \in 1 .. BufSize :
          /\ n <= Len(stdout)
          /\ buf' = SubSeq(stdout, 1, n)
          /\ stdout' = SubSeq(stdout, n + 1, Len(stdout))
          /\ reader' = "send"
     \/ /\ stdout = << >> /\ proto = "ended"
        /\ reader' = "end"
        /\ UNCHANGED <<buf, stdout>>
  /\ UNCHANGED <<known, process, stderr, command, closed, collector, main,
                 length, InQueue, orphaned>>

(* The collector needs more; faulty variant: it takes one buffer too many.  *)
DrainOneMore(n) == Len(outbuf) <= n

Drain(n) == Len(outbuf) < n

(* input <- buf, received in the select or in the loop that drains. *)
Collect ==
  /\ reader = "send"
  /\ coll = "select" \/ (coll = "drain" /\ Drain(stop))
  /\ outbuf' = outbuf \o buf
  /\ reader' = "read" /\ buf' = << >>
  /\ UNCHANGED <<known, process, stdout, stderr, command, closed, coll, stop,
                 main, length, InQueue, orphaned>>

(* stop <- length *)
Stop ==
  /\ main = "stop" /\ coll = "select"
  /\ stop' = length
  /\ coll' = "drain"
  /\ main' = "done"
  /\ UNCHANGED <<known, process, stdout, stderr, command, closed, readers,
                 outbuf, length, InQueue, orphaned>>

(* done <- true *)
Done ==
  /\ main = "done" /\ coll = "drain" /\ ~Drain(stop)
  /\ coll' = "none"
  /\ main' = "store"
  /\ UNCHANGED <<known, process, stdout, stderr, command, closed, readers,
                 stop, outbuf, length, InQueue, orphaned>>

-----------------------------------------------------------------------------
(* muteprotoFetch *)

(* return: the deferred calls close the command pipe. *)
CloseCommandPipe == closed' = TRUE

Return == main' = "returned" /\ CloseCommandPipe

(* GetMessageIDCache, which may fail. *)
GetCache ==
  /\ main = "cache"
  /\ \/ main' = "status" /\ UNCHANGED closed
     \/ Return
  /\ UNCHANGED <<known, process, stdout, stderr, command, readers, collector,
                 length, InQueue, orphaned>>

(* AddMessageIDCache; the collector of the message starts after it.  It may *)
(* fail, with NEXT already written.                                         *)
Next1 ==
  /\ command' = Append(command, "NEXT")
  /\ \/ coll' = "select" /\ main' = "length" /\ UNCHANGED <<closed, orphaned>>
     \/ Return /\ orphaned' = TRUE /\ UNCHANGED coll

(* RemoveMessageIDCache, which may fail. *)
Quit1 ==
  /\ command' = Append(command, "QUIT")
  /\ \/ main' = "wait" /\ UNCHANGED closed
     \/ Return
  /\ UNCHANGED <<coll, orphaned>>

(* The line with a message ID, NONE, or an error. *)
ReadStatus ==
  /\ main = "status" /\ stderr # << >>
  /\ stderr' = Tail(stderr)
  /\ LET line == Head(stderr)
     IN  CASE line.kind = "MESSAGEID" /\ line.value \notin known -> Next1
           [] line.kind = "MESSAGEID" /\ line.value \in known -> Quit1
           [] line.kind = "NONE" ->
                main' = "wait" /\ UNCHANGED <<command, closed, coll, orphaned>>
           [] OTHER -> Return /\ UNCHANGED <<command, coll, orphaned>>
  /\ UNCHANGED <<known, process, stdout, readers, stop, outbuf, length, InQueue>>

(* The lines LENGTH and RECEIVETIME. *)
ReadLength ==
  /\ main = "length" /\ stderr # << >> /\ Head(stderr).kind = "LENGTH"
  /\ length' = Head(stderr).value
  /\ stderr' = Tail(stderr)
  /\ main' = "time"
  /\ UNCHANGED <<known, process, stdout, command, closed, readers, collector,
                 InQueue, orphaned>>

ReadTime ==
  /\ main = "time" /\ stderr # << >>
  /\ stderr' = Tail(stderr)
  /\ main' = "stop"
  /\ UNCHANGED <<known, process, stdout, command, closed, readers, collector,
                 length, InQueue, orphaned>>

(* The end of stderr instead of a line. *)
ReadEOF ==
  /\ main \in {"status", "length", "time"} /\ stderr = << >> /\ proto = "ended"
  /\ Return
  /\ UNCHANGED <<known, process, stdout, stderr, command, readers, collector,
                 length, InQueue, orphaned>>

(* outbuf.Reset(); faulty variant: left out. *)
KeepOutbuf == outbuf

Reset == << >>

(* AddInQueue, which may fail. *)
Store ==
  /\ main = "store"
  /\ \/ /\ InQueue' = Append(InQueue, outbuf)
        /\ outbuf' = Reset
        /\ main' = "status"
        /\ UNCHANGED closed
     \/ Return /\ UNCHANGED <<InQueue, outbuf>>
  /\ UNCHANGED <<known, process, stdout, stderr, command, readers, coll, stop,
                 length, orphaned>>

(* cmd.Wait() and return. *)
Wait ==
  /\ main = "wait" /\ proto = "ended"
  /\ Return
  /\ UNCHANGED <<known, process, stdout, stderr, command, readers, collector,
                 length, InQueue, orphaned>>

Proto == Offer \/ Command \/ WriteUnit \/ WriteLength \/ WriteTime
Fetch == GetCache \/ ReadStatus \/ ReadLength \/ ReadTime \/ ReadEOF \/ Store \/ Wait
Channels == Collect \/ Stop \/ Done

Next == Proto \/ ProtoCrash \/ Read \/ Channels \/ Fetch

Spec == Init /\ [][Next]_vars

(* Both processes and their goroutines run; calls of the server and of the  *)
(* database return.                                                         *)
Fairness ==
  /\ WF_vars(Proto) /\ WF_vars(Read) /\ WF_vars(Fetch)
  /\ WF_vars(Collect) /\ WF_vars(Stop) /\ WF_vars(Done)

FairSpec == Spec /\ Fairness

-----------------------------------------------------------------------------
(* Properties *)

(* What AddInQueue gets is, for each message up to the first known one, the *)
(* whole message, in order and without a unit of another one, however the   *)
(* reads of stdout are cut and whenever the status lines arrive.            *)
WholeMessages == \A m \in 1 .. Len(InQueue) : InQueue[m] = Content(m)

(* muteprotoFetch returns: it never waits for a line, a channel or the end  *)
(* of a process that waits for it, whether muteproto crashes or not.        *)
FetchReturns == <>(main = "returned")

(* muteproto ends, too: it is never left blocked on a full stdout or for a  *)
(* command, unless the ID of a message could not be written into the cache  *)
(* after NEXT, when nobody collects the message that muteproto writes.      *)
MuteprotoEnds == <>(proto = "ended" \/ orphaned)
====

------------------------------ MODULE Shutdown ------------------------------
(***************************************************************************)
(* How mutectrl and mutecrypt end: main waits on ShutdownChannel for the   *)
(* engine to return or for the interrupt handler (package interrupt), and  *)
(* closes the database when it returns.  The handler closes the database,  *)
(* too; the fields of the engine have no lock.                             *)
(*                                                                         *)
(* Goroutines: main, the engine, and mainInterruptHandler.  A step is one  *)
(* channel operation or one use of the database field of the engine.       *)
(* GoOffline returns (Runner), so it is part of the step after the test of *)
(* the field.  Before signal.Notify a SIGINT ends the process, as Go's     *)
(* default; afterwards it goes into a channel with room for one.           *)
(***************************************************************************)
EXTENDS Naturals

CONSTANTS MaxSignals,   \* bound: how often the user presses Ctrl-C
          Early,        \* does so possibly before the handler is registered
          EngineCloses  \* Start closes the database (mutecrypt, not mutectrl)

VARIABLES
  main,      \* where main is
  handler,   \* where mainInterruptHandler is
  engine,    \* where the goroutine that calls Start is
  callbacks, \* interruptCallbacks has the callback of main
  pending,   \* interruptChannel has a signal
  signals,   \* the signals sent so far
  db,        \* the field ce.msgDB or ce.keyDB is not nil
  conn,      \* the database itself: "none", "open" or "closed"
  failed,    \* Start has returned an error
  result     \* what main has received: "none", "nil" or "err"

vars == <<main, handler, engine, callbacks, pending, signals, db, conn, failed, result>>

Ended == main \in {"exit", "panic", "killed"}

Init ==
  /\ main = "notify"
  /\ handler = "none"
  /\ engine = "none"
  /\ callbacks = FALSE
  /\ pending = FALSE
  /\ signals = 0
  /\ db = FALSE
  /\ conn = "none"
  /\ failed = FALSE
  /\ result = "none"

-----------------------------------------------------------------------------
(* main *)

(* AddInterruptHandler: signal.Notify and go mainInterruptHandler(). *)
Notify ==
  /\ main = "notify"
  /\ main' = "add"
  /\ handler' = "select"
  /\ UNCHANGED <<engine, callbacks, pending, signals, db, conn, failed, result>>

(* addHandlerChannel <- handler, received in the select of the handler.     *)
AddHandler ==
  /\ main = "add"
  /\ handler = "select"
  /\ callbacks' = TRUE
  /\ main' = "go"
  /\ UNCHANGED <<handler, engine, pending, signals, db, conn, failed, result>>

StartEngine ==
  /\ main = "go"
  /\ main' = "wait"
  /\ engine' = "start"
  /\ UNCHANGED <<handler, callbacks, pending, signals, db, conn, failed, result>>

(* return <-ShutdownChannel, from the engine or from the handler. *)
Received(r) == r

Shutdown ==
  /\ main = "wait"
  /\ \/ engine = "send" /\ engine' = "done" /\ UNCHANGED handler
        /\ result' = Received(IF failed THEN "err" ELSE "nil")
     \/ handler = "send" /\ handler' = "select" /\ UNCHANGED engine
        /\ result' = Received("nil")
  /\ main' = "test"
  /\ UNCHANGED <<callbacks, pending, signals, db, conn, failed>>

-----------------------------------------------------------------------------
(* Close, called by main, by the handler and, in mutecrypt, by the engine *)

Closers == {"main", "handler", "engine"}

pcOf(g) == [main |-> main, handler |-> handler, engine |-> engine][g]

Goto(g, pc) ==
  /\ main' = IF g = "main" THEN pc ELSE main
  /\ handler' = IF g = "handler" THEN pc ELSE handler
  /\ engine' = IF g = "engine" THEN pc ELSE engine

(* What follows Close: main returns, the others send on ShutdownChannel.    *)
(* Faulty variant: the handler only calls the callbacks.                    *)
OnlyCallbacks(g) == [main |-> "exit", handler |-> "select", engine |-> "send"][g]

AfterClose(g) == IF g = "main" THEN "exit" ELSE "send"

(* if ce.msgDB != nil *)
CloseTest(g) ==
  /\ pcOf(g) = "test"
  /\ Goto(g, IF db THEN "close" ELSE AfterClose(g))
  /\ UNCHANGED <<callbacks, pending, signals, db, conn, failed, result>>

(* ce.msgDB.Close(), which dereferences the field, read anew. *)
CloseConn == "closed"

CloseDB(g) ==
  /\ pcOf(g) = "close"
  /\ IF db THEN conn' = CloseConn /\ Goto(g, "reset")
     ELSE main' = "panic" /\ UNCHANGED <<handler, engine, conn>>
  /\ UNCHANGED <<callbacks, pending, signals, db, failed, result>>

(* ce.msgDB = nil *)
CloseReset(g) ==
  /\ pcOf(g) = "reset"
  /\ db' = FALSE
  /\ Goto(g, AfterClose(g))
  /\ UNCHANGED <<callbacks, pending, signals, conn, failed, result>>

-----------------------------------------------------------------------------
(* The handler, and the user *)

Signal ==
  /\ signals < MaxSignals
  /\ Early \/ callbacks
  /\ signals' = signals + 1
  /\ IF main = "notify" THEN main' = "killed" /\ UNCHANGED pending
     ELSE pending' = TRUE /\ UNCHANGED main
  /\ UNCHANGED <<handler, engine, callbacks, db, conn, failed, result>>

(* case <-interruptChannel: the callbacks, then ShutdownChannel <- nil.     *)
Interrupt ==
  /\ handler = "select"
  /\ pending
  /\ pending' = FALSE
  /\ handler' = IF callbacks THEN "test" ELSE "send"
  /\ UNCHANGED <<main, engine, callbacks, signals, db, conn, failed, result>>

-----------------------------------------------------------------------------
(* The engine: opens the database, executes commands, returns *)

AfterRun == IF EngineCloses THEN "test" ELSE "send"

OpenDB ==
  /\ engine = "start"
  /\ \/ db' = TRUE /\ conn' = "open" /\ engine' = "run" /\ UNCHANGED failed
     \/ failed' \in BOOLEAN /\ engine' = AfterRun /\ UNCHANGED <<db, conn>>
  /\ UNCHANGED <<main, handler, callbacks, pending, signals, result>>

(* A command calls a method of the database: it panics if the field is nil. *)
UseDB ==
  /\ engine = "run"
  /\ ~db
  /\ main' = "panic"
  /\ UNCHANGED <<handler, engine, callbacks, pending, signals, db, conn, failed, result>>

(* The last command is executed; on a closed database it may fail. *)
Finish ==
  /\ engine = "run"
  /\ engine' = AfterRun
  /\ failed' \in BOOLEAN
  /\ UNCHANGED <<main, handler, callbacks, pending, signals, db, conn, result>>

Step ==
  \/ Notify \/ AddHandler \/ StartEngine \/ Shutdown \/ Interrupt \/ OpenDB
  \/ \E g \in Closers : CloseTest(g) \/ CloseDB(g) \/ CloseReset(g)

Next == ~Ended /\ (Step \/ Signal \/ UseDB \/ Finish)

Spec == Init /\ [][Next]_vars

(* The goroutines run.  The engine may wait for the user for ever, in an    *)
(* interactive session, so that it need not finish.                         *)
Fairness ==
  /\ WF_vars(~Ended /\ Notify) /\ WF_vars(~Ended /\ AddHandler)
  /\ WF_vars(~Ended /\ StartEngine) /\ WF_vars(~Ended /\ Shutdown)
  /\ WF_vars(~Ended /\ Interrupt)
  /\ \A g \in Closers : WF_vars(~Ended /\ (CloseTest(g) \/ CloseDB(g) \/ CloseReset(g)))

FairSpec == Spec /\ Fairness

-----------------------------------------------------------------------------
(* Properties *)

(* AddInterruptHandler `adds a handler to call when a SIGINT (Ctrl+C) is    *)
(* received', and the handler tells main to shut down: after a Ctrl-C the   *)
(* process ends, even if the engine waits for input for ever.               *)
InterruptEnds == (signals > 0) ~> Ended

(* A command that failed is reported as failed: main returns nil only if    *)
(* the engine has returned nil, or after a Ctrl-C.                          *)
ErrorReported ==
  main \in {"test", "close", "reset", "exit"} =>
    (result = "nil" => ~failed \/ signals > 0)

(* When main returns because the engine has, the database is closed,        *)
(* whatever the handler does at the same time.                              *)
ClosedAtExit == (main = "exit" /\ engine = "done") => conn # "open"

-----------------------------------------------------------------------------
(* What the documentation says and the code does not do *)

(* `gracefully shutting down...': neither the engine nor Close meets a      *)
(* database field that another goroutine has set to nil.                    *)
Graceful == main # "panic"
====

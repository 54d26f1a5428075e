------------------------------- MODULE AppRun -------------------------------
(***************************************************************************)
(* The life of an example app's process (examples/viper-app, and koanf-app *)
(* which is the same): main brings the environment up, opens the database, *)
(* wires the app and calls Run, which serves until the context is          *)
(* cancelled and then shuts the server down.  The server is SampleApp.     *)
(*                                                                         *)
(* main leaves either by its deferred calls, or by log.Fatalf, which ends  *)
(* the process without them.                                               *)
(***************************************************************************)
EXTENDS Naturals, Sequences

CONSTANTS
    User, Key, Request, Unlucky, MaxSaves,  \* see SampleApp
    MaxAnswer                               \* bound: answers of the remote

ASSUME AppRunAssumptions ==
    /\ MaxSaves \in Nat
    /\ MaxAnswer \in Nat

VARIABLES
    main,     \* where the goroutine of main is
    env,      \* whether the environment was brought up, and stopped
    ctxDone,  \* whether the context of main is cancelled
    serve,    \* where the goroutine that calls srv.Serve is
    errCh,    \* what is in the channel it reports to
    req, save, rows, remote, dbOpen

App == INSTANCE SampleApp

mainVars == <<main, env, ctxDone, serve, errCh>>
appVars  == <<req, save, rows, remote, dbOpen>>
vars     == <<mainVars, appVars>>

Init ==
    /\ main = "setup"
    /\ env = "none"
    /\ ctxDone = FALSE
    /\ serve = "idle"
    /\ errCh = "empty"
    /\ App!Init
    /\ dbOpen = FALSE

Over == main \in {"exited", "fatal"}

\* The signal handler.
Interrupt ==
    /\ ~Over
    /\ ~ctxDone
    /\ ctxDone' = TRUE
    /\ UNCHANGED <<main, env, serve, errCh, appVars>>

-----------------------------------------------------------------------------
\* main.

GoTo(from, to) == main = from /\ main' = to

\* testenv.Setup: an environment that failed to start has rolled back.  The
\* context stops what uses it, here and in OpenDB.
Setup ==
    /\ ~ctxDone
    /\ GoTo("setup", "open")
    /\ env' = "up"
    /\ UNCHANGED <<ctxDone, serve, errCh, appVars>>

SetupFails == GoTo("setup", "fatal") /\ UNCHANGED <<env, ctxDone, serve, errCh, appVars>>

OpenDB ==
    /\ ~ctxDone
    /\ GoTo("open", "wire")
    /\ dbOpen' = TRUE
    /\ UNCHANGED <<env, ctxDone, serve, errCh, req, save, rows, remote>>

OpenDBFails == GoTo("open", "fatal") /\ UNCHANGED <<env, ctxDone, serve, errCh, appVars>>

\* app.New and the listener.
WiringFails == GoTo("wire", "fatal") /\ UNCHANGED <<env, ctxDone, serve, errCh, appVars>>

BeginRun ==
    /\ GoTo("wire", "run")
    /\ serve' = "serving"
    /\ UNCHANGED <<env, ctxDone, errCh, appVars>>

-----------------------------------------------------------------------------
\* Run.

ServeFails ==
    /\ ~Over
    /\ serve = "serving"
    /\ main = "run"
    /\ serve' = "failed"
    /\ UNCHANGED <<main, env, ctxDone, errCh, appVars>>

\* Shutdown makes Serve return ErrServerClosed, which is reported as nil.
ServeCloses ==
    /\ ~Over
    /\ serve = "serving"
    /\ main \in {"shutdown", "closing", "cleanup"}
    /\ serve' = "closed"
    /\ UNCHANGED <<main, env, ctxDone, errCh, appVars>>

\* The channel has room for the one value that is ever sent.
Report ==
    /\ ~Over
    /\ serve \in {"failed", "closed"}
    /\ errCh' = serve
    /\ serve' = "ended"
    /\ UNCHANGED <<main, env, ctxDone, appVars>>

\* The select of Run: both branches may be ready.
RunFails ==
    /\ errCh = "failed"
    /\ GoTo("run", "fatal")
    /\ UNCHANGED <<env, ctxDone, serve, errCh, appVars>>

BeginShutdown ==
    /\ ctxDone
    /\ GoTo("run", "shutdown")
    /\ UNCHANGED <<env, ctxDone, serve, errCh, appVars>>

\* All connections are idle, and Shutdown closes them.  Mutant: Close is
\* called in its place.
DrainedAtOnce == TRUE
Drained       == \A r \in Request : req[r] = App!NoRequest

ShutdownDone ==
    /\ Drained
    /\ GoTo("shutdown", "closing")
    /\ UNCHANGED <<env, ctxDone, serve, errCh, appVars>>

\* Mutant: Shutdown is given a context that never ends.
NoDeadline == FALSE
Deadline   == main = "shutdown"

\* Run returns an error, and so main ends with log.Fatalf.
ShutdownTimesOut ==
    /\ Deadline
    /\ GoTo("shutdown", "fatal")
    /\ UNCHANGED <<env, ctxDone, serve, errCh, appVars>>

\* The deferred calls, last one first.
CloseDB ==
    /\ GoTo("closing", "cleanup")
    /\ dbOpen' = FALSE
    /\ UNCHANGED <<env, ctxDone, serve, errCh, req, save, rows, remote>>

\* The error of env.Stop is ignored: what it could not remove stays.
Cleanup ==
    /\ GoTo("cleanup", "exited")
    /\ env' = "stopped"
    /\ UNCHANGED <<ctxDone, serve, errCh, appVars>>

-----------------------------------------------------------------------------
\* The server's side, while the process lives.

\* A connection that was accepted is served on, and may send a request, after
\* the listener is closed.
AcceptRequest(r) ==
    /\ main \in {"run", "shutdown"}
    /\ \/ \E op \in {"save", "lookup"}, u \in User, k \in Key : App!Accept(r, op, u, k)
       \/ App!AcceptBad(r)
    /\ UNCHANGED mainVars

Handler(r)    == ~Over /\ App!Handler(r) /\ UNCHANGED mainVars
Background(f) == ~Over /\ App!Background(f) /\ UNCHANGED mainVars

RemoteChanges(k) ==
    /\ ~Over
    /\ remote[k] < MaxAnswer
    /\ remote' = [remote EXCEPT ![k] = @ + 1]
    /\ UNCHANGED <<mainVars, req, save, rows, dbOpen>>

MainStep ==
    \/ Setup \/ SetupFails \/ OpenDB \/ OpenDBFails \/ WiringFails \/ BeginRun
    \/ RunFails \/ BeginShutdown \/ ShutdownDone \/ ShutdownTimesOut
    \/ CloseDB \/ Cleanup

ServeStep == ServeCloses \/ Report

Next ==
    \/ Interrupt
    \/ MainStep
    \/ ServeFails \/ ServeStep
    \/ \E r \in Request : AcceptRequest(r) \/ Handler(r)
    \/ \E f \in 1 .. MaxSaves : f \in App!Save /\ Background(f)
    \/ \E k \in Key : RemoteChanges(k)

Spec == Init /\ [][Next]_vars

\* main and the goroutine that serves run, and the deadline of Shutdown comes;
\* the remote and the database answer the background saves.  Handlers may
\* take for ever, and nobody is obliged to send a request or a signal.
Fairness ==
    /\ WF_vars(MainStep)
    /\ WF_vars(ServeStep)
    /\ \A f \in 1 .. MaxSaves : WF_vars(f \in App!Save /\ Background(f))

FairSpec == Spec /\ Fairness

-----------------------------------------------------------------------------
\* Properties.

\* Every variable has its type.
TypeOK ==
    /\ main \in {"setup", "open", "wire", "run", "shutdown", "closing", "cleanup",
                "exited", "fatal"}
    /\ env \in {"none", "up", "stopped"}
    /\ ctxDone \in BOOLEAN
    /\ serve \in {"idle", "serving", "failed", "closed", "ended"}
    /\ errCh \in {"empty", "failed", "closed"}
    /\ App!TypeOK

\* SampleApp's own properties hold for the whole of a process.
RowsAreOwn       == App!RowsAreOwn
NoStaleOverwrite == App!NoStaleOverwrite

\* While a request is handled, on a connection that was opened before or after
\* Shutdown began, the database is open and nobody has stopped the services:
\* main takes them away only once no handler can use them, and if Shutdown
\* gives up on a handler, not at all.
HandlersAreServed ==
    \A r \in Request : req[r] # App!NoRequest => dbOpen /\ env = "up"

\* However long a handler takes, an interrupted Run returns.
RunReturns == main = "run" /\ ctxDone ~> main \notin {"run", "shutdown"}

\* The work of an accepted save outlives its request: it ends up in the table
\* unless the remote or the database fails it, or the app is shut down.
IsStored(f) == f \in App!Save /\ save[f].pc = "stored"

AcceptedIsStored ==
    \A f \in 1 .. MaxSaves : f \notin Unlucky =>
        (f \in App!Save ~> IsStored(f) \/ main # "run")

\* Ctrl-C triggers a graceful shutdown: a process that ends after it has stopped
\* its environment.  This is what the comment on main promises.
EnvTakenDown == ctxDone /\ Over => env # "up"
=============================================================================

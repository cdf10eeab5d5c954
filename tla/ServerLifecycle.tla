--------------------------- MODULE ServerLifecycle ---------------------------
(***************************************************************************)
(* The life of the process, from ListenAndServe to the end of main         *)
(* (cmd/web/main.go), with the part of net/http that it relies on.         *)
(*                                                                         *)
(* Two goroutines meet on the channel serverErr, which holds one error and *)
(* is closed by its sender: the listener, and main, which waits for that   *)
(* channel or a signal and then shuts the server down. Handlers run on     *)
(* their own; nothing but the end of the process stops one.                *)
(***************************************************************************)
EXTENDS Integers

CONSTANTS
    Handlers,         \* requests that can be served at the same time
    ShutdownTimeout,  \* ticks that Shutdown waits for them
    MaxWork,          \* bound: ticks that a handler runs at most
    None

ASSUME TimesAssumption ==
    /\ {ShutdownTimeout, MaxWork} \subseteq Nat \ {0}
    /\ None \notin Nat

VARIABLES
    listener,   \* where the goroutine of ListenAndServe is
    main,       \* where main is
    serverErr,  \* the channel: "error" when one is in it, "closed" when it is
    signalled,  \* signalCtx is done
    shutdown,   \* the server refuses to listen and to accept from now on
    left,       \* ticks left to Shutdown's context, or None
    work,       \* work[h]: ticks since a request was read, or None
    \* History variable, of no effect on the others:
    failed      \* ListenAndServe returned an error of its own

vars == <<listener, main, serverErr, signalled, shutdown, left, work, failed>>

TypeOK ==
    /\ listener \in {"starting", "serving", "failing", "closing", "ended"}
    /\ main \in {"select", "draining", "receive", "exit 0", "exit 1"}
    /\ serverErr \subseteq {"error", "closed"}
    /\ signalled \in BOOLEAN
    /\ shutdown \in BOOLEAN
    /\ left \in 0 .. ShutdownTimeout \union {None}
    /\ work \in [Handlers -> 0 .. MaxWork \union {None}]
    /\ failed \in BOOLEAN

Init ==
    /\ listener = "starting"
    /\ main = "select"
    /\ serverErr = {}
    /\ signalled = FALSE
    /\ shutdown = FALSE
    /\ left = None
    /\ work = [h \in Handlers |-> None]
    /\ failed = FALSE

Running == main \notin {"exit 0", "exit 1"}
Active(h) == work[h] # None
Idle == \A h \in Handlers : ~Active(h)

-----------------------------------------------------------------------------
(* The listener.                                                           *)

\* ListenAndServe binds the port, unless Shutdown was there first.
Listen ==
    /\ Running
    /\ listener = "starting"
    /\ listener' = IF shutdown THEN "closing" ELSE "serving"
    /\ UNCHANGED <<main, serverErr, signalled, shutdown, left, work, failed>>

\* The port is taken, or accepting fails for good.
ListenFails ==
    /\ Running
    /\ listener \in {"starting", "serving"}
    /\ ~shutdown
    /\ listener' = "failing"
    /\ failed' = TRUE
    /\ UNCHANGED <<main, serverErr, signalled, shutdown, left, work>>

\* Serve returns ErrServerClosed, which is not sent.
ServeEnds ==
    /\ Running
    /\ listener = "serving"
    /\ shutdown
    /\ listener' = "closing"
    /\ UNCHANGED <<main, serverErr, signalled, shutdown, left, work, failed>>

SendError ==
    /\ Running
    /\ listener = "failing"
    /\ serverErr' = serverErr \union {"error"}
    /\ listener' = "closing"
    /\ UNCHANGED <<main, signalled, shutdown, left, work, failed>>

\* MUTANT: the channel is closed after an error only.
CloseChannelAfterError ==
    /\ Running
    /\ listener = "closing"
    /\ serverErr' = IF failed THEN serverErr \union {"closed"} ELSE serverErr
    /\ listener' = "ended"
    /\ UNCHANGED <<main, signalled, shutdown, left, work, failed>>

CloseChannel ==
    /\ Running
    /\ listener = "closing"
    /\ serverErr' = serverErr \union {"closed"}
    /\ listener' = "ended"
    /\ UNCHANGED <<main, signalled, shutdown, left, work, failed>>

-----------------------------------------------------------------------------
(* main.                                                                   *)

\* SIGINT or SIGTERM. NotifyContext takes later ones too, and they do nothing.
Signal ==
    /\ Running
    /\ signalled' = TRUE
    /\ UNCHANGED <<listener, main, serverErr, shutdown, left, work, failed>>

\* A receive from serverErr: an error ends the process with status 1, a closed
\* channel that is empty with status 0.
Receive ==
    /\ serverErr # {}
    /\ main' = IF "error" \in serverErr THEN "exit 1" ELSE "exit 0"
    /\ serverErr' = serverErr \ {"error"}

\* The select takes either branch when both are ready.
SelectError ==
    /\ main = "select"
    /\ Receive
    /\ UNCHANGED <<listener, signalled, shutdown, left, work, failed>>

\* MUTANT: the timeout begins anew with a second signal.
SelectSignalTwice ==
    /\ main \in {"select", "draining"}
    /\ signalled
    /\ main' = "draining"
    /\ shutdown' = TRUE
    /\ left' = IF left = None THEN ShutdownTimeout ELSE left + ShutdownTimeout
    /\ UNCHANGED <<listener, serverErr, signalled, work, failed>>

SelectSignal ==
    /\ main = "select"
    /\ signalled
    /\ main' = "draining"
    /\ shutdown' = TRUE
    /\ left' = ShutdownTimeout
    /\ UNCHANGED <<listener, serverErr, signalled, work, failed>>

\* MUTANT: does not look at the channel after the last request.
DrainedAndGone ==
    /\ main = "draining"
    /\ Idle
    /\ main' = "exit 0"
    /\ left' = None
    /\ UNCHANGED <<listener, serverErr, signalled, shutdown, work, failed>>

\* Shutdown finds no connection in use.
Drained ==
    /\ main = "draining"
    /\ Idle
    /\ main' = "receive"
    /\ left' = None
    /\ UNCHANGED <<listener, serverErr, signalled, shutdown, work, failed>>

\* MUTANT: closes the connections without waiting for the timeout.
CloseServerAtOnce ==
    /\ main = "draining"
    /\ main' = "receive"
    /\ UNCHANGED <<listener, serverErr, signalled, shutdown, left, work, failed>>

\* Shutdown gives up, and Close drops the connections, not the handlers.
CloseServer ==
    /\ main = "draining"
    /\ left = 0
    /\ main' = "receive"
    /\ UNCHANGED <<listener, serverErr, signalled, shutdown, left, work, failed>>

LastReceive ==
    /\ main = "receive"
    /\ Receive
    /\ UNCHANGED <<listener, signalled, shutdown, left, work, failed>>

-----------------------------------------------------------------------------
(* Requests and time.                                                      *)

\* A connection that has sent its request; one that has not yet is in use as well.
Accept(h) ==
    /\ Running
    /\ listener = "serving"
    /\ ~shutdown
    /\ ~Active(h)
    /\ work' = [work EXCEPT ![h] = 0]
    /\ UNCHANGED <<listener, main, serverErr, signalled, shutdown, left, failed>>

Finish(h) ==
    /\ Running
    /\ Active(h)
    /\ work' = [work EXCEPT ![h] = None]
    /\ UNCHANGED <<listener, main, serverErr, signalled, shutdown, left, failed>>

\* A tick of every clock that runs, when none of them is at its end.
Tick ==
    /\ Running
    /\ left # 0 /\ \A h \in Handlers : work[h] # MaxWork
    /\ \/ left # None
       \/ \E h \in Handlers : Active(h)
    /\ left' = IF left = None THEN None ELSE left - 1
    /\ work' = [h \in Handlers |-> IF Active(h) THEN work[h] + 1 ELSE None]
    /\ UNCHANGED <<listener, main, serverErr, signalled, shutdown, failed>>

Main == SelectError \/ SelectSignal \/ Drained \/ CloseServer \/ LastReceive

Listener == Listen \/ ListenFails \/ ServeEnds \/ SendError \/ CloseChannel

Next ==
    \/ Listener
    \/ Main
    \/ Signal
    \/ \E h \in Handlers : Accept(h) \/ Finish(h)
    \/ Tick

Spec == Init /\ [][Next]_vars

-----------------------------------------------------------------------------
\* A process that was asked to stop ends with every request answered, or only
\* after it has waited for the whole timeout: the requests it cuts off are those
\* that ran for at least as long, and none was let in meanwhile.
CutOffOnlyAfterTimeout ==
    main = "exit 0" =>
      \A h \in Handlers : Active(h) => left = 0 /\ work[h] >= ShutdownTimeout

\* A listener that fails is not taken for a shutdown, even when a signal arrives
\* at the same time and select prefers it: the process never ends with status 0.
ListenErrorIsReported == failed => main # "exit 0"

\* A signal ends the process, and so does a listener that fails by itself, whatever
\* handlers, listener and select do: main does not wait on a channel that nobody
\* closes, nor for an error that nobody sends.
ProcessEnds == (signalled \/ failed) ~> ~Running
=============================================================================

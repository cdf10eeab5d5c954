------------------------ MODULE ServerLifecycleProofs ------------------------
(***************************************************************************)
(* How the process ends, for any number of handlers and any timeouts.      *)
(***************************************************************************)
EXTENDS ServerLifecycle, TLAPS

\* The server is shut down by main, once it has left its select.
ShutdownByMain ==
    /\ main = "select" => ~shutdown
    /\ main \in {"draining", "receive"} => shutdown

\* The listener closes the channel last, and stops for one of two reasons.
ClosedByListener ==
    /\ "closed" \in serverErr => listener = "ended"
    /\ listener = "failing" => failed
    /\ listener \in {"closing", "ended"} => failed \/ shutdown

\* Until main has received it, an error of the listener is on its way.
ErrorOnItsWay == (failed /\ Running) => (listener = "failing" \/ "error" \in serverErr)

\* Main is past Shutdown with nobody at work, or at the end of the timeout.
QuietPastShutdown == (main \in {"receive", "exit 0"} /\ left # 0) => Idle

\* What is left of the timeout and what a request has run make up the timeout.
PastSelect == main \in {"draining", "receive", "exit 0"}

RunningSinceShutdown ==
    PastSelect =>
      \A h \in Handlers : Active(h) => left # None /\ work[h] + left >= ShutdownTimeout

Ending ==
    /\ TypeOK
    /\ ShutdownByMain
    /\ ClosedByListener
    /\ ErrorOnItsWay
    /\ QuietPastShutdown
    /\ RunningSinceShutdown
    /\ ListenErrorIsReported

LEMMA EndingHoldsInitially == Init => Ending
BY TimesAssumption
   DEF Init, Ending, TypeOK, ShutdownByMain, ClosedByListener, ErrorOnItsWay,
       QuietPastShutdown, RunningSinceShutdown, PastSelect, ListenErrorIsReported, Running, Idle,
       Active

LEMMA Times == ShutdownTimeout \in Nat /\ MaxWork \in Nat /\ None \notin Nat
BY TimesAssumption

LEMMA TypeIsPreserved == TypeOK /\ [Next]_vars => TypeOK'
<1> SUFFICES ASSUME TypeOK, [Next]_vars PROVE TypeOK'
  OBVIOUS
<1> USE Times
<1>1. CASE Listen \/ ListenFails \/ ServeEnds
  BY <1>1 DEF TypeOK, Listen, ListenFails, ServeEnds
<1>2. CASE SendError \/ CloseChannel
  BY <1>2 DEF TypeOK, SendError, CloseChannel
<1>3. CASE SelectError \/ LastReceive
  BY <1>3 DEF TypeOK, SelectError, LastReceive, Receive
<1>4. CASE SelectSignal
  BY <1>4 DEF TypeOK, SelectSignal
<1>5. CASE Drained
  BY <1>5 DEF TypeOK, Drained
<1>6. CASE CloseServer
  <2>1. left' \in 0 .. ShutdownTimeout \union {None}
    BY <1>6 DEF TypeOK, CloseServer
  <2> QED BY <2>1, <1>6 DEF TypeOK, CloseServer
<1>7. CASE Signal
  BY <1>7 DEF TypeOK, Signal
<1>8. ASSUME NEW h \in Handlers, Accept(h) PROVE TypeOK'
  <2>1. 0 \in 0 .. MaxWork
    OBVIOUS
  <2>2. work' \in [Handlers -> 0 .. MaxWork \union {None}]
    BY <2>1, <1>8 DEF TypeOK, Accept
  <2> QED BY <2>2, <1>8 DEF TypeOK, Accept
<1>9. ASSUME NEW h \in Handlers, Finish(h) PROVE TypeOK'
  BY <1>9 DEF TypeOK, Finish
<1>10. CASE Tick
  <2>1. left' \in 0 .. ShutdownTimeout \union {None}
    <3>1. CASE left = None
      BY <3>1, <1>10 DEF Tick
    <3>2. CASE left \in 0 .. ShutdownTimeout
      BY <3>2, <1>10 DEF Tick
    <3> QED BY <3>1, <3>2 DEF TypeOK
  <2>2. ASSUME NEW h \in Handlers
        PROVE  (IF Active(h) THEN work[h] + 1 ELSE None) \in 0 .. MaxWork \union {None}
    <3>1. CASE work[h] = None
      BY <3>1 DEF Active
    <3>2. CASE work[h] \in 0 .. MaxWork
      BY <3>2, <1>10 DEF Tick, Active
    <3> QED BY <3>1, <3>2 DEF TypeOK
  <2>3. work' \in [Handlers -> 0 .. MaxWork \union {None}]
    BY <2>2, <1>10 DEF Tick
  <2> QED BY <2>1, <2>3, <1>10 DEF TypeOK, Tick
<1>11. CASE UNCHANGED vars
  BY <1>11 DEF TypeOK, vars
<1> QED BY <1>1, <1>2, <1>3, <1>4, <1>5, <1>6, <1>7, <1>8, <1>9, <1>10, <1>11 DEF Next, Listener, Main

LEMMA RunningIsPreserved == Ending /\ [Next]_vars => RunningSinceShutdown'
<1> SUFFICES ASSUME Ending, [Next]_vars PROVE RunningSinceShutdown'
  OBVIOUS
<1> SUFFICES ASSUME PastSelect', NEW h \in Handlers, work'[h] # None
             PROVE  left' # None /\ work'[h] + left' >= ShutdownTimeout
  BY DEF RunningSinceShutdown, Active
<1>1. /\ left \in 0 .. ShutdownTimeout \union {None}
      /\ work \in [Handlers -> 0 .. MaxWork \union {None}]
  BY DEF Ending, TypeOK
\* A shutdown finds each request with the whole timeout before it.
<1>2. CASE SelectSignal
  <2>1. left' = ShutdownTimeout /\ work'[h] = work[h] /\ work[h] # None
    BY <1>2 DEF SelectSignal
  <2>2. work[h] \in 0 .. MaxWork
    BY <1>1, <2>1
  <2> QED BY <2>1, <2>2, Times
<1>3. CASE Drained
  BY <1>3 DEF Drained, Idle, Active
\* Otherwise main was past its select, and h at work, before the step.
<1>4. ASSUME PastSelect, work[h] # None
      PROVE  left # None /\ work[h] \in Nat /\ left \in Nat /\ work[h] + left >= ShutdownTimeout
  <2>1. left # None /\ work[h] # None /\ work[h] + left >= ShutdownTimeout
    BY <1>4 DEF Ending, RunningSinceShutdown, Active
  <2>2. left \in 0 .. ShutdownTimeout /\ work[h] \in 0 .. MaxWork
    BY <1>1, <2>1
  <2> QED BY <2>1, <2>2, Times
<1>5. ASSUME PastSelect, UNCHANGED <<left, work>>
      PROVE  left' # None /\ work'[h] + left' >= ShutdownTimeout
  BY <1>4, <1>5
<1>6. CASE CloseServer
  BY <1>5, <1>6 DEF CloseServer, PastSelect
<1>7. CASE SelectError
  <2>1. main = "select" /\ main' # "exit 1" /\ "error" \notin serverErr /\ "closed" \in serverErr
    BY <1>7 DEF SelectError, Receive, Ending, TypeOK, PastSelect
  <2> QED BY <2>1 DEF Ending, ClosedByListener, ErrorOnItsWay, ShutdownByMain, Running
<1>8. CASE LastReceive
  BY <1>5, <1>8 DEF LastReceive, PastSelect
<1>9. ASSUME NEW g \in Handlers, Accept(g) PROVE FALSE
  BY <1>9 DEF Accept, Running, Ending, ShutdownByMain, PastSelect
<1>10. ASSUME NEW g \in Handlers, Finish(g)
       PROVE  left' # None /\ work'[h] + left' >= ShutdownTimeout
  <2>1. PastSelect /\ work[h] # None /\ work'[h] = work[h] /\ left' = left
    BY <1>1, <1>10 DEF Finish, PastSelect
  <2> QED BY <1>4, <2>1
<1>11. CASE Tick
  <2>1. PastSelect /\ work[h] # None /\ work'[h] = work[h] + 1
    BY <1>11 DEF Tick, Active, PastSelect
  <2>2. left # None /\ work[h] \in Nat /\ left \in Nat /\ work[h] + left >= ShutdownTimeout
    BY <2>1, <1>4
  <2>3. left' = left - 1 /\ left # 0
    BY <2>2, <1>11 DEF Tick
  <2> QED BY <2>1, <2>2, <2>3, Times
<1>12. CASE UNCHANGED vars
  BY <1>5, <1>12 DEF vars, PastSelect
<1>13. CASE Listener \/ Signal
  BY <1>5, <1>13
     DEF Listener, Listen, ListenFails, ServeEnds, SendError, CloseChannel, Signal, PastSelect
<1> QED BY <1>2, <1>3, <1>6, <1>7, <1>8, <1>9, <1>10, <1>11, <1>12, <1>13 DEF Next, Main

LEMMA EndingIsPreserved == Ending /\ [Next]_vars => Ending'
<1> SUFFICES ASSUME Ending, [Next]_vars PROVE Ending'
  OBVIOUS
<1>1. TypeOK' /\ RunningSinceShutdown'
  BY TypeIsPreserved, RunningIsPreserved DEF Ending
<1> USE TimesAssumption
       DEF Ending, ShutdownByMain, ClosedByListener, ErrorOnItsWay,
           QuietPastShutdown, ListenErrorIsReported, Running, Idle, Active
<1>2. CASE Listen
  BY <1>1, <1>2 DEF TypeOK, Listen
<1>3. CASE ListenFails
  BY <1>1, <1>3 DEF TypeOK, ListenFails
<1>4. CASE ServeEnds
  BY <1>1, <1>4 DEF TypeOK, ServeEnds
<1>5. CASE SendError
  BY <1>1, <1>5 DEF TypeOK, SendError
<1>6. CASE CloseChannel
  BY <1>1, <1>6 DEF TypeOK, CloseChannel
<1>7. CASE SelectError
  BY <1>1, <1>7 DEF TypeOK, SelectError, Receive
<1>8. CASE SelectSignal
  BY <1>1, <1>8 DEF TypeOK, SelectSignal
<1>9. CASE Drained
  BY <1>1, <1>9 DEF TypeOK, Drained
<1>10. CASE CloseServer
  BY <1>1, <1>10 DEF TypeOK, CloseServer
<1>11. CASE LastReceive
  BY <1>1, <1>11 DEF TypeOK, LastReceive, Receive
<1>12. CASE Signal
  BY <1>1, <1>12 DEF TypeOK, Signal
<1>13. ASSUME NEW h \in Handlers, Accept(h) PROVE Ending'
  BY <1>1, <1>13 DEF TypeOK, Accept
<1>14. ASSUME NEW h \in Handlers, Finish(h) PROVE Ending'
  BY <1>1, <1>14 DEF TypeOK, Finish
<1>15. CASE Tick
  BY <1>1, <1>15 DEF TypeOK, Tick
<1>16. CASE UNCHANGED vars
  BY <1>1, <1>16 DEF TypeOK, vars
<1> QED BY <1>2, <1>3, <1>4, <1>5, <1>6, <1>7, <1>8, <1>9, <1>10, <1>11, <1>12,
           <1>13, <1>14, <1>15, <1>16
        DEF Next, Main, Listener

LEMMA EndingHolds == Spec => []Ending
<1>1. Init => Ending
  BY EndingHoldsInitially
<1>2. Ending /\ [Next]_vars => Ending'
  BY EndingIsPreserved
<1> QED BY <1>1, <1>2, PTL DEF Spec

\* The variables of the life cycle keep their types (main.go:548-582).
THEOREM LifecycleTypeCorrect == Spec => []TypeOK
BY EndingHolds, PTL DEF Ending

\* An error of ListenAndServe is never answered with exit status 0, whichever
\* branch select takes and however long requests are drained (main.go:560-581).
THEOREM NoListenErrorIsLost == Spec => []ListenErrorIsReported
BY EndingHolds, PTL DEF Ending

\* A process that ends with status 0 has answered every request, or has waited
\* for the whole of the shutdown timeout, and so have the requests (main.go:570-577).
THEOREM ShutdownDrains == Spec => []CutOffOnlyAfterTimeout
<1>1. ASSUME NEW n \in 0 .. MaxWork, n + left >= ShutdownTimeout, left = 0
      PROVE  n >= ShutdownTimeout
  BY <1>1, Times
<1>2. Ending => CutOffOnlyAfterTimeout
  <2> SUFFICES ASSUME Ending, main = "exit 0", NEW h \in Handlers, work[h] # None
               PROVE  left = 0 /\ work[h] >= ShutdownTimeout
    BY DEF CutOffOnlyAfterTimeout, Active
  <2>1. left = 0 /\ work[h] + left >= ShutdownTimeout
    BY DEF Ending, QuietPastShutdown, RunningSinceShutdown, PastSelect, Idle, Active
  <2>2. work[h] \in 0 .. MaxWork
    BY DEF Ending, TypeOK
  <2> QED BY <1>1, <2>1, <2>2
<1> QED BY EndingHolds, <1>2, PTL
=============================================================================

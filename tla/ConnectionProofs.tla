-------------------------- MODULE ConnectionProofs --------------------------
(* Safety of Connection for any number of clients and any error threshold.    *)
EXTENDS Connection, TLAPS

FailureTypes == {"SessionKeyError", "UnsupportedBluetoothProtocol", "TimeoutError",
                 "BleakNotFoundError", "BleakError"}

\* A failed connect ends in an error state, in which connect() does not return early.
LEMMA FailureStateIsError ==
    ASSUME NEW e \in FailureTypes
    PROVE  FailureState[e] \in ErrorStates \ BusyStates
BY DEF FailureTypes, FailureState, ErrorStates, BusyStates, ConnectingStates,
       ConnectedStates

\* The handshake only fails in exceptions _FAILURE_STATES has a state for.
LEMMA ExceptionsAreFailures ==
    ASSUME phase \in Handshake, NEW e \in Exceptions[phase]
    PROVE  e \in FailureTypes
BY DEF Handshake, Exceptions, FailureTypes

\* No error state is one that connect() returns early in.
LEMMA ErrorStatesAreNotBusy == ErrorStates \cap BusyStates = {}
BY DEF FailureState, ErrorStates, BusyStates, ConnectingStates, ConnectedStates

\* Which state sets the constants the code assigns belong to.
LEMMA StatesAreDistinct ==
    /\ ErrorStates \subseteq States
    /\ "ERROR_TOO_MANY_ERRORS" \in ErrorStates
    /\ "DISCONNECTED" \in States \ BusyStates
    /\ "DISCONNECTING" \in States \ BusyStates
    /\ "ESTABLISHING_CONNECTION" \in States
    /\ "ESTABLISHING_SESSION" \in States
    /\ "SUBSCRIBING" \in States
    /\ "AUTHENTICATED" \in States
    /\ "AUTHENTICATED" \in BusyStates
    /\ "AUTHENTICATED" \notin ConnectingStates
    /\ "AUTHENTICATED" \notin ErrorStates
    /\ ConnectingStates \subseteq BusyStates
BY DEF States, FailureState, ErrorStates, BusyStates, ConnectingStates, ConnectedStates

\* Counting a report keeps the count in range.
LEMMA ReportType ==
    ASSUME reports \in 0..MaxReports, Report
    PROVE  reports' \in 0..MaxReports
BY DEF Report, MaxReports

-----------------------------------------------------------------------------
\* A new connection has every variable in its type.
LEMMA InitType == Init => TypeOK
BY StatesAreDistinct, MaxErrorsAssumption DEF Init, TypeOK, Phases, MaxReports

\* A step of any coroutine or callback keeps every variable in its type.
LEMMA StepType == TypeOK /\ [Next]_vars => TypeOK'
<1> SUFFICES ASSUME TypeOK, [Next]_vars PROVE TypeOK'
  OBVIOUS
<1> USE StatesAreDistinct, MaxErrorsAssumption DEF TypeOK, bleak
<1>a. ASSUME NEW e \in FailureTypes, NEW held \in Clients \cup {NoClient},
             NEW isUp \in BOOLEAN, Fail(e, held, isUp)
      PROVE  /\ state' \in States
             /\ reports' \in 0..MaxReports
             /\ client' \in Clients \cup {NoClient}
             /\ phase' \in Phases
             /\ mine' \in Clients \cup {NoClient}
  BY <1>a, FailureStateIsError, ReportType DEF Fail, Phases
<1>b. ASSUME AddError
      PROVE  /\ state' \in States
             /\ errors' \in 0..MAX_ERRORS_BEFORE_RECONNECT
             /\ reports' \in 0..MaxReports
             /\ errorCloses' \subseteq Clients
  BY <1>b, ReportType DEF AddError
<1>1. CASE Connect
  BY <1>1 DEF Connect, Phases, Handshake, MaxReports
<1>2. ASSUME NEW c \in Clients, Established(c) PROVE TypeOK'
  <2>1. CASE Fail("UnsupportedBluetoothProtocol", c, TRUE)
    <3>1. "UnsupportedBluetoothProtocol" \in FailureTypes
      BY DEF FailureTypes
    <3>2. /\ state' \in States
          /\ reports' \in 0..MaxReports
          /\ client' \in Clients \cup {NoClient}
          /\ phase' \in Phases
          /\ mine' \in Clients \cup {NoClient}
      BY <2>1, <3>1, <1>a
    <3> QED
      BY <1>2, <3>2 DEF Established
  <2>2. CASE /\ state' = "ESTABLISHING_SESSION"
             /\ client' = c
             /\ mine' = c
             /\ phase' = "read"
             /\ UNCHANGED reports
    BY <1>2, <2>2 DEF Established, Phases, Handshake
  <2> QED
    BY <1>2, <2>1, <2>2 DEF Established
<1>3. ASSUME NEW c \in Clients, EstablishedTooLate(c) PROVE TypeOK'
  <2>1. CASE Fail("BleakError", c, FALSE) /\ UNCHANGED <<errors, up, lingering>>
    <3>1. "BleakError" \in FailureTypes
      BY DEF FailureTypes
    <3>2. /\ state' \in States
          /\ reports' \in 0..MaxReports
          /\ client' \in Clients \cup {NoClient}
          /\ phase' \in Phases
          /\ mine' \in Clients \cup {NoClient}
      BY <2>1, <3>1, <1>a
    <3> QED
      BY <1>3, <2>1, <3>2 DEF EstablishedTooLate
  <2>2. CASE /\ state' = "ESTABLISHING_SESSION"
             /\ client' = c
             /\ mine' = c
             /\ phase' = "unanswered"
             /\ up' = up \cup {c} /\ lingering' = lingering \cup {c} /\ errors' = 0
             /\ UNCHANGED <<unreported, reports>>
    BY <1>3, <2>2 DEF EstablishedTooLate, Phases, Handshake
  <2> QED
    BY <1>3, <2>1, <2>2 DEF EstablishedTooLate
<1>4. CASE InfoRead
  BY <1>4 DEF InfoRead, StillConnected, Phases, Handshake, Characteristics
<1>5. CASE TelemetrySubscribed
  BY <1>5 DEF TelemetrySubscribed, StillConnected, Authenticated, Phases, Handshake,
              Characteristics, MaxReports
<1>6. CASE ConfigSubscribed
  BY <1>6 DEF ConfigSubscribed, Authenticated, Phases, MaxReports
<1>7. CASE HandshakeFails
  <2>1. PICK e \in Exceptions[phase] : Fail(e, client, client \in up)
    BY <1>7 DEF HandshakeFails
  <2>2. e \in FailureTypes
    BY <1>7, ExceptionsAreFailures DEF HandshakeFails
  <2>3. (client \in up) \in BOOLEAN
    OBVIOUS
  <2>4. /\ state' \in States
        /\ reports' \in 0..MaxReports
        /\ client' \in Clients \cup {NoClient}
        /\ phase' \in Phases
        /\ mine' \in Clients \cup {NoClient}
    BY <2>1, <2>2, <2>3, <1>a
  <2> QED
    BY <1>7, <2>4 DEF HandshakeFails
<1>8. CASE HandshakeRaises
  BY <1>8 DEF HandshakeRaises, Phases
<1>9. CASE FailReturns
  BY <1>9 DEF FailReturns, Closed, Links, Phases
<1>10. CASE Disconnect
  BY <1>10 DEF Disconnect, Phases
<1>11. CASE DisconnectReturns
  BY <1>11 DEF DisconnectReturns, Closed, Links, Phases
<1>12. ASSUME NEW c \in Clients, LinkDrops(c) \/ Settles(c) PROVE TypeOK'
  BY <1>12 DEF LinkDrops, Settles
<1>13. ASSUME NEW c \in Clients, ReportsEnd(c) \/ ReportsEarly(c) PROVE TypeOK'
  <2>1. /\ state' \in States
        /\ reports' \in 0..MaxReports
        /\ client' \in Clients \cup {NoClient}
    BY <1>13, ReportType DEF ReportsEnd, ReportsEarly, Disconnected
  <2> QED
    BY <1>13, <2>1 DEF ReportsEnd, ReportsEarly, Links
<1>14. ASSUME NEW c \in Clients, NEW k \in Characteristics, Notification(c, k)
       PROVE  TypeOK'
  BY <1>14 DEF Notification
<1>15. ASSUME NEW c \in Clients, OnTelemetry(c) PROVE TypeOK'
  BY <1>15, <1>b DEF OnTelemetry
<1>16. ASSUME NEW c \in Clients, OnConfig(c) PROVE TypeOK'
  BY <1>16, <1>b DEF OnConfig
<1>17. ASSUME NEW c \in Clients, ErrorCloseReturns(c) PROVE TypeOK'
  BY <1>17 DEF ErrorCloseReturns, Closed, Links
<1>18. CASE UNCHANGED vars
  BY <1>18 DEF vars, bleak
<1> QED
  BY <1>1, <1>2, <1>3, <1>4, <1>5, <1>6, <1>7, <1>8, <1>9, <1>10, <1>11, <1>12,
     <1>13, <1>14, <1>15, <1>16, <1>17, <1>18 DEF Next, HandshakeStep

\* Every variable keeps its type, whatever bleak and the callers do.
THEOREM TypeCorrect == Spec => []TypeOK
BY InitType, StepType, PTL DEF Spec

-----------------------------------------------------------------------------
\* A new connection has no link to account for.
LEMMA InitAccounting == Init => Accounting
BY InitType, StatesAreDistinct, NoClientAssumption
DEF Init, Accounting, ClientOfPhase, KeptClientCloses, StateOfPhase,
    NextConnectStarts, SessionHasLink, NoForgottenLink, EndsToldOnce, Links,
    LingeringIsUnanswered

\* Links and coroutines stay accounted for in every step.
LEMMA StepAccounting == Accounting /\ [Next]_vars => Accounting'
<1> SUFFICES ASSUME Accounting, [Next]_vars PROVE Accounting'
  OBVIOUS
<1>t. TypeOK'
  BY StepType DEF Accounting
<1>e. \A e \in FailureTypes : FailureState[e] \in ErrorStates \ BusyStates
  BY FailureStateIsError
<1> USE <1>t, StatesAreDistinct, ErrorStatesAreNotBusy, NoClientAssumption
    DEF Accounting, ClientOfPhase, KeptClientCloses, StateOfPhase,
    NextConnectStarts, SessionHasLink, NoForgottenLink, EndsToldOnce, Links,
    LingeringIsUnanswered, bleak
<1>1. CASE Connect
  BY <1>1 DEF Connect, TypeOK, BusyStates
<1>2. ASSUME NEW c \in Clients, Established(c) PROVE Accounting'
  <2>1. CASE Fail("UnsupportedBluetoothProtocol", c, TRUE)
    <3>1. state' \in ErrorStates \ BusyStates
      BY <2>1, <1>e DEF Fail, FailureTypes
    <3> QED
      BY <1>2, <2>1, <3>1 DEF Established, Fail, Fresh, TypeOK
  <2>2. CASE /\ state' = "ESTABLISHING_SESSION"
             /\ client' = c
             /\ mine' = c
             /\ phase' = "read"
             /\ UNCHANGED reports
    BY <1>2, <2>2 DEF Established, Fresh, TypeOK
  <2> QED
    BY <1>2, <2>1, <2>2 DEF Established
<1>3. ASSUME NEW c \in Clients, EstablishedTooLate(c) PROVE Accounting'
  <2>1. CASE Fail("BleakError", c, FALSE) /\ UNCHANGED <<errors, up, lingering>>
    <3>1. state' \in ErrorStates \ BusyStates
      BY <2>1, <1>e DEF Fail, FailureTypes
    <3> QED
      BY <1>3, <2>1, <3>1 DEF EstablishedTooLate, Fail, Fresh, TypeOK
  <2>2. CASE /\ up' = up \cup {c} /\ lingering' = lingering \cup {c}
             /\ state' = "ESTABLISHING_SESSION"
             /\ client' = c /\ mine' = c
             /\ phase' = "unanswered"
             /\ UNCHANGED unreported
    BY <1>3, <2>2 DEF EstablishedTooLate, Fresh, TypeOK, Handshake
  <2> QED
    BY <1>3, <2>1, <2>2 DEF EstablishedTooLate
<1>4. CASE InfoRead
  BY <1>4 DEF InfoRead, StillConnected, TypeOK
<1>5. CASE TelemetrySubscribed
  BY <1>5 DEF TelemetrySubscribed, StillConnected, Authenticated, TypeOK
<1>6. CASE ConfigSubscribed
  BY <1>6 DEF ConfigSubscribed, StillConnected, Authenticated, TypeOK
<1>7. CASE HandshakeFails
  <2>1. PICK e \in Exceptions[phase] : Fail(e, client, client \in up)
    BY <1>7 DEF HandshakeFails
  <2>2. e \in FailureTypes
    BY <1>7, ExceptionsAreFailures DEF HandshakeFails
  <2>3. state' \in ErrorStates \ BusyStates
    BY <2>1, <2>2, <1>e DEF Fail
  <2> QED
    BY <1>7, <2>1, <2>3 DEF HandshakeFails, Handshake, Fail, TypeOK
<1>8. CASE HandshakeRaises
  BY <1>8 DEF HandshakeRaises, Handshake, TypeOK
<1>9. CASE FailReturns
  BY <1>9 DEF FailReturns, Closed, TypeOK
<1>10. CASE Disconnect
  BY <1>10 DEF Disconnect, TypeOK
<1>11. CASE DisconnectReturns
  BY <1>11 DEF DisconnectReturns, Closed, TypeOK
<1>12. ASSUME NEW c \in Clients, LinkDrops(c) \/ Settles(c) PROVE Accounting'
  BY <1>12 DEF LinkDrops, Settles, TypeOK
<1>13. ASSUME NEW c \in Clients, ReportsEnd(c) \/ ReportsEarly(c) PROVE Accounting'
  <2>1. CASE ReportsEnd(c)
    BY <2>1 DEF ReportsEnd, Disconnected, TypeOK
  <2>2. CASE ReportsEarly(c)
    BY <2>2 DEF ReportsEarly, Disconnected, TypeOK
  <2> QED
    BY <1>13, <2>1, <2>2
<1>14. ASSUME NEW c \in Clients, NEW k \in Characteristics, Notification(c, k)
       PROVE  Accounting'
  BY <1>14 DEF Notification, TypeOK
<1>15. ASSUME NEW c \in Clients, OnTelemetry(c) PROVE Accounting'
  BY <1>15 DEF OnTelemetry, AddError, TypeOK
<1>16. ASSUME NEW c \in Clients, OnConfig(c) PROVE Accounting'
  BY <1>16 DEF OnConfig, AddError, TypeOK
<1>17. ASSUME NEW c \in Clients, ErrorCloseReturns(c) PROVE Accounting'
  BY <1>17 DEF ErrorCloseReturns, Closed, TypeOK
<1>18. CASE UNCHANGED vars
  BY <1>18 DEF vars, TypeOK
<1> QED
  BY <1>1, <1>2, <1>3, <1>4, <1>5, <1>6, <1>7, <1>8, <1>9, <1>10, <1>11, <1>12,
     <1>13, <1>14, <1>15, <1>16, <1>17, <1>18 DEF Next, HandshakeStep

\* The inductive invariant the safety theorems rest on.
THEOREM LinksAccounted == Spec => []Accounting
BY InitAccounting, StepAccounting, PTL DEF Spec

\* The end of a link is never lost: an authenticated session has a link that is there or
\* whose end bleak will still report, also where bleak reports an end while is_connected
\* is still true (connect's checks of the link, disconnected).
THEOREM SessionAlwaysHasLink == Spec => []SessionHasLink
<1>1. Accounting => SessionHasLink
  BY DEF Accounting
<1> QED
  BY <1>1, LinksAccounted, PTL

\* No failed or closed connection leaves a state that makes the next connect() return
\* at once without an attempt.
THEOREM RetryAlwaysStarts == Spec => []NextConnectStarts
<1>1. Accounting => NextConnectStarts
  BY DEF Accounting
<1> QED
  BY <1>1, LinksAccounted, PTL

\* No link is there unnoticed unless bleak itself gave up ending it.
THEOREM NoLinkForgotten == Spec => []NoForgottenLink
<1>1. Accounting => NoForgottenLink
  BY DEF Accounting
<1> QED
  BY <1>1, LinksAccounted, PTL

\* Only the end of its own link makes disconnected() declare a session lost.
THEOREM LossAlwaysReal == Spec => LossIsReal
<1>1. Accounting /\ [Next]_vars
        => [state = "AUTHENTICATED" /\ state' = "DISCONNECTED" => client \notin Links']_vars
  <2> SUFFICES ASSUME Accounting, Next, state = "AUTHENTICATED",
                      state' = "DISCONNECTED"
               PROVE  client \notin Links'
    OBVIOUS
  <2>1. phase = "loaded"
    BY DEF Accounting, StateOfPhase
  <2>2. CASE Disconnect
    BY <2>2 DEF Disconnect, bleak, Links
  <2>3. ASSUME NEW c \in Clients, ReportsEnd(c) \/ ReportsEarly(c)
        PROVE  client \notin Links'
    <3>1. c = client
      BY <2>3 DEF ReportsEnd, ReportsEarly, Disconnected
    <3> QED
      BY <2>3, <3>1 DEF ReportsEnd, ReportsEarly, Accounting, EndsToldOnce, Links
  <2>4. ASSUME NEW c \in Clients, OnTelemetry(c) \/ OnConfig(c) PROVE FALSE
    BY <2>4 DEF OnTelemetry, OnConfig, AddError
  <2> QED
    BY <2>1, <2>2, <2>3, <2>4
    DEF Next, HandshakeStep, Connect, Established, EstablishedTooLate, InfoRead,
        TelemetrySubscribed, ConfigSubscribed, HandshakeFails, HandshakeRaises,
        FailReturns, DisconnectReturns, Handshake, LinkDrops, Settles, Notification,
        ErrorCloseReturns
<1> QED
  BY <1>1, LinksAccounted, PTL DEF Spec, LossIsReal

-----------------------------------------------------------------------------
(* Refinement of SessionPromise.                                              *)

\* The connection starts where the promise starts.
LEMMA InitPromise == Init => Promise!Init
BY DEF Init, Promise!Init, Session, Handshake

\* Every step of the connection is a step of SessionPromise or leaves it alone.
LEMMA StepPromise == Accounting /\ [Next]_vars => [Promise!Next]_(Promise!vars)
<1> SUFFICES ASSUME Accounting, [Next]_vars PROVE [Promise!Next]_(Promise!vars)
  OBVIOUS
<1>e. \A e \in FailureTypes : FailureState[e] \in ErrorStates
  BY FailureStateIsError
<1>d. "DISCONNECTED" \notin ErrorStates /\ "ERROR_TOO_MANY_ERRORS" # "DISCONNECTED"
  BY DEF ErrorStates, FailureState
<1>r. reports \in 0..2
  BY DEF Accounting, TypeOK, MaxReports
<1> USE <1>r DEF Session, Handshake
\* a failing handshake ends the attempt and tells the listeners
<1>f. ASSUME phase \in Handshake, NEW e \in FailureTypes, NEW held, NEW isUp \in BOOLEAN,
             Fail(e, held, isUp)
      PROVE  Promise!End
  BY <1>f, <1>e, <1>d DEF Fail, Report, MaxReports, Promise!End
<1>1. CASE Connect
  BY <1>1, StatesAreDistinct DEF Connect, Promise!Next, Promise!Begin
<1>2. ASSUME NEW c \in Clients, Established(c) PROVE [Promise!Next]_(Promise!vars)
  <2>1. CASE Fail("UnsupportedBluetoothProtocol", c, TRUE)
    <3>1. "UnsupportedBluetoothProtocol" \in FailureTypes
      BY DEF FailureTypes
    <3> QED
      BY <1>2, <1>f, <2>1, <3>1 DEF Established, Promise!Next
  <2>2. CASE /\ state' = "ESTABLISHING_SESSION"
             /\ client' = c
             /\ mine' = c
             /\ phase' = "read"
             /\ UNCHANGED reports
    BY <1>2, <2>2 DEF Established, Promise!vars
  <2> QED
    BY <1>2, <2>1, <2>2 DEF Established
<1>3. ASSUME NEW c \in Clients, EstablishedTooLate(c) PROVE [Promise!Next]_(Promise!vars)
  <2>1. CASE Fail("BleakError", c, FALSE)
    <3>1. "BleakError" \in FailureTypes
      BY DEF FailureTypes
    <3> QED
      BY <1>3, <1>f, <2>1, <3>1 DEF EstablishedTooLate, Promise!Next
  <2>2. CASE phase' = "unanswered" /\ UNCHANGED reports
    BY <1>3, <2>2 DEF EstablishedTooLate, Promise!vars
  <2> QED
    BY <1>3, <2>1, <2>2 DEF EstablishedTooLate
<1>4. CASE InfoRead
  BY <1>4 DEF InfoRead, Promise!vars
<1>5. CASE TelemetrySubscribed
  BY <1>5 DEF TelemetrySubscribed, Authenticated, Promise!vars, Promise!Next,
              Promise!Succeed
<1>6. CASE ConfigSubscribed
  BY <1>6 DEF ConfigSubscribed, Authenticated, Promise!Next, Promise!Succeed
<1>7. CASE HandshakeFails
  <2>1. PICK e \in Exceptions[phase] : Fail(e, client, client \in up)
    BY <1>7 DEF HandshakeFails
  <2>2. e \in FailureTypes
    BY <1>7, ExceptionsAreFailures DEF HandshakeFails
  <2>3. (client \in up) \in BOOLEAN
    OBVIOUS
  <2> QED
    BY <1>7, <1>f, <2>1, <2>2, <2>3 DEF HandshakeFails, Promise!Next
<1>8. CASE HandshakeRaises
  BY <1>8 DEF HandshakeRaises, Promise!Next, Promise!Abandon
<1>9. CASE FailReturns
  BY <1>9, StatesAreDistinct
  DEF FailReturns, Promise!vars, Promise!Next, Promise!Close
<1>10. CASE Disconnect
  BY <1>10 DEF Disconnect, Promise!vars, Promise!Next, Promise!Close
<1>11. CASE DisconnectReturns
  BY <1>11 DEF DisconnectReturns, Promise!vars
<1>12. ASSUME NEW c \in Clients, LinkDrops(c) \/ Settles(c)
       PROVE  [Promise!Next]_(Promise!vars)
  BY <1>12 DEF LinkDrops, Settles, Promise!vars
<1>13. ASSUME NEW c \in Clients, ReportsEnd(c) \/ ReportsEarly(c)
       PROVE  [Promise!Next]_(Promise!vars)
  <2>0. Disconnected(c) /\ UNCHANGED phase
    BY <1>13 DEF ReportsEnd, ReportsEarly
  <2>1. CASE UNCHANGED <<state, reports>>
    BY <2>0, <2>1 DEF Promise!vars
  <2>2. CASE c = client /\ state' = "DISCONNECTED" /\ Report
    <3>1. phase \notin {"idle", "failing", "disconnecting"}
      BY <2>2, NoClientAssumption DEF Accounting, ClientOfPhase
    <3>2. reports' > 0
      BY <2>2 DEF Report, MaxReports
    <3>3. CASE phase = "loaded"
      BY <2>0, <2>2, <3>2, <3>3 DEF Promise!Next, Promise!End
    <3>4. CASE phase # "loaded"
      BY <2>0, <3>1, <3>2, <3>4 DEF Promise!Next, Promise!Warn
    <3> QED
      BY <3>3, <3>4
  <2> QED
    BY <2>0, <2>1, <2>2 DEF Disconnected
<1>14. ASSUME NEW c \in Clients, NEW k \in Characteristics, Notification(c, k)
       PROVE  [Promise!Next]_(Promise!vars)
  BY <1>14 DEF Notification, Promise!vars
<1>a. ASSUME AddError, UNCHANGED phase PROVE [Promise!Next]_(Promise!vars)
  BY <1>a, <1>d
  DEF AddError, Report, MaxReports, Promise!vars, Promise!Next, Promise!End, Promise!Warn
<1>15. ASSUME NEW c \in Clients, OnTelemetry(c) PROVE [Promise!Next]_(Promise!vars)
  BY <1>15, <1>a DEF OnTelemetry, Promise!vars
<1>16. ASSUME NEW c \in Clients, OnConfig(c) PROVE [Promise!Next]_(Promise!vars)
  BY <1>16, <1>a DEF OnConfig, Promise!vars
<1>17. ASSUME NEW c \in Clients, ErrorCloseReturns(c) PROVE [Promise!Next]_(Promise!vars)
  BY <1>17 DEF ErrorCloseReturns, Promise!vars
<1>18. CASE UNCHANGED vars
  BY <1>18 DEF vars, Promise!vars
<1> QED
  BY <1>1, <1>2, <1>3, <1>4, <1>5, <1>6, <1>7, <1>8, <1>9, <1>10, <1>11, <1>12,
     <1>13, <1>14, <1>15, <1>16, <1>17, <1>18 DEF Next, HandshakeStep

\* The connection implements SessionPromise: a session or an attempt that began ends
\* by the caller's disconnect() or with the on_disconnect listeners told.
THEOREM ConnectionKeepsPromise == Spec => KeepsPromise
BY InitPromise, StepPromise, LinksAccounted, PTL DEF Spec, KeepsPromise, Promise!Spec

\* The end of a session is told: whoever holds an ended one was called back since it began
\* or came up, and need not look at the connection again.
THEOREM EndAlwaysTold == Spec => [](Session = "ended" => reports > 0)
<1> DEFINE Told == Session = "ended" => reports > 0
<1>1. Init => Told
  BY DEF Init, Session, Handshake
<1>2. Told /\ [Promise!Next]_(Promise!vars) => Told'
  <2> SUFFICES ASSUME Told, [Promise!Next]_(Promise!vars) PROVE Told'
    OBVIOUS
  <2> USE DEF Promise!vars, Promise!Next
  <2>1. CASE Promise!Begin \/ Promise!Succeed \/ Promise!Abandon \/ Promise!Close
    BY <2>1 DEF Promise!Begin, Promise!Succeed, Promise!Abandon, Promise!Close
  <2>2. CASE Promise!End \/ Promise!Warn
    BY <2>2 DEF Promise!End, Promise!Warn
  <2> QED
    BY <2>1, <2>2
<1> QED
  BY <1>1, <1>2, ConnectionKeepsPromise, PTL DEF Spec, KeepsPromise, Promise!Spec

-----------------------------------------------------------------------------
(* What too many errors do.                                                   *)

\* After too many errors the link they came on, or the one that replaced it, is over,
\* being disconnected, or one that bleak gave up disconnecting.
ErrorsEndLink ==
    state = "ERROR_TOO_MANY_ERRORS" =>
        client \notin Links \/ client \in errorCloses \cup gaveUp

LEMMA StepErrorsEndLink == Accounting /\ ErrorsEndLink /\ [Next]_vars => ErrorsEndLink'
<1> SUFFICES ASSUME Accounting, ErrorsEndLink, [Next]_vars, state' = "ERROR_TOO_MANY_ERRORS"
             PROVE  client' \notin Links' \/ client' \in errorCloses' \cup gaveUp'
  BY DEF ErrorsEndLink
<1> USE DEF ErrorsEndLink, Links, bleak
<1>t. up \subseteq Clients /\ client \in Clients \cup {NoClient} /\ NoClient \notin up
  BY NoClientAssumption DEF Accounting, TypeOK
<1>1. ASSUME NEW e \in FailureTypes PROVE FailureState[e] # "ERROR_TOO_MANY_ERRORS"
  BY <1>1 DEF FailureTypes, FailureState
<1>2. CASE Connect
  BY <1>2 DEF Connect
<1>3. ASSUME NEW c \in Clients, Established(c) \/ EstablishedTooLate(c) PROVE FALSE
  BY <1>1, <1>3 DEF Established, EstablishedTooLate, Fail, FailureTypes
<1>4. CASE HandshakeFails
  BY <1>1, <1>4, ExceptionsAreFailures DEF HandshakeFails, Fail
<1>5. CASE InfoRead \/ TelemetrySubscribed \/ ConfigSubscribed \/ HandshakeRaises
  BY <1>5 DEF InfoRead, TelemetrySubscribed, ConfigSubscribed, Authenticated, HandshakeRaises
<1>6. CASE FailReturns \/ Disconnect \/ DisconnectReturns
  BY <1>6 DEF FailReturns, Closed, Disconnect, DisconnectReturns
<1>7. ASSUME NEW c \in Clients,
             LinkDrops(c) \/ Settles(c) \/ ReportsEnd(c) \/ ReportsEarly(c)
      PROVE  client' \notin Links' \/ client' \in errorCloses' \cup gaveUp'
  BY <1>t, <1>7 DEF LinkDrops, Settles, ReportsEnd, ReportsEarly, Disconnected
<1>8. ASSUME NEW c \in Clients, NEW k \in Characteristics, Notification(c, k)
      PROVE  client' \notin Links' \/ client' \in errorCloses' \cup gaveUp'
  BY <1>8 DEF Notification
<1>9. ASSUME NEW c \in Clients, OnTelemetry(c) \/ OnConfig(c)
      PROVE  client' \notin Links' \/ client' \in errorCloses' \cup gaveUp'
  BY <1>9 DEF OnTelemetry, OnConfig, AddError
<1>10. ASSUME NEW c \in Clients, ErrorCloseReturns(c)
       PROVE  client' \notin Links' \/ client' \in errorCloses' \cup gaveUp'
  BY <1>10 DEF ErrorCloseReturns, Closed
<1>11. CASE UNCHANGED vars
  BY <1>11 DEF vars
<1> QED
  BY <1>2, <1>3, <1>4, <1>5, <1>6, <1>7, <1>8, <1>9, <1>10, <1>11 DEF Next, HandshakeStep

\* add_error: too many errors always have the link disconnected, in every phase and also
\* when later errors, reports and disconnects come in between.
THEOREM ErrorsAlwaysEndLink == Spec => []ErrorsEndLink
<1>1. Init => ErrorsEndLink
  BY DEF Init, ErrorsEndLink
<1> QED
  BY <1>1, StepErrorsEndLink, LinksAccounted, PTL DEF Spec

\* A connect() that overrules too many errors while it subscribes (TooManyErrorsEnd) comes
\* up on a link that is being disconnected, or that bleak gave up disconnecting.
THEOREM OverruledErrorsEndLink ==
    Spec => [][state = "ERROR_TOO_MANY_ERRORS" /\ state' = "AUTHENTICATED"
                   => client' \in errorCloses' \cup gaveUp']_vars
<1>1. Accounting /\ ErrorsEndLink /\ [Next]_vars
        => [state = "ERROR_TOO_MANY_ERRORS" /\ state' = "AUTHENTICATED"
                => client' \in errorCloses' \cup gaveUp']_vars
  <2> SUFFICES ASSUME Accounting, ErrorsEndLink, Next,
                      state = "ERROR_TOO_MANY_ERRORS", state' = "AUTHENTICATED"
               PROVE  client' \in errorCloses' \cup gaveUp'
    OBVIOUS
  <2>1. \A e \in FailureTypes : FailureState[e] # "AUTHENTICATED"
    BY FailureStateIsError, StatesAreDistinct
  <2>2. TelemetrySubscribed \/ ConfigSubscribed
    <3>1. ASSUME NEW c \in Clients PROVE ~Established(c) /\ ~EstablishedTooLate(c)
      BY <2>1 DEF Established, EstablishedTooLate, Fail, FailureTypes
    <3>2. ~HandshakeFails
      BY <2>1, ExceptionsAreFailures DEF HandshakeFails, Fail
    <3> QED
      BY <3>1, <3>2
      DEF Next, HandshakeStep, Connect, InfoRead, HandshakeRaises, FailReturns, Disconnect,
          DisconnectReturns, LinkDrops, Settles, ReportsEnd, ReportsEarly, Disconnected,
          Notification, OnTelemetry, OnConfig, AddError, ErrorCloseReturns
  <2>3. client \in Links /\ UNCHANGED <<client, errorCloses, gaveUp>>
    BY <2>2 DEF TelemetrySubscribed, ConfigSubscribed, StillConnected, Accounting,
                LingeringIsUnanswered, Links
  <2> QED
    BY <2>3 DEF ErrorsEndLink
<1> QED
  BY <1>1, LinksAccounted, ErrorsAlwaysEndLink, PTL DEF Spec
=============================================================================

----------------------------- MODULE Connection -----------------------------
(***************************************************************************)
(* One `Connection` of the integration (wclib/connection.py): the          *)
(* coroutines connect() and disconnect(), bleak's disconnected callback,   *)
(* the notification handlers, and the disconnects add_error() starts.      *)
(*                                                                         *)
(* The code runs on one asyncio loop, so a step of this specification is   *)
(* everything a coroutine or callback does between two awaits.  States of  *)
(* the code that only exist between two awaits (CONNECTED,                 *)
(* SESSION_ESTABLISHED) are therefore never seen in `state`.               *)
(*                                                                         *)
(* bleak is the environment: a link may end at any time, and the program   *)
(* learns of it in two ways, whichever comes first: is_connected turns     *)
(* false, and bleak calls disconnected().  A requested disconnect may be   *)
(* given up while the link is still there.                                 *)
(***************************************************************************)
EXTENDS Naturals, FiniteSets

CONSTANTS Clients,                      \* BleakClient objects of establish_connection
          NoClient,                     \* Python's None
          MAX_ERRORS_BEFORE_RECONNECT   \* failures in a row the connection tolerates

ASSUME NoClientAssumption == NoClient \notin Clients
ASSUME MaxErrorsAssumption == MAX_ERRORS_BEFORE_RECONNECT \in Nat

VARIABLES
    state,       \* Connection._connection_state
    client,      \* Connection._client
    errors,      \* Connection._errors
    phase,       \* what the caller's coroutine awaits, see Phases
    mine,        \* the coroutine's local `client`, NoClient when it holds none
    up,          \* clients whose is_connected is true
    unreported,  \* clients that are down and whose callback bleak still has to call
    lingering,   \* clients whose callback bleak called while is_connected stays true
    notifying,   \* <<client, characteristic>> pairs with a subscription
    queued,      \* notifications received whose handler task has not run yet
    errorCloses, \* clients an add_error() awaits the disconnect of
    gaveUp,      \* clients whose link is there although their disconnect() raised
    reports      \* history: on_disconnect calls since connect began or succeeded

bleak == <<up, unreported, lingering>>
vars  == <<state, client, errors, phase, mine, bleak, notifying, queued, errorCloses,
           gaveUp, reports>>

-----------------------------------------------------------------------------
ConnectedStates ==
    {"CONNECTED", "ESTABLISHING_SESSION", "SESSION_ESTABLISHED", "SUBSCRIBING"}

ConnectingStates == ConnectedStates \cup {"ESTABLISHING_CONNECTION"}

\* the state a failed connect ends in, by the exception that made it fail
FailureState ==
    [SessionKeyError              |-> "ERROR_AUTH_FAILED",
     UnsupportedBluetoothProtocol |-> "ERROR_UNSUPPORTED_PROTOCOL",
     TimeoutError                 |-> "ERROR_TIMEOUT",
     BleakNotFoundError           |-> "ERROR_NOT_FOUND",
     BleakError                   |-> "ERROR_BLEAK"]

ErrorStates ==
    {FailureState[e] : e \in DOMAIN FailureState} \cup {"ERROR_TOO_MANY_ERRORS"}

States == ConnectingStates \cup ErrorStates
              \cup {"AUTHENTICATED", "DISCONNECTING", "DISCONNECTED"}

\* connect() returns early in these
BusyStates == ConnectingStates \cup {"AUTHENTICATED"}

Characteristics == {"telemetry", "config"}

\* The awaits of the handshake, among them the read of the info from a device that is
\* already gone, then _fail() awaiting the disconnect, the session
\* the caller holds, an exception outside _FAILURE_TYPES it has to clean up after,
\* and disconnect() awaiting bleak.
Handshake == {"establish", "read", "unanswered", "telemetry", "config"}

Phases == Handshake \cup {"idle", "failing", "loaded", "raised", "disconnecting"}

\* the exceptions of _FAILURE_TYPES an await of the handshake can end in
Exceptions ==
    [establish  |-> {"TimeoutError", "BleakNotFoundError", "BleakError"},
     read       |-> {"TimeoutError", "BleakError", "SessionKeyError",
                     "UnsupportedBluetoothProtocol"},
     unanswered |-> {"TimeoutError", "BleakError", "UnsupportedBluetoothProtocol"},
     telemetry  |-> {"TimeoutError", "BleakError"},
     config     |-> {"TimeoutError", "BleakError"}]

\* history variable `reports` counts up to two, enough to tell a repeated report
MaxReports == 2

Report == reports' = IF reports < MaxReports THEN reports + 1 ELSE reports

\* the links that are really there: bleak calls disconnected() only when a link ended
Links == up \ lingering

\* an address bleak can hand out: a client object nothing refers to any more
Fresh(c) ==
    /\ c \notin up \cup unreported \cup errorCloses \cup {client, mine}
    /\ \A k \in Characteristics : <<c, k>> \notin queued

\* slip: only is_connected tells whether the link is still there
StillConnectedUncompared == mine \in up

\* _ensure_connected
StillConnected == client = mine /\ mine \in up

Init ==
    /\ state = "DISCONNECTED"
    /\ client = NoClient
    /\ errors = 0
    /\ phase = "idle"
    /\ mine = NoClient
    /\ up = {}
    /\ unreported = {}
    /\ lingering = {}
    /\ notifying = {}
    /\ queued = {}
    /\ errorCloses = {}
    /\ gaveUp = {}
    /\ reports = 0

-----------------------------------------------------------------------------
(* connect().  The caller, DeviceBase under HA's setup lock or the config     *)
(* flow, runs one connect or disconnect at a time; the loop has run the       *)
(* handlers of earlier notifications before the caller comes back.  It may    *)
(* connect again without disconnect() once the session ended.                 *)

Connect ==
    /\ phase \in {"idle", "loaded"}
    /\ queued = {}
    /\ state \notin BusyStates
    /\ state' = "ESTABLISHING_CONNECTION"
    /\ phase' = "establish"
    /\ reports' = 0
    /\ UNCHANGED <<client, errors, mine, bleak, notifying, queued, errorCloses, gaveUp>>

\* slip: _fail forgets to end a link that is still up
FailWithoutDisconnect(exception, held, isUp) ==
    /\ state' = FailureState[exception]
    /\ Report
    /\ client' = NoClient
    /\ phase' = "idle"
    /\ mine' = NoClient

\* _fail: report the error state, drop the client, end the link if it is up
Fail(exception, held, isUp) ==
    /\ state' = FailureState[exception]
    /\ Report
    /\ client' = NoClient
    /\ phase' = IF isUp THEN "failing" ELSE "idle"
    /\ mine' = IF isUp THEN held ELSE NoClient

\* establish_connection returned a link that is up; _establish_session reads the info
Established(c) ==
    /\ phase = "establish"
    /\ Fresh(c)
    /\ up' = up \cup {c}
    /\ errors' = 0
    /\ \/ /\ state' = "ESTABLISHING_SESSION"
          /\ client' = c
          /\ mine' = c
          /\ phase' = "read"
          /\ UNCHANGED reports
       \/ Fail("UnsupportedBluetoothProtocol", c, TRUE)
    /\ UNCHANGED <<unreported, lingering, notifying, queued, errorCloses, gaveUp>>

\* the link ended before connect() resumed: the callback met no client of this attempt
\* or is still to come, and the device answers no more where is_connected lingers
EstablishedTooLate(c) ==
    /\ phase = "establish"
    /\ Fresh(c)
    /\ \/ /\ unreported' \in {unreported, unreported \cup {c}}
          /\ Fail("BleakError", c, FALSE)
          /\ UNCHANGED <<errors, up, lingering>>
       \/ /\ up' = up \cup {c}
          /\ lingering' = lingering \cup {c}
          /\ errors' = 0
          /\ state' = "ESTABLISHING_SESSION"
          /\ client' = c
          /\ mine' = c
          /\ phase' = "unanswered"
          /\ UNCHANGED <<unreported, reports>>
    /\ UNCHANGED <<notifying, queued, errorCloses, gaveUp>>

\* the session key fits: _subscribe starts the telemetry notifications
InfoRead ==
    /\ phase = "read"
    /\ StillConnected
    /\ state' = "SUBSCRIBING"
    /\ phase' = "telemetry"
    /\ notifying' = notifying \cup {<<mine, "telemetry">>}
    /\ UNCHANGED <<client, errors, mine, bleak, queued, errorCloses, gaveUp, reports>>

\* nothing is awaited between the last check of the link and the return of connect()
Authenticated ==
    /\ state' = "AUTHENTICATED"
    /\ phase' = "loaded"
    /\ mine' = NoClient
    /\ reports' = 0

\* a device without the configuration characteristic needs no second subscription
TelemetrySubscribed ==
    /\ phase = "telemetry"
    /\ StillConnected
    /\ \/ /\ phase' = "config"
          /\ notifying' = notifying \cup {<<mine, "config">>}
          /\ UNCHANGED <<state, mine, reports>>
       \/ /\ Authenticated
          /\ UNCHANGED notifying
    /\ UNCHANGED <<client, errors, bleak, queued, errorCloses, gaveUp>>

\* a BleakError of this subscription only disables the configuration channel
ConfigSubscribed ==
    /\ phase = "config"
    /\ StillConnected
    /\ Authenticated
    /\ \/ UNCHANGED notifying
       \/ notifying' = notifying \ {<<mine, "config">>}
    /\ UNCHANGED <<client, errors, bleak, queued, errorCloses, gaveUp>>

HandshakeFails ==
    /\ phase \in Handshake
    /\ \E e \in Exceptions[phase] :
          /\ phase = "config" /\ e = "BleakError" => ~StillConnected
          /\ Fail(e, client, client \in up)
    /\ UNCHANGED <<errors, bleak, notifying, queued, errorCloses, gaveUp>>

\* an exception outside _FAILURE_TYPES, or a cancelled task: nothing is cleaned up
HandshakeRaises ==
    /\ phase \in Handshake
    /\ phase' = "raised"
    /\ mine' = NoClient
    /\ UNCHANGED <<state, client, errors, bleak, notifying, queued, errorCloses,
                   gaveUp, reports>>

\* _disconnect_client swallows what bleak raises: the link may still be there
Closed(c) == gaveUp' = IF c \in Links THEN gaveUp \cup {c} ELSE gaveUp

\* slip: a disconnect bleak gives up keeps connect() waiting for the end of the link
FailReturnsWhenDown ==
    /\ phase = "failing"
    /\ mine \notin up
    /\ phase' = "idle"
    /\ mine' = NoClient
    /\ UNCHANGED <<state, client, errors, bleak, notifying, queued, errorCloses,
                   gaveUp, reports>>

FailReturns ==
    /\ phase = "failing"
    /\ Closed(mine)
    /\ phase' = "idle"
    /\ mine' = NoClient
    /\ UNCHANGED <<state, client, errors, bleak, notifying, queued, errorCloses,
                   reports>>

-----------------------------------------------------------------------------
(* disconnect()                                                               *)

\* slip: disconnect() sets no state when there is no link to end
DisconnectOnlyLinks ==
    /\ phase \in {"idle", "loaded", "raised"}
    /\ client' = NoClient
    /\ IF client \in up
       THEN /\ state' = "DISCONNECTING"
            /\ phase' = "disconnecting"
            /\ mine' = client
       ELSE /\ phase' = "idle"
            /\ UNCHANGED <<state, mine>>
    /\ UNCHANGED <<errors, bleak, notifying, queued, errorCloses, gaveUp, reports>>

Disconnect ==
    /\ phase \in {"idle", "loaded", "raised"}
    /\ client' = NoClient
    /\ IF client \in up
       THEN /\ state' = "DISCONNECTING"
            /\ phase' = "disconnecting"
            /\ mine' = client
       ELSE /\ state' = "DISCONNECTED"
            /\ phase' = "idle"
            /\ UNCHANGED mine
    /\ UNCHANGED <<errors, bleak, notifying, queued, errorCloses, gaveUp, reports>>

DisconnectReturns ==
    /\ phase = "disconnecting"
    /\ Closed(mine)
    /\ state' = "DISCONNECTED"
    /\ phase' = "idle"
    /\ mine' = NoClient
    /\ UNCHANGED <<client, errors, bleak, notifying, queued, errorCloses, reports>>

-----------------------------------------------------------------------------
(* bleak                                                                      *)

\* the device, the radio or a requested disconnect ends the link, is_connected first
LinkDrops(c) ==
    /\ c \in Links
    /\ up' = up \ {c}
    /\ unreported' = unreported \cup {c}
    /\ gaveUp' = gaveUp \ {c}
    /\ notifying' = notifying \ ({c} \X Characteristics)
    /\ UNCHANGED <<state, client, errors, phase, mine, lingering, queued, errorCloses,
                   reports>>

\* is_connected turns false after the callback
Settles(c) ==
    /\ c \in lingering
    /\ up' = up \ {c}
    /\ lingering' = lingering \ {c}
    /\ UNCHANGED <<state, client, errors, phase, mine, unreported, notifying, queued,
                   errorCloses, gaveUp, reports>>

\* slip: the callback does not compare the client that ended with the current one
DisconnectedAnyClient(c) ==
    /\ client' = NoClient
    /\ \/ /\ state \in ConnectingStates \cup ErrorStates
          /\ UNCHANGED <<state, reports>>
       \/ /\ state \notin ConnectingStates \cup ErrorStates
          /\ state' = "DISCONNECTED"
          /\ Report

\* slip: the callback leaves every state but DISCONNECTING to someone else
DisconnectedNoReaction(c) ==
    /\ client' = IF c = client THEN NoClient ELSE client
    /\ UNCHANGED <<state, reports>>

\* slip: the callback sets the state and does not call the listeners
DisconnectedUntold(c) ==
    /\ client' = IF c = client THEN NoClient ELSE client
    /\ state' = IF c = client /\ state = "AUTHENTICATED" THEN "DISCONNECTED" ELSE state
    /\ UNCHANGED reports

\* disconnected(), with the client whose link ended
Disconnected(c) ==
    \/ /\ c # client
       /\ UNCHANGED <<state, client, reports>>
    \/ /\ c = client
       /\ client' = NoClient
       /\ \/ /\ state \in ConnectingStates \cup ErrorStates
             /\ UNCHANGED <<state, reports>>
          \/ /\ state \notin ConnectingStates \cup ErrorStates
             /\ state' = "DISCONNECTED"
             /\ Report

\* bleak calls disconnected() for a client that is down
ReportsEnd(c) ==
    /\ c \in unreported
    /\ unreported' = unreported \ {c}
    /\ Disconnected(c)
    /\ UNCHANGED <<errors, phase, mine, up, lingering, notifying, queued, errorCloses,
                   gaveUp>>

\* the link ends, the callback first: "a client can report the end of the link before it
\* stops reporting it is connected" (tests/wclib/test_connection.py:431)
ReportsEarly(c) ==
    /\ c \in Links
    /\ lingering' = lingering \cup {c}
    /\ notifying' = notifying \ ({c} \X Characteristics)
    /\ gaveUp' = gaveUp \ {c}
    /\ Disconnected(c)
    /\ UNCHANGED <<errors, phase, mine, up, unreported, queued, errorCloses>>

\* bound: one notification per subscription waits for its handler
Notification(c, k) ==
    /\ <<c, k>> \in notifying \ queued
    /\ queued' = queued \cup {<<c, k>>}
    /\ UNCHANGED <<state, client, errors, phase, mine, bleak, notifying, errorCloses,
                   gaveUp, reports>>

-----------------------------------------------------------------------------
(* _on_telemetry, _on_config and add_error                                    *)

\* slip: the limit is compared after counting, and the count is not started again
AddErrorWithoutReset ==
    /\ errors' = errors + 1
    /\ \/ /\ errors < MAX_ERRORS_BEFORE_RECONNECT
          /\ UNCHANGED <<state, errorCloses, reports>>
       \/ /\ errors >= MAX_ERRORS_BEFORE_RECONNECT
          /\ state' = "ERROR_TOO_MANY_ERRORS"
          /\ Report
          /\ errorCloses' = errorCloses \cup ({client} \cap up)

\* a failure the connection tolerates, or the one that ends it
AddError ==
    \/ /\ errors < MAX_ERRORS_BEFORE_RECONNECT
       /\ errors' = errors + 1
       /\ UNCHANGED <<state, errorCloses, reports>>
    \/ /\ errors >= MAX_ERRORS_BEFORE_RECONNECT
       /\ errors' = 0
       /\ state' = "ERROR_TOO_MANY_ERRORS"
       /\ Report
       /\ errorCloses' = errorCloses \cup ({client} \cap up)

OnTelemetry(c) ==
    /\ <<c, "telemetry">> \in queued
    /\ queued' = queued \ {<<c, "telemetry">>}
    /\ \/ /\ errors' = 0
          /\ UNCHANGED <<state, errorCloses, reports>>
       \/ AddError
    /\ UNCHANGED <<client, phase, mine, bleak, notifying, gaveUp>>

\* a message that is parsed or ignored leaves the errors counted so far
OnConfig(c) ==
    /\ <<c, "config">> \in queued
    /\ queued' = queued \ {<<c, "config">>}
    /\ \/ UNCHANGED <<state, errors, errorCloses, reports>>
       \/ AddError
    /\ UNCHANGED <<client, phase, mine, bleak, notifying, gaveUp>>

ErrorCloseReturns(c) ==
    /\ c \in errorCloses
    /\ errorCloses' = errorCloses \ {c}
    /\ Closed(c)
    /\ UNCHANGED <<state, client, errors, phase, mine, bleak, notifying, queued,
                   reports>>

-----------------------------------------------------------------------------
HandshakeStep ==
    \/ \E c \in Clients : Established(c) \/ EstablishedTooLate(c)
    \/ InfoRead \/ TelemetrySubscribed \/ ConfigSubscribed
    \/ HandshakeFails \/ HandshakeRaises

Next ==
    \/ Connect \/ HandshakeStep \/ FailReturns
    \/ Disconnect \/ DisconnectReturns
    \/ \E c \in Clients :
          \/ LinkDrops(c) \/ Settles(c) \/ ReportsEnd(c) \/ ReportsEarly(c)
          \/ \E k \in Characteristics : Notification(c, k)
          \/ OnTelemetry(c) \/ OnConfig(c) \/ ErrorCloseReturns(c)

Spec == Init /\ [][Next]_vars

\* The event loop runs every ready task, every bleak request ends or times out, and
\* bleak reports the end of a link that is down.  Nobody has to call connect() or
\* disconnect(), no link has to end, no notification has to arrive, and is_connected may
\* linger for good.
Fairness ==
    /\ WF_vars(HandshakeStep)
    /\ WF_vars(FailReturns)
    /\ WF_vars(DisconnectReturns)
    /\ \A c \in Clients :
          /\ WF_vars(ReportsEnd(c))
          /\ WF_vars(OnTelemetry(c))
          /\ WF_vars(OnConfig(c))
          /\ WF_vars(ErrorCloseReturns(c))

FairSpec == Spec /\ Fairness
-----------------------------------------------------------------------------
(* What the connection is for.                                                *)

TypeOK ==
    /\ state \in States
    /\ client \in Clients \cup {NoClient}
    /\ errors \in 0..MAX_ERRORS_BEFORE_RECONNECT
    /\ phase \in Phases
    /\ mine \in Clients \cup {NoClient}
    /\ up \subseteq Clients
    /\ unreported \subseteq Clients
    /\ lingering \subseteq Clients
    /\ notifying \subseteq Clients \X Characteristics
    /\ queued \subseteq Clients \X Characteristics
    /\ errorCloses \subseteq Clients
    /\ gaveUp \subseteq Clients
    /\ reports \in 0..MaxReports

\* An authenticated session always has a link that is there, or one whose end bleak will
\* still report to this connection: the end of a link is never lost in the handshake,
\* whichever of is_connected and the callback tells of it first, so an entry cannot stay
\* loaded on a dead link (connect, disconnected, _ensure_connected).
SessionHasLink ==
    phase = "loaded" /\ state = "AUTHENTICATED" => client \in Links \cup unreported

\* A caller that comes back after a failed or closed connection gets a new attempt:
\* no failure leaves a state in which connect() returns at once and looks successful.
NextConnectStarts ==
    /\ phase = "idle" => state \notin BusyStates
    /\ phase = "loaded" => state \notin ConnectingStates

\* A link is there only while the connection uses it or is ending it, or after bleak gave
\* up ending it: a client is dropped before its link ended by nobody who does not end it.
\* The UPS accepts a single connection, so a forgotten link locks it.
NoForgottenLink == Links \subseteq {client, mine} \cup errorCloses \cup gaveUp

\* Which client the coroutine and the connection hold at each await.
ClientOfPhase ==
    /\ phase \in {"idle", "failing", "disconnecting"} => client = NoClient
    /\ phase \in {"idle", "establish", "loaded", "raised"} => mine = NoClient
    /\ phase \in {"read", "unanswered", "telemetry", "config"} =>
           mine = client \/ mine \notin Links

\* The client of a link that ended is dropped, unless the callback came before connect()
\* held it: then the device does not answer.
LingeringIsUnanswered == client \in lingering => phase \in {"unanswered", "raised"}

\* A client kept after its session ended, by add_error(), is being disconnected.
KeptClientCloses ==
    phase = "establish" \/ (phase = "loaded" /\ state # "AUTHENTICATED")
        => client \notin Links \/ client \in errorCloses \cup gaveUp

\* Which states the connection can be in at each await.
StateOfPhase ==
    /\ state = "AUTHENTICATED" => phase = "loaded"
    /\ phase = "failing" => state \notin BusyStates

\* How bleak tells of the end of a link: in either order, and each of it once.
EndsToldOnce ==
    /\ lingering \subseteq up
    /\ up \cap unreported = {}

\* The inductive invariant behind the safety properties: every await knows which links it
\* answers for, however far bleak is with telling of their ends.
Accounting ==
    /\ TypeOK
    /\ EndsToldOnce
    /\ ClientOfPhase
    /\ LingeringIsUnanswered
    /\ KeptClientCloses
    /\ StateOfPhase
    /\ NextConnectStarts
    /\ SessionHasLink
    /\ NoForgottenLink

\* A session is taken for lost only when its own link ended: a report about a link that
\* was given up or replaced meanwhile, early or late, never ends the session of its
\* successor.
LossIsReal ==
    [][state = "AUTHENTICATED" /\ state' = "DISCONNECTED" => client \notin Links']_vars

\* The session SessionPromise speaks of.
Session ==
    CASE phase \in Handshake -> "starting"
      [] phase = "loaded" /\ state = "AUTHENTICATED" -> "up"
      [] phase = "loaded" /\ state # "AUTHENTICATED" -> "ended"
      [] phase = "idle" /\ state # "DISCONNECTED" -> "ended"
      [] phase = "failing" -> "ended"
      [] phase = "raised" -> "raised"
      [] OTHER -> "none"

Promise == INSTANCE SessionPromise WITH session <- Session, told <- reports > 0

\* The connection implements SessionPromise: no session or attempt ends untold.
KeepsPromise == Promise!Spec

\* Every attempt ends: authenticated, failed or raised to the caller.
ConnectSettles ==
    phase \in Handshake \cup {"failing"} ~> phase \in {"idle", "loaded", "raised"}

\* A session whose link dropped does not stay authenticated.
LostLinkNoticed ==
    state = "AUTHENTICATED" /\ client \notin Links ~> state # "AUTHENTICATED"

\* tests/wclib/test_connection.py:267, "too many errors in a row end the connection":
\* after the listeners heard ERROR_TOO_MANY_ERRORS the attempt or session is over, it
\* does not become an authenticated one.
TooManyErrorsEnd ==
    [][state = "ERROR_TOO_MANY_ERRORS" => state' # "AUTHENTICATED"]_vars
=============================================================================

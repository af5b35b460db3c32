--------------------------- MODULE DeviceSession ----------------------------
(***************************************************************************)
(* What a device runs while it is connected (wclib/devicebase.py): the     *)
(* tasks that read the settings, poll, and watch for overdue telemetry,    *)
(* from the connection reaching AUTHENTICATED until disconnect().          *)
(*                                                                         *)
(* Time passes in ticks and is kept as ages and waits, so it needs no      *)
(* bound; the loop runs a task before the tick after its sleep ended.      *)
(***************************************************************************)
EXTENDS Integers

CONSTANTS Sessions,       \* identities of the task objects of a session
          DATA_TIMEOUT,   \* ticks without a data frame after which values are stale
          POLL_INTERVAL   \* ticks between calls of poll()

ASSUME TimeoutAssumption == DATA_TIMEOUT \in Nat /\ DATA_TIMEOUT > 0
ASSUME IntervalAssumption == POLL_INTERVAL \in Nat /\ POLL_INTERVAL > 0

VARIABLES
    conn,       \* DeviceBase._conn: "none", "open", or "closing" in disconnect()
    link,       \* of the connection: "down", up in a "handshake" or in a "session"
    tasks,      \* <<kind, session>> of the tasks that have not ended
    held,       \* the tasks _refresh_task, _poll_task and _data_task name
    asking,     \* sessions whose poll task awaits poll()
    pollWait,   \* ticks the poll task of a session still sleeps
    dataWait,   \* ticks the data task of a session still sleeps
    age,        \* ticks since _last_data
    current     \* _data_current

vars == <<conn, link, tasks, held, asking, pollWait, dataWait, age, current>>

\* is_connected, true before the connection is authenticated
Connected == link # "down"

Kinds == {"refresh", "poll", "data"}

\* bound: an age past the timeout is as good as any older one
MaxAge == DATA_TIMEOUT + 1

Init ==
    /\ conn = "none"
    /\ link = "down"
    /\ tasks = {}
    /\ held = {}
    /\ asking = {}
    /\ pollWait = [s \in Sessions |-> 0]
    /\ dataWait = [s \in Sessions |-> 0]
    /\ age = MaxAge
    /\ current = TRUE

-----------------------------------------------------------------------------
(* connect() and the states of the connection                                 *)

\* connect() creates the connection; telemetry can arrive before it is authenticated
Connect ==
    /\ conn = "none"
    /\ conn' = "open"
    /\ UNCHANGED <<link, tasks, held, asking, pollWait, dataWait, age, current>>

\* _cancel_session_tasks: the tasks are suspended, so none runs on after cancel()
CancelSessionTasks ==
    /\ tasks' = tasks \ held
    /\ asking' = {s \in asking : <<"poll", s>> \notin held}

\* a link that is up but not yet a session
LinkUp ==
    /\ conn = "open"
    /\ ~Connected
    /\ link' = "handshake"
    /\ UNCHANGED <<conn, tasks, held, asking, pollWait, dataWait, age, current>>

\* slip: the tasks of the previous session are left to themselves
AuthenticatedWithoutCancel ==
    /\ conn = "open"
    /\ link = "handshake"
    /\ link' = "session"
    /\ \E s \in Sessions :
          /\ \A k \in Kinds : <<k, s>> \notin tasks
          /\ tasks' = tasks \cup Kinds \X {s}
          /\ held' = Kinds \X {s}
          /\ pollWait' = [pollWait EXCEPT ![s] = POLL_INTERVAL]
          /\ dataWait' = [dataWait EXCEPT ![s] = 0]
    /\ age' = 0
    /\ UNCHANGED <<conn, asking, current>>

\* _on_connection_state(AUTHENTICATED); the connection may be one whose link dropped
Authenticated ==
    /\ conn = "open"
    /\ link = "handshake"
    /\ link' = "session"
    /\ \E s \in Sessions :
          /\ \A k \in Kinds : <<k, s>> \notin tasks \ held
          /\ tasks' = (tasks \ held) \cup Kinds \X {s}
          /\ held' = Kinds \X {s}
          /\ pollWait' = [pollWait EXCEPT ![s] = POLL_INTERVAL]
          /\ dataWait' = [dataWait EXCEPT ![s] = 0]
    /\ asking' = {s \in asking : <<"poll", s>> \notin held}
    /\ age' = 0
    /\ UNCHANGED <<conn, current>>

LinkDrops ==
    /\ Connected
    /\ link' = "down"
    /\ UNCHANGED <<conn, tasks, held, asking, pollWait, dataWait, age, current>>

\* the connection drops its client at once, then awaits the end of the link
Disconnect ==
    /\ conn = "open"
    /\ CancelSessionTasks
    /\ held' = {}
    /\ conn' = "closing"
    /\ link' = "down"
    /\ UNCHANGED <<pollWait, dataWait, age, current>>

DisconnectReturns ==
    /\ conn = "closing"
    /\ conn' = "none"
    /\ UNCHANGED <<link, tasks, held, asking, pollWait, dataWait, age, current>>

-----------------------------------------------------------------------------
(* the tasks                                                                  *)

\* _refresh_settings reads what it can; an exception ends it with a warning
RefreshEnds(s) ==
    /\ <<"refresh", s>> \in tasks
    /\ tasks' = tasks \ {<<"refresh", s>>}
    /\ UNCHANGED <<conn, link, held, asking, pollWait, dataWait, age, current>>

\* slip: the poll task does not look at the link
PollWakesUnchecked(s) ==
    /\ <<"poll", s>> \in tasks
    /\ s \notin asking
    /\ pollWait[s] = 0
    /\ asking' = asking \cup {s}
    /\ UNCHANGED <<conn, link, tasks, held, pollWait, dataWait, age, current>>

\* _poll_periodically after its sleep: without a link the task ends
PollWakes(s) ==
    /\ <<"poll", s>> \in tasks
    /\ s \notin asking
    /\ pollWait[s] = 0
    /\ \/ /\ Connected
          /\ asking' = asking \cup {s}
          /\ UNCHANGED tasks
       \/ /\ ~Connected
          /\ tasks' = tasks \ {<<"poll", s>>}
          /\ UNCHANGED asking
    /\ UNCHANGED <<conn, link, held, pollWait, dataWait, age, current>>

\* slip: an exception of poll() ends the task
PolledOrEnded(s) ==
    /\ s \in asking
    /\ asking' = asking \ {s}
    /\ \/ /\ pollWait' = [pollWait EXCEPT ![s] = POLL_INTERVAL]
          /\ UNCHANGED tasks
       \/ /\ tasks' = tasks \ {<<"poll", s>>}
          /\ UNCHANGED pollWait
    /\ UNCHANGED <<conn, link, held, dataWait, age, current>>

\* poll() returned or raised, the task sleeps again either way
Polled(s) ==
    /\ s \in asking
    /\ asking' = asking \ {s}
    /\ pollWait' = [pollWait EXCEPT ![s] = POLL_INTERVAL]
    /\ UNCHANGED <<conn, link, tasks, held, dataWait, age, current>>

\* slip: the check sleeps a whole timeout, not what is left of it
CheckDataEveryTimeout(s) ==
    /\ <<"data", s>> \in tasks
    /\ dataWait[s] = 0
    /\ dataWait' = [dataWait EXCEPT ![s] = DATA_TIMEOUT]
    /\ current' = (current /\ age < DATA_TIMEOUT)
    /\ UNCHANGED <<conn, link, tasks, held, asking, pollWait, age>>

\* slip: the sign of the time that is left
CheckDataNegative(s) ==
    /\ <<"data", s>> \in tasks
    /\ dataWait[s] = 0
    /\ dataWait' = [dataWait EXCEPT ![s] = age - DATA_TIMEOUT]
    /\ current' = (current /\ age < DATA_TIMEOUT)
    /\ UNCHANGED <<conn, link, tasks, held, asking, pollWait, age>>

\* _watch_data and _check_data: sleep until the next frame is overdue, or mark the
\* values stale and look again a timeout later
CheckData(s) ==
    /\ <<"data", s>> \in tasks
    /\ dataWait[s] = 0
    /\ \/ /\ age < DATA_TIMEOUT
          /\ dataWait' = [dataWait EXCEPT ![s] = DATA_TIMEOUT - age]
          /\ UNCHANGED current
       \/ /\ age >= DATA_TIMEOUT
          /\ dataWait' = [dataWait EXCEPT ![s] = DATA_TIMEOUT]
          /\ current' = FALSE
    /\ UNCHANGED <<conn, link, tasks, held, asking, pollWait, age>>

\* _on_data with a frame that was processed
OnData ==
    /\ conn # "none"
    /\ age' = 0
    /\ current' = TRUE
    /\ UNCHANGED <<conn, link, tasks, held, asking, pollWait, dataWait>>

\* a task whose sleep is over and that has not run yet
Due(s) ==
    \/ <<"data", s>> \in tasks /\ dataWait[s] = 0
    \/ <<"poll", s>> \in tasks /\ s \notin asking /\ pollWait[s] = 0

Left(wait) == IF wait > 0 THEN wait - 1 ELSE 0

Tick ==
    /\ \A s \in Sessions : ~Due(s)
    /\ age' = IF age < MaxAge THEN age + 1 ELSE age
    /\ pollWait' = [s \in Sessions |-> Left(pollWait[s])]
    /\ dataWait' = [s \in Sessions |-> Left(dataWait[s])]
    /\ UNCHANGED <<conn, link, tasks, held, asking, current>>

Next ==
    \/ Connect \/ LinkUp \/ Authenticated \/ LinkDrops \/ Disconnect \/ DisconnectReturns
    \/ OnData \/ Tick
    \/ \E s \in Sessions : RefreshEnds(s) \/ PollWakes(s) \/ Polled(s) \/ CheckData(s)

Spec == Init /\ [][Next]_vars

\* Time passes, the loop runs what is due, and every request of a task ends.  Nobody
\* has to connect or disconnect, and no frame has to arrive.
Fairness ==
    /\ WF_vars(Tick)
    /\ \A s \in Sessions : WF_vars(PollWakes(s)) /\ WF_vars(Polled(s)) /\ WF_vars(CheckData(s))

FairSpec == Spec /\ Fairness

-----------------------------------------------------------------------------
TypeOK ==
    /\ conn \in {"none", "open", "closing"}
    /\ link \in {"down", "handshake", "session"}
    /\ tasks \subseteq Kinds \X Sessions
    /\ held \subseteq Kinds \X Sessions
    /\ asking \subseteq Sessions
    /\ pollWait \in [Sessions -> 0..POLL_INTERVAL]
    /\ dataWait \in [Sessions -> 0..DATA_TIMEOUT]
    /\ age \in 0..MaxAge
    /\ current \in BOOLEAN

\* Every task still running is one the next disconnect() or session can cancel: no
\* task of an earlier session reads, polls or marks values next to the new ones.
TasksAreHeld == tasks \subseteq held

\* As long as its link lasts, a session is polled and watched: no failing poll, early
\* frame or earlier session ends the tasks that serve it.
SessionIsServed ==
    link = "session" => \E s \in Sessions : {<<"poll", s>>, <<"data", s>>} \subseteq tasks

\* Values shown as current are never older than the timeout while a session is watched,
\* however frames, checks and reconnects interleave with the sleeps of the watcher.
StaleInTime ==
    (current /\ \E s \in Sessions : <<"data", s>> \in tasks) => age <= DATA_TIMEOUT

\* The poll task of a session whose link stays down ends on its own.
PollEnds ==
    \A s \in Sessions : ~Connected /\ <<"poll", s>> \in tasks
                            ~> Connected \/ <<"poll", s>> \notin tasks

\* What StaleInTime rests on: the watcher wakes before the frame it waits for is overdue.
WakesInTime ==
    \A s \in Sessions :
        current /\ <<"data", s>> \in tasks => age + dataWait[s] <= DATA_TIMEOUT
=============================================================================

---------------------------- MODULE ConfigChannel -----------------------------
(***************************************************************************)
(* Settings of the configuration channel (wclib/devices/w150.py            *)
(* _query_config, config_parse, _write_screen_timeout,                     *)
(* _write_idle_backlight and _write_wake_on_lan_trigger).                  *)
(*                                                                         *)
(* The UPS keeps the values of a block together.  A setter asks for them,  *)
(* waits for the notification that answers, and writes the block with its  *)
(* own value.  Requests and answers carry no identity: any answer of the   *)
(* type resolves whoever waits for it.  The screen is a block whose        *)
(* timeout can be written alone, the Wake-on-LAN trigger one whose values  *)
(* cannot.                                                                 *)
(***************************************************************************)
EXTENDS Naturals, Sequences

CONSTANTS Writers,     \* tasks that may run a setter at the same time
          Fields,      \* the values of the block
          Alone,       \* those that can be written without the others
          Values,      \* what a value can be; "keep screen on" is one of them
          Unknown,     \* a value not reported yet: None
          MaxReplies   \* bound: answers on their way at the same time

ASSUME UnknownAssumption == Unknown \notin Values
ASSUME AloneAssumption == Alone \subseteq Fields
ASSUME RepliesAssumption == MaxReplies \in Nat \ {0}

VARIABLES
    settings,   \* the block in the UPS
    replies,    \* answers on their way, the block as it was when the UPS answered
    linked,     \* is_connected
    shown,      \* the values of the device object
    refreshed,  \* the settings refresh of this session has requested the block
    lock,       \* setters in the order they asked for the lock, its owner first
    pc,         \* what each setter awaits
    call,       \* the value each setter was called with
    reply,      \* the futures in _config_replies: "none", "pending" or "done"
    block,      \* the block each setter writes
    changed,    \* history: setters during whose read and write the UPS was changed
    late,       \* history: setters that began to wait while an answer was on its way
    unseen      \* history: the UPS may have values nobody has asked for since

setters == <<lock, pc, call, reply, block, changed, late>>
vars    == <<settings, replies, linked, shown, refreshed, setters, unseen>>

\* a block, as the UPS keeps it and an answer carries it
Blocks  == [Fields -> Values]
Nothing == [f \in Fields |-> Unknown]

Calls  == [field : Fields, value : Values]
NoCall == [field |-> CHOOSE f \in Fields : TRUE, value |-> Unknown]

\* the awaits of a setter: the lock, the request, its answer, the write, and the request
\* that follows
Awaits == {"lock", "ask", "answer", "write", "request"}

Init ==
    /\ settings \in Blocks
    /\ replies = <<>>
    /\ linked = TRUE
    /\ shown = Nothing
    /\ refreshed = FALSE
    /\ lock = <<>>
    /\ pc = [w \in Writers |-> "idle"]
    /\ call = [w \in Writers |-> NoCall]
    /\ reply = [w \in Writers |-> "none"]
    /\ block = [w \in Writers |-> Nothing]
    /\ changed = {}
    /\ late = {}
    /\ unseen = TRUE

-----------------------------------------------------------------------------
(* the setters                                                                *)

Call(w, c) ==
    /\ pc[w] = "idle"
    /\ linked
    /\ pc' = [pc EXCEPT ![w] = "lock"]
    /\ call' = [call EXCEPT ![w] = c]
    /\ lock' = Append(lock, w)
    /\ UNCHANGED <<settings, replies, linked, shown, refreshed, reply, block, changed,
                   late, unseen>>

\* slip: without the lock
OwnsNothing(w) == w \in Writers

\* asyncio.Lock wakes its waiters in order
Owns(w) == lock # <<>> /\ Head(lock) = w

\* the UPS answers with the block as it is now
Answer ==
    /\ linked
    /\ Len(replies) < MaxReplies
    /\ replies' = Append(replies, settings)

\* leaving `async with` releases the lock, and _query_config its future, also with an
\* exception
Return(w) ==
    /\ lock' = Tail(lock)
    /\ pc' = [pc EXCEPT ![w] = "idle"]
    /\ call' = [call EXCEPT ![w] = NoCall]
    /\ reply' = [reply EXCEPT ![w] = "none"]
    /\ block' = [block EXCEPT ![w] = Nothing]
    /\ changed' = changed \ {w}
    /\ late' = late \ {w}

\* the lock is free: a value that stands alone is written, for the others the future
\* waits before the request is sent
Begin(w) ==
    /\ pc[w] = "lock"
    /\ Owns(w)
    /\ \/ /\ call[w].field \in Alone
          /\ pc' = [pc EXCEPT ![w] = "write"]
          /\ UNCHANGED <<reply, late>>
       \/ /\ call[w].field \notin Alone
          /\ pc' = [pc EXCEPT ![w] = "ask"]
          /\ reply' = [reply EXCEPT ![w] = "pending"]
          /\ late' = IF replies = <<>> THEN late ELSE late \cup {w}
    /\ UNCHANGED <<settings, replies, linked, shown, refreshed, lock, call, block,
                   changed, unseen>>

\* the request reaches the UPS
Ask(w) ==
    /\ pc[w] = "ask"
    /\ Answer
    /\ pc' = [pc EXCEPT ![w] = "answer"]
    /\ UNCHANGED <<settings, linked, shown, refreshed, lock, call, reply, block, changed,
                   late, unseen>>

\* slip: the values known already are written, without waiting for the answer
AnsweredUnasked(w) ==
    /\ pc[w] = "answer"
    /\ block' = [block EXCEPT ![w] = [shown EXCEPT ![call[w].field] = call[w].value]]
    /\ reply' = [reply EXCEPT ![w] = "none"]
    /\ pc' = [pc EXCEPT ![w] = "write"]
    /\ UNCHANGED <<settings, replies, linked, shown, refreshed, lock, call, changed,
                   late, unseen>>

\* the block is put together after the answer, which has set every value of it
Answered(w) ==
    /\ pc[w] = "answer"
    /\ reply[w] = "done"
    /\ block' = [block EXCEPT ![w] = [shown EXCEPT ![call[w].field] = call[w].value]]
    /\ reply' = [reply EXCEPT ![w] = "none"]
    /\ pc' = [pc EXCEPT ![w] = "write"]
    /\ UNCHANGED <<settings, replies, linked, shown, refreshed, lock, call, changed,
                   late, unseen>>

\* slip: the wait ends only with the link
TimeOutWhenLost(w) ==
    /\ pc[w] = "answer"
    /\ reply[w] = "pending"
    /\ ~linked
    /\ Return(w)
    /\ UNCHANGED <<settings, replies, linked, shown, refreshed, unseen>>

\* _CONFIG_REPLY_TIMEOUT
TimeOut(w) ==
    /\ pc[w] = "answer"
    /\ reply[w] = "pending"
    /\ Return(w)
    /\ UNCHANGED <<settings, replies, linked, shown, refreshed, unseen>>

Write(w) ==
    /\ pc[w] = "write"
    /\ linked
    /\ settings' = IF call[w].field \in Alone
                   THEN [settings EXCEPT ![call[w].field] = call[w].value]
                   ELSE block[w]
    /\ pc' = [pc EXCEPT ![w] = "request"]
    /\ UNCHANGED <<replies, linked, shown, refreshed, lock, call, reply, block, changed,
                   late, unseen>>

\* slip: the new values are not requested
RequestNothing(w) ==
    /\ pc[w] = "request"
    /\ linked
    /\ unseen' = FALSE
    /\ Return(w)
    /\ UNCHANGED <<settings, replies, linked, shown, refreshed>>

\* the request whose answer will show the new values; nobody waits for it
Request(w) ==
    /\ pc[w] = "request"
    /\ Answer
    /\ unseen' = FALSE
    /\ Return(w)
    /\ UNCHANGED <<settings, linked, shown, refreshed>>

\* send_config raises, with or without a link
SendFails(w) ==
    /\ pc[w] \in {"ask", "write", "request"}
    /\ unseen' = (unseen \/ pc[w] = "request")
    /\ Return(w)
    /\ UNCHANGED <<settings, replies, linked, shown, refreshed>>

-----------------------------------------------------------------------------
(* answers, the refresh and the link                                          *)

\* config_parse: the values are set, and every future that waits for the type is resolved
OnConfig ==
    /\ replies # <<>>
    /\ replies' = Tail(replies)
    /\ shown' = Head(replies)
    /\ reply' = [w \in Writers |-> IF reply[w] = "pending" THEN "done" ELSE reply[w]]
    /\ UNCHANGED <<settings, linked, refreshed, lock, pc, call, block, changed, late,
                   unseen>>

\* an answer that is cut off, cannot be decrypted or is too short
OnConfigUnreadable ==
    /\ replies # <<>>
    /\ replies' = Tail(replies)
    /\ unseen' = (unseen \/ Len(replies) = 1)
    /\ UNCHANGED <<settings, linked, shown, refreshed, setters>>

\* refresh_settings requests the block once in a session, without the lock
Refresh ==
    /\ ~refreshed
    /\ Answer
    /\ refreshed' = TRUE
    /\ unseen' = FALSE
    /\ UNCHANGED <<settings, linked, shown, setters>>

\* the device menu, or another client over Wi-Fi
DeviceChanges(b) ==
    /\ b # settings
    /\ settings' = b
    /\ changed' = changed \cup {w \in Writers : pc[w] \in {"ask", "answer", "write"}}
    /\ unseen' = TRUE
    /\ UNCHANGED <<replies, linked, shown, refreshed, lock, pc, call, reply, block, late>>

\* answers that came in before are still handed to the device
LinkDrops ==
    /\ linked
    /\ linked' = FALSE
    /\ unseen' = TRUE
    /\ UNCHANGED <<settings, replies, shown, refreshed, setters>>

\* the entry is reloaded: a new device that knows no settings; setters left on the old
\* device can only fail, which they do before
Reconnect ==
    /\ ~linked
    /\ \A w \in Writers : pc[w] = "idle"
    /\ linked' = TRUE
    /\ replies' = <<>>
    /\ shown' = Nothing
    /\ refreshed' = FALSE
    /\ UNCHANGED <<settings, setters, unseen>>

Setter(w) ==
    \/ Begin(w) \/ Ask(w) \/ Answered(w) \/ TimeOut(w) \/ Write(w) \/ Request(w)
    \/ SendFails(w)

Next ==
    \/ \E w \in Writers : Setter(w) \/ \E c \in Calls : Call(w, c)
    \/ OnConfig \/ OnConfigUnreadable \/ Refresh \/ LinkDrops \/ Reconnect
    \/ \E b \in Blocks : DeviceChanges(b)

Spec == Init /\ [][Next]_vars

\* the event loop runs tasks that are due, requests of bleak end, and timers fire;
\* answers may be lost, the link may drop, and nobody has to call
Fairness == \A w \in Writers : WF_vars(Setter(w))

FairSpec == Spec /\ Fairness

-----------------------------------------------------------------------------
TypeOK ==
    /\ settings \in Blocks
    /\ replies \in Seq(Blocks)
    /\ Len(replies) <= MaxReplies
    /\ linked \in BOOLEAN
    /\ shown \in Blocks \cup {Nothing}
    /\ refreshed \in BOOLEAN
    /\ lock \in Seq(Writers)
    /\ pc \in [Writers -> Awaits \cup {"idle"}]
    /\ call \in [Writers -> Calls \cup {NoCall}]
    /\ reply \in [Writers -> {"none", "pending", "done"}]
    /\ block \in [Writers -> Blocks \cup {Nothing}]
    /\ changed \subseteq Writers
    /\ late \subseteq Writers
    /\ unseen \in BOOLEAN

\* what a setter is about to write back for the values it was not called for
WritesBack(w) ==
    pc[w] = "write" /\ call[w].field \notin Alone =>
        \A f \in Fields \ {call[w].field} : block[w][f] = settings[f]

\* w150.py:669: "the current timeout is read first to keep a change made on the device
\* meanwhile".  A setter writes back the values the UPS had when the lock became its own,
\* unless the UPS is changed while the setter reads and writes.
KeepsOtherValues == \A w \in Writers : w \notin changed => WritesBack(w)

\* The same of setters that began with no earlier answer on its way: then the answer they
\* get is one to a request after the last change, whoever made it, and no setter of the
\* block comes between its answer and its write (the lock). Setters whose earlier answer
\* happens to be current are left out with the others.
QuietKeepsOtherValues ==
    \A w \in Writers : w \notin changed \cup late => WritesBack(w)

\* Once the answers have come in, the values shown are those of the UPS: after every
\* setter that succeeded and after the refresh, until the UPS is changed by somebody
\* else, a setter fails between its requests, or an answer is lost.
ShownCatchesUp ==
    linked /\ replies = <<>> /\ ~unseen /\ (\A w \in Writers : pc[w] # "request") =>
        shown = settings

\* Only a setter that waits now has a future in _config_replies, and at most one of the
\* block: a query that ended, also by its timeout, leaves none behind.
FuturesAreAwaited ==
    /\ \A w \in Writers : reply[w] # "none" => pc[w] \in {"ask", "answer"}
    /\ \A v, w \in Writers : reply[v] # "none" /\ reply[w] # "none" => v = w

\* Every setter ends, with an error if its answer never comes, and the lock passes on to
\* those that wait for it.
SettersEnd == \A w \in Writers : pc[w] = "lock" ~> pc[w] = "idle"
=============================================================================

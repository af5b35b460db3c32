------------------------------ MODULE Adapter -------------------------------
(***************************************************************************)
(* Changing the adapter settings (wclib/devices/w150.py _write_adapter,    *)
(* entity.py _change_setting, repairs.py).                                 *)
(*                                                                         *)
(* Voltage and current are written as one block to the front panel, which  *)
(* keeps it and forwards it to the power board; the power board saves the  *)
(* fields it accepts, answers whether or not it accepted them all, and     *)
(* applies them when it starts.  Setters run as tasks that interleave at   *)
(* their awaits with each other, with the settings refresh of a new        *)
(* session, with the vendor app, and with the end of the link.             *)
(***************************************************************************)
EXTENDS Naturals, Sequences

CONSTANTS Writers,    \* tasks that may run a setter at the same time
          Voltages,   \* adapter voltages in range
          TooHigh,    \* those the front panel keeps and the power board rejects
          Currents,   \* adapter currents in range
          Unknown,    \* a rating the UPS does not know: None, reported as zero
          ATTEMPTS,   \* _POWER_BOARD_WRITE_ATTEMPTS
          READS       \* reads of the block by a refresh: one and _POWER_BOARD_REREAD_DELAYS

ASSUME UnknownAssumption == Unknown \notin Voltages \cup TooHigh \cup Currents
ASSUME AttemptsAssumption == ATTEMPTS \in Nat \ {0}
ASSUME ReadsAssumption == READS \in Nat

VARIABLES
    panel,    \* the block the front panel reports
    board,    \* the block the power board saved
    running,  \* the block the power board applies, read when it started
    shown,    \* adapter_voltage and adapter_current of the device
    linked,   \* is_connected
    rereads,  \* reads of the block the settings refresh may still make
    lock,     \* setters in the order they asked for _adapter_lock, its owner first
    pc,       \* what each setter awaits
    call,     \* the rating and value each setter was called with
    before,   \* _change_setting's value before the call
    saved,    \* history: the block the power board had when the setter read
    block,    \* the block each setter writes
    tries,    \* attempts left in _write_to_power_board
    issue,    \* the restart issue is open
    due,      \* history: a change that succeeded waits for the UPS to restart
    wanted,   \* history: values confirmed to a setter and not written since
    app       \* history: setters that have not written since the vendor app wrote

setters == <<pc, call, before, saved, block, tries>>
ups     == <<panel, board, running>>
vars    == <<ups, shown, linked, rereads, lock, setters, issue, due, wanted, app>>

\* what the power board saves, and what the front panel keeps
Blocks      == [voltage : Voltages, current : Currents]
PanelBlocks == [voltage : Voltages \cup TooHigh, current : Currents]

Nothing == [voltage |-> Unknown, current |-> Unknown]

Calls == [rating : {"voltage"}, value : Voltages] \cup [rating : {"current"}, value : Currents]
NoCall == [rating |-> "voltage", value |-> Unknown]

\* the power board keeps its voltage instead of one that is too high
Took(old, b) == [b EXCEPT !.voltage = IF @ \in Voltages THEN @ ELSE old.voltage]

\* the awaits of a setter: the lock and first read, the write, its result when the power
\* board took the block or missed it, and the read that follows
Awaits == {"read", "write", "taken", "missed", "readback"}

Init ==
    /\ board \in Blocks
    /\ panel \in {board, Nothing}
    /\ running = board
    /\ shown = Nothing
    /\ linked = TRUE
    /\ rereads = READS
    /\ lock = <<>>
    /\ pc = [w \in Writers |-> "idle"]
    /\ call = [w \in Writers |-> NoCall]
    /\ before = [w \in Writers |-> Unknown]
    /\ saved = [w \in Writers |-> Nothing]
    /\ block = [w \in Writers |-> Nothing]
    /\ tries = [w \in Writers |-> 0]
    /\ issue = FALSE
    /\ due = FALSE
    /\ wanted = Nothing
    /\ app = {}

-----------------------------------------------------------------------------
(* _change_setting, _write_adapter and _write_to_power_board                  *)

Call(w, c) ==
    /\ pc[w] = "idle"
    /\ linked
    /\ call' = [call EXCEPT ![w] = c]
    /\ before' = [before EXCEPT ![w] = shown[c.rating]]
    /\ lock' = Append(lock, w)
    /\ pc' = [pc EXCEPT ![w] = "read"]
    /\ UNCHANGED <<ups, shown, linked, rereads, saved, block, tries, issue, due, wanted,
                   app>>

\* slip: without the lock
OwnsNothing(w) == w \in Writers

\* asyncio.Lock wakes its waiters in order
Owns(w) == lock # <<>> /\ Head(lock) = w

\* leaving `async with` releases the lock, also with an exception
Return(w) ==
    /\ lock' = Tail(lock)
    /\ pc' = [pc EXCEPT ![w] = "idle"]
    /\ call' = [call EXCEPT ![w] = NoCall]
    /\ before' = [before EXCEPT ![w] = Unknown]
    /\ saved' = [saved EXCEPT ![w] = Nothing]
    /\ block' = [block EXCEPT ![w] = Nothing]
    /\ tries' = [tries EXCEPT ![w] = 0]
    /\ app' = app \ {w}

\* slip: an error leaves the lock taken
RaiseKeepingLock(w) ==
    /\ pc' = [pc EXCEPT ![w] = "idle"]
    /\ UNCHANGED <<lock, call, before, saved, block, tries, app, issue, due>>

\* the user sees the error, and no restart issue is raised
Raise(w) == Return(w) /\ UNCHANGED <<issue, due>>

\* the panel's block with the new rating, or SettingUnavailable
Read(w) ==
    /\ pc[w] = "read"
    /\ Owns(w)
    /\ linked
    /\ shown' = panel
    /\ \/ /\ panel = Nothing
          /\ Raise(w)
       \/ /\ panel # Nothing
          /\ saved' = [saved EXCEPT ![w] = board]
          /\ block' = [block EXCEPT ![w] = [panel EXCEPT ![call[w].rating] = call[w].value]]
          /\ tries' = [tries EXCEPT ![w] = ATTEMPTS]
          /\ pc' = [pc EXCEPT ![w] = "write"]
          /\ UNCHANGED <<call, before, lock, issue, due, app>>
    /\ UNCHANGED <<ups, linked, rereads, wanted>>

\* the front panel keeps the block and forwards it, the power board takes what it accepts
\* of it or misses it
Write(w) ==
    /\ pc[w] = "write"
    /\ linked
    /\ panel' = block[w]
    /\ board' \in {board, Took(board, block[w])}
    /\ wanted' = [wanted EXCEPT ![call[w].rating] = Unknown]
    /\ tries' = [tries EXCEPT ![w] = @ - 1]
    /\ pc' = [pc EXCEPT ![w] = IF board' = Took(board, block[w]) THEN "taken" ELSE "missed"]
    /\ app' = app \ {w}
    /\ UNCHANGED <<running, shown, linked, rereads, lock, call, before, saved, block,
                   issue, due>>

\* slip: any result is taken for a confirmation
ConfirmedByAnyResult(w) ==
    /\ pc[w] \in {"taken", "missed"}
    /\ linked
    /\ pc' = [pc EXCEPT ![w] = "readback"]
    /\ UNCHANGED <<ups, shown, linked, rereads, lock, call, before, saved, block, tries,
                   issue, due, wanted, app>>

\* status 0: the front panel saw the power board's answer, which a rejected field does not
\* change
Confirmed(w) ==
    /\ pc[w] = "taken"
    /\ linked
    /\ pc' = [pc EXCEPT ![w] = "readback"]
    /\ wanted' = IF w \in app THEN wanted
                 ELSE [wanted EXCEPT ![call[w].rating] = call[w].value]
    /\ UNCHANGED <<ups, shown, linked, rereads, lock, call, before, saved, block, tries,
                   issue, due, app>>

\* slip: a retry that forgets to count
UnansweredForever(w) ==
    /\ pc[w] \in {"taken", "missed"}
    /\ linked
    /\ pc' = [pc EXCEPT ![w] = "write"]
    /\ UNCHANGED <<ups, shown, linked, rereads, lock, call, before, saved, block, tries,
                   issue, due, wanted, app>>

\* status 1: it saw another message first, or none
Unanswered(w) ==
    /\ pc[w] \in {"taken", "missed"}
    /\ linked
    /\ tries[w] > 0
    /\ pc' = [pc EXCEPT ![w] = "write"]
    /\ UNCHANGED <<ups, shown, linked, rereads, lock, call, before, saved, block, tries,
                   issue, due, wanted, app>>

\* SettingNotConfirmed: status 1 at the last attempt, or a result that never came, for
\* which the link may also be gone
NotConfirmed(w) ==
    /\ pc[w] \in {"taken", "missed"}
    /\ Raise(w)
    /\ UNCHANGED <<ups, shown, linked, rereads, wanted>>

\* slip: the value before the call is looked up when the call is over
ReadBackLate(w) ==
    /\ pc[w] = "readback"
    /\ linked
    /\ shown' = panel
    /\ LET r == call[w].rating IN
          /\ issue' = (issue \/ panel[r] # shown[r])
          /\ due' = (due \/ /\ w \notin app
                            /\ board[r] \notin {saved[w][r], running[r]})
    /\ Return(w)
    /\ UNCHANGED <<ups, linked, rereads, wanted>>

\* the block is read back, and a value that changed raises the restart issue
ReadBack(w) ==
    /\ pc[w] = "readback"
    /\ linked
    /\ shown' = panel
    /\ LET r == call[w].rating IN
          /\ issue' = (issue \/ panel[r] # before[w])
          /\ due' = (due \/ /\ w \notin app
                            /\ board[r] \notin {saved[w][r], running[r]})
    /\ Return(w)
    /\ UNCHANGED <<ups, linked, rereads, wanted>>

\* a read or a write raises, with or without a link; a write that arrived all the same
\* is Write and NotConfirmed
RequestFails(w) ==
    /\ pc[w] \in {"read", "write", "readback"}
    /\ pc[w] = "read" => Owns(w)
    /\ Raise(w)
    /\ UNCHANGED <<ups, shown, linked, rereads, wanted>>

-----------------------------------------------------------------------------
(* the settings refresh, the link and the user                                *)

\* _refresh_settings reads the block without the lock
Refresh ==
    /\ linked
    /\ rereads > 0
    /\ shown' = panel
    /\ rereads' \in {rereads - 1, 0}
    /\ UNCHANGED <<ups, linked, lock, setters, issue, due, wanted, app>>

LinkDrops ==
    /\ linked
    /\ linked' = FALSE
    /\ UNCHANGED <<ups, shown, rereads, lock, setters, issue, due, wanted, app>>

\* the entry is reloaded: a new device that knows no settings, and a new refresh; setters
\* left on the old device can only fail, which they do before
Reconnect ==
    /\ ~linked
    /\ \A w \in Writers : pc[w] = "idle"
    /\ linked' = TRUE
    /\ shown' = Nothing
    /\ rereads' = READS
    /\ UNCHANGED <<ups, lock, setters, issue, due, wanted, app>>

\* ConfirmRepairFlow: the user says that the UPS was restarted
ConfirmRestart ==
    /\ issue
    /\ issue' = FALSE
    /\ due' = FALSE
    /\ UNCHANGED <<ups, shown, linked, rereads, lock, setters, wanted, app>>

-----------------------------------------------------------------------------
(* the UPS and the vendor app                                                 *)

\* after its start the front panel asks the power board for the settings
PanelLearns ==
    /\ panel = Nothing
    /\ panel' = board
    /\ UNCHANGED <<board, running, shown, linked, rereads, lock, setters, issue, due,
                   wanted, app>>

\* the app or the device menu changes the block
AppWrites(b) ==
    /\ panel' = b
    /\ board' \in {board, Took(board, b)}
    /\ wanted' = Nothing
    /\ due' = FALSE
    /\ app' = {w \in Writers : pc[w] # "idle"}
    /\ UNCHANGED <<running, shown, linked, rereads, lock, setters, issue>>

\* the reset hole
Restart ==
    /\ running' = board
    /\ panel' = Nothing
    /\ linked' = FALSE
    /\ due' = FALSE
    /\ UNCHANGED <<board, shown, rereads, lock, setters, issue, wanted, app>>

Setter(w) ==
    \/ Read(w) \/ Write(w) \/ Confirmed(w) \/ Unanswered(w) \/ NotConfirmed(w)
    \/ ReadBack(w) \/ RequestFails(w)

Next ==
    \/ \E w \in Writers : Setter(w) \/ \E c \in Calls : Call(w, c)
    \/ Refresh \/ LinkDrops \/ Reconnect \/ ConfirmRestart
    \/ PanelLearns \/ (\E b \in PanelBlocks : AppWrites(b)) \/ Restart

Spec == Init /\ [][Next]_vars

-----------------------------------------------------------------------------
TypeOK ==
    /\ panel \in PanelBlocks \cup {Nothing}
    /\ board \in Blocks
    /\ running \in Blocks
    /\ shown \in PanelBlocks \cup {Nothing}
    /\ linked \in BOOLEAN
    /\ rereads \in 0..READS
    /\ lock \in Seq(Writers)
    /\ pc \in [Writers -> Awaits \cup {"idle"}]
    /\ call \in [Writers -> Calls \cup {NoCall}]
    /\ before \in [Writers -> Voltages \cup TooHigh \cup Currents \cup {Unknown}]
    /\ saved \in [Writers -> Blocks \cup {Nothing}]
    /\ block \in [Writers -> PanelBlocks \cup {Nothing}]
    /\ tries \in [Writers -> 0..ATTEMPTS]
    /\ issue \in BOOLEAN
    /\ due \in BOOLEAN
    /\ wanted \in [voltage : Voltages \cup {Unknown}, current : Currents \cup {Unknown}]
    /\ app \subseteq Writers

\* What a setter was told the power board confirmed stays saved until that rating is
\* written again or the app changes it: setting the one rating never takes back the
\* other, although both are written as one block (_adapter_lock).
ConfirmedValuesStay ==
    \A r \in {"voltage", "current"} : wanted[r] # Unknown => board[r] = wanted[r]

\* A setter that returns without an error changed what the power board will apply, although
\* a confirmation says nothing of the single fields: its value is saved, and so is all the
\* power board accepts of the block, also when the front panel kept a voltage that it does
\* not. A front panel that only kept the block never passes for one that delivered it.
SuccessReachesBoard ==
    \A w \in Writers : pc[w] = "readback" /\ w \notin app =>
        /\ board[call[w].rating] = call[w].value
        /\ board = Took(board, block[w])

\* The whole of it, whatever is lost, retried, read or changed on the way: a setter puts its
\* value into its rating alone, and what it claims stays true until it returns.
Stage(w) == IF pc[w] = "readback" THEN "done" ELSE IF pc[w] = "idle" THEN "idle" ELSE "trying"

Promise == INSTANCE SettingPromise WITH
    Names <- {"voltage", "current"},
    stage <- [w \in Writers |-> Stage(w)]

SettersKeepPromise == Promise!Spec

\* Whoever waits for the lock waits for a setter that is still running: one that ended,
\* also with an error, is gone from the queue, so the others get their turn.
LockIsHeld ==
    /\ \A i \in 1..Len(lock) : pc[lock[i]] # "idle"
    /\ \A w \in Writers : pc[w] \notin {"idle", "read"} => Owns(w)

\* entity.py:88: the value before a call decides about the restart issue. A change that is
\* pending goes without the issue only if the value shown when the setter was called was
\* not the one saved when it read, however many setters, results and links it took; and
\* the issue stays until the user closes it.
AskedUnlessStale ==
    [][due' => \/ issue'
               \/ due /\ ~issue
               \/ \E w \in Writers :
                      /\ pc[w] = "readback"
                      /\ before[w] # saved[w][call[w].rating]]_vars

\* docs/entities.md:113: "Until you confirm the restart, a repair ... reminds you of it".
\* A change that a setter reported as done is pending on the UPS only with the issue open.
RestartIsAsked == due => issue
=============================================================================

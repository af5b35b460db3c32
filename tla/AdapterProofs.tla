---------------------------- MODULE AdapterProofs ----------------------------
(* Safety of Adapter for any number of setters, ratings in range and retries.   *)
EXTENDS Adapter, SequenceTheorems, TLAPS

Ratings == {"voltage", "current"}

\* Who waits for the lock, and who has it.
Turns ==
    /\ \A i, j \in 1..Len(lock) : i # j => lock[i] # lock[j]
    /\ LockIsHeld

\* A setter knows what it was called for, and from its read on what it writes.
Prepared(w) ==
    /\ pc[w] # "idle" => call[w] \in Calls
    /\ pc[w] \in {"write", "taken", "missed", "readback"} =>
           /\ block[w] \in PanelBlocks /\ block[w][call[w].rating] = call[w].value
           /\ saved[w] \in Blocks
    /\ pc[w] = "write" => tries[w] # 0

\* Until its block is confirmed it writes back whatever was confirmed of the other rating,
\* and from then on the UPS has what the power board accepts of the block, unless the app
\* wrote.
Agrees(w) ==
    /\ pc[w] \in {"write", "taken", "missed"} =>
           \A r \in Ratings : r # call[w].rating => wanted[r] \in {Unknown, block[w][r]}
    /\ pc[w] \in {"taken", "readback"} /\ w \notin app =>
           /\ board = Took(board, block[w])
           /\ panel \in {block[w], board, Nothing}

\* The front panel agrees with what was confirmed as well, once it knows the settings.
Saves ==
    \A r \in Ratings : wanted[r] # Unknown =>
        board[r] = wanted[r] /\ (panel # Nothing => panel[r] = wanted[r])

Kept ==
    /\ TypeOK
    /\ Turns
    /\ \A w \in Writers : Prepared(w)
    /\ \A w \in Writers : Agrees(w)
    /\ Saves

\* The front panel's block with one rating set.
LEMMA SetOne ==
    ASSUME NEW b \in PanelBlocks, NEW c \in Calls
    PROVE  LET set == [b EXCEPT ![c.rating] = c.value]
           IN /\ set \in PanelBlocks
              /\ set[c.rating] = c.value
              /\ \A r \in Ratings : r # c.rating => set[r] = b[r]
BY DEF PanelBlocks, Calls, Ratings

\* What the power board saves the front panel keeps as well.
LEMMA PanelKeepsBlocks == Blocks \subseteq PanelBlocks
BY DEF Blocks, PanelBlocks

\* The power board takes a block field by field: one in range as it is written, the others
\* not at all, and writing the block again changes nothing.
LEMMA TookFields ==
    ASSUME NEW old \in Blocks, NEW b \in PanelBlocks
    PROVE  /\ Took(old, b) \in Blocks
           /\ \A r \in Ratings : b[r] \in Voltages \/ r = "current" => Took(old, b)[r] = b[r]
           /\ Took(Took(old, b), b) = Took(old, b)
BY DEF Blocks, PanelBlocks, Took, Ratings

\* A value in range that is written is saved.
LEMMA TookCalled ==
    ASSUME NEW b \in PanelBlocks, NEW c \in Calls, b[c.rating] = c.value,
           NEW old \in Blocks
    PROVE  Took(old, b)[c.rating] = c.value
<1>1. c.rating \in Ratings /\ (c.value \in Voltages \/ c.rating = "current")
  BY DEF Calls, Ratings
<1> QED
  BY <1>1, TookFields

\* A value that was confirmed is in range, so that writing it back saves it.
LEMMA TookWanted ==
    ASSUME TypeOK, NEW b \in PanelBlocks, NEW r \in Ratings,
           wanted[r] # Unknown, wanted[r] = b[r]
    PROVE  Took(board, b)[r] = wanted[r]
<1>1. b[r] \in Voltages \/ r = "current"
  BY DEF TypeOK, Ratings
<1>2. board \in Blocks
  BY DEF TypeOK
<1> QED
  BY <1>1, <1>2, TookFields

\* A block that is not known is none.
LEMMA NothingIsNoBlock == Nothing \notin PanelBlocks
BY UnknownAssumption DEF Nothing, PanelBlocks

\* A setter that holds the lock is the only one past it.
LEMMA OneOwner ==
    ASSUME Turns, NEW v \in Writers, NEW w \in Writers,
           pc[v] \notin {"idle", "read"}, pc[w] \notin {"idle", "read"}
    PROVE  v = w
<1>1. Owns(v) /\ Owns(w)
  BY DEF Turns, LockIsHeld
<1> QED
  BY <1>1 DEF Owns

\* The steps that end a setter are taken by the owner of the lock.
Ends(w) ==
    /\ Return(w)
    /\ Owns(w)
    /\ UNCHANGED <<panel, board, running, linked, rereads, wanted>>
    /\ shown' \in {shown, panel}
    /\ issue' \in BOOLEAN /\ due' \in BOOLEAN

LEMMA EndsSetter ==
    ASSUME TypeOK, Turns, NEW w \in Writers,
           \/ NotConfirmed(w) \/ ReadBack(w) \/ RequestFails(w)
           \/ Read(w) /\ panel = Nothing
    PROVE  Ends(w)
<1>1. issue \in BOOLEAN /\ due \in BOOLEAN
  BY DEF TypeOK
<1>2. CASE NotConfirmed(w)
  BY <1>1, <1>2 DEF NotConfirmed, Raise, Ends, Turns, LockIsHeld, ups
<1>3. CASE ReadBack(w)
  <2>1. Return(w) /\ shown' = panel /\ issue' \in BOOLEAN /\ due' \in BOOLEAN
    BY <1>1, <1>3 DEF ReadBack
  <2>2. Owns(w)
    BY <1>3 DEF ReadBack, Turns, LockIsHeld
  <2> QED
    BY <1>3, <2>1, <2>2 DEF ReadBack, Ends, ups
<1>4. CASE RequestFails(w)
  BY <1>1, <1>4 DEF RequestFails, Raise, Ends, Turns, LockIsHeld, ups
<1>5. CASE Read(w) /\ panel = Nothing
  BY <1>1, <1>5 DEF Read, Raise, Ends, ups
<1> QED
  BY <1>2, <1>3, <1>4, <1>5

-----------------------------------------------------------------------------
\* A setter that ends leaves every variable in its type.
LEMMA EndsType == ASSUME TypeOK, NEW w \in Writers, Ends(w) PROVE TypeOK'
<1>1. lock' \in Seq(Writers)
  BY HeadTailProperties DEF Ends, Owns, Return, TypeOK
<1>2. /\ pc' \in [Writers -> Awaits \cup {"idle"}]
      /\ call' \in [Writers -> Calls \cup {NoCall}]
      /\ before' \in [Writers -> Voltages \cup TooHigh \cup Currents \cup {Unknown}]
  BY DEF Ends, Return, TypeOK
<1>3. /\ saved' \in [Writers -> Blocks \cup {Nothing}]
      /\ block' \in [Writers -> PanelBlocks \cup {Nothing}]
      /\ app' \subseteq Writers
  BY DEF Ends, Return, TypeOK
<1>4. tries' \in [Writers -> 0..ATTEMPTS]
  <2>1. 0 \in 0..ATTEMPTS
    BY AttemptsAssumption
  <2> QED
    BY <2>1 DEF Ends, Return, TypeOK
<1>5. shown' \in PanelBlocks \cup {Nothing}
  BY DEF Ends, TypeOK
<1> QED
  BY <1>1, <1>2, <1>3, <1>4, <1>5 DEF Ends, TypeOK

\* So does every other step.
LEMMA StepType ==
    ASSUME TypeOK, Turns, \A w \in Writers : Prepared(w), [Next]_vars
    PROVE  TypeOK'
<1>1. ASSUME NEW w \in Writers, NEW c \in Calls, Call(w, c) PROVE TypeOK'
  <2>1. lock' \in Seq(Writers)
    BY <1>1, AppendProperties DEF Call, TypeOK
  <2>2. pc' \in [Writers -> Awaits \cup {"idle"}] /\ call' \in [Writers -> Calls \cup {NoCall}]
    BY <1>1 DEF Call, TypeOK, Awaits
  <2>3. shown[c.rating] \in Voltages \cup TooHigh \cup Currents \cup {Unknown}
    BY DEF TypeOK, PanelBlocks, Nothing, Calls
  <2>4. before' \in [Writers -> Voltages \cup TooHigh \cup Currents \cup {Unknown}]
    BY <1>1, <2>3 DEF Call, TypeOK
  <2> QED
    BY <1>1, <2>1, <2>2, <2>4 DEF Call, ups, TypeOK
<1>2. ASSUME NEW w \in Writers, Read(w), panel # Nothing PROVE TypeOK'
  <2>1. panel \in PanelBlocks /\ call[w] \in Calls
    BY <1>2 DEF Read, Prepared, TypeOK
  <2>2. [panel EXCEPT ![call[w].rating] = call[w].value] \in PanelBlocks
    BY <2>1, SetOne
  <2>0. /\ saved' = [saved EXCEPT ![w] = board]
        /\ block' = [block EXCEPT ![w] = [panel EXCEPT ![call[w].rating] = call[w].value]]
        /\ tries' = [tries EXCEPT ![w] = ATTEMPTS]
    BY <1>2 DEF Read
  <2>3. block' \in [Writers -> PanelBlocks \cup {Nothing}] /\ saved' \in [Writers -> Blocks \cup {Nothing}]
    BY <2>0, <2>2 DEF TypeOK
  <2>4. tries' \in [Writers -> 0..ATTEMPTS]
    <3>1. ATTEMPTS \in 0..ATTEMPTS
      BY AttemptsAssumption
    <3> QED
      BY <2>0, <3>1 DEF TypeOK
  <2>5. pc' \in [Writers -> Awaits \cup {"idle"}]
    BY <1>2 DEF Read, TypeOK, Awaits
  <2> QED
    BY <1>2, <2>1, <2>3, <2>4, <2>5 DEF Read, ups, TypeOK
<1>3. ASSUME NEW w \in Writers, Write(w) PROVE TypeOK'
  <2>1. block[w] \in PanelBlocks /\ tries[w] # 0 /\ tries[w] \in 0..ATTEMPTS
    BY <1>3 DEF Write, Prepared, TypeOK
  <2>0. board' \in Blocks
    BY <1>3, <2>1, TookFields DEF Write, TypeOK
  <2>2. tries' \in [Writers -> 0..ATTEMPTS]
    <3>1. tries[w] - 1 \in 0..ATTEMPTS
      BY <2>1, AttemptsAssumption
    <3> QED
      BY <1>3, <3>1 DEF Write, TypeOK
  <2>3. pc' \in [Writers -> Awaits \cup {"idle"}]
    BY <1>3 DEF Write, TypeOK, Awaits
  <2>4. wanted' \in [voltage : Voltages \cup {Unknown}, current : Currents \cup {Unknown}]
    BY <1>3 DEF Write, TypeOK
  <2> QED
    BY <1>3, <2>0, <2>1, <2>2, <2>3, <2>4 DEF Write, TypeOK
<1>4. ASSUME NEW w \in Writers, Confirmed(w) PROVE TypeOK'
  <2>1. pc' \in [Writers -> Awaits \cup {"idle"}]
    BY <1>4 DEF Confirmed, TypeOK, Awaits
  <2>2. call[w] \in Calls
    BY <1>4 DEF Confirmed, Prepared
  <2>3. wanted' \in [voltage : Voltages \cup {Unknown}, current : Currents \cup {Unknown}]
    BY <1>4, <2>2 DEF Confirmed, TypeOK, Calls
  <2> QED
    BY <1>4, <2>1, <2>3 DEF Confirmed, ups, TypeOK
<1>5. ASSUME NEW w \in Writers, Unanswered(w) PROVE TypeOK'
  <2>1. pc' \in [Writers -> Awaits \cup {"idle"}]
    BY <1>5 DEF Unanswered, TypeOK, Awaits
  <2> QED
    BY <1>5, <2>1 DEF Unanswered, ups, TypeOK
<1>6. ASSUME NEW w \in Writers,
             \/ NotConfirmed(w) \/ ReadBack(w) \/ RequestFails(w)
             \/ Read(w) /\ panel = Nothing
      PROVE  TypeOK'
  BY <1>6, EndsSetter, EndsType
<1>7. CASE Refresh
  <2>1. rereads' \in 0..READS
    BY <1>7, ReadsAssumption DEF Refresh, TypeOK
  <2> QED
    BY <1>7, <2>1 DEF Refresh, ups, setters, TypeOK
<1>8. CASE Reconnect
  <2>1. rereads' \in 0..READS
    BY <1>8, ReadsAssumption DEF Reconnect
  <2> QED
    BY <1>8, <2>1 DEF Reconnect, ups, setters, TypeOK
<1>9. ASSUME NEW b \in PanelBlocks, AppWrites(b) PROVE TypeOK'
  <2>0. board' \in Blocks
    BY <1>9, TookFields DEF AppWrites, TypeOK
  <2>1. wanted' \in [voltage : Voltages \cup {Unknown}, current : Currents \cup {Unknown}]
    BY <1>9 DEF AppWrites, Nothing
  <2> QED
    BY <1>9, <2>0, <2>1 DEF AppWrites, setters, TypeOK
<1>10. CASE LinkDrops \/ ConfirmRestart \/ PanelLearns \/ Restart \/ UNCHANGED vars
  BY <1>10, PanelKeepsBlocks DEF LinkDrops, ConfirmRestart, PanelLearns, Restart, vars, ups,
                                 setters, TypeOK
<1> QED
  BY <1>1, <1>2, <1>3, <1>4, <1>5, <1>6, <1>7, <1>8, <1>9, <1>10 DEF Next, Setter

-----------------------------------------------------------------------------
\* A setter that ends passes the lock on to the next in the queue.
LEMMA EndsTurns == ASSUME TypeOK, Turns, NEW w \in Writers, Ends(w) PROVE Turns'
<1>1. /\ Len(lock') = Len(lock) - 1
      /\ Len(lock) \in Nat \ {0}
      /\ \A i \in 1..Len(lock') : i + 1 \in 1..Len(lock) /\ lock'[i] = lock[i + 1]
  BY HeadTailProperties, LenProperties, EmptySeq DEF Ends, Owns, Return, TypeOK
<1>2. \A i \in 1..Len(lock) : lock[i] \in Writers
  BY ElementOfSeq DEF TypeOK
<1>3. pc'[w] = "idle" /\ \A v \in Writers : v # w => pc'[v] = pc[v]
  BY DEF Ends, Return, TypeOK
<1>4. \A i \in 1..Len(lock') : lock'[i] # w
  BY <1>1 DEF Ends, Owns, Turns
<1>5. ASSUME NEW i \in 1..Len(lock'), NEW j \in 1..Len(lock'), i # j
      PROVE  lock'[i] # lock'[j]
  <2>1. i + 1 \in 1..Len(lock) /\ j + 1 \in 1..Len(lock) /\ i + 1 # j + 1
    BY <1>1, <1>5
  <2>2. lock[i + 1] # lock[j + 1]
    BY <2>1 DEF Turns
  <2> QED
    BY <1>1, <2>2
<1>6. \A i \in 1..Len(lock') : pc'[lock'[i]] # "idle"
  BY <1>1, <1>2, <1>3, <1>4 DEF Turns, LockIsHeld
<1>7. \A v \in Writers : pc'[v] \in {"idle", "read"}
  BY <1>3 DEF Turns, LockIsHeld, Ends, Owns
<1> QED
  BY <1>5, <1>6, <1>7 DEF Turns, LockIsHeld

\* The lock has one owner at a time and a queue of those that still run.
LEMMA StepTurns == ASSUME TypeOK, Turns, [Next]_vars PROVE Turns'
<1>1. ASSUME NEW w \in Writers, NEW c \in Calls, Call(w, c) PROVE Turns'
  <2>1. /\ Len(lock') = Len(lock) + 1
        /\ lock'[Len(lock) + 1] = w
        /\ \A i \in 1..Len(lock) : lock'[i] = lock[i]
        /\ Len(lock) \in Nat
        /\ \A i \in 1..Len(lock) : lock[i] \in Writers
    BY <1>1, AppendProperties, LenProperties, ElementOfSeq DEF Call, TypeOK
  <2>2. \A i \in 1..Len(lock) : lock[i] # w
    BY <1>1 DEF Call, Turns, LockIsHeld
  <2>3. pc'[w] = "read" /\ \A v \in Writers : v # w => pc'[v] = pc[v]
    BY <1>1 DEF Call, TypeOK
  <2>4. \A i, j \in 1..Len(lock') : i # j => lock'[i] # lock'[j]
    BY <2>1, <2>2 DEF Turns
  <2>5. \A i \in 1..Len(lock') : pc'[lock'[i]] # "idle"
    BY <2>1, <2>2, <2>3 DEF Turns, LockIsHeld
  <2>6. ASSUME NEW v \in Writers, pc'[v] \notin {"idle", "read"} PROVE Owns(v)'
    <3>1. lock # <<>> /\ Head(lock) = v
      BY <2>3, <2>6 DEF Turns, LockIsHeld, Owns
    <3>2. Len(lock) \in Nat \ {0} /\ lock[1] = v
      BY <3>1, EmptySeq DEF TypeOK
    <3>3. lock' # <<>> /\ lock'[1] = v
      BY <2>1, <3>2, EmptySeq
    <3> QED
      BY <3>3 DEF Owns
  <2> QED
    BY <2>4, <2>5, <2>6 DEF Turns, LockIsHeld
<1>2. ASSUME NEW w \in Writers,
             \/ Read(w) /\ panel # Nothing
             \/ Write(w) \/ Confirmed(w) \/ Unanswered(w)
      PROVE  Turns'
  <2>1. lock' = lock /\ pc'[w] # "idle" /\ \A v \in Writers : v # w => pc'[v] = pc[v]
    BY <1>2 DEF Read, Write, Confirmed, Unanswered, TypeOK
  <2>2. Owns(w)
    BY <1>2 DEF Read, Write, Confirmed, Unanswered, Turns, LockIsHeld
  <2>3. \A i \in 1..Len(lock) : lock[i] \in Writers
    BY ElementOfSeq DEF TypeOK
  <2> QED
    BY <2>1, <2>2, <2>3 DEF Turns, LockIsHeld, Owns
<1>3. ASSUME NEW w \in Writers,
             \/ NotConfirmed(w) \/ ReadBack(w) \/ RequestFails(w)
             \/ Read(w) /\ panel = Nothing
      PROVE  Turns'
  BY <1>3, EndsSetter, EndsTurns
<1>4. CASE \/ Refresh \/ LinkDrops \/ Reconnect \/ ConfirmRestart \/ PanelLearns \/ Restart
           \/ (\E b \in PanelBlocks : AppWrites(b)) \/ UNCHANGED vars
  <2>1. lock' = lock /\ pc' = pc
    BY <1>4 DEF Refresh, LinkDrops, Reconnect, ConfirmRestart, PanelLearns, Restart,
               AppWrites, vars, setters
  <2> QED
    BY <2>1 DEF Turns, LockIsHeld, Owns
<1> QED
  BY <1>1, <1>2, <1>3, <1>4 DEF Next, Setter

-----------------------------------------------------------------------------
\* A setter keeps its call, its block and an attempt to write with.
LEMMA StepPrepared ==
    ASSUME TypeOK, Turns, [Next]_vars, \A v \in Writers : Prepared(v), NEW w \in Writers
    PROVE  Prepared(w)'
<1>1. ASSUME NEW v \in Writers, NEW c \in Calls, Call(v, c) PROVE Prepared(w)'
  BY <1>1 DEF Call, Prepared, TypeOK
<1>2. ASSUME NEW v \in Writers, Read(v), panel # Nothing PROVE Prepared(w)'
  <2>1. CASE v = w
    <3>1. panel \in PanelBlocks /\ board \in Blocks /\ call[w] \in Calls /\ call' = call
      BY <1>2, <2>1 DEF Read, Prepared, TypeOK
    <3>2. /\ pc'[w] = "write" /\ tries'[w] = ATTEMPTS /\ saved'[w] = board
          /\ block'[w] = [panel EXCEPT ![call[w].rating] = call[w].value]
      BY <1>2, <2>1 DEF Read, TypeOK
    <3> QED
      BY <3>1, <3>2, SetOne, AttemptsAssumption DEF Prepared
  <2>2. CASE v # w
    BY <1>2, <2>2 DEF Read, Prepared, TypeOK
  <2> QED
    BY <2>1, <2>2
<1>3. ASSUME NEW v \in Writers, Write(v) PROVE Prepared(w)'
  <2>1. CASE v = w
    BY <1>3, <2>1 DEF Write, Prepared, TypeOK
  <2>2. CASE v # w
    BY <1>3, <2>2 DEF Write, Prepared, TypeOK
  <2> QED
    BY <2>1, <2>2
<1>4. ASSUME NEW v \in Writers, Confirmed(v) PROVE Prepared(w)'
  BY <1>4 DEF Confirmed, Prepared, TypeOK
<1>5. ASSUME NEW v \in Writers, Unanswered(v) PROVE Prepared(w)'
  <2>1. tries[v] # 0
    BY <1>5 DEF Unanswered, TypeOK
  <2> QED
    BY <1>5, <2>1 DEF Unanswered, Prepared, TypeOK
<1>6. ASSUME NEW v \in Writers,
             \/ NotConfirmed(v) \/ ReadBack(v) \/ RequestFails(v)
             \/ Read(v) /\ panel = Nothing
      PROVE  Prepared(w)'
  <2>1. Return(v)
    BY <1>6, EndsSetter DEF Ends
  <2> QED
    BY <2>1 DEF Return, Prepared, TypeOK
<1>7. CASE \/ Refresh \/ LinkDrops \/ Reconnect \/ ConfirmRestart \/ PanelLearns \/ Restart
           \/ (\E b \in PanelBlocks : AppWrites(b)) \/ UNCHANGED vars
  <2>1. UNCHANGED <<pc, call, block, saved, tries>>
    BY <1>7 DEF Refresh, LinkDrops, Reconnect, ConfirmRestart, PanelLearns, Restart,
               AppWrites, vars, setters
  <2> QED
    BY <2>1 DEF Prepared
<1> QED
  BY <1>1, <1>2, <1>3, <1>4, <1>5, <1>6, <1>7 DEF Next, Setter

\* What was confirmed stays in the block that a setter writes, and in the UPS.
LEMMA StepAgrees ==
    ASSUME Kept, [Next]_vars
    PROVE  (\A w \in Writers : Agrees(w)') /\ Saves'
<1> USE DEF Kept
<1>1. ASSUME NEW v \in Writers, NEW c \in Calls, Call(v, c)
      PROVE  (\A w \in Writers : Agrees(w)') /\ Saves'
  <2>1. \A w \in Writers : w # v => pc'[w] = pc[w] /\ call'[w] = call[w]
    BY <1>1 DEF Call, TypeOK
  <2>2. pc'[v] = "read"
    BY <1>1 DEF Call, TypeOK
  <2>3. UNCHANGED <<block, wanted, board, panel, app>>
    BY <1>1 DEF Call, ups
  <2> QED
    BY <2>1, <2>2, <2>3 DEF Agrees, Saves
<1>2. ASSUME NEW v \in Writers, Read(v), panel # Nothing
      PROVE  (\A w \in Writers : Agrees(w)') /\ Saves'
  <2>1. panel \in PanelBlocks /\ call[v] \in Calls
    BY <1>2 DEF Read, Prepared, TypeOK
  <2>2. UNCHANGED <<call, wanted, board, panel, app>>
    BY <1>2 DEF Read, ups
  <2>3. pc'[v] = "write" /\ \A r \in Ratings : r # call[v].rating => block'[v][r] = panel[r]
    <3>1. /\ pc'[v] = "write"
          /\ block'[v] = [panel EXCEPT ![call[v].rating] = call[v].value]
      BY <1>2 DEF Read, TypeOK
    <3> QED
      BY <2>1, <3>1, SetOne
  <2>4. \A w \in Writers : w # v => pc'[w] = pc[w] /\ block'[w] = block[w]
    BY <1>2 DEF Read, TypeOK
  <2>5. Agrees(v)'
    BY <1>2, <2>2, <2>3 DEF Agrees, Saves
  <2>6. \A w \in Writers : w # v => Agrees(w)'
    BY <2>2, <2>4 DEF Agrees
  <2> QED
    BY <2>2, <2>5, <2>6 DEF Saves
<1>3. ASSUME NEW v \in Writers, Write(v)
      PROVE  (\A w \in Writers : Agrees(w)') /\ Saves'
  <2>1. /\ block[v] \in PanelBlocks /\ call[v] \in Calls /\ pc[v] = "write"
        /\ \A r \in Ratings : r # call[v].rating => wanted[r] \in {Unknown, block[v][r]}
    BY <1>3 DEF Write, Prepared, Agrees
  <2>2. /\ UNCHANGED <<call, block>>
        /\ panel' = block[v]
        /\ board' \in {board, Took(board, block[v])}
    BY <1>3 DEF Write
  <2>3. \A r \in Ratings : wanted'[r] = IF r = call[v].rating THEN Unknown ELSE wanted[r]
    BY <1>3, <2>1 DEF Write, TypeOK, Ratings, Calls
  <2>4. \A w \in Writers : w # v => pc'[w] \in {"idle", "read"}
    BY <1>3, <2>1, OneOwner DEF Write, TypeOK
  <2>5. pc'[v] \in {"taken", "missed"} /\ (pc'[v] = "taken" => board' = Took(board, block[v]))
    BY <1>3 DEF Write, TypeOK
  <2>6. Agrees(v)'
    <3>1. pc'[v] = "taken" => board' = Took(board', block'[v])
      BY <2>1, <2>2, <2>5, TookFields DEF TypeOK
    <3> QED
      BY <2>1, <2>2, <2>3, <2>5, <3>1 DEF Agrees
  <2>7. \A w \in Writers : w # v => Agrees(w)'
    BY <2>4 DEF Agrees
  <2>8. Saves'
    <3> SUFFICES ASSUME NEW r \in Ratings, wanted'[r] # Unknown
                 PROVE  board'[r] = wanted'[r] /\ panel'[r] = wanted'[r]
      BY DEF Saves
    <3>1. wanted'[r] = wanted[r] /\ wanted[r] = block[v][r] /\ board[r] = wanted[r]
      BY <2>1, <2>3 DEF Saves
    <3>2. Took(board, block[v])[r] = wanted[r]
      BY <2>1, <2>3, <3>1, TookWanted
    <3> QED
      BY <2>2, <3>1, <3>2
  <2> QED
    BY <2>6, <2>7, <2>8
<1>4. ASSUME NEW v \in Writers, Confirmed(v)
      PROVE  (\A w \in Writers : Agrees(w)') /\ Saves'
  <2>1. /\ call[v] \in Calls /\ pc[v] = "taken"
        /\ block[v][call[v].rating] = call[v].value
        /\ v \notin app => /\ board = Took(board, block[v])
                           /\ panel \in {block[v], board, Nothing}
        /\ block[v] \in PanelBlocks /\ board \in Blocks
    BY <1>4 DEF Confirmed, Prepared, Agrees, TypeOK
  <2>2. UNCHANGED <<call, block, panel, board, app>> /\ pc'[v] = "readback"
    BY <1>4 DEF Confirmed, ups, TypeOK
  <2>3. \A w \in Writers : w # v => pc'[w] \in {"idle", "read"}
    BY <1>4, <2>1, OneOwner DEF Confirmed, TypeOK
  <2>4. ASSUME v \in app PROVE Saves'
    <3>1. wanted' = wanted
      BY <1>4, <2>4 DEF Confirmed
    <3> QED
      BY <2>2, <3>1 DEF Saves
  <2>5. ASSUME v \notin app PROVE Saves'
    <3>1. \A r \in Ratings : wanted'[r] = IF r = call[v].rating THEN call[v].value ELSE wanted[r]
      BY <1>4, <2>1, <2>5 DEF Confirmed, TypeOK, Ratings, Calls
    <3>2. ASSUME NEW r \in Ratings, wanted'[r] # Unknown, r # call[v].rating
          PROVE  board[r] = wanted'[r] /\ (panel # Nothing => panel[r] = wanted'[r])
      BY <3>1, <3>2 DEF Saves
    <3>3. LET r == call[v].rating
          IN board[r] = wanted'[r] /\ (panel # Nothing => panel[r] = wanted'[r])
      <4>1. call[v].rating \in Ratings
        BY <2>1 DEF Calls, Ratings
      <4>2. board[call[v].rating] = call[v].value
        BY <2>1, <2>5, TookCalled
      <4> QED
        BY <2>1, <2>5, <3>1, <4>1, <4>2
    <3> QED
      BY <2>2, <3>2, <3>3 DEF Saves
  <2>6. Agrees(v)'
    BY <2>1, <2>2 DEF Agrees
  <2>7. \A w \in Writers : w # v => Agrees(w)'
    BY <2>3 DEF Agrees
  <2> QED
    BY <2>4, <2>5, <2>6, <2>7
<1>5. ASSUME NEW v \in Writers, Unanswered(v)
      PROVE  (\A w \in Writers : Agrees(w)') /\ Saves'
  <2>1. UNCHANGED <<call, block, panel, board, app, wanted>>
    BY <1>5 DEF Unanswered, ups
  <2>2. pc[v] \in {"taken", "missed"} /\ pc'[v] = "write"
    BY <1>5 DEF Unanswered, TypeOK
  <2>3. \A w \in Writers : w # v => pc'[w] = pc[w]
    BY <1>5 DEF Unanswered, TypeOK
  <2> QED
    BY <2>1, <2>2, <2>3 DEF Agrees, Saves
<1>6. ASSUME NEW v \in Writers,
             \/ NotConfirmed(v) \/ ReadBack(v) \/ RequestFails(v)
             \/ Read(v) /\ panel = Nothing
      PROVE  (\A w \in Writers : Agrees(w)') /\ Saves'
  <2>1. Ends(v)
    BY <1>6, EndsSetter
  <2>2. pc'[v] = "idle" /\ UNCHANGED <<panel, board, wanted>>
    BY <2>1 DEF Ends, Return, TypeOK
  <2>3. \A w \in Writers : w # v =>
            /\ pc'[w] = pc[w] /\ call'[w] = call[w] /\ block'[w] = block[w]
            /\ w \in app <=> w \in app'
    BY <2>1 DEF Ends, Return, TypeOK
  <2> QED
    BY <2>2, <2>3 DEF Agrees, Saves
<1>7. CASE Refresh \/ LinkDrops \/ Reconnect \/ ConfirmRestart \/ UNCHANGED vars
  <2>1. UNCHANGED <<pc, call, block, panel, board, app, wanted>>
    BY <1>7 DEF Refresh, LinkDrops, Reconnect, ConfirmRestart, vars, ups, setters
  <2> QED
    BY <2>1 DEF Agrees, Saves
<1>8. CASE PanelLearns
  <2>1. UNCHANGED <<pc, call, block, board, app, wanted>> /\ panel' = board
    BY <1>8 DEF PanelLearns, setters
  <2> QED
    BY <2>1 DEF Agrees, Saves
<1>9. ASSUME NEW b \in PanelBlocks, AppWrites(b)
      PROVE  (\A w \in Writers : Agrees(w)') /\ Saves'
  <2>1. UNCHANGED <<pc, call, block>> /\ \A r \in Ratings : wanted'[r] = Unknown
    BY <1>9 DEF AppWrites, setters, Nothing, Ratings
  <2>2. \A w \in Writers : pc[w] # "idle" => w \in app'
    BY <1>9 DEF AppWrites
  <2> QED
    BY <2>1, <2>2 DEF Agrees, Saves
<1>10. CASE Restart
  <2>1. UNCHANGED <<pc, call, block, board, app, wanted>> /\ panel' = Nothing
    BY <1>10 DEF Restart, setters
  <2> QED
    BY <2>1 DEF Agrees, Saves
<1> QED
  BY <1>1, <1>2, <1>3, <1>4, <1>5, <1>6, <1>7, <1>8, <1>9, <1>10 DEF Next, Setter

-----------------------------------------------------------------------------
\* At first nobody runs and nothing was confirmed.
LEMMA InitKept == Init => Kept
<1> SUFFICES ASSUME Init PROVE Kept
  OBVIOUS
<1>1. TypeOK
  <2>1. lock \in Seq(Writers) /\ rereads \in 0..READS /\ 0 \in 0..ATTEMPTS
    BY EmptySeq, ReadsAssumption, AttemptsAssumption DEF Init
  <2>2. /\ pc \in [Writers -> Awaits \cup {"idle"}]
        /\ call \in [Writers -> Calls \cup {NoCall}]
        /\ before \in [Writers -> Voltages \cup TooHigh \cup Currents \cup {Unknown}]
    BY DEF Init
  <2>3. /\ saved \in [Writers -> Blocks \cup {Nothing}]
        /\ block \in [Writers -> PanelBlocks \cup {Nothing}]
        /\ tries \in [Writers -> 0..ATTEMPTS]
    BY <2>1 DEF Init
  <2>4. wanted \in [voltage : Voltages \cup {Unknown}, current : Currents \cup {Unknown}]
    BY DEF Init, Nothing
  <2> QED
    BY <2>1, <2>2, <2>3, <2>4, PanelKeepsBlocks DEF Init, TypeOK
<1>2. Turns
  <2>1. Len(lock) = 0
    BY EmptySeq DEF Init
  <2> QED
    BY <2>1 DEF Init, Turns, LockIsHeld
<1>3. \A w \in Writers : pc[w] = "idle"
  BY DEF Init
<1>4. Saves
  BY DEF Init, Saves, Nothing, Ratings
<1> QED
  BY <1>1, <1>2, <1>3, <1>4 DEF Kept, Prepared, Agrees

\* The setters, their lock and what they confirmed stay in order.
THEOREM AlwaysKept == Spec => []Kept
<1>1. Kept /\ [Next]_vars => Kept'
  <2> SUFFICES ASSUME Kept, [Next]_vars PROVE Kept'
    OBVIOUS
  <2>1. TypeOK' /\ Turns'
    BY StepType, StepTurns DEF Kept
  <2>2. \A w \in Writers : Prepared(w)'
    BY StepPrepared DEF Kept
  <2>3. (\A w \in Writers : Agrees(w)') /\ Saves'
    BY StepAgrees
  <2> QED
    BY <2>1, <2>2, <2>3 DEF Kept
<1> QED
  BY <1>1, InitKept, PTL DEF Spec

\* Every variable keeps its type.
THEOREM TypeAlwaysCorrect == Spec => []TypeOK
<1>1. Kept => TypeOK
  BY DEF Kept
<1> QED
  BY <1>1, AlwaysKept, PTL

\* _adapter_lock: whoever waits for it waits for a setter that still runs.
THEOREM LockAlwaysHeld == Spec => []LockIsHeld
<1>1. Kept => LockIsHeld
  BY DEF Kept, Turns
<1> QED
  BY <1>1, AlwaysKept, PTL

\* A setter that returns without an error changed what the power board will apply, whatever
\* else of its block the power board rejects (_write_to_power_board).
THEOREM SuccessAlwaysReachesBoard == Spec => []SuccessReachesBoard
<1>1. Kept => SuccessReachesBoard
  <2> SUFFICES ASSUME Kept, NEW w \in Writers, pc[w] = "readback", w \notin app
               PROVE  board[call[w].rating] = call[w].value /\ board = Took(board, block[w])
    BY DEF SuccessReachesBoard
  <2>1. /\ board = Took(board, block[w]) /\ board \in Blocks
        /\ block[w] \in PanelBlocks /\ call[w] \in Calls
        /\ block[w][call[w].rating] = call[w].value
    BY DEF Kept, TypeOK, Prepared, Agrees
  <2>2. board[call[w].rating] = call[w].value
    BY <2>1, TookCalled
  <2> QED
    BY <2>1, <2>2
<1> QED
  BY <1>1, AlwaysKept, PTL

\* What was confirmed is never taken back by setting the other rating (_write_adapter).
THEOREM ConfirmedValuesAlwaysStay == Spec => []ConfirmedValuesStay
<1>1. Kept => ConfirmedValuesStay
  BY DEF Kept, Saves, Ratings, ConfirmedValuesStay
<1> QED
  BY <1>1, AlwaysKept, PTL

-----------------------------------------------------------------------------
\* Only an answer to what a setter wrote lets it claim success, and it claims nothing twice.
Stages == [w \in Writers |-> Stage(w)]

\* A step of a setter that does not bring it to another stage.
LEMMA SameStages ==
    ASSUME TypeOK, NEW w \in Writers, NEW p \in Awaits,
           pc' = [pc EXCEPT ![w] = p], pc[w] # "idle", pc[w] # "readback", p # "readback"
    PROVE  Stages' = Stages
BY DEF TypeOK, Stages, Stage, Awaits

\* What a setter does that ends, with or without an error.
LEMMA EndsReturn ==
    ASSUME TypeOK, NEW w \in Writers, Ends(w), pc[w] # "idle"
    PROVE  Promise!Return(w)
<1>1. /\ Stages[w] # "idle" /\ Stages' = [Stages EXCEPT ![w] = "idle"]
      /\ call' = [call EXCEPT ![w] = NoCall]
      /\ app' = app \ {w}
      /\ UNCHANGED <<board, wanted>>
  BY DEF Ends, Return, TypeOK, Stages, Stage
<1> QED
  BY <1>1 DEF Promise!Return, Stages

\* While a setter writes, none has a success to claim.
LEMMA NobodyClaims ==
    ASSUME Turns, NEW w \in Writers, pc[w] \in {"write", "taken", "missed"}
    PROVE  \A v \in Writers : Stages[v] # "done"
<1> SUFFICES ASSUME NEW v \in Writers, pc[v] = "readback" PROVE FALSE
  BY DEF Stages, Stage
<1> QED
  BY OneOwner

LEMMA WriteMaps == ASSUME Kept, NEW w \in Writers, Write(w) PROVE Promise!Write(w)
<1> DEFINE n == call[w].rating
<1>1. /\ pc[w] = "write"
      /\ board' \in {board, Took(board, block[w])}
      /\ wanted' = [wanted EXCEPT ![n] = Unknown]
      /\ app' = app \ {w}
      /\ call' = call
      /\ pc' = [pc EXCEPT ![w] = IF board' = Took(board, block[w]) THEN "taken"
                                   ELSE "missed"]
  BY DEF Write
<1>2. /\ block[w] \in PanelBlocks /\ block[w][n] = call[w].value
      /\ \A r \in Ratings : r # n => wanted[r] \in {Unknown, block[w][r]}
      /\ \A r \in Ratings : wanted[r] # Unknown => board[r] = wanted[r]
      /\ board \in Blocks /\ call[w] \in Calls
  BY <1>1 DEF Kept, Prepared, Agrees, Saves, TypeOK
<1>3. Stages' = Stages /\ Stages[w] = "trying"
  <2>1. Stages' = Stages
    BY <1>1, SameStages DEF Kept, Awaits
  <2> QED
    BY <1>1, <2>1 DEF Stages, Stage
<1>4. \A v \in Writers : Stages[v] # "done"
  BY <1>1, NobodyClaims DEF Kept
<1>5. ASSUME NEW r \in Ratings \ {n}, wanted[r] # Unknown PROVE board'[r] = board[r]
  <2>1. wanted[r] = block[w][r] /\ board[r] = wanted[r]
    BY <1>2, <1>5
  <2>2. Took(board, block[w])[r] = wanted[r]
    BY <1>2, <1>5, <2>1, TookWanted DEF Kept
  <2> QED
    BY <1>1, <2>1, <2>2
<1>6. board' \in Blocks /\ (board' # board => board'[n] = call[w].value)
  <2>1. Took(board, block[w]) \in Blocks
    BY <1>2, TookFields
  <2>2. Took(board, block[w])[n] = call[w].value
    BY <1>2, TookCalled
  <2> QED
    BY <1>1, <1>2, <2>1, <2>2
<1> QED
  BY <1>1, <1>3, <1>4, <1>5, <1>6 DEF Promise!Write, Stages, Ratings

LEMMA ConfirmedMaps == ASSUME Kept, NEW w \in Writers, Confirmed(w) PROVE Promise!Confirm(w)
<1>1. /\ pc[w] = "taken"
      /\ pc' = [pc EXCEPT ![w] = "readback"]
      /\ wanted' = IF w \in app THEN wanted
                   ELSE [wanted EXCEPT ![call[w].rating] = call[w].value]
      /\ UNCHANGED <<board, call, app>>
  BY DEF Confirmed, ups
<1>2. ASSUME w \notin app PROVE board[call[w].rating] = call[w].value
  <2>1. /\ board = Took(board, block[w]) /\ board \in Blocks
        /\ block[w] \in PanelBlocks /\ call[w] \in Calls
        /\ block[w][call[w].rating] = call[w].value
    BY <1>1, <1>2 DEF Kept, TypeOK, Prepared, Agrees
  <2> QED
    BY <2>1, TookCalled
<1>3. Stages[w] = "trying" /\ Stages' = [Stages EXCEPT ![w] = "done"]
  BY <1>1 DEF Kept, TypeOK, Stages, Stage
<1>4. \A v \in Writers : Stages[v] # "done"
  BY <1>1, NobodyClaims DEF Kept
<1> QED
  BY <1>1, <1>2, <1>3, <1>4 DEF Promise!Confirm, Stages

\* The adapter settings implement the promise: a setter puts its value into its rating alone
\* and claims only what is saved (_write_adapter, _write_to_power_board).
THEOREM AdapterKeepsPromise == Spec => SettersKeepPromise
<1>1. Init => Promise!Init
  <2> SUFFICES ASSUME Init PROVE Promise!Init
    OBVIOUS
  <2>1. wanted = [n \in {"voltage", "current"} |-> Unknown]
    BY DEF Init, Nothing
  <2>2. Stages = [w \in Writers |-> "idle"]
    BY DEF Init, Stages, Stage
  <2> QED
    BY <2>1, <2>2 DEF Init, Promise!Init, Stages
<1>2. Kept /\ [Next]_vars => [Promise!Next]_Promise!vars
  <2> SUFFICES ASSUME Kept, [Next]_vars PROVE Promise!Next \/ UNCHANGED Promise!vars
    OBVIOUS
  <2>0. TypeOK /\ Turns
    BY DEF Kept
  <2>1. ASSUME NEW w \in Writers, NEW c \in Calls, Call(w, c) PROVE Promise!Begin(w, c)
    <3>1. Stages[w] = "idle" /\ Stages' = [Stages EXCEPT ![w] = "trying"]
      BY <2>0, <2>1 DEF Call, TypeOK, Stages, Stage
    <3> QED
      BY <2>1, <3>1 DEF Call, ups, Promise!Begin, Stages
  <2>2. ASSUME UNCHANGED <<board, call, wanted, app>>, Stages' = Stages
        PROVE  UNCHANGED Promise!vars
    BY <2>2 DEF Promise!vars, Stages
  <2>3. ASSUME NEW w \in Writers, Read(w), panel # Nothing PROVE UNCHANGED Promise!vars
    <3>1. pc[w] = "read" /\ pc' = [pc EXCEPT ![w] = "write"]
      BY <2>3 DEF Read
    <3>2. Stages' = Stages
      BY <2>0, <3>1, SameStages DEF Awaits
    <3> QED
      BY <2>2, <2>3, <3>2 DEF Read, ups
  <2>4. ASSUME NEW w \in Writers, Unanswered(w) PROVE UNCHANGED Promise!vars
    <3>1. pc[w] \in {"taken", "missed"} /\ pc' = [pc EXCEPT ![w] = "write"]
      BY <2>4 DEF Unanswered
    <3>2. Stages' = Stages
      BY <2>0, <3>1, SameStages DEF Awaits
    <3> QED
      BY <2>2, <2>4, <3>2 DEF Unanswered, ups
  <2>5. ASSUME NEW w \in Writers,
               \/ NotConfirmed(w) \/ ReadBack(w) \/ RequestFails(w)
               \/ Read(w) /\ panel = Nothing
        PROVE  Promise!Return(w)
    <3>1. Ends(w)
      BY <2>0, <2>5, EndsSetter
    <3>2. pc[w] # "idle"
      BY <2>5 DEF NotConfirmed, ReadBack, RequestFails, Read
    <3> QED
      BY <2>0, <3>1, <3>2, EndsReturn
  <2>6. CASE Refresh \/ LinkDrops \/ Reconnect \/ ConfirmRestart \/ PanelLearns \/ Restart
             \/ UNCHANGED vars
    <3>1. UNCHANGED <<board, pc, call, wanted, app>>
      BY <2>6 DEF Refresh, LinkDrops, Reconnect, ConfirmRestart, PanelLearns, Restart, vars,
                 ups, setters
    <3>2. Stages' = Stages
      BY <3>1 DEF Stages, Stage
    <3> QED
      BY <2>2, <3>1, <3>2
  <2>7. ASSUME NEW b \in PanelBlocks, AppWrites(b) PROVE Promise!ChangedElsewhere
    <3>0. board' \in Blocks
      BY <2>0, <2>7, TookFields DEF AppWrites, TypeOK
    <3>1. /\ UNCHANGED <<pc, call>>
          /\ wanted' = [n \in {"voltage", "current"} |-> Unknown]
          /\ app' = {w \in Writers : pc[w] # "idle"}
      BY <2>7 DEF AppWrites, setters, Nothing
    <3>2. Stages' = Stages /\ app' = {w \in Writers : Stages[w] # "idle"}
      BY <3>1 DEF Stages, Stage
    <3> QED
      BY <3>0, <3>1, <3>2 DEF Promise!ChangedElsewhere, Stages
  <2> QED
    BY <2>1, <2>3, <2>4, <2>5, <2>6, <2>7, WriteMaps, ConfirmedMaps DEF Next, Setter, Promise!Next
<1> QED
  BY <1>1, <1>2, AlwaysKept, PTL DEF Spec, SettersKeepPromise, Promise!Spec

\* Whoever keeps that promise claims only what is saved.
THEOREM PromisedClaimsHold == Promise!Spec => []Promise!ClaimsHold
<1> DEFINE Typed == /\ board \in Blocks
                    /\ Stages \in [Writers -> {"idle", "trying", "done"}]
                    /\ call \in [Writers -> Calls \cup {NoCall}]
                    /\ wanted \in [Ratings -> Voltages \cup Currents \cup {Unknown}]
           Claims == /\ Typed
                     /\ \A w \in Writers : Stages[w] # "idle" => call[w] \in Calls
                     /\ \A v, w \in Writers : Stages[v] = "done" /\ Stages[w] = "done" => v = w
                     /\ Promise!ClaimsHold
<1>1. Promise!Init => Claims
  BY DEF Promise!Init, Promise!ClaimsHold, Stages, Ratings
<1>2. Claims /\ [Promise!Next]_Promise!vars => Claims'
  <2> SUFFICES ASSUME Claims, [Promise!Next]_Promise!vars PROVE Claims'
    OBVIOUS
  <2>1. ASSUME NEW w \in Writers, NEW c \in Calls, Promise!Begin(w, c) PROVE Claims'
    <3>1. /\ Stages' = [Stages EXCEPT ![w] = "trying"] /\ call' = [call EXCEPT ![w] = c]
          /\ UNCHANGED <<board, wanted, app>>
      BY <2>1 DEF Promise!Begin, Stages
    <3>2. /\ Stages'[w] = "trying" /\ call'[w] = c
          /\ \A v \in Writers : v # w => Stages'[v] = Stages[v] /\ call'[v] = call[v]
      BY <3>1
    <3>3. Typed'
      BY <3>1
    <3>4. Promise!ClaimsHold'
      BY <3>1, <3>2 DEF Promise!ClaimsHold, Stages
    <3> QED
      BY <3>2, <3>3, <3>4
  <2>2. ASSUME NEW w \in Writers, Promise!Write(w) PROVE Claims'
    <3> DEFINE n == call[w].rating
    <3>1. /\ Stages[w] = "trying" /\ Stages' = Stages
          /\ \A v \in Writers : Stages[v] # "done"
          /\ call' = call /\ board' \in Blocks
          /\ wanted' = [wanted EXCEPT ![n] = Unknown]
      BY <2>2 DEF Promise!Write, Stages
    <3>2. \A r \in Ratings \ {n} : wanted[r] # Unknown => board'[r] = board[r]
      BY <2>2 DEF Promise!Write, Ratings
    <3>3. n \in Ratings /\ wanted'[n] = Unknown
      BY <3>1 DEF Calls, Ratings
    <3>4. \A r \in Ratings \ {n} : wanted'[r] = wanted[r]
      BY <3>1, <3>3
    <3>5. \A r \in Ratings : wanted'[r] # Unknown => board'[r] = wanted'[r]
      BY <3>2, <3>3, <3>4 DEF Promise!ClaimsHold, Ratings
    <3>6. Typed'
      BY <3>1, <3>3
    <3>7. Promise!ClaimsHold'
      BY <3>1, <3>5 DEF Promise!ClaimsHold, Stages, Ratings
    <3> QED
      BY <3>1, <3>6, <3>7
  <2>3. ASSUME NEW w \in Writers, Promise!Confirm(w) PROVE Claims'
    BY <2>3 DEF Promise!Confirm, Promise!ClaimsHold, Stages, Ratings, Calls
  <2>4. ASSUME NEW w \in Writers, Promise!Return(w) PROVE Claims'
    <3>1. /\ Stages' = [Stages EXCEPT ![w] = "idle"] /\ call' = [call EXCEPT ![w] = NoCall]
          /\ app' = app \ {w}
          /\ UNCHANGED <<board, wanted>>
      BY <2>4 DEF Promise!Return, Stages
    <3>2. /\ Stages'[w] = "idle" /\ Stages' \in [Writers -> {"idle", "trying", "done"}]
          /\ \A v \in Writers : v # w => Stages'[v] = Stages[v] /\ call'[v] = call[v]
      BY <3>1
    <3>3. Typed'
      BY <3>1, <3>2
    <3>4. Promise!ClaimsHold'
      BY <3>1, <3>2 DEF Promise!ClaimsHold, Stages
    <3> QED
      BY <3>2, <3>3, <3>4
  <2>5. CASE Promise!ChangedElsewhere
    <3>1. /\ Stages' = Stages /\ call' = call /\ board' \in Blocks
          /\ wanted' = [r \in Ratings |-> Unknown]
          /\ app' = {v \in Writers : Stages[v] # "idle"}
      BY <2>5 DEF Promise!ChangedElsewhere, Stages, Ratings
    <3>2. Typed'
      BY <3>1
    <3>3. Promise!ClaimsHold'
      BY <3>1 DEF Promise!ClaimsHold, Stages, Ratings
    <3> QED
      BY <3>1, <3>2, <3>3
  <2>6. CASE UNCHANGED Promise!vars
    BY <2>6 DEF Promise!vars, Promise!ClaimsHold, Stages, Ratings
  <2> QED
    BY <2>1, <2>2, <2>3, <2>4, <2>5, <2>6 DEF Promise!Next
<1> QED
  BY <1>1, <1>2, PTL DEF Promise!Spec, Claims

\* A change that is pending on the UPS goes without the restart issue only if the value
\* shown before the call was stale (_change_setting).
THEOREM AlwaysAskedUnlessStale == Spec => AskedUnlessStale
<1> DEFINE Asked == due' => \/ issue'
                            \/ due /\ ~issue
                            \/ \E w \in Writers :
                                   /\ pc[w] = "readback"
                                   /\ before[w] # saved[w][call[w].rating]
<1>1. ASSUME Kept, Next PROVE Asked
  <2>0. issue \in BOOLEAN /\ due \in BOOLEAN
    BY <1>1 DEF Kept, TypeOK
  <2>1. ASSUME UNCHANGED <<issue, due>> PROVE due' => issue' \/ (due /\ ~issue)
    BY <2>0, <2>1
  <2>2. ASSUME NEW w \in Writers, ReadBack(w), due', ~issue', ~(due /\ ~issue)
        PROVE  pc[w] = "readback" /\ before[w] # saved[w][call[w].rating]
    <3> DEFINE r == call[w].rating
    <3>1. /\ pc[w] = "readback" /\ panel[r] = before[w]
          /\ w \notin app /\ board[r] # saved[w][r]
      BY <2>0, <2>2 DEF ReadBack
    <3>2. /\ panel \in {block[w], board, Nothing} /\ board = Took(board, block[w])
          /\ block[w] \in PanelBlocks /\ block[w][r] = call[w].value
          /\ saved[w] \in Blocks /\ call[w] \in Calls /\ board \in Blocks
      BY <1>1, <3>1 DEF Kept, TypeOK, Agrees, Prepared
    <3>3. saved[w][r] # Unknown /\ (panel = Nothing => panel[r] = Unknown)
      BY <3>2, UnknownAssumption DEF Blocks, Calls, Nothing
    <3>4. board[r] = block[w][r]
      BY <3>2, TookCalled
    <3> QED
      BY <3>1, <3>2, <3>3, <3>4
  <2>3. ASSUME NEW w \in Writers, Setter(w), ~ReadBack(w) PROVE UNCHANGED <<issue, due>>
    BY <2>3 DEF Setter, Read, Write, Confirmed, Unanswered, NotConfirmed, RequestFails, Raise
  <2>4. ASSUME NEW w \in Writers, NEW c \in Calls, Call(w, c) PROVE UNCHANGED <<issue, due>>
    BY <2>4 DEF Call
  <2>5. ASSUME Refresh \/ LinkDrops \/ Reconnect \/ PanelLearns PROVE UNCHANGED <<issue, due>>
    BY <2>5 DEF Refresh, LinkDrops, Reconnect, PanelLearns
  <2>6. ASSUME ConfirmRestart \/ Restart \/ \E b \in PanelBlocks : AppWrites(b) PROVE due' = FALSE
    BY <2>6 DEF ConfirmRestart, Restart, AppWrites
  <2>7. \/ \E w \in Writers : ReadBack(w)
        \/ UNCHANGED <<issue, due>>
        \/ due' = FALSE
    BY <1>1, <2>3, <2>4, <2>5, <2>6 DEF Next
  <2> QED
    BY <2>1, <2>2, <2>7
<1> QED
  BY <1>1, AlwaysKept, PTL DEF Spec, AskedUnlessStale
=============================================================================

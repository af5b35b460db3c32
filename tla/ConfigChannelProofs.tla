------------------------- MODULE ConfigChannelProofs --------------------------
(* Safety of ConfigChannel for any number of setters, fields and values.         *)
EXTENDS ConfigChannel, SequenceTheorems, TLAPS

\* A new device has every variable in its type.
LEMMA InitType == Init => TypeOK
<1> SUFFICES ASSUME Init PROVE TypeOK
  OBVIOUS
<1>1. replies \in Seq(Blocks) /\ lock \in Seq(Writers) /\ Len(replies) = 0
  BY EmptySeq DEF Init
<1>2. Len(replies) <= MaxReplies
  BY <1>1, RepliesAssumption
<1>3. /\ pc \in [Writers -> Awaits \cup {"idle"}]
      /\ call \in [Writers -> Calls \cup {NoCall}]
      /\ reply \in [Writers -> {"none", "pending", "done"}]
      /\ block \in [Writers -> Blocks \cup {Nothing}]
  BY DEF Init
<1> QED
  BY <1>1, <1>2, <1>3 DEF Init, TypeOK

\* An answer on its way is a block.
LEMMA AnswerType ==
    ASSUME TypeOK, Answer
    PROVE  replies' \in Seq(Blocks) /\ Len(replies') <= MaxReplies
<1>1. /\ Append(replies, settings) \in Seq(Blocks)
      /\ Len(Append(replies, settings)) = Len(replies) + 1
  BY AppendProperties DEF TypeOK
<1> QED
  BY <1>1, RepliesAssumption, LenProperties DEF Answer, TypeOK

\* A setter that leaves the lock keeps what belongs to the setters in its type.
LEMMA ReturnType ==
    ASSUME TypeOK, NEW w \in Writers, lock # <<>>, Return(w)
    PROVE  /\ lock' \in Seq(Writers)
           /\ pc' \in [Writers -> Awaits \cup {"idle"}]
           /\ call' \in [Writers -> Calls \cup {NoCall}]
           /\ reply' \in [Writers -> {"none", "pending", "done"}]
           /\ block' \in [Writers -> Blocks \cup {Nothing}]
           /\ changed' \subseteq Writers
           /\ late' \subseteq Writers
BY HeadTailProperties DEF TypeOK, Return

-----------------------------------------------------------------------------
\* Who waits for the lock, and who has it.
Turns ==
    /\ \A i, j \in 1..Len(lock) : i # j => lock[i] # lock[j]
    /\ \A i \in 1..Len(lock) : pc[lock[i]] # "idle"
    /\ \A w \in Writers : pc[w] \notin {"idle", "lock"} => Owns(w)

\* A future waits while its query does, and is resolved only by an answer.
Waits ==
    /\ \A w \in Writers : reply[w] # "none" => pc[w] \in {"ask", "answer"}
    /\ \A w \in Writers : reply[w] = "done" => shown \in Blocks
    /\ \A w \in Writers : pc[w] # "idle" => call[w] \in Calls
    /\ \A w \in Writers :
           pc[w] = "write" /\ call[w].field \notin Alone => block[w] \in Blocks

\* From the moment a quiet setter waits for its answer until it writes, all answers and
\* what it took from them agree with the UPS.
Quiet(w) ==
    /\ pc[w] \in {"ask", "answer"} =>
           \A i \in 1..Len(replies) : replies[i] = settings
    /\ reply[w] = "done" => shown = settings
    /\ WritesBack(w)

\* The values that will be shown once all answers have come in.
Shown == IF replies = <<>> THEN shown ELSE replies[Len(replies)]

\* They are those of the UPS unless somebody has to ask for them again.
Catching ==
    /\ ~linked => unseen
    /\ linked /\ ~unseen /\ (\A w \in Writers : pc[w] # "request") => Shown = settings

Ordered ==
    /\ TypeOK
    /\ Turns
    /\ Waits
    /\ \A w \in Writers : w \notin changed \cup late => Quiet(w)
    /\ Catching

\* A setter that holds the lock is the only one past it.
LEMMA OneOwner ==
    ASSUME Turns, NEW v \in Writers, NEW w \in Writers,
           pc[v] \notin {"idle", "lock"}, pc[w] \notin {"idle", "lock"}
    PROVE  v = w /\ lock # <<>> /\ lock[1] = w
<1>1. Owns(v) /\ Owns(w)
  BY DEF Turns
<1> QED
  BY <1>1 DEF Owns

\* A setter past the lock owns it, so the queue is not empty when it leaves.
LEMMA OwnerIsQueued ==
    ASSUME TypeOK, Turns, NEW w \in Writers, pc[w] \notin {"idle", "lock"}
    PROVE  lock # <<>> /\ Head(lock) = w
BY DEF Turns, Owns

\* A step of a setter, an answer or the link keeps every variable in its type.
LEMMA StepType ==
    ASSUME TypeOK, Turns, Waits, [Next]_vars
    PROVE  TypeOK'
<1>1. ASSUME NEW w \in Writers, NEW c \in Calls, Call(w, c) PROVE TypeOK'
  <2>1. lock' \in Seq(Writers)
    BY <1>1, AppendProperties DEF Call, TypeOK
  <2>2. pc' \in [Writers -> Awaits \cup {"idle"}]
    BY <1>1 DEF Call, TypeOK, Awaits
  <2>3. call' \in [Writers -> Calls \cup {NoCall}]
    BY <1>1 DEF Call, TypeOK
  <2> QED
    BY <1>1, <2>1, <2>2, <2>3 DEF Call, TypeOK
<1>2. ASSUME NEW w \in Writers, Begin(w) PROVE TypeOK'
  <2>1. pc' \in [Writers -> Awaits \cup {"idle"}]
    BY <1>2 DEF Begin, TypeOK, Awaits
  <2>2. reply' \in [Writers -> {"none", "pending", "done"}] /\ late' \subseteq Writers
    BY <1>2 DEF Begin, TypeOK
  <2> QED
    BY <1>2, <2>1, <2>2 DEF Begin, TypeOK
<1>3. ASSUME NEW w \in Writers, Ask(w) PROVE TypeOK'
  <2>1. pc' \in [Writers -> Awaits \cup {"idle"}]
    BY <1>3 DEF Ask, TypeOK, Awaits
  <2> QED
    BY <1>3, <2>1, AnswerType DEF Ask, TypeOK
<1>4. ASSUME NEW w \in Writers, Answered(w) PROVE TypeOK'
  <2>1. shown \in Blocks /\ call[w] \in Calls
    BY <1>4 DEF Answered, Waits
  <2>2. [shown EXCEPT ![call[w].field] = call[w].value] \in Blocks
    BY <2>1 DEF Blocks, Calls
  <2>3. block' \in [Writers -> Blocks \cup {Nothing}]
    BY <1>4, <2>2 DEF Answered, TypeOK
  <2>4. reply' \in [Writers -> {"none", "pending", "done"}]
    BY <1>4 DEF Answered, TypeOK
  <2>5. pc' \in [Writers -> Awaits \cup {"idle"}]
    BY <1>4 DEF Answered, TypeOK, Awaits
  <2> QED
    BY <1>4, <2>3, <2>4, <2>5 DEF Answered, TypeOK
<1>5. ASSUME NEW w \in Writers, TimeOut(w) PROVE TypeOK'
  <2>1. lock # <<>> /\ Return(w)
    BY <1>5, OwnerIsQueued DEF TimeOut
  <2> QED
    BY <1>5, <2>1, ReturnType DEF TimeOut, TypeOK
<1>6. ASSUME NEW w \in Writers, Write(w) PROVE TypeOK'
  <2>1. settings' \in Blocks
    <3>1. call[w] \in Calls
      BY <1>6 DEF Write, Waits
    <3>2. CASE call[w].field \in Alone
      BY <1>6, <3>1, <3>2 DEF Write, TypeOK, Calls, Blocks
    <3>3. CASE call[w].field \notin Alone
      BY <1>6, <3>3 DEF Write, Waits
    <3> QED
      BY <3>2, <3>3
  <2>2. pc' \in [Writers -> Awaits \cup {"idle"}]
    BY <1>6 DEF Write, TypeOK, Awaits
  <2> QED
    BY <1>6, <2>1, <2>2 DEF Write, TypeOK
<1>7. ASSUME NEW w \in Writers, Request(w) PROVE TypeOK'
  <2>1. lock # <<>> /\ Return(w) /\ Answer
    BY <1>7, OwnerIsQueued DEF Request
  <2> QED
    BY <1>7, <2>1, ReturnType, AnswerType DEF Request, TypeOK
<1>8. ASSUME NEW w \in Writers, SendFails(w) PROVE TypeOK'
  <2>1. lock # <<>> /\ Return(w)
    BY <1>8, OwnerIsQueued DEF SendFails
  <2>2. unseen' \in BOOLEAN
    BY <1>8 DEF SendFails, TypeOK
  <2> QED
    BY <1>8, <2>1, <2>2, ReturnType DEF SendFails, TypeOK
<1>9. CASE OnConfig \/ OnConfigUnreadable
  <2>1. replies # <<>>
    BY <1>9 DEF OnConfig, OnConfigUnreadable
  <2>2. /\ Head(replies) \in Blocks
        /\ Tail(replies) \in Seq(Blocks)
        /\ Len(Tail(replies)) = Len(replies) - 1
    BY <2>1, HeadTailProperties DEF TypeOK
  <2>3. Len(Tail(replies)) <= MaxReplies
    BY <2>2, RepliesAssumption, LenProperties DEF TypeOK
  <2>4. reply' \in [Writers -> {"none", "pending", "done"}] /\ unseen' \in BOOLEAN
    BY <1>9 DEF OnConfig, OnConfigUnreadable, setters, TypeOK
  <2> QED
    BY <1>9, <2>2, <2>3, <2>4 DEF OnConfig, OnConfigUnreadable, setters, TypeOK
<1>10. CASE Refresh
  BY <1>10, AnswerType DEF Refresh, setters, TypeOK
<1>11. ASSUME NEW b \in Blocks, DeviceChanges(b) PROVE TypeOK'
  BY <1>11 DEF DeviceChanges, TypeOK
<1>12. CASE LinkDrops
  BY <1>12 DEF LinkDrops, setters, TypeOK
<1>13. CASE Reconnect
  <2>1. <<>> \in Seq(Blocks) /\ Len(<<>>) <= MaxReplies
    BY EmptySeq, RepliesAssumption
  <2> QED
    BY <1>13, <2>1 DEF Reconnect, setters, TypeOK
<1>14. CASE UNCHANGED vars
  BY <1>14 DEF vars, setters, TypeOK
<1> QED
  BY <1>1, <1>2, <1>3, <1>4, <1>5, <1>6, <1>7, <1>8, <1>9, <1>10, <1>11, <1>12, <1>13,
     <1>14 DEF Next, Setter

-----------------------------------------------------------------------------
\* A setter that leaves passes the lock on to the next in the queue.
LEMMA ReturnTurns ==
    ASSUME TypeOK, Turns, NEW w \in Writers, lock # <<>>, Head(lock) = w, Return(w)
    PROVE  Turns'
<1>1. /\ Len(lock') = Len(lock) - 1
      /\ Len(lock) \in Nat \ {0}
      /\ \A i \in 1..Len(lock') : i + 1 \in 1..Len(lock) /\ lock'[i] = lock[i + 1]
  BY HeadTailProperties, LenProperties, EmptySeq DEF Return, TypeOK
<1>2. \A i \in 1..Len(lock) : lock[i] \in Writers
  BY ElementOfSeq DEF TypeOK
<1>3. \A v \in Writers : v # w => pc'[v] = pc[v]
  BY DEF Return, TypeOK
<1>4. \A i \in 1..Len(lock') : lock'[i] # w
  BY <1>1 DEF Turns
<1>5. \A i, j \in 1..Len(lock') : i # j => lock'[i] # lock'[j]
  BY <1>1 DEF Turns
<1>6. \A i \in 1..Len(lock') : pc'[lock'[i]] # "idle"
  BY <1>1, <1>2, <1>3, <1>4 DEF Turns
<1>7. \A v \in Writers : pc'[v] \in {"idle", "lock"}
  BY <1>3 DEF Turns, Owns, Return, TypeOK
<1> QED
  BY <1>5, <1>6, <1>7 DEF Turns

\* The lock has one owner at a time and a queue of those that still run.
LEMMA StepTurns ==
    ASSUME TypeOK, Turns, [Next]_vars
    PROVE  Turns'
<1>1. ASSUME NEW w \in Writers, NEW c \in Calls, Call(w, c) PROVE Turns'
  <2>1. /\ Len(lock') = Len(lock) + 1
        /\ lock'[Len(lock) + 1] = w
        /\ \A i \in 1..Len(lock) : lock'[i] = lock[i]
        /\ Len(lock) \in Nat
        /\ \A i \in 1..Len(lock) : lock[i] \in Writers
    BY <1>1, AppendProperties, LenProperties, ElementOfSeq DEF Call, TypeOK
  <2>2. \A i \in 1..Len(lock) : lock[i] # w
    BY <1>1 DEF Call, Turns
  <2>3. /\ pc'[w] = "lock"
        /\ \A v \in Writers : v # w => pc'[v] = pc[v]
    BY <1>1 DEF Call, TypeOK
  <2>4. \A i, j \in 1..Len(lock') : i # j => lock'[i] # lock'[j]
    BY <2>1, <2>2 DEF Turns
  <2>5. \A i \in 1..Len(lock') : pc'[lock'[i]] # "idle"
    BY <2>1, <2>2, <2>3 DEF Turns
  <2>6. \A v \in Writers : pc'[v] \notin {"idle", "lock"} => Owns(v)'
    <3> SUFFICES ASSUME NEW v \in Writers, pc'[v] \notin {"idle", "lock"}
                 PROVE  Owns(v)'
      OBVIOUS
    <3>1. lock # <<>> /\ Head(lock) = v
      BY <2>3 DEF Turns, Owns
    <3>2. Len(lock) \in Nat \ {0} /\ lock[1] = v
      BY <3>1, EmptySeq DEF TypeOK
    <3>3. lock' # <<>> /\ lock'[1] = v
      BY <1>1, <2>1, <3>2, AppendProperties DEF Call, TypeOK
    <3> QED
      BY <3>3 DEF Owns
  <2> QED
    BY <2>4, <2>5, <2>6 DEF Turns
<1>2. ASSUME NEW w \in Writers, Begin(w) \/ Ask(w) \/ Answered(w) \/ Write(w)
      PROVE  Turns'
  <2>1. /\ lock' = lock
        /\ Owns(w)
        /\ pc'[w] # "idle"
        /\ \A v \in Writers : v # w => pc'[v] = pc[v]
    BY <1>2 DEF Begin, Ask, Answered, Write, Turns, TypeOK
  <2>2. \A i \in 1..Len(lock) : lock[i] \in Writers
    BY ElementOfSeq DEF TypeOK
  <2> QED
    BY <2>1, <2>2 DEF Turns, Owns
<1>3. ASSUME NEW w \in Writers, TimeOut(w) \/ Request(w) \/ SendFails(w)
      PROVE  Turns'
  <2>1. Return(w) /\ pc[w] \notin {"idle", "lock"}
    BY <1>3 DEF TimeOut, Request, SendFails
  <2> QED
    BY <2>1, OwnerIsQueued, ReturnTurns
<1>4. CASE \/ OnConfig \/ OnConfigUnreadable \/ Refresh \/ LinkDrops \/ Reconnect
           \/ (\E b \in Blocks : DeviceChanges(b)) \/ UNCHANGED vars
  BY <1>4 DEF OnConfig, OnConfigUnreadable, Refresh, LinkDrops, Reconnect, DeviceChanges,
             vars, setters, Turns, Owns
<1> QED
  BY <1>1, <1>2, <1>3, <1>4 DEF Next, Setter

\* A query takes its future with it.
LEMMA StepWaits ==
    ASSUME TypeOK, Turns, Waits, [Next]_vars
    PROVE  Waits'
<1>1. ASSUME NEW w \in Writers, NEW c \in Calls, Call(w, c) PROVE Waits'
  BY <1>1 DEF Call, Waits, TypeOK
<1>2. ASSUME NEW w \in Writers, Begin(w) PROVE Waits'
  BY <1>2 DEF Begin, Waits, TypeOK
<1>3. ASSUME NEW w \in Writers, Ask(w) PROVE Waits'
  BY <1>3 DEF Ask, Waits, TypeOK
<1>4. ASSUME NEW w \in Writers, Answered(w) PROVE Waits'
  <2>1. [shown EXCEPT ![call[w].field] = call[w].value] \in Blocks
    BY <1>4 DEF Answered, Waits, Blocks, Calls
  <2> QED
    BY <1>4, <2>1 DEF Answered, Waits, TypeOK
<1>5. ASSUME NEW w \in Writers, Write(w) PROVE Waits'
  BY <1>5 DEF Write, Waits, TypeOK
<1>6. ASSUME NEW w \in Writers, TimeOut(w) \/ Request(w) \/ SendFails(w)
      PROVE  Waits'
  <2>1. Return(w) /\ shown' = shown
    BY <1>6 DEF TimeOut, Request, SendFails
  <2>2. pc'[w] = "idle" /\ reply'[w] = "none"
    BY <2>1 DEF Return, TypeOK
  <2>3. \A v \in Writers : v # w =>
            /\ pc'[v] = pc[v]
            /\ reply'[v] = reply[v]
            /\ call'[v] = call[v]
            /\ block'[v] = block[v]
    BY <2>1 DEF Return, TypeOK
  <2> QED
    BY <2>1, <2>2, <2>3 DEF Waits
<1>7. CASE OnConfig
  <2>1. Head(replies) \in Blocks
    BY <1>7, HeadTailProperties DEF OnConfig, TypeOK
  <2> QED
    BY <1>7, <2>1 DEF OnConfig, Waits, TypeOK
<1>8. CASE Reconnect
  BY <1>8 DEF Reconnect, setters, Waits, TypeOK
<1>9. CASE \/ OnConfigUnreadable \/ Refresh \/ LinkDrops
           \/ (\E b \in Blocks : DeviceChanges(b)) \/ UNCHANGED vars
  BY <1>9 DEF OnConfigUnreadable, Refresh, LinkDrops, DeviceChanges, vars, setters, Waits
<1> QED
  BY <1>1, <1>2, <1>3, <1>4, <1>5, <1>6, <1>7, <1>8, <1>9 DEF Next, Setter

\* An answer sent now agrees with the UPS, and so do those before it if they did.
LEMMA AnswerAgrees ==
    ASSUME TypeOK, Answer, settings' = settings
    PROVE  /\ (\A i \in 1..Len(replies) : replies[i] = settings) =>
                  \A i \in 1..Len(replies') : replies'[i] = settings'
           /\ Shown' = settings'
<1>1. /\ Len(replies) \in Nat
      /\ Len(replies') = Len(replies) + 1
      /\ replies'[Len(replies) + 1] = settings
      /\ \A i \in 1..Len(replies) : replies'[i] = replies[i]
  BY AppendProperties, LenProperties DEF Answer, TypeOK
<1>2. replies' # <<>>
  BY <1>1, EmptySeq
<1> QED
  BY <1>1, <1>2 DEF Shown

\* Taking the first answer leaves those behind it.
LEMMA TailAgrees ==
    ASSUME TypeOK, replies # <<>>, replies' = Tail(replies)
    PROVE  /\ Head(replies) = replies[1]
           /\ Len(replies) \in Nat \ {0}
           /\ Len(replies') = Len(replies) - 1
           /\ \A i \in 1..Len(replies') : replies'[i] = replies[i + 1]
           /\ replies' = <<>> <=> Len(replies) = 1
<1>1. /\ Len(replies) \in Nat \ {0}
      /\ replies' \in Seq(Blocks)
      /\ Len(replies') = Len(replies) - 1
      /\ \A i \in 1..Len(replies') : replies'[i] = replies[i + 1]
  BY HeadTailProperties, EmptySeq DEF TypeOK
<1>2. replies' = <<>> <=> Len(replies) = 1
  BY <1>1, EmptySeq
<1> QED
  BY <1>1, <1>2

\* What a quiet setter learns and writes back agrees with the UPS.
LEMMA StepQuiet ==
    ASSUME Ordered, [Next]_vars, NEW v \in Writers, v \notin changed' \cup late'
    PROVE  Quiet(v)'
<1> USE DEF Ordered
<1>1. ASSUME NEW w \in Writers, NEW c \in Calls, Call(w, c) PROVE Quiet(v)'
  <2>1. Quiet(v)
    BY <1>1 DEF Call
  <2>2. CASE v = w
    BY <1>1, <2>1, <2>2 DEF Call, Quiet, WritesBack, TypeOK
  <2>3. CASE v # w
    BY <1>1, <2>1, <2>3 DEF Call, Quiet, WritesBack, TypeOK
  <2> QED
    BY <2>2, <2>3
<1>2. ASSUME NEW w \in Writers, Begin(w) PROVE Quiet(v)'
  <2>1. Quiet(v)
    BY <1>2 DEF Begin
  <2>2. CASE v # w
    BY <1>2, <2>1, <2>2 DEF Begin, Quiet, WritesBack, TypeOK
  <2>3. CASE v = w /\ call[w].field \in Alone
    BY <1>2, <2>1, <2>3 DEF Begin, Quiet, WritesBack, TypeOK
  <2>4. CASE v = w /\ call[w].field \notin Alone
    <3>1. replies = <<>> /\ pc'[v] = "ask" /\ reply'[v] = "pending"
      BY <1>2, <2>4 DEF Begin, TypeOK
    <3>2. Len(replies) = 0
      BY <3>1, EmptySeq
    <3> QED
      BY <1>2, <3>1, <3>2 DEF Begin, Quiet, WritesBack
  <2> QED
    BY <2>2, <2>3, <2>4
<1>3. ASSUME NEW w \in Writers, Ask(w) PROVE Quiet(v)'
  <2>1. Quiet(v) /\ settings' = settings /\ Answer
    BY <1>3 DEF Ask
  <2>2. pc'[v] \in {"ask", "answer"} => pc[v] \in {"ask", "answer"}
    BY <1>3 DEF Ask, TypeOK
  <2>3. pc'[v] = "write" => pc[v] = "write"
    BY <1>3 DEF Ask, TypeOK
  <2> QED
    BY <1>3, <2>1, <2>2, <2>3, AnswerAgrees DEF Ask, Quiet, WritesBack
<1>4. ASSUME NEW w \in Writers, Answered(w) PROVE Quiet(v)'
  <2>1. Quiet(v)
    BY <1>4 DEF Answered
  <2>2. CASE v # w
    BY <1>4, <2>1, <2>2 DEF Answered, Quiet, WritesBack, TypeOK
  <2>3. CASE v = w
    <3>1. /\ shown = settings
          /\ pc'[v] = "write"
          /\ reply'[v] = "none"
          /\ block'[v] = [shown EXCEPT ![call[v].field] = call[v].value]
      BY <1>4, <2>1, <2>3 DEF Answered, Quiet, TypeOK
    <3>2. \A f \in Fields \ {call[v].field} : block'[v][f] = settings[f]
      BY <3>1 DEF TypeOK, Blocks
    <3> QED
      BY <1>4, <3>1, <3>2 DEF Answered, Quiet, WritesBack
  <2> QED
    BY <2>2, <2>3
<1>5. ASSUME NEW w \in Writers, Write(w) PROVE Quiet(v)'
  <2>1. pc[w] = "write" /\ pc'[w] = "request" /\ reply' = reply
    BY <1>5 DEF Write, TypeOK
  <2>2. CASE v = w
    BY <2>1, <2>2 DEF Quiet, WritesBack, Waits
  <2>3. CASE v # w
    <3>1. pc'[v] = pc[v] /\ pc[v] \in {"idle", "lock"}
      BY <1>5, <2>1, <2>3, OneOwner DEF Write, TypeOK
    <3> QED
      BY <2>1, <3>1 DEF Quiet, WritesBack, Waits
  <2> QED
    BY <2>2, <2>3
<1>6. ASSUME NEW w \in Writers, TimeOut(w) \/ Request(w) \/ SendFails(w)
      PROVE  Quiet(v)'
  <2>1. /\ Return(w)
        /\ pc[w] \notin {"idle", "lock"}
        /\ pc'[w] = "idle"
        /\ reply'[w] = "none"
    BY <1>6 DEF TimeOut, Request, SendFails, Return, TypeOK
  <2>2. CASE v = w
    BY <2>1, <2>2 DEF Quiet, WritesBack
  <2>3. CASE v # w
    <3>1. pc'[v] = pc[v] /\ reply'[v] = reply[v] /\ pc[v] \in {"idle", "lock"}
      BY <2>1, <2>3, OneOwner DEF Return, TypeOK
    <3> QED
      BY <3>1 DEF Quiet, WritesBack, Waits
  <2> QED
    BY <2>2, <2>3
<1>7. CASE OnConfig
  <2>1. Quiet(v)
    BY <1>7 DEF OnConfig
  <2>2. /\ Head(replies) = replies[1]
        /\ Len(replies) \in Nat \ {0}
        /\ Len(replies') = Len(replies) - 1
        /\ \A i \in 1..Len(replies') : replies'[i] = replies[i + 1]
    BY <1>7, TailAgrees DEF OnConfig
  <2>3. pc[v] \in {"ask", "answer"} =>
            /\ shown' = settings
            /\ \A i \in 1..Len(replies') : replies'[i] = settings
    BY <1>7, <2>1, <2>2 DEF OnConfig, Quiet
  <2>4. reply'[v] = "done" => pc[v] \in {"ask", "answer"}
    BY <1>7 DEF OnConfig, Waits, TypeOK
  <2> QED
    BY <1>7, <2>1, <2>3, <2>4 DEF OnConfig, Quiet, WritesBack
<1>8. CASE OnConfigUnreadable
  <2>1. Quiet(v)
    BY <1>8 DEF OnConfigUnreadable, setters
  <2>2. /\ Len(replies) \in Nat \ {0}
        /\ Len(replies') = Len(replies) - 1
        /\ \A i \in 1..Len(replies') : replies'[i] = replies[i + 1]
    BY <1>8, TailAgrees DEF OnConfigUnreadable
  <2>3. pc[v] \in {"ask", "answer"} =>
            \A i \in 1..Len(replies') : replies'[i] = settings
    BY <2>1, <2>2 DEF Quiet
  <2> QED
    BY <1>8, <2>1, <2>3 DEF OnConfigUnreadable, setters, Quiet, WritesBack
<1>9. CASE Refresh
  <2>1. Quiet(v) /\ Answer /\ settings' = settings
    BY <1>9 DEF Refresh, setters
  <2> QED
    BY <1>9, <2>1, AnswerAgrees DEF Refresh, setters, Quiet, WritesBack
<1>10. ASSUME NEW b \in Blocks, DeviceChanges(b) PROVE Quiet(v)'
  <2>1. pc[v] \notin {"ask", "answer", "write"} /\ pc' = pc /\ reply' = reply
    BY <1>10 DEF DeviceChanges
  <2> QED
    BY <2>1 DEF Quiet, WritesBack, Waits
<1>11. CASE LinkDrops
  <2>1. Quiet(v)
    BY <1>11 DEF LinkDrops, setters
  <2> QED
    BY <1>11, <2>1 DEF LinkDrops, setters, Quiet, WritesBack
<1>12. CASE Reconnect
  <2>1. pc[v] = "idle" /\ pc' = pc /\ reply' = reply
    BY <1>12 DEF Reconnect, setters
  <2> QED
    BY <2>1 DEF Quiet, WritesBack, Waits
<1>13. CASE UNCHANGED vars
  BY <1>13 DEF vars, setters, Quiet, WritesBack
<1> QED
  BY <1>1, <1>2, <1>3, <1>4, <1>5, <1>6, <1>7, <1>8, <1>9, <1>10, <1>11, <1>12, <1>13
  DEF Next, Setter

\* Whoever changes the UPS asks for its values, or they count as unseen.
LEMMA StepCatching ==
    ASSUME Ordered, [Next]_vars
    PROVE  Catching'
<1> USE DEF Ordered
<1>1. ASSUME NEW w \in Writers, NEW c \in Calls, Call(w, c) PROVE Catching'
  <2>1. \A v \in Writers : pc'[v] # "request" => pc[v] # "request"
    BY <1>1 DEF Call, TypeOK
  <2> QED
    BY <1>1, <2>1 DEF Call, Catching, Shown
<1>2. ASSUME NEW w \in Writers, Begin(w) \/ Answered(w) PROVE Catching'
  <2>1. \A v \in Writers : pc'[v] # "request" => pc[v] # "request"
    BY <1>2 DEF Begin, Answered, TypeOK
  <2> QED
    BY <1>2, <2>1 DEF Begin, Answered, Catching, Shown
<1>3. ASSUME NEW w \in Writers, Ask(w) PROVE Catching'
  <2>1. Answer /\ settings' = settings
    BY <1>3 DEF Ask
  <2> QED
    BY <1>3, <2>1, AnswerAgrees DEF Ask, Answer, Catching
<1>4. ASSUME NEW w \in Writers, Write(w) PROVE Catching'
  <2>1. pc'[w] = "request"
    BY <1>4 DEF Write, TypeOK
  <2> QED
    BY <1>4, <2>1 DEF Write, Catching
<1>5. ASSUME NEW w \in Writers, TimeOut(w) \/ SendFails(w) PROVE Catching'
  <2>1. \A v \in Writers : v # w => pc'[v] = pc[v]
    BY <1>5 DEF TimeOut, SendFails, Return, TypeOK
  <2>2. CASE pc[w] = "request"
    BY <1>5, <2>2 DEF TimeOut, SendFails, Catching
  <2>3. CASE pc[w] # "request"
    BY <1>5, <2>1, <2>3 DEF TimeOut, SendFails, Catching, Shown
  <2> QED
    BY <2>2, <2>3
<1>6. ASSUME NEW w \in Writers, Request(w) PROVE Catching'
  <2>1. Answer /\ settings' = settings
    BY <1>6 DEF Request
  <2> QED
    BY <1>6, <2>1, AnswerAgrees DEF Request, Answer, Catching
<1>7. CASE OnConfig \/ OnConfigUnreadable
  <2>1. /\ Head(replies) = replies[1]
        /\ Len(replies) \in Nat \ {0}
        /\ Len(replies') = Len(replies) - 1
        /\ \A i \in 1..Len(replies') : replies'[i] = replies[i + 1]
        /\ replies' = <<>> <=> Len(replies) = 1
        /\ replies # <<>>
    BY <1>7, TailAgrees DEF OnConfig, OnConfigUnreadable
  <2>2. CASE Len(replies) = 1 /\ OnConfig
    BY <2>1, <2>2 DEF OnConfig, Catching, Shown
  <2>3. CASE Len(replies) = 1 /\ OnConfigUnreadable
    BY <2>1, <2>3 DEF OnConfigUnreadable, setters, Catching
  <2>4. CASE Len(replies) # 1
    <3>1. Shown' = Shown
      BY <2>1, <2>4 DEF Shown
    <3> QED
      BY <1>7, <2>1, <2>4, <3>1 DEF OnConfig, OnConfigUnreadable, setters, Catching
  <2> QED
    BY <1>7, <2>2, <2>3, <2>4
<1>8. CASE Refresh
  <2>1. Answer /\ settings' = settings
    BY <1>8 DEF Refresh
  <2> QED
    BY <1>8, <2>1, AnswerAgrees DEF Refresh, Answer, setters, Catching
<1>9. CASE \/ LinkDrops \/ Reconnect \/ (\E b \in Blocks : DeviceChanges(b))
           \/ UNCHANGED vars
  BY <1>9 DEF LinkDrops, Reconnect, DeviceChanges, vars, setters, Catching, Shown
<1> QED
  BY <1>1, <1>2, <1>3, <1>4, <1>5, <1>6, <1>7, <1>8, <1>9 DEF Next, Setter

-----------------------------------------------------------------------------
\* A new device has no setters, no answers on their way and nothing shown.
LEMMA InitOrdered == Init => Ordered
<1> SUFFICES ASSUME Init PROVE Ordered
  OBVIOUS
<1>1. Len(lock) = 0 /\ Len(replies) = 0
  BY EmptySeq DEF Init
<1>2. Turns
  BY <1>1 DEF Init, Turns
<1>3. Waits
  BY DEF Init, Waits
<1>4. \A w \in Writers : Quiet(w)
  BY DEF Init, Quiet, WritesBack
<1>5. Catching
  BY DEF Init, Catching
<1> QED
  BY <1>2, <1>3, <1>4, <1>5, InitType DEF Ordered

\* The turns of the setters, their futures and the answers stay in order.
THEOREM AlwaysOrdered == Spec => []Ordered
<1>1. Init => Ordered
  BY InitOrdered
<1>2. Ordered /\ [Next]_vars => Ordered'
  <2> SUFFICES ASSUME Ordered, [Next]_vars PROVE Ordered'
    OBVIOUS
  <2>1. TypeOK' /\ Turns' /\ Waits'
    BY StepType, StepTurns, StepWaits DEF Ordered
  <2>2. \A w \in Writers : w \notin changed' \cup late' => Quiet(w)'
    BY StepQuiet
  <2>3. Catching'
    BY StepCatching
  <2> QED
    BY <2>1, <2>2, <2>3 DEF Ordered
<1> QED
  BY <1>1, <1>2, PTL DEF Spec

\* Every variable keeps its type.
THEOREM TypeAlwaysCorrect == Spec => []TypeOK
<1>1. Ordered => TypeOK
  BY DEF Ordered
<1> QED
  BY <1>1, AlwaysOrdered, PTL

\* A setter that began with no earlier answer on its way writes back the values the UPS
\* had, whichever setters run beside it (the screen and Wake-on-LAN setters).
THEOREM QuietAlwaysKeepsOtherValues == Spec => []QuietKeepsOtherValues
<1>1. Ordered => QuietKeepsOtherValues
  BY DEF Ordered, Quiet, QuietKeepsOtherValues
<1> QED
  BY <1>1, AlwaysOrdered, PTL

\* What is shown catches up with the UPS (_request_screen_timeout and
\* _request_wake_on_lan_trigger after a write).
THEOREM ShownAlwaysCatchesUp == Spec => []ShownCatchesUp
<1>1. Ordered => ShownCatchesUp
  BY DEF Ordered, Catching, Shown, ShownCatchesUp
<1> QED
  BY <1>1, AlwaysOrdered, PTL

\* _config_replies holds the future of the one setter that waits, or none.
THEOREM FuturesAlwaysAwaited == Spec => []FuturesAreAwaited
<1>1. ASSUME Ordered PROVE FuturesAreAwaited
  <2>1. \A w \in Writers : reply[w] # "none" => pc[w] \in {"ask", "answer"}
    BY <1>1 DEF Ordered, Waits
  <2>2. \A v, w \in Writers : reply[v] # "none" /\ reply[w] # "none" => v = w
    BY <1>1, <2>1, OneOwner DEF Ordered
  <2> QED
    BY <2>1, <2>2 DEF FuturesAreAwaited
<1> QED
  BY <1>1, AlwaysOrdered, PTL
=============================================================================

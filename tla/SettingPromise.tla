--------------------------- MODULE SettingPromise ---------------------------
(***************************************************************************)
(* What the setters of a block of settings promise those who call them,    *)
(* without locks, reads, forwarding, retries and lost results: a setter    *)
(* puts nothing but its value into its rating, leaves what was confirmed   *)
(* of the other rating alone, and claims success only for a value that is  *)
(* saved and that no other setter touches before it returns.  Whoever      *)
(* changes the settings past the setters releases them from this.          *)
(***************************************************************************)

CONSTANTS Writers,  \* setters
          Names,    \* names of the settings in a block
          Blocks,   \* what the UPS may save
          Calls,    \* the rating and value a setter may be called with
          NoCall,   \* that of a setter that does not run
          Unknown   \* no value was confirmed

VARIABLES
    board,   \* the block that is saved
    stage,   \* of each setter: "idle", "trying" or "done"
    call,    \* the rating and value each setter was called with
    wanted,  \* values confirmed and not written since
    app      \* setters that have not written since somebody else did

vars == <<board, stage, call, wanted, app>>

Init ==
    /\ board \in Blocks
    /\ stage = [w \in Writers |-> "idle"]
    /\ call = [w \in Writers |-> NoCall]
    /\ wanted = [n \in Names |-> Unknown]
    /\ app = {}

Begin(w, c) ==
    /\ stage[w] = "idle"
    /\ stage' = [stage EXCEPT ![w] = "trying"]
    /\ call' = [call EXCEPT ![w] = c]
    /\ UNCHANGED <<board, wanted, app>>

\* a write may be saved or lost, and may bring along what an earlier one left unconfirmed
Write(w) ==
    /\ stage[w] = "trying"
    /\ \A v \in Writers : stage[v] # "done"
    /\ board' \in Blocks
    /\ board' # board => board'[call[w].rating] = call[w].value
    /\ \A n \in Names \ {call[w].rating} : wanted[n] # Unknown => board'[n] = board[n]
    /\ wanted' = [wanted EXCEPT ![call[w].rating] = Unknown]
    /\ app' = app \ {w}
    /\ UNCHANGED <<stage, call>>

Confirm(w) ==
    /\ stage[w] = "trying"
    /\ \A v \in Writers : stage[v] # "done"
    /\ stage' = [stage EXCEPT ![w] = "done"]
    /\ w \notin app => board[call[w].rating] = call[w].value
    /\ wanted' = IF w \in app THEN wanted
                 ELSE [wanted EXCEPT ![call[w].rating] = call[w].value]
    /\ UNCHANGED <<board, call, app>>

\* with an error while it is trying
Return(w) ==
    /\ stage[w] # "idle"
    /\ stage' = [stage EXCEPT ![w] = "idle"]
    /\ call' = [call EXCEPT ![w] = NoCall]
    /\ app' = app \ {w}
    /\ UNCHANGED <<board, wanted>>

ChangedElsewhere ==
    /\ board' \in Blocks
    /\ wanted' = [n \in Names |-> Unknown]
    /\ app' = {w \in Writers : stage[w] # "idle"}
    /\ UNCHANGED <<stage, call>>

Next ==
    \/ \E w \in Writers : \/ \E c \in Calls : Begin(w, c)
                          \/ Write(w) \/ Confirm(w) \/ Return(w)
    \/ ChangedElsewhere

Spec == Init /\ [][Next]_vars

\* What was confirmed is saved, and so is what a setter is about to claim.
ClaimsHold ==
    /\ \A n \in Names : wanted[n] # Unknown => board[n] = wanted[n]
    /\ \A w \in Writers : stage[w] = "done" /\ w \notin app =>
           board[call[w].rating] = call[w].value
=============================================================================

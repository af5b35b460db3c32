--------------------------- MODULE SessionPromise ---------------------------
(***************************************************************************)
(* What a Connection promises the integration that uses it, without its    *)
(* links, handshake and callbacks: a session that came up, or an attempt   *)
(* that began, ends either because the caller closes it or after the       *)
(* on_disconnect listeners were told.  A caller that holds a session may   *)
(* therefore wait for the listeners and need not poll the connection.      *)
(***************************************************************************)

VARIABLES session,  \* what the caller of connect() and disconnect() deals with
          told      \* whether on_disconnect was called since connect began or succeeded

vars == <<session, told>>

Sessions == {"none", "starting", "up", "raised", "ended"}

TypeOK == session \in Sessions /\ told \in BOOLEAN

Init == session = "none" /\ told = FALSE

\* the caller starts an attempt
Begin == /\ session \in {"none", "ended"}
         /\ session' = "starting"
         /\ told' = FALSE

Succeed == /\ session = "starting"
           /\ session' = "up"
           /\ told' = FALSE

\* an attempt fails, a session ends, or trouble shows on a link nobody waits for
End == session # "raised" /\ session' = "ended" /\ told' = TRUE

\* trouble that leaves the attempt, or the caller's way out of one, as it is
Warn == session # "up" /\ told' = TRUE /\ UNCHANGED session

\* an exception outside the documented ones leaves the attempt, and a link it may have, to
\* the caller: no new one begins before the caller closed it
Abandon == session = "starting" /\ session' = "raised" /\ UNCHANGED told

Close == session \in {"up", "raised", "ended"} /\ session' = "none" /\ UNCHANGED told

Next == Begin \/ Succeed \/ End \/ Warn \/ Abandon \/ Close

Spec == Init /\ [][Next]_vars
=============================================================================

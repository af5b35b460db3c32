-------------------------- MODULE ConfigFlowProofs --------------------------
(* Safety of ConfigFlow for any number of flows, and of the entry beside them.  *)
EXTENDS ConfigFlow, EntryLifecycleProofs

\* Only a step that runs holds a link. A flow with the unique id is dropped when the entry
\* comes to be, and the ones that were discovered always have it.
FlowKept ==
    /\ FlowTypeOK
    /\ FormHoldsNoLink
    /\ live \cap known # {} => ~Configured
    /\ live \cap Discovered \subseteq known
    /\ \A f \in Flows : step[f] = "form" => f \in live

\* An entry that was removed stays so, unless a flow makes it again.
LEMMA RemovedStays ==
    ASSUME entry = "removed", [Next]_vars
    PROVE  entry' = "removed"
BY DEF Next, vars, SetUp, Operation, ConnectReturns, ConnectFails, ConnectRaises, CleanedUp,
       PlatformsReady, DisconnectReturns, PlatformsUnloaded, PlatformsNotUnloaded, Reload,
       UserReloads, ReloadBegins, Unload, Disable, Remove, Removed, SessionEnds, Warned,
       Advertise, Forget

\* A new entry keeps everything that was proved of one that is set up.
LEMMA CreatedKept ==
    ASSUME Kept, NEW f \in Flows, CreateEntry(f)
    PROVE  Kept'
<1>1. /\ entry = "removed" /\ Setup /\ next' = "setup" /\ reloads' = 0
      /\ listening' = FALSE /\ present' = present
  BY DEF CreateEntry, Configured
<1>2. /\ entry' \in {"retry", "connecting"}
      /\ Promise!TypeOK'
      /\ timer' \in BOOLEAN /\ callbacks' \in {0, 1}
      /\ entry' = "retry" => timer'
      /\ callbacks' # 0 => entry' = "retry"
      /\ IF entry' = "connecting" THEN session' = "starting"
         ELSE session' \in {"none", "ended"}
  BY <1>1, SetupKeeps
<1>3. reloads' \in 0..MaxReloads
  BY <1>1, MaxReloadsAssumption
<1>4. TypeOK'
  BY <1>1, <1>2, <1>3 DEF Kept, TypeOK, Entries, Busy
<1> QED
  BY <1>1, <1>2, <1>4 DEF Kept, EndedSessionReloads, NoStraySession, RetryIsWoken,
                          CallbackOnlyWaits, RequestsFit

\* Every step of a flow keeps the flows.
LEMMA FlowStepKept ==
    ASSUME FlowKept, NEW f \in Flows, FlowStep(f)
    PROVE  FlowKept'
<1> USE DEF FlowKept, FlowTypeOK, FormHoldsNoLink, Configured, Running
<1>1. CASE Discover(f)
  BY <1>1 DEF Discover, vars
<1>2. CASE Start(f)
  BY <1>2, FlowsAssumption DEF Start, vars
<1>3. CASE Submit(f)
  <2>1. CASE f \in Discovered
    BY <1>3, <2>1, FlowsAssumption DEF Submit, vars
  <2>2. CASE f \in Started /\ Confirm(f)
    BY <1>3, <2>2, FlowsAssumption DEF Submit, Confirm, vars
  <2> QED
    BY <1>3, <2>1, <2>2 DEF Submit
<1>4. CASE Verified(f)
  BY <1>4 DEF Verified, vars
<1>5. CASE Refused(f)
  BY <1>5 DEF Refused, vars
<1>6. CASE ShowError(f)
  BY <1>6 DEF ShowError, Disconnects, vars
<1>7. CASE CreateEntry(f)
  <2>1. /\ step[f] = "verified" /\ linked' = linked \ {f}
        /\ live' = live \ ({f} \cup known) /\ known' = known
        /\ step' = [g \in Flows |-> IF g = f \/ (g \in live \cap known /\ step[g] = "form")
                                    THEN "none" ELSE step[g]]
    BY <1>7 DEF CreateEntry, Disconnects
  <2>2. FlowTypeOK'
    BY <2>1
  <2>3. FormHoldsNoLink'
    BY <2>1
  <2>4. live' \cap known' = {}
    BY <2>1
  <2>5. live' \cap Discovered \subseteq known'
    BY <2>1
  <2>6. \A g \in Flows : step'[g] = "form" => g \in live'
    BY <2>1
  <2> QED
    BY <2>2, <2>3, <2>4, <2>5, <2>6
<1>8. CASE Ignored(f)
  BY <1>8 DEF Ignored, Disconnects, vars
<1>9. CASE FlowLinkDrops(f)
  BY <1>9 DEF FlowLinkDrops, vars
<1>10. CASE Dismiss(f)
  BY <1>10 DEF Dismiss, vars
<1> QED
  BY <1>1, <1>2, <1>3, <1>4, <1>5, <1>6, <1>7, <1>8, <1>9, <1>10 DEF FlowStep, FlowRuns

\* Only the creation of an entry is a step of both.
LEMMA FlowStepEntry ==
    ASSUME Kept, NEW f \in Flows, FlowStep(f)
    PROVE  Kept'
<1>1. CASE CreateEntry(f)
  BY <1>1, CreatedKept
<1>2. ASSUME UNCHANGED vars PROVE Kept'
  BY <1>2, StepKept
<1>3. CASE ~CreateEntry(f)
  BY <1>2, <1>3 DEF FlowStep, FlowRuns, Discover, Start, Submit, Verified, Refused,
                    ShowError, Ignored, FlowLinkDrops, Dismiss
<1> QED
  BY <1>1, <1>3

LEMMA FlowInitKept == FlowInit => Kept /\ FlowKept
<1> SUFFICES ASSUME FlowInit PROVE Kept /\ FlowKept
  OBVIOUS
<1>1. reloads \in 0..MaxReloads
  BY MaxReloadsAssumption DEF FlowInit
<1>2. TypeOK
  BY <1>1 DEF FlowInit, TypeOK, Entries, Busy, Promise!Init, Promise!TypeOK, Promise!Sessions
<1>3. Kept
  BY <1>2 DEF FlowInit, Kept, EndedSessionReloads, NoStraySession, RetryIsWoken,
              CallbackOnlyWaits, RequestsFit, Promise!Init
<1>4. FlowKept
  BY DEF FlowInit, FlowKept, FlowTypeOK, FormHoldsNoLink, Running
<1> QED
  BY <1>3, <1>4

\* The inductive invariant of the entry and the flows together.
THEOREM FlowsAlwaysKept == FlowSpec => [](Kept /\ FlowKept)
<1>1. Kept /\ FlowKept /\ [FlowNext]_allVars => Kept' /\ FlowKept'
  <2> SUFFICES ASSUME Kept, FlowKept, [FlowNext]_allVars PROVE Kept' /\ FlowKept'
    OBVIOUS
  <2>1. CASE \E f \in Flows : FlowStep(f)
    BY <2>1, FlowStepKept, FlowStepEntry
  <2>2. ASSUME [Next]_vars, UNCHANGED flows PROVE Kept' /\ FlowKept'
    <3>1. Kept'
      BY <2>2, StepKept
    <3>2. entry = "removed" => entry' = "removed"
      BY <2>2, RemovedStays
    <3>3. UNCHANGED <<step, live, known, linked>>
      BY <2>2 DEF flows
    <3>4. FlowKept'
      BY <3>2, <3>3 DEF FlowKept, FlowTypeOK, FormHoldsNoLink, Configured
    <3> QED
      BY <3>1, <3>4
  <2>3. CASE EntryStep(Next)
    BY <2>2, <2>3 DEF EntryStep
  <2>4. CASE UNCHANGED allVars
    BY <2>2, <2>4 DEF allVars
  <2> QED
    BY <2>1, <2>3, <2>4 DEF FlowNext
<1> QED
  BY <1>1, FlowInitKept, PTL DEF FlowSpec

\* A form that is open, or a flow that ended, keeps no entry from connecting
\* (_validate_device).
THEOREM FormNeverHoldsLink == FlowSpec => []FormHoldsNoLink
<1>1. FlowKept => FormHoldsNoLink
  BY DEF FlowKept
<1> QED
  BY <1>1, FlowsAlwaysKept, PTL

\* Two flows never both make an entry (async_step_device_confirm).
THEOREM AlwaysOneEntry == FlowSpec => []OneEntry
<1>1. FlowKept => OneEntry
  BY DEF FlowKept, OneEntry
<1> QED
  BY <1>1, FlowsAlwaysKept, PTL

\* Nothing the flows do on the UPS's only connection, or about the entry, costs the entry
\* what it keeps alone.
THEOREM EntryKeptBesideFlows ==
    FlowSpec => [](EndedSessionReloads /\ NoStraySession /\ RetryIsWoken /\ RequestsFit)
<1>1. Kept => EndedSessionReloads /\ NoStraySession /\ RetryIsWoken /\ RequestsFit
  BY DEF Kept
<1> QED
  BY <1>1, FlowsAlwaysKept, PTL
=============================================================================

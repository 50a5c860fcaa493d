----------------------------- MODULE RelayStack -----------------------------
(***************************************************************************)
(* The relay stack main.rs builds: DrainingRelay around LimitedRelay       *)
(* around the adapter.  A caller admitted by the gate runs the limiter as  *)
(* its inner relay; the gate's guard is dropped after the limiter's        *)
(* permits.  The adapter is the environment: it returns, or is cancelled   *)
(* with its caller, at any time.                                           *)
(***************************************************************************)
EXTENDS DrainingRelay, LimitedRelay

\* The tasks that call the gate are the ones it lets into the limiter.
ASSUME StackAssumption == Callers = Calls

stackVars == <<limitedVars, vars>>

StackInit == LimitedInit /\ Init

\* Steps of the gate that happen outside the limiter.
GateStep(c) ==
    /\ Admit(c) \/ Refuse(c) \/ PublishAdmission(c) \/ PublishReturn(c)
    /\ UNCHANGED limitedVars

\* The inner call runs while the caller holds its place in the gate.
LimiterStep(c) ==
    /\ caller[c] = "running"
    /\ \/ \E n \in 1..MaxSize : TakeRequest(c, n) \/ RefuseRequest(c, n)
       \/ TakePayload(c) \/ RefusePayload(c) \/ DropPermits(c)
    /\ UNCHANGED vars

\* Mutant: the gate's guard is dropped before the limiter's permits.
GuardDroppedFirst(c) ==
    /\ call[c] \in {"leaving", "returned"}
    /\ Return(c)
    /\ IF call[c] = "returned" THEN Leave(c) ELSE UNCHANGED limitedVars

\* The limiter's result, or its cancellation, drops the gate's guard.
GuardDropped(c) == Leave(c) /\ Return(c)

LifecycleStep == LifecycleNext /\ UNCHANGED limitedVars

StackNext ==
    \/ \E c \in Calls : GateStep(c) \/ LimiterStep(c) \/ GuardDropped(c)
    \/ LifecycleStep

StackSpec == StackInit /\ [][StackNext]_stackVars

\* Admitted calls make progress and the adapter bounds its calls.
StackFairSpec ==
    /\ StackSpec
    /\ \A c \in Calls :
          WF_stackVars(\/ (PublishAdmission(c) \/ PublishReturn(c))
                             /\ UNCHANGED limitedVars
                       \/ LimiterStep(c) \/ GuardDropped(c))

-----------------------------------------------------------------------------

\* The gate's count accounts for everything below it: when it is zero, every
\* permit of the limiter is back and no call is inside the adapter.
IdleMeansPermitsFree ==
    active = 0 => requests = Limit /\ payload_bytes = budget /\ SlotHolders = {}

\* After begin_shutdown the adapter is only ever entered by calls the gate
\* had admitted before.
NoAdapterCallAfterShutdown ==
    [][\A c \in Calls :
         ~accepting /\ call[c] # "inner" /\ call'[c] = "inner" => c \in atShutdown]_stackVars

\* Once the gate is closed the relay empties for good: the count is zero and
\* every permit of the limiter is back, whatever the calls in progress do.
StackDrains == ~accepting ~> [](active = 0 /\ SlotHolders = {})

=============================================================================

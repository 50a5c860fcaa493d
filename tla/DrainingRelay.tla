--------------------------- MODULE DrainingRelay ---------------------------
(***************************************************************************)
(* The shutdown gate of the relay stack (src/relay/draining.rs).           *)
(*                                                                         *)
(* Every relay call passes through broadcast; the process lifecycle calls  *)
(* begin_shutdown and may then call wait_for_idle.  The pair (accepting,   *)
(* active) is changed under one mutex; the new count is copied to a watch  *)
(* channel after the mutex is released, so the copies of two threads can   *)
(* land in either order.  The inner relay is the environment: a call       *)
(* returns, or is cancelled, at any time.                                  *)
(***************************************************************************)
EXTENDS Naturals, FiniteSets

CONSTANTS
    Callers,     \* tasks that call broadcast, each one call at a time
    MaxActive    \* largest value of the usize counter

ASSUME DrainingAssumption ==
    /\ IsFiniteSet(Callers)
    /\ MaxActive \in Nat \ {0}

VARIABLES
    accepting,   \* DrainState.accepting
    active,      \* DrainState.active
    published,   \* the watch channel's value
    caller,      \* where each caller stands
    seen,        \* the count each caller read under the mutex
                 \* and has yet to publish
    lifecycle,   \* where the process lifecycle stands
    reported,    \* the count begin_shutdown returns
    atShutdown   \* ghost: the calls begin_shutdown found admitted

vars == <<accepting, active, published, caller, seen, lifecycle, reported,
          atShutdown>>

CallerPcs == {"idle", "refused", "admitted", "running", "returned"}
LifecyclePcs == {"serving", "closed", "shut", "waiting", "idle", "expired"}

TypeOK ==
    /\ accepting \in BOOLEAN
    /\ active \in 0..MaxActive
    /\ published \in 0..MaxActive
    /\ caller \in [Callers -> CallerPcs]
    /\ seen \in [Callers -> 0..MaxActive]
    /\ lifecycle \in LifecyclePcs
    /\ reported \in 0..MaxActive
    /\ atShutdown \in SUBSET Callers

\* DrainingRelay::new
Init ==
    /\ accepting = TRUE /\ active = 0 /\ published = 0
    /\ caller = [c \in Callers |-> "idle"]
    /\ seen = [c \in Callers |-> 0]
    /\ lifecycle = "serving" /\ reported = 0 /\ atShutdown = {}

\* Calls holding a place in the active count.
Admitted == {c \in Callers : caller[c] \in {"admitted", "running"}}

-----------------------------------------------------------------------------
(* broadcast, and the drop of its ActiveRelayCall *)

\* Mutant: admission does not look at accepting.
GateIgnored == active < MaxActive

\* Admission needs an open gate and room in the counter (checked_add).
GateOpen == accepting /\ active < MaxActive

\* Under the mutex: count the call.
Admit(c) ==
    /\ caller[c] \in {"idle", "refused"}
    /\ GateOpen
    /\ active' = active + 1
    /\ seen' = [seen EXCEPT ![c] = active + 1]
    /\ caller' = [caller EXCEPT ![c] = "admitted"]
    /\ UNCHANGED <<accepting, published, lifecycle, reported, atShutdown>>

\* Under the mutex: the early returns with RelayError::failed.
Refuse(c) ==
    /\ caller[c] \in {"idle", "refused"}
    /\ ~GateOpen
    /\ caller' = [caller EXCEPT ![c] = "refused"]
    /\ UNCHANGED <<accepting, active, published, seen, lifecycle, reported,
                   atShutdown>>

\* active.send_replace, then the guard and the inner call.
PublishAdmission(c) ==
    /\ caller[c] = "admitted"
    /\ published' = seen[c]
    /\ seen' = [seen EXCEPT ![c] = 0]
    /\ caller' = [caller EXCEPT ![c] = "running"]
    /\ UNCHANGED <<accepting, active, lifecycle, reported, atShutdown>>

\* Mutant: the guard forgets to give its place back.
ActiveKept == active

ActiveAfterDrop == IF active > 0 THEN active - 1 ELSE active

\* The inner call returned or its future was dropped: ActiveRelayCall::drop
\* takes the mutex.
Return(c) ==
    /\ caller[c] = "running"
    /\ active' = ActiveAfterDrop
    /\ seen' = [seen EXCEPT ![c] = ActiveAfterDrop]
    /\ caller' = [caller EXCEPT ![c] = "returned"]
    /\ UNCHANGED <<accepting, published, lifecycle, reported, atShutdown>>

PublishReturn(c) ==
    /\ caller[c] = "returned"
    /\ published' = seen[c]
    /\ seen' = [seen EXCEPT ![c] = 0]
    /\ caller' = [caller EXCEPT ![c] = "idle"]
    /\ UNCHANGED <<accepting, active, lifecycle, reported, atShutdown>>

-----------------------------------------------------------------------------
(* RelayDrainHandle *)

\* Under the mutex: close the gate and read the count.
BeginShutdown ==
    /\ lifecycle = "serving"
    /\ accepting' = FALSE
    /\ reported' = active
    /\ atShutdown' = Admitted
    /\ lifecycle' = "closed"
    /\ UNCHANGED <<active, published, caller, seen>>

PublishShutdown ==
    /\ lifecycle = "closed"
    /\ published' = reported
    /\ lifecycle' = "shut"
    /\ UNCHANGED <<accepting, active, caller, seen, reported, atShutdown>>

\* wait_for_idle subscribes and looks at the watch's value ...
WaitForIdle ==
    /\ lifecycle = "shut"
    /\ lifecycle' = IF published = 0 THEN "idle" ELSE "waiting"
    /\ UNCHANGED <<accepting, active, published, caller, seen, reported, atShutdown>>

\* ... and again whenever it changes: it returns true at 0 ...
WaitSeesIdle ==
    /\ lifecycle = "waiting"
    /\ published = 0
    /\ lifecycle' = "idle"
    /\ UNCHANGED <<accepting, active, published, caller, seen, reported, atShutdown>>

\* ... and false when the timeout fires.
WaitExpires ==
    /\ lifecycle = "waiting"
    /\ lifecycle' = "expired"
    /\ UNCHANGED <<accepting, active, published, caller, seen, reported, atShutdown>>

CallerNext(c) ==
    \/ Admit(c) \/ Refuse(c) \/ PublishAdmission(c) \/ Return(c) \/ PublishReturn(c)

LifecycleNext ==
    \/ BeginShutdown \/ PublishShutdown
    \/ WaitForIdle \/ WaitSeesIdle \/ WaitExpires

Next == (\E c \in Callers : CallerNext(c)) \/ LifecycleNext

Spec == Init /\ [][Next]_vars

-----------------------------------------------------------------------------

\* The counter is exactly the number of admitted calls that have not given
\* their place back, through every interleaving of calls, returns,
\* cancellations and shutdown.
ActiveExact == active = Cardinality(Admitted)

\* begin_shutdown draws a line: the count it returns is the number of calls
\* admitted then, and every call that is in the relay afterwards is one of
\* those.  No call slips in between the check and the increment.
ShutdownIsABoundary ==
    ~accepting =>
        /\ reported = Cardinality(atShutdown)
        /\ Admitted \subseteq atShutdown

\* What wait_for_idle promises: true means that every call admitted before
\* the shutdown has returned.
IdleMeansReturned == lifecycle = "idle" => Admitted = {}

=============================================================================

-------------------------- MODULE RelayStackProofs --------------------------
(* Proofs about the relay stack, for any finite set of callers: the gate by  *)
(* itself, the limiter's semaphores, and the two together.                   *)
EXTENDS RelayStack, FiniteSetTheorems, TLAPS

-----------------------------------------------------------------------------
(* The gate *)

\* The gate is open exactly while begin_shutdown has not been called.
GateFollowsLifecycle == accepting <=> lifecycle = "serving"

\* The inductive invariant: the boundary needs the exact count at the instant
\* begin_shutdown reads it, and the exact count needs the typing.
GateInv == TypeOK /\ ActiveExact /\ GateFollowsLifecycle /\ ShutdownIsABoundary

\* The admitted calls are finitely many.
LEMMA AdmittedFinite == IsFiniteSet(Admitted)
BY DrainingAssumption, FS_Subset DEF Admitted

\* Admitting a call that is not yet admitted adds one to the number of
\* admitted calls (broadcast, under the mutex).
LEMMA AdmitAddsOne ==
    ASSUME TypeOK, NEW c \in Callers, c \notin Admitted,
           caller' = [caller EXCEPT ![c] = "admitted"]
    PROVE  /\ Admitted' = Admitted \cup {c}
           /\ Cardinality(Admitted') = Cardinality(Admitted) + 1
<1>1. Admitted' = Admitted \cup {c}
  BY DEF Admitted, TypeOK
<1>2. Cardinality(Admitted \cup {c}) = Cardinality(Admitted) + 1
  BY AdmittedFinite, FS_AddElement
<1> QED
  BY <1>1, <1>2

\* Dropping the guard of a running call takes one away
\* (ActiveRelayCall::drop); the count was positive.
LEMMA ReturnTakesOne ==
    ASSUME TypeOK, NEW c \in Callers, caller[c] = "running",
           caller' = [caller EXCEPT ![c] = "returned"]
    PROVE  /\ Admitted' = Admitted \ {c}
           /\ Cardinality(Admitted) \in Nat \ {0}
           /\ Cardinality(Admitted') = Cardinality(Admitted) - 1
<1>1. Admitted' = Admitted \ {c}
  BY DEF Admitted, TypeOK
<1>2. c \in Admitted
  BY DEF Admitted
<1>3. Cardinality(Admitted \ {c}) = Cardinality(Admitted) - 1
  BY <1>2, AdmittedFinite, FS_RemoveElement
<1>4. Cardinality(Admitted) \in Nat /\ Cardinality(Admitted) # 0
  BY <1>2, AdmittedFinite, FS_CardinalityType, FS_EmptySet
<1> QED
  BY <1>1, <1>3, <1>4

\* DrainingRelay::new establishes the invariant.
LEMMA GateInit == Init => GateInv
<1> SUFFICES ASSUME Init PROVE GateInv
  OBVIOUS
<1>1. TypeOK
  BY DrainingAssumption DEF Init, TypeOK, CallerPcs, LifecyclePcs
<1>2. Admitted = {}
  BY DEF Init, Admitted
<1> QED
  BY <1>1, <1>2, FS_EmptySet
  DEF Init, GateInv, ActiveExact, GateFollowsLifecycle, ShutdownIsABoundary

\* Every step of a caller or of the lifecycle preserves it.
LEMMA GatePreserved == GateInv /\ [Next]_vars => GateInv'
<1> SUFFICES ASSUME GateInv, [Next]_vars PROVE GateInv'
  OBVIOUS
<1> USE DrainingAssumption
<1>1. ASSUME NEW c \in Callers, Admit(c) PROVE GateInv'
  <2>1. c \notin Admitted /\ accepting /\ accepting'
    BY <1>1 DEF Admit, Admitted, GateOpen
  <2>2. TypeOK'
    BY <1>1 DEF GateInv, TypeOK, Admit, GateOpen, CallerPcs
  <2>3. Cardinality(Admitted') = Cardinality(Admitted) + 1
    BY <1>1, <2>1, AdmitAddsOne DEF GateInv, Admit
  <2> QED
    BY <1>1, <2>1, <2>2, <2>3
    DEF GateInv, Admit, ActiveExact, GateFollowsLifecycle, ShutdownIsABoundary
<1>2. ASSUME NEW c \in Callers, Return(c) PROVE GateInv'
  <2>1. /\ Admitted' = Admitted \ {c}
        /\ Cardinality(Admitted) \in Nat \ {0}
        /\ Cardinality(Admitted') = Cardinality(Admitted) - 1
    BY <1>2, ReturnTakesOne DEF GateInv, Return
  <2>2. ActiveAfterDrop = active - 1 /\ active - 1 \in 0..MaxActive
    BY <2>1 DEF GateInv, TypeOK, ActiveExact, ActiveAfterDrop
  <2>3. TypeOK'
    BY <1>2, <2>2 DEF GateInv, TypeOK, Return, CallerPcs
  <2> QED
    BY <1>2, <2>1, <2>2, <2>3
    DEF GateInv, Return, ActiveExact, GateFollowsLifecycle, ShutdownIsABoundary
<1>3. ASSUME NEW c \in Callers,
             Refuse(c) \/ PublishAdmission(c) \/ PublishReturn(c)
      PROVE  GateInv'
  <2>1. TypeOK'
    BY <1>3 DEF GateInv, TypeOK, Refuse, PublishAdmission, PublishReturn, CallerPcs
  <2>2. Admitted' = Admitted
    BY <1>3 DEF GateInv, TypeOK, Refuse, PublishAdmission, PublishReturn, Admitted
  <2> QED
    BY <1>3, <2>1, <2>2
    DEF GateInv, Refuse, PublishAdmission, PublishReturn, ActiveExact,
        GateFollowsLifecycle, ShutdownIsABoundary
<1>4. CASE BeginShutdown
  <2>1. TypeOK'
    BY <1>4 DEF GateInv, TypeOK, BeginShutdown, LifecyclePcs, Admitted
  <2>2. Admitted' = Admitted /\ atShutdown' = Admitted
    BY <1>4 DEF BeginShutdown, Admitted
  <2> QED
    BY <1>4, <2>1, <2>2
    DEF GateInv, BeginShutdown, ActiveExact, GateFollowsLifecycle, ShutdownIsABoundary
<1>5. CASE PublishShutdown \/ WaitForIdle \/ WaitSeesIdle \/ WaitExpires
  <2>1. TypeOK'
    BY <1>5 DEF GateInv, TypeOK, PublishShutdown, WaitForIdle, WaitSeesIdle,
                WaitExpires, LifecyclePcs
  <2>2. Admitted' = Admitted
    BY <1>5 DEF PublishShutdown, WaitForIdle, WaitSeesIdle, WaitExpires, Admitted
  <2> QED
    BY <1>5, <2>1, <2>2
    DEF GateInv, PublishShutdown, WaitForIdle, WaitSeesIdle, WaitExpires,
        ActiveExact, GateFollowsLifecycle, ShutdownIsABoundary
<1>6. CASE UNCHANGED vars
  <2>1. TypeOK' /\ Admitted' = Admitted
    BY <1>6 DEF GateInv, TypeOK, vars, Admitted
  <2> QED
    BY <1>6, <2>1
    DEF GateInv, vars, ActiveExact, GateFollowsLifecycle, ShutdownIsABoundary
<1> QED
  BY <1>1, <1>2, <1>3, <1>4, <1>5, <1>6 DEF Next, CallerNext, LifecycleNext

\* The inductive invariant holds in every reachable state.
THEOREM GateInvariant == Spec => []GateInv
BY GateInit, GatePreserved, PTL DEF Spec

\* The gate's state keeps its types: in particular the usize counter never
\* wraps and no stale count outside its range is ever published.
THEOREM GateTypeCorrect == Spec => []TypeOK
BY GateInvariant, PTL DEF GateInv

\* The active counter is exactly the number of admitted calls, for any number
\* of concurrent callers (broadcast and ActiveRelayCall::drop).
THEOREM ActiveCountExact == Spec => []ActiveExact
BY GateInvariant, PTL DEF GateInv

\* begin_shutdown is an atomic boundary: it reports the calls admitted then,
\* and no other call is in the relay afterwards.
THEOREM ShutdownBoundary == Spec => []ShutdownIsABoundary
BY GateInvariant, PTL DEF GateInv

-----------------------------------------------------------------------------
(* The stack and the gate *)

\* Every step of the stack is a step of the gate or none of its business.
LEMMA StackStepsAreGateSteps == [StackNext]_stackVars => [Next]_vars
<1> SUFFICES ASSUME [StackNext]_stackVars PROVE [Next]_vars
  OBVIOUS
<1> USE StackAssumption
<1>1. ASSUME NEW c \in Calls, GateStep(c) \/ GuardDropped(c) PROVE Next
  BY <1>1 DEF GateStep, GuardDropped, Next, CallerNext
<1>2. ASSUME NEW c \in Calls, LimiterStep(c) PROVE UNCHANGED vars
  BY <1>2 DEF LimiterStep
<1>3. CASE LifecycleStep
  BY <1>3 DEF LifecycleStep, Next
<1>4. CASE UNCHANGED stackVars
  BY <1>4 DEF stackVars
<1> QED
  BY <1>1, <1>2, <1>3, <1>4 DEF StackNext

\* The stack main.rs builds implements the gate by itself, in which the inner
\* relay may do anything: what holds of the gate holds of the stack.
THEOREM StackImplementsGate == StackSpec => Spec
BY StackStepsAreGateSteps, PTL DEF StackSpec, StackInit, Spec

\* Hence the gate's count is exact, and its shutdown a boundary, in the stack.
THEOREM StackKeepsGatePromises == StackSpec => [](ActiveExact /\ ShutdownIsABoundary)
BY StackImplementsGate, ActiveCountExact, ShutdownBoundary, PTL

-----------------------------------------------------------------------------
(* The limiter's permits *)

\* The limiter's types; no call in progress is longer than a u32 counts.
LimitedTypeOK ==
    /\ budget \in Nat
    /\ requests \in Nat
    /\ payload_bytes \in Nat
    /\ call \in [Calls -> {"out", "slot", "inner", "leaving", "returned"}]
    /\ size \in [Calls -> 0..MaxSize]
    /\ \A c \in Calls : size[c] <= PermitMax

\* The permits in use are finitely many.
LEMMA HoldersFinite ==
    /\ IsFiniteSet(SlotHolders) /\ Cardinality(SlotHolders) \in Nat
    /\ IsFiniteSet(PayloadHeld) /\ Cardinality(PayloadHeld) \in Nat
<1>1. IsFiniteSet(1..MaxSize)
  BY LimitedAssumption, FS_Interval
<1>2. IsFiniteSet(Calls \X (1..MaxSize))
  BY <1>1, LimitedAssumption, FS_Product
<1>3. SlotHolders \subseteq Calls /\ PayloadHeld \subseteq Calls \X (1..MaxSize)
  BY DEF SlotHolders, PayloadHeld
<1>4. IsFiniteSet(SlotHolders) /\ IsFiniteSet(PayloadHeld)
  BY <1>2, <1>3, LimitedAssumption, FS_Subset
<1> QED
  BY <1>4, FS_CardinalityType

\* A call has one payload permit for each byte of its transaction.
LEMMA BytesOfACall ==
    ASSUME NEW c, NEW n \in Nat
    PROVE  IsFiniteSet({c} \X (1..n)) /\ Cardinality({c} \X (1..n)) = n
<1>1. IsFiniteSet(1..n) /\ Cardinality(1..n) = n
  BY FS_Interval
<1>2. IsFiniteSet({c}) /\ Cardinality({c}) = 1
  BY FS_Singleton
<1> QED
  BY <1>1, <1>2, FS_Product

\* try_acquire_many: as many permits are held as are taken, no more, no less.
LEMMA PayloadTaken ==
    ASSUME LimitedTypeOK, NEW c \in Calls, call[c] # "inner",
           call' = [call EXCEPT ![c] = "inner"], size' = size
    PROVE  Cardinality(PayloadHeld') = Cardinality(PayloadHeld) + size[c]
<1> DEFINE Taken == {c} \X (1..size[c])
<1>1. size[c] \in Nat /\ size[c] <= MaxSize
  BY LimitedAssumption DEF LimitedTypeOK
<1>2. PayloadHeld' = PayloadHeld \cup Taken
  BY <1>1, LimitedAssumption DEF PayloadHeld, LimitedTypeOK
<1>3. PayloadHeld \cap Taken = {}
  BY DEF PayloadHeld
<1>4. Cardinality(PayloadHeld \cap Taken) = 0
  BY <1>3, FS_EmptySet
<1>5. IsFiniteSet(Taken) /\ Cardinality(Taken) = size[c]
  BY <1>1, BytesOfACall
<1>6. Cardinality(PayloadHeld \cup Taken)
        = Cardinality(PayloadHeld) + Cardinality(Taken) - Cardinality(PayloadHeld \cap Taken)
  BY <1>5, HoldersFinite, FS_Union
<1> QED
  BY <1>1, <1>2, <1>4, <1>5, <1>6, HoldersFinite

\* The drop of the payload permits gives as many back.
LEMMA PayloadGivenBack ==
    ASSUME LimitedTypeOK, NEW c \in Calls, call[c] = "inner",
           call' = [call EXCEPT ![c] = "leaving"], size' = [size EXCEPT ![c] = 0]
    PROVE  Cardinality(PayloadHeld') = Cardinality(PayloadHeld) - size[c]
<1> DEFINE Given == {c} \X (1..size[c])
<1>1. size[c] \in Nat /\ size[c] <= MaxSize
  BY LimitedAssumption DEF LimitedTypeOK
<1>2. PayloadHeld' = PayloadHeld \ Given
  BY <1>1, LimitedAssumption DEF PayloadHeld, LimitedTypeOK
<1>3. PayloadHeld \cap Given = Given
  BY <1>1, LimitedAssumption DEF PayloadHeld, LimitedTypeOK
<1>4. Cardinality(Given) = size[c]
  BY <1>1, BytesOfACall
<1>5. Cardinality(PayloadHeld \ Given)
        = Cardinality(PayloadHeld) - Cardinality(PayloadHeld \cap Given)
  BY HoldersFinite, FS_Difference
<1> HIDE DEF Given
<1> QED
  BY <1>2, <1>3, <1>4, <1>5

\* A call that is not in the adapter before or after a step neither takes nor
\* gives back payload permits.
LEMMA PayloadUntouched ==
    ASSUME LimitedTypeOK, NEW c \in Calls, NEW pc, NEW n, call[c] # "inner", pc # "inner",
           call' = [call EXCEPT ![c] = pc],
           size' = size \/ size' = [size EXCEPT ![c] = n]
    PROVE  PayloadHeld' = PayloadHeld
BY DEF PayloadHeld, LimitedTypeOK

-----------------------------------------------------------------------------
(* The stack's invariant *)

\* A call is in the limiter only while its caller holds its place in the gate.
InsideTheGate == \A c \in Calls : call[c] # "out" => caller[c] = "running"

\* The inductive invariant: the permits are counted exactly, which bounds what
\* others hold, and everything in the limiter is counted by the gate.
StackInv == GateInv /\ LimitedTypeOK /\ PermitsConserved /\ InsideTheGate

\* The stack main.rs builds starts in the invariant: every permit is free.
LEMMA StackInitially == StackInit => StackInv
<1> SUFFICES ASSUME StackInit PROVE StackInv
  OBVIOUS
<1>1. GateInv
  BY GateInit DEF StackInit
<1>2. LimitedTypeOK
  BY LimitedAssumption DEF StackInit, LimitedInit, LimitedTypeOK
<1>3. SlotHolders = {} /\ PayloadHeld = {}
  BY DEF StackInit, LimitedInit, SlotHolders, PayloadHeld
<1>4. PermitsConserved
  BY <1>2, <1>3, FS_EmptySet, LimitedAssumption
  DEF StackInit, LimitedInit, PermitsConserved, LimitedTypeOK
<1>5. InsideTheGate
  BY DEF StackInit, LimitedInit, InsideTheGate
<1> QED
  BY <1>1, <1>2, <1>4, <1>5 DEF StackInv

\* A step of the limiter conserves the permits and keeps the types.
LEMMA LimiterPreserved ==
    ASSUME LimitedTypeOK, PermitsConserved, NEW c \in Calls, LimiterStep(c)
    PROVE  LimitedTypeOK' /\ PermitsConserved'
<1> USE LimitedAssumption, HoldersFinite
<1>1. ASSUME NEW n \in 1..MaxSize, TakeRequest(c, n)
      PROVE  LimitedTypeOK' /\ PermitsConserved'
  <2>1. LimitedTypeOK'
    BY <1>1 DEF LimitedTypeOK, TakeRequest, Goes
  <2>2. PayloadHeld' = PayloadHeld
    BY <1>1, PayloadUntouched DEF TakeRequest, Goes
  <2>3. c \notin SlotHolders /\ SlotHolders' = SlotHolders \cup {c}
    BY <1>1 DEF LimitedTypeOK, TakeRequest, Goes, SlotHolders
  <2>4. Cardinality(SlotHolders') = Cardinality(SlotHolders) + 1
    BY <2>3, FS_AddElement
  <2> QED
    BY <1>1, <2>1, <2>2, <2>4 DEF PermitsConserved, LimitedTypeOK, TakeRequest
<1>2. ASSUME NEW n \in 1..MaxSize, RefuseRequest(c, n)
      PROVE  LimitedTypeOK' /\ PermitsConserved'
  <2>1. LimitedTypeOK'
    BY <1>2 DEF LimitedTypeOK, RefuseRequest, Goes
  <2>2. PayloadHeld' = PayloadHeld
    BY <1>2, PayloadUntouched DEF RefuseRequest, Goes
  <2>3. SlotHolders' = SlotHolders
    BY <1>2 DEF LimitedTypeOK, RefuseRequest, Goes, SlotHolders
  <2> QED
    BY <1>2, <2>1, <2>2, <2>3 DEF PermitsConserved, RefuseRequest
<1>3. CASE TakePayload(c)
  <2>1. LimitedTypeOK'
    BY <1>3 DEF LimitedTypeOK, TakePayload, PayloadFits, Goes
  <2>2. Cardinality(PayloadHeld') = Cardinality(PayloadHeld) + size[c]
    BY <1>3, PayloadTaken DEF TakePayload, Goes
  <2>3. SlotHolders' = SlotHolders
    BY <1>3 DEF LimitedTypeOK, TakePayload, Goes, SlotHolders
  <2>4. size[c] \in Nat
    BY DEF LimitedTypeOK
  <2> QED
    BY <1>3, <2>1, <2>2, <2>3, <2>4 DEF PermitsConserved, LimitedTypeOK, TakePayload
<1>4. CASE RefusePayload(c)
  <2>1. LimitedTypeOK'
    BY <1>4 DEF LimitedTypeOK, RefusePayload, GiveRequestBack, Goes
  <2>2. PayloadHeld' = PayloadHeld
    BY <1>4, PayloadUntouched DEF RefusePayload, Goes
  <2>3. c \in SlotHolders /\ SlotHolders' = SlotHolders \ {c}
    BY <1>4 DEF LimitedTypeOK, RefusePayload, Goes, SlotHolders
  <2>4. Cardinality(SlotHolders') = Cardinality(SlotHolders) - 1
    BY <2>3, FS_RemoveElement
  <2> QED
    BY <1>4, <2>1, <2>2, <2>4
    DEF PermitsConserved, LimitedTypeOK, RefusePayload, GiveRequestBack
<1>5. CASE DropPermits(c) /\ call[c] = "inner"
  <2>1. LimitedTypeOK'
    BY <1>5 DEF LimitedTypeOK, DropPermits, Goes
  <2>2. Cardinality(PayloadHeld') = Cardinality(PayloadHeld) - size[c]
    BY <1>5, PayloadGivenBack DEF DropPermits, Goes
  <2>3. SlotHolders' = SlotHolders
    BY <1>5 DEF LimitedTypeOK, DropPermits, Goes, SlotHolders
  <2>4. size[c] \in Nat
    BY DEF LimitedTypeOK
  <2> QED
    BY <1>5, <2>1, <2>2, <2>3, <2>4 DEF PermitsConserved, LimitedTypeOK, DropPermits
<1>6. CASE DropPermits(c) /\ call[c] = "leaving"
  <2>1. LimitedTypeOK'
    BY <1>6 DEF LimitedTypeOK, DropPermits, GiveRequestBack, Goes
  <2>2. PayloadHeld' = PayloadHeld
    BY <1>6, PayloadUntouched DEF DropPermits, Goes
  <2>3. c \in SlotHolders /\ SlotHolders' = SlotHolders \ {c}
    BY <1>6 DEF LimitedTypeOK, DropPermits, Goes, SlotHolders
  <2>4. Cardinality(SlotHolders') = Cardinality(SlotHolders) - 1
    BY <2>3, FS_RemoveElement
  <2> QED
    BY <1>6, <2>1, <2>2, <2>4
    DEF PermitsConserved, LimitedTypeOK, DropPermits, GiveRequestBack
<1> QED
  BY <1>1, <1>2, <1>3, <1>4, <1>5, <1>6 DEF LimiterStep, DropPermits

\* The limiter's state outside its own steps.
LEMMA LimiterUnchanged ==
    ASSUME LimitedTypeOK, PermitsConserved, UNCHANGED limitedVars
    PROVE  LimitedTypeOK' /\ PermitsConserved'
<1>1. SlotHolders' = SlotHolders /\ PayloadHeld' = PayloadHeld
  BY DEF limitedVars, SlotHolders, PayloadHeld
<1> QED
  BY <1>1 DEF limitedVars, LimitedTypeOK, PermitsConserved

\* Every step of the stack preserves the invariant.
LEMMA StackPreserved == StackInv /\ [StackNext]_stackVars => StackInv'
<1> SUFFICES ASSUME StackInv, [StackNext]_stackVars PROVE StackInv'
  OBVIOUS
<1> USE StackAssumption DEF StackInv
<1>1. GateInv'
  BY StackStepsAreGateSteps, GatePreserved
<1>2. ASSUME NEW c \in Calls, GateStep(c)
      PROVE  LimitedTypeOK' /\ PermitsConserved' /\ InsideTheGate'
  <2>1. LimitedTypeOK' /\ PermitsConserved' /\ call' = call
    BY <1>2, LimiterUnchanged DEF GateStep, limitedVars
  <2>2. \A d \in Calls : caller[d] = "running" => caller'[d] = "running"
    BY <1>2 DEF GateStep, Admit, Refuse, PublishAdmission, PublishReturn, GateInv, TypeOK
  <2> QED
    BY <2>1, <2>2 DEF InsideTheGate
<1>3. ASSUME NEW c \in Calls, LimiterStep(c)
      PROVE  LimitedTypeOK' /\ PermitsConserved' /\ InsideTheGate'
  <2>1. LimitedTypeOK' /\ PermitsConserved'
    BY <1>3, LimiterPreserved
  <2>2. \A d \in Calls \ {c} : call'[d] = call[d]
    BY <1>3 DEF LimiterStep, TakeRequest, RefuseRequest, TakePayload, RefusePayload,
                DropPermits, Goes, LimitedTypeOK
  <2>3. caller[c] = "running" /\ caller' = caller
    BY <1>3 DEF LimiterStep, vars
  <2> QED
    BY <2>1, <2>2, <2>3 DEF InsideTheGate
<1>4. ASSUME NEW c \in Calls, GuardDropped(c)
      PROVE  LimitedTypeOK' /\ PermitsConserved' /\ InsideTheGate'
  <2>1. LimitedTypeOK'
    BY <1>4 DEF GuardDropped, Leave, Goes, LimitedTypeOK
  <2>2. SlotHolders' = SlotHolders
    BY <1>4 DEF GuardDropped, Leave, Goes, SlotHolders, LimitedTypeOK
  <2>3. PayloadHeld' = PayloadHeld
    BY <1>4, PayloadUntouched DEF GuardDropped, Leave, Goes
  <2>4. PermitsConserved'
    BY <1>4, <2>2, <2>3 DEF GuardDropped, Leave, PermitsConserved
  <2>5. InsideTheGate'
    BY <1>4 DEF GuardDropped, Leave, Return, Goes, InsideTheGate, LimitedTypeOK, GateInv,
                TypeOK
  <2> QED
    BY <2>1, <2>4, <2>5
<1>5. CASE LifecycleStep \/ UNCHANGED stackVars
  <2>1. UNCHANGED limitedVars /\ caller' = caller
    BY <1>5 DEF LifecycleStep, LifecycleNext, BeginShutdown, PublishShutdown, WaitForIdle,
                WaitSeesIdle, WaitExpires, stackVars, vars
  <2> QED
    BY <1>1, <2>1, LimiterUnchanged DEF InsideTheGate, limitedVars
<1> QED
  BY <1>1, <1>2, <1>3, <1>4, <1>5 DEF StackNext

\* The inductive invariant holds in every reachable state of the stack.
THEOREM StackInvariant == StackSpec => []StackInv
BY StackInitially, StackPreserved, PTL DEF StackSpec

\* Both semaphores of LimitedRelay conserve their permits, for any number of
\* calls, any sizes and any limits.
THEOREM PermitsAreConserved == StackSpec => []PermitsConserved
BY StackInvariant, PTL DEF StackInv

\* A product grows with its first factor.
LEMMA ProductGrows ==
    ASSUME NEW a \in Nat, NEW b \in Nat, NEW k \in Nat, a <= b
    PROVE  a * k \in Nat /\ b * k = a * k + (b - a) * k /\ (b - a) * k >= 0
<1>1. a * k \in Nat /\ (b - a) * k \in Nat /\ b * k = a * k + (b - a) * k
  BY SMT
<1> QED
  BY <1>1

\* While one call holds a slot and no payload, the others are fewer than
\* Limit and each holds at most Longest bytes: what is held leaves room for
\* one more.
LEMMA RoomForOneMore ==
    ASSUME StackInv, NEW c \in Calls, call[c] = "slot"
    PROVE  Cardinality(PayloadHeld) + Longest <= Limit * Longest
<1> DEFINE Others == SlotHolders \ {c}
           Room == Others \X (1..Longest)
<1> USE LimitedAssumption
<1>1. Longest \in Nat /\ Longest <= MaxSize
  BY DEF Longest
<1>2. IsFiniteSet(1..Longest) /\ Cardinality(1..Longest) = Longest
  BY <1>1, FS_Interval
<1>3. c \in SlotHolders
  BY DEF SlotHolders
<1>4. IsFiniteSet(Others) /\ Cardinality(Others) = Cardinality(SlotHolders) - 1
  BY <1>3, HoldersFinite, FS_RemoveElement
<1>5. Cardinality(Others) \in Nat /\ Cardinality(Others) + 1 <= Limit
  BY <1>4, HoldersFinite, FS_CardinalityType DEF StackInv, PermitsConserved, LimitedTypeOK
<1>6. IsFiniteSet(Room) /\ Cardinality(Room) = Cardinality(Others) * Longest
  BY <1>2, <1>4, FS_Product
<1>7. PayloadHeld \subseteq Room
  BY <1>1 DEF PayloadHeld, SlotHolders, Longest, StackInv, LimitedTypeOK
<1>8. Cardinality(PayloadHeld) <= Cardinality(Room)
  BY <1>6, <1>7, FS_Subset
<1> HIDE DEF Others, Room
<1> DEFINE n == Cardinality(Others)
<1>9. (n + 1) * Longest = n * Longest + Longest
  BY <1>1, <1>5, SMT
<1>10. n + 1 \in Nat /\ Limit \in Nat
  BY <1>5
<1>11. (n + 1) * Longest <= Limit * Longest
  BY <1>1, <1>5, <1>10, ProductGrows
<1> QED
  BY <1>1, <1>5, <1>6, <1>8, <1>9, <1>11, HoldersFinite

\* Config's rule on the budget suffices: a call that got a request slot is
\* never refused for its payload.
THEOREM BudgetSuffices == StackSpec => []BudgetNeverBinds
<1>1. StackInv => BudgetNeverBinds
  <2> SUFFICES ASSUME StackInv, Limit * Longest <= budget, NEW c \in Calls, call[c] = "slot"
               PROVE  payload_bytes >= size[c]
    BY DEF BudgetNeverBinds, PayloadFits
  <2>1. size[c] \in Nat /\ size[c] <= Longest /\ Longest \in Nat
    BY LimitedAssumption DEF StackInv, LimitedTypeOK, Longest
  <2>2. Cardinality(PayloadHeld) + Longest <= Limit * Longest
    BY RoomForOneMore
  <2>3. Limit * Longest \in Nat
    BY <2>1, LimitedAssumption
  <2> QED
    BY <2>1, <2>2, <2>3, HoldersFinite DEF StackInv, LimitedTypeOK, PermitsConserved
<1> QED
  BY <1>1, StackInvariant, PTL

\* When the gate's count is zero nothing is held below it.
THEOREM IdleStackIsFree == StackSpec => []IdleMeansPermitsFree
<1>1. StackInv => IdleMeansPermitsFree
  <2> SUFFICES ASSUME StackInv, active = 0
               PROVE  requests = Limit /\ payload_bytes = budget /\ SlotHolders = {}
    BY DEF IdleMeansPermitsFree
  <2>1. Admitted = {}
    BY AdmittedFinite, FS_EmptySet DEF StackInv, GateInv, ActiveExact
  <2>2. \A c \in Calls : call[c] = "out"
    BY <2>1, StackAssumption DEF StackInv, InsideTheGate, Admitted
  <2>3. SlotHolders = {} /\ PayloadHeld = {}
    BY <2>2 DEF SlotHolders, PayloadHeld
  <2> QED
    BY <2>3, FS_EmptySet DEF StackInv, LimitedTypeOK, PermitsConserved
<1> QED
  BY <1>1, StackInvariant, PTL

\* After begin_shutdown only calls it found admitted enter the adapter.
THEOREM AdapterClosedByShutdown == StackSpec => NoAdapterCallAfterShutdown
<1> DEFINE Entry(c) == ~accepting /\ call[c] # "inner" /\ call'[c] = "inner" => c \in atShutdown
<1>1. StackInv /\ [StackNext]_stackVars => [\A c \in Calls : Entry(c)]_stackVars
  <2> SUFFICES ASSUME StackInv, StackNext, NEW c \in Calls,
                      ~accepting, call[c] # "inner", call'[c] = "inner"
               PROVE  c \in atShutdown
    OBVIOUS
  <2>1. caller[c] = "running"
    <3>1. ASSUME NEW d \in Calls, GateStep(d) PROVE FALSE
      BY <3>1 DEF GateStep, limitedVars
    <3>2. ASSUME NEW d \in Calls, GuardDropped(d) PROVE FALSE
      BY <3>2 DEF GuardDropped, Leave, Goes, StackInv, LimitedTypeOK
    <3>3. ASSUME NEW d \in Calls, LimiterStep(d) PROVE caller[c] = "running"
      BY <3>3 DEF LimiterStep, TakeRequest, RefuseRequest, TakePayload, RefusePayload,
                  DropPermits, Goes, StackInv, LimitedTypeOK
    <3>4. CASE LifecycleStep
      BY <3>4 DEF LifecycleStep, limitedVars
    <3> QED
      BY <3>1, <3>2, <3>3, <3>4 DEF StackNext
  <2> QED
    BY <2>1, StackAssumption DEF StackInv, GateInv, ShutdownIsABoundary, Admitted
<1> QED
  BY <1>1, StackInvariant, PTL DEF StackSpec, NoAdapterCallAfterShutdown

=============================================================================

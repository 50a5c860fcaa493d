---------------------------- MODULE LimitedRelay ----------------------------
(***************************************************************************)
(* The process-wide broadcast limiter (src/relay/limited.rs).              *)
(*                                                                         *)
(* A call takes one request permit, then one payload permit per byte, then *)
(* runs the inner relay.  Nothing is awaited between the two acquisitions, *)
(* but they are two semaphores: calls on other threads run in between.     *)
(* Rust drops the permits in the reverse order, the payload first.         *)
(***************************************************************************)
EXTENDS Integers, FiniteSets

CONSTANTS
    Calls,       \* concurrent callers
    Limit,       \* ConcurrentBroadcastLimit
    MaxSize,     \* longest raw transaction a caller passes
    Budgets,     \* payload budgets the limiter may be built with
    PermitMax    \* u32::MAX

ASSUME LimitedAssumption ==
    /\ IsFiniteSet(Calls)
    /\ Limit \in Nat \ {0}
    /\ MaxSize \in Nat
    /\ Budgets \subseteq Nat
    /\ PermitMax \in Nat

VARIABLES
    budget,          \* payload_budget, fixed when the limiter is built
    requests,        \* permits left in the requests semaphore
    payload_bytes,   \* permits left in the payload_bytes semaphore
    call,            \* where each call stands
    size             \* raw_transaction.len() of each call in progress

limitedVars == <<budget, requests, payload_bytes, call, size>>

\* with_payload_budget
LimitedInit ==
    /\ budget \in Budgets
    /\ requests = Limit
    /\ payload_bytes = budget
    /\ call = [c \in Calls |-> "out"]
    /\ size = [c \in Calls |-> 0]

Goes(c, pc) == call' = [call EXCEPT ![c] = pc]

\* try_acquire on the request semaphore.
TakeRequest(c, n) ==
    /\ call[c] = "out"
    /\ n <= PermitMax
    /\ requests > 0
    /\ requests' = requests - 1
    /\ size' = [size EXCEPT ![c] = n]
    /\ Goes(c, "slot")
    /\ UNCHANGED <<budget, payload_bytes>>

\* The length does not fit a u32, or no request permit is left.
RefuseRequest(c, n) ==
    /\ call[c] = "out"
    /\ n > PermitMax \/ requests = 0
    /\ Goes(c, "returned")
    /\ UNCHANGED <<budget, requests, payload_bytes, size>>

PayloadFits(c) == payload_bytes >= size[c]

\* try_acquire_many on the payload semaphore, then the inner call.
TakePayload(c) ==
    /\ call[c] = "slot"
    /\ PayloadFits(c)
    /\ payload_bytes' = payload_bytes - size[c]
    /\ Goes(c, "inner")
    /\ UNCHANGED <<budget, requests, size>>

\* Mutant: the refused call keeps its request permit.
PermitLost(c) == UNCHANGED requests

GiveRequestBack(c) == requests' = requests + 1

\* Not enough payload permits: the early return drops the request permit.
RefusePayload(c) ==
    /\ call[c] = "slot"
    /\ ~PayloadFits(c)
    /\ GiveRequestBack(c)
    /\ size' = [size EXCEPT ![c] = 0]
    /\ Goes(c, "returned")
    /\ UNCHANGED <<budget, payload_bytes>>

\* Mutant: both permits are dropped in the order they were taken.
DropRequestFirst(c) ==
    \/ /\ call[c] = "inner"
       /\ requests' = requests + 1
       /\ Goes(c, "leaving")
       /\ UNCHANGED <<budget, payload_bytes, size>>
    \/ /\ call[c] = "leaving"
       /\ payload_bytes' = payload_bytes + size[c]
       /\ Goes(c, "returned")
       /\ UNCHANGED <<budget, requests, size>>

\* The inner call returned, or the future was dropped while it ran: the
\* payload permits go back first, the request permit second.
DropPermits(c) ==
    \/ /\ call[c] = "inner"
       /\ payload_bytes' = payload_bytes + size[c]
       /\ size' = [size EXCEPT ![c] = 0]
       /\ Goes(c, "leaving")
       /\ UNCHANGED <<budget, requests>>
    \/ /\ call[c] = "leaving"
       /\ GiveRequestBack(c)
       /\ Goes(c, "returned")
       /\ UNCHANGED <<budget, payload_bytes, size>>

\* The caller has the result and may call again.
Leave(c) ==
    /\ call[c] = "returned"
    /\ Goes(c, "out")
    /\ UNCHANGED <<budget, requests, payload_bytes, size>>

-----------------------------------------------------------------------------

\* Calls holding a request permit, and the payload permits calls hold, one for
\* each byte.
SlotHolders == {c \in Calls : call[c] \in {"slot", "inner", "leaving"}}
PayloadHeld ==
    {p \in Calls \X (1..MaxSize) : call[p[1]] = "inner" /\ p[2] <= size[p[1]]}

\* Neither semaphore gains or loses a permit: refused, returned and cancelled
\* calls give back exactly what they took.
PermitsConserved ==
    /\ requests + Cardinality(SlotHolders) = Limit
    /\ payload_bytes + Cardinality(PayloadHeld) = budget

\* The longest raw transaction that reaches the semaphores.
Longest == IF MaxSize < PermitMax THEN MaxSize ELSE PermitMax

\* Config admits only limits whose product with the frame size is within the
\* payload budget.  Then a call that got a request slot always gets its
\* payload permits: a broadcast is refused only when Limit calls hold slots.
BudgetNeverBinds ==
    Limit * Longest <= budget =>
        \A c \in Calls : call[c] = "slot" => PayloadFits(c)

=============================================================================

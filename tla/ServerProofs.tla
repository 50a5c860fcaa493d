---------------------------- MODULE ServerProofs ----------------------------
(* Proofs about the adapter and the server that uses it, for any set of     *)
(* connections and any limits and timeouts.                                 *)
EXTENDS Server, FiniteSetTheorems, TLAPS

-----------------------------------------------------------------------------
(* The adapter *)

\* The phases a call has behind it.
Done(pc) == IF pc = "connect" THEN 0 ELSE IF pc = "write" THEN 1 ELSE 2

\* A call has spent at most a timeout on each phase behind it.
CallInv ==
    /\ SocksTypeOK
    /\ \A c \in Calls :
          IF Running(c)
          THEN total[c] <= Done(call[c]) * RelayTimeout + spent[c]
          ELSE total[c] = 0

\* A change of phase or outcome concerns one call.
LEMMA EntersOne ==
    ASSUME SocksTypeOK, NEW c \in Calls, NEW pc \in Phases \cup Outcomes \cup {"idle"},
           Enters(c, pc)
    PROVE  /\ call' \in [Calls -> Phases \cup Outcomes \cup {"idle"}]
           /\ spent' \in [Calls -> 0..RelayTimeout]
           /\ call'[c] = pc /\ spent'[c] = 0
           /\ \A d \in Calls \ {c} : call'[d] = call[d] /\ spent'[d] = spent[d]
BY SocksAssumption DEF SocksTypeOK, Enters

\* Starting a call and changing its phase keep the invariant.
LEMMA PhaseStep ==
    ASSUME CallInv, NEW c \in Calls, Submit(c) \/ Proceed(c)
    PROVE  CallInv'
<1> USE SocksAssumption
<1>0. SocksTypeOK /\ RelayTimeout \in Nat /\ UNCHANGED total
  BY DEF CallInv, Submit, Proceed
<1>1. SocksTypeOK'
  BY <1>0, EntersOne DEF Submit, Proceed, SocksTypeOK, Phases, Outcomes
<1>2. ASSUME NEW d \in Calls
      PROVE  IF Running(d)'
             THEN total'[d] <= Done(call'[d]) * RelayTimeout + spent'[d]
             ELSE total'[d] = 0
  <2>0. total[d] \in Nat /\ spent[d] \in 0..RelayTimeout
    BY <1>0 DEF SocksTypeOK
  <2>1. CASE d # c
    <3>1. call'[d] = call[d] /\ spent'[d] = spent[d]
      BY <1>0, <2>1, EntersOne DEF Submit, Proceed, Phases, Outcomes
    <3> QED
      BY <3>1, <1>0 DEF CallInv, Running
  <2>2. CASE d = c /\ Submit(c)
    <3>1. call'[c] = "connect" /\ spent'[c] = 0 /\ call[c] = "idle"
      BY <2>2, <1>0, EntersOne DEF Submit, Phases
    <3> QED
      BY <2>2, <3>1, <1>0, <2>0 DEF CallInv, Running, Done, Phases
  <2>3. CASE d = c /\ call[c] = "connect" /\ Proceed(c)
    <3>1. call'[c] = "write" /\ spent'[c] = 0
      BY <2>3, <1>0, EntersOne DEF Proceed, Phases
    <3> QED
      BY <2>3, <3>1, <1>0, <2>0 DEF CallInv, Running, Done, Phases
  <2>4. CASE d = c /\ call[c] = "write" /\ Proceed(c)
    <3>1. call'[c] = "read" /\ spent'[c] = 0
      BY <2>4, <1>0, EntersOne DEF Proceed, Phases
    <3> QED
      BY <2>4, <3>1, <1>0, <2>0 DEF CallInv, Running, Done, Phases
  <2> QED
    BY <2>1, <2>2, <2>3, <2>4 DEF Proceed
<1> QED
  BY <1>1, <1>2 DEF CallInv

\* Ending a call, however it ends, keeps the invariant.
LEMMA FinishStep ==
    ASSUME CallInv, NEW c \in Calls, NEW pc \in Outcomes \cup {"idle"}, Finishes(c, pc)
    PROVE  CallInv'
<1> USE SocksAssumption
<1>0. SocksTypeOK /\ total' = [total EXCEPT ![c] = 0] /\ Enters(c, pc)
  BY DEF CallInv, Finishes
<1>1. total' \in [Calls -> Nat] /\ total'[c] = 0
      /\ \A d \in Calls \ {c} : total'[d] = total[d]
  BY <1>0 DEF SocksTypeOK
<1>2. SocksTypeOK'
  BY <1>0, <1>1, EntersOne DEF SocksTypeOK
<1>3. pc \notin Phases /\ call'[c] = pc
  BY <1>0, EntersOne DEF Phases, Outcomes
<1> QED
  BY <1>0, <1>1, <1>2, <1>3, EntersOne DEF CallInv, Running

\* Time passes only while no timer is due.
LEMMA TickStep == CallInv /\ CallsTick => CallInv'
<1> SUFFICES ASSUME CallInv, CallsTick PROVE CallInv'
  OBVIOUS
<1> USE SocksAssumption
<1>0. SocksTypeOK /\ UNCHANGED call
  BY DEF CallInv, CallsTick
<1>1. ASSUME NEW c \in Calls
      PROVE  /\ spent'[c] \in 0..RelayTimeout /\ total'[c] \in Nat
             /\ IF Running(c) THEN total'[c] = total[c] + 1 /\ spent'[c] = spent[c] + 1
                ELSE total'[c] = total[c] /\ spent'[c] = spent[c]
  BY <1>0 DEF CallsTick, SocksTypeOK, Expired, Running, Timed, Phases
<1>2. SocksTypeOK'
  BY <1>0, <1>1 DEF SocksTypeOK, CallsTick
<1>3. ASSUME NEW c \in Calls
      PROVE  IF Running(c)' THEN total'[c] <= Done(call'[c]) * RelayTimeout + spent'[c]
             ELSE total'[c] = 0
  <2>1. total[c] \in Nat /\ spent[c] \in Nat /\ (Running(c)' <=> Running(c))
    BY <1>0 DEF SocksTypeOK, Running
  <2>2. Done(call[c]) \in {0, 1, 2} /\ call'[c] = call[c]
    BY <1>0 DEF Done
  <2>3. Done(call[c]) * RelayTimeout \in Nat
    BY <2>2
  <2> QED
    BY <1>1, <2>1, <2>2, <2>3 DEF CallInv
<1> QED
  BY <1>2, <1>3 DEF CallInv

\* The inductive invariant of the adapter.
THEOREM CallInvariant == SocksSpec => []CallInv
<1>1. SocksInit => CallInv
  BY SocksAssumption DEF SocksInit, CallInv, SocksTypeOK, Running, Phases
<1>2. CallInv /\ [SocksNext]_callVars => CallInv'
  <2> SUFFICES ASSUME CallInv, [SocksNext]_callVars PROVE CallInv'
    OBVIOUS
  <2>1. ASSUME NEW c \in Calls, Submit(c) \/ Proceed(c) PROVE CallInv'
    BY <2>1, PhaseStep
  <2>2. ASSUME NEW c \in Calls,
               Break(c) \/ TimerFires(c) \/ Respond(c) \/ Collect(c) \/ Abandon(c)
        PROVE  CallInv'
    BY <2>2, FinishStep DEF Break, TimerFires, Respond, Collect, Abandon, Outcomes
  <2>3. CASE UNCHANGED callVars
    BY <2>3 DEF CallInv, SocksTypeOK, Running, callVars
  <2> QED
    BY <2>1, <2>2, <2>3, TickStep DEF SocksNext
<1> QED
  BY <1>1, <1>2, PTL DEF SocksSpec

\* broadcast returns within three relay timeouts (socks_electrum.rs): one for
\* each of the awaits it puts under a timeout.
THEOREM CallReturnsInTime == SocksSpec => []CallBounded
<1>1. CallInv => CallBounded
  <2> SUFFICES ASSUME CallInv, NEW c \in Calls PROVE total[c] <= 3 * RelayTimeout
    BY DEF CallBounded
  <2>1. total[c] \in Nat /\ spent[c] \in 0..RelayTimeout /\ RelayTimeout \in Nat
    BY SocksAssumption DEF CallInv, SocksTypeOK
  <2> QED
    BY <2>1 DEF CallInv, Done
<1> QED
  BY CallInvariant, <1>1, PTL

-----------------------------------------------------------------------------
(* The server *)

\* A step of the server, its connections or time is, for the adapter, one of
\* its own steps or none.
LEMMA ServerStepsAreCalls == [Next]_vars => [SocksNext]_callVars
<1> SUFFICES ASSUME [Next]_vars PROVE [SocksNext]_callVars
  OBVIOUS
<1> USE DEF Conns
<1>1. CASE ServerStep \/ AcceptFails
  BY <1>1 DEF ServerStep, AcceptFails, Bind, PollShutdown, PollJoin, AcceptNothing, Notify,
              DrainJoin, DrainDone, DrainExpires, CancelDone, OnlyServer
<1>2. CASE SignalStep \/ Exited \/ UNCHANGED vars
  BY <1>2 DEF SignalStep, Exited, vars
<1>3. CASE Tick
  BY <1>3 DEF Tick, SocksNext
<1>4. ASSUME NEW c \in Conns,
             Accept(c) \/ Connected(c) \/ ConnectGivenUp(c) \/ Blocks(c) \/ Unblocks(c)
             \/ ConnEnds(c) \/ ConnFails(c) \/ ConnCancelled(c)
      PROVE  UNCHANGED callVars
  BY <1>4 DEF Accept, Connected, ConnectGivenUp, Blocks, Unblocks, ConnEnds, ConnFails,
              ConnCancelled, OnlyServer
<1>5. ASSUME NEW c \in Conns, Broadcast(c) \/ CallStep(c) \/ CallReturns(c) \/ CallDropped(c)
      PROVE  SocksNext
  BY <1>5 DEF Broadcast, CallStep, CallReturns, CallDropped, SocksNext
<1>6. ASSUME NEW c \in Conns, Closes(c)
      PROVE  [SocksNext]_callVars
  BY <1>6 DEF Closes, SocksNext
<1>7. QED
  BY <1>1, <1>2, <1>3, <1>4, <1>5, <1>6 DEF Next, ConnStep, Environment

\* The server with its connections uses the adapter as it is specified.
THEOREM ServerUsesAdapter == Spec => SocksSpec
BY ServerStepsAreCalls, PTL DEF Spec, SocksSpec, Init

\* Inside the server, too, a broadcast returns within three relay timeouts.
THEOREM ServerCallsReturnInTime == Spec => []CallBounded
BY ServerUsesAdapter, CallReturnsInTime, PTL

\* The inductive invariant: the slots with the stages of the connections, the
\* late accept with the biased loop, the drain with the signal's order, and
\* the report with what was cancelled.
ServerInv ==
    /\ conn \in [Conns -> Alive \cup Finished \cup {"none"}]
    /\ slots \in Nat
    /\ SlotsConserved
    /\ server \in ServerPcs /\ signal \in {"waiting", "gated", "sent"}
    /\ late \in {0, 1}
    /\ late = 1 => signal = "sent" /\ server \notin {"bind", "poll_join", "poll_accept"}
    /\ accepting => signal = "waiting"
    /\ server \in {"notify", "drain", "cancel", "returned"} => signal = "sent"
    /\ report \in BOOLEAN
    /\ report => server = "returned" /\ cancelled = {}
    /\ cancelled # {} => server \in {"cancel", "cancel_failed", "returned", "failed"}
    /\ server = "returned" => RunningConns = {}

\* The process starts with every slot free and no signal.
LEMMA ServerInitially == Init => ServerInv
<1> SUFFICES ASSUME Init PROVE ServerInv
  OBVIOUS
<1>1. RunningConns = {}
  BY DEF Init, RunningConns, Alive
<1>2. SlotsConserved
  BY <1>1, FS_EmptySet, ServerAssumption DEF Init, SlotsConserved
<1>3. conn \in [Conns -> Alive \cup Finished \cup {"none"}] /\ slots \in Nat
  BY ServerAssumption DEF Init
<1>4. server \in ServerPcs
  BY DEF Init, ServerPcs
<1>5. late \in {0, 1} /\ late # 1
  BY DEF Init
<1>6. /\ signal = "waiting" /\ report = FALSE /\ cancelled = {}
      /\ server \notin {"notify", "drain", "cancel", "returned"}
  BY DEF Init
<1>7. QED
  BY <1>1, <1>2, <1>3, <1>4, <1>5, <1>6 DEF ServerInv

\* Steps that neither start nor end a connection task.
LEMMA SameRunning ==
    ASSUME ServerInv, RunningConns' = RunningConns, slots' = slots
    PROVE  SlotsConserved'
BY DEF ServerInv, SlotsConserved

\* A task that stops frees one slot.
LEMMA OneStops ==
    ASSUME ServerInv, NEW c \in Conns, conn[c] \in Alive, NEW pc \in Finished, ConnStops(c, pc)
    PROVE  /\ SlotsConserved' /\ slots' \in Nat
           /\ conn' \in [Conns -> Alive \cup Finished \cup {"none"}]
           /\ RunningConns' = RunningConns \ {c} /\ c \in RunningConns
<1>1. conn' = [conn EXCEPT ![c] = pc] /\ slots' = slots + 1
  BY DEF ConnStops, ConnGoes, SlotReturned
<1>2. RunningConns' = RunningConns \ {c} /\ c \in RunningConns
  BY <1>1 DEF ServerInv, RunningConns, Alive, Finished
<1>3. IsFiniteSet(RunningConns)
  BY FS_Subset, ServerAssumption DEF RunningConns, Conns
<1>4. Cardinality(RunningConns') = Cardinality(RunningConns) - 1 /\ Cardinality(RunningConns) \in Nat
  BY <1>2, <1>3, FS_RemoveElement, FS_CardinalityType
<1>5. QED
  BY <1>1, <1>2, <1>4, ServerAssumption DEF ServerInv, SlotsConserved

\* A connection that goes on keeps its slot.
LEMMA OneGoesOn ==
    ASSUME ServerInv, NEW c \in Conns, conn[c] \in Alive, NEW pc \in Alive, ConnGoes(c, pc)
    PROVE  /\ RunningConns' = RunningConns
           /\ conn' \in [Conns -> Alive \cup Finished \cup {"none"}]
BY DEF ServerInv, ConnGoes, RunningConns

\* Every step of the server, the signal task and the connections preserves it.
LEMMA ServerPreserved == ServerInv /\ [Next]_vars => ServerInv'
<1> SUFFICES ASSUME ServerInv, [Next]_vars PROVE ServerInv'
  OBVIOUS
<1>1. CASE Bind
  <2>1. RunningConns' = RunningConns
    BY <1>1 DEF Bind, connVars, RunningConns
  <2>2. SlotsConserved'
    BY <1>1, <2>1, SameRunning DEF Bind, connVars
  <2>3. QED
    BY <1>1, <2>1, <2>2 DEF Bind, ServerGoes, OnlyServer, connVars, signalVars, ServerInv, ServerPcs, LoopPcs
<1>2. CASE PollShutdown
  <2>1. RunningConns' = RunningConns
    BY <1>2 DEF PollShutdown, connVars, RunningConns
  <2>2. SlotsConserved'
    BY <1>2, <2>1, SameRunning DEF PollShutdown, connVars
  <2>3. QED
    BY <1>2, <2>1, <2>2 DEF PollShutdown, AfterShutdownPoll, ServerGoes, OnlyServer, connVars,
                            signalVars, ServerInv, ServerPcs, LoopPcs
<1>3. CASE PollJoin
  <2>1. /\ RunningConns' = RunningConns
        /\ conn' \in [Conns -> Alive \cup Finished \cup {"none"}]
    BY <1>3 DEF PollJoin, RunningConns, Alive, Finished, ServerInv
  <2>2. SlotsConserved'
    BY <1>3, <2>1, SameRunning DEF PollJoin
  <2>3. server' \in {"poll_accept", "cancel_failed", "poll_shutdown"} /\ server = "poll_join"
    BY <1>3 DEF PollJoin, ServerGoes
  <2>4. UNCHANGED <<slots, late, drained, report, signal, accepting, cancelled>>
    BY <1>3 DEF PollJoin, ServerGoes, OnlyServer, signalVars
  <2>5. QED
    BY <2>1, <2>2, <2>3, <2>4 DEF ServerInv, ServerPcs, LoopPcs
<1>4. ASSUME NEW c \in Conns, Accept(c) PROVE ServerInv'
  <2>1. conn' = [conn EXCEPT ![c] = "connecting"] /\ slots' = slots - 1 /\ slots > 0 /\ conn[c] = "none"
    BY <1>4 DEF Accept, SlotTaken
  <2>2. /\ RunningConns' = RunningConns \cup {c} /\ c \notin RunningConns
        /\ conn' \in [Conns -> Alive \cup Finished \cup {"none"}]
    BY <2>1 DEF ServerInv, RunningConns, Alive
  <2>3. IsFiniteSet(RunningConns)
    BY FS_Subset, ServerAssumption DEF RunningConns, Conns
  <2>4. Cardinality(RunningConns') = Cardinality(RunningConns) + 1 /\ Cardinality(RunningConns) \in Nat
    BY <2>2, <2>3, FS_AddElement, FS_CardinalityType
  <2>5. SlotsConserved' /\ slots' \in Nat
    BY <2>1, <2>4, ServerAssumption DEF ServerInv, SlotsConserved
  <2>6. server = "poll_accept" /\ server' = "poll_shutdown" /\ late = 0
        /\ late' = IF signal = "sent" THEN 1 ELSE 0
    BY <1>4 DEF Accept, ServerGoes, ServerInv
  <2>7. UNCHANGED <<report, signal, accepting, cancelled>>
    BY <1>4 DEF Accept, ServerGoes, OnlyServer, signalVars
  <2>8. QED
    BY <2>2, <2>5, <2>6, <2>7 DEF ServerInv, ServerPcs, LoopPcs
<1>5. CASE AcceptNothing \/ AcceptFails
  <2>1. RunningConns' = RunningConns
    BY <1>5 DEF AcceptNothing, AcceptFails, connVars, RunningConns
  <2>2. SlotsConserved'
    BY <1>5, <2>1, SameRunning DEF AcceptNothing, AcceptFails, connVars
  <2>3. QED
    BY <1>5, <2>1, <2>2 DEF AcceptNothing, AcceptFails, ServerGoes, OnlyServer, connVars,
                            signalVars, ServerInv, ServerPcs, LoopPcs
<1>6. CASE Notify \/ DrainExpires
  <2>1. RunningConns' = RunningConns
    BY <1>6 DEF Notify, DrainExpires, connVars, RunningConns
  <2>2. SlotsConserved'
    BY <1>6, <2>1, SameRunning DEF Notify, DrainExpires, connVars
  <2>3. QED
    BY <1>6, <2>1, <2>2 DEF Notify, DrainExpires, ServerGoes, OnlyServer, connVars,
                            signalVars, ServerInv, ServerPcs, LoopPcs
<1>7. CASE DrainJoin
  <2>1. /\ RunningConns' = RunningConns
        /\ conn' \in [Conns -> Alive \cup Finished \cup {"none"}]
    BY <1>7 DEF DrainJoin, RunningConns, Alive, Finished, ServerInv
  <2>2. SlotsConserved'
    BY <1>7, <2>1, SameRunning DEF DrainJoin
  <2>3. server' \in {"cancel", "drain"} /\ server = "drain"
    BY <1>7 DEF DrainJoin, ServerGoes
  <2>4. UNCHANGED <<slots, late, drained, report, signal, accepting, cancelled>>
    BY <1>7 DEF DrainJoin, ServerGoes, OnlyServer, signalVars
  <2>5. QED
    BY <2>1, <2>2, <2>3, <2>4 DEF ServerInv, ServerPcs, LoopPcs
<1>8. CASE DrainDone
  <2>1. RunningConns' = RunningConns /\ RunningConns = {}
    BY <1>8 DEF DrainDone, AllJoined, connVars, RunningConns, Alive
  <2>2. SlotsConserved'
    BY <1>8, <2>1, SameRunning DEF DrainDone, connVars
  <2>3. QED
    BY <1>8, <2>1, <2>2 DEF DrainDone, OnlyServer, connVars, signalVars, ServerInv, ServerPcs, LoopPcs
<1>9. CASE CancelDone
  <2>1. /\ RunningConns' = RunningConns /\ RunningConns = {}
        /\ conn' \in [Conns -> Alive \cup Finished \cup {"none"}]
    BY <1>9 DEF CancelDone, AllStopped, RunningConns, Alive, Finished, ServerInv
  <2>2. SlotsConserved'
    BY <1>9, <2>1, SameRunning DEF CancelDone
  <2>3. \/ server = "cancel" /\ server' = "returned"
        \/ server = "cancel_failed" /\ server' = "failed"
    BY <1>9 DEF CancelDone
  <2>4. UNCHANGED <<slots, late, report, signal, accepting, cancelled>>
    BY <1>9 DEF CancelDone, OnlyServer, signalVars
  <2>5. QED
    BY <2>1, <2>2, <2>3, <2>4 DEF ServerInv, ServerPcs, LoopPcs
<1>10. CASE SignalStep
  <2>1. RunningConns' = RunningConns
    BY <1>10 DEF SignalStep, connVars, RunningConns
  <2>2. SlotsConserved'
    BY <1>10, <2>1, SameRunning DEF SignalStep, connVars
  <2>3. QED
    BY <1>10, <2>1, <2>2 DEF SignalStep, SignalTask, connVars, serverVars, ServerInv
<1>11. CASE Tick \/ Exited \/ UNCHANGED vars
  <2>1. UNCHANGED <<conn, slots, server, report, late, signal, accepting, cancelled>>
    BY <1>11 DEF Tick, Exited, vars, connVars, serverVars, signalVars
  <2>2. RunningConns' = RunningConns
    BY <2>1 DEF RunningConns
  <2>3. SlotsConserved'
    BY <2>1, <2>2, SameRunning
  <2>4. QED
    BY <2>1, <2>2, <2>3 DEF ServerInv
<1>12. ASSUME NEW c \in Conns, conn[c] \in Alive, NEW pc \in Finished, ConnStops(c, pc),
              UNCHANGED <<serverVars, signalVars>>,
              cancelled' = cancelled \/ server \in {"cancel", "cancel_failed", "failed"}
       PROVE  ServerInv'
  <2>1. /\ SlotsConserved' /\ slots' \in Nat
        /\ conn' \in [Conns -> Alive \cup Finished \cup {"none"}]
        /\ RunningConns' = RunningConns \ {c} /\ c \in RunningConns
    BY <1>12, OneStops
  <2>2. QED
    BY <1>12, <2>1 DEF serverVars, signalVars, ServerInv
<1>13. ASSUME NEW c \in Conns, conn[c] \in Alive, NEW pc \in Alive, ConnGoes(c, pc),
              UNCHANGED <<slots, serverVars, signalVars, cancelled>>
       PROVE  ServerInv'
  <2>1. /\ RunningConns' = RunningConns
        /\ conn' \in [Conns -> Alive \cup Finished \cup {"none"}]
    BY <1>13, OneGoesOn
  <2>2. SlotsConserved'
    BY <1>13, <2>1, SameRunning
  <2>3. QED
    BY <1>13, <2>1, <2>2 DEF serverVars, signalVars, ServerInv
<1>14. ASSUME NEW c \in Conns, ConnectGivenUp(c) \/ ConnEnds(c) \/ ConnFails(c) \/ ConnCancelled(c)
       PROVE  ServerInv'
  BY <1>12, <1>14 DEF ConnectGivenUp, ConnEnds, ConnFails, ConnCancelled, OnlyConns, Alive, Finished
<1>15. ASSUME NEW c \in Conns, Connected(c) \/ Broadcast(c) \/ CallReturns(c) \/ Blocks(c)
                               \/ Unblocks(c) \/ Closes(c)
       PROVE  ServerInv'
  BY <1>13, <1>15 DEF Connected, Broadcast, CallReturns, Blocks, Unblocks, Closes, OnlyConns, Alive
<1>16. ASSUME NEW c \in Conns, CallStep(c) \/ CallDropped(c)
       PROVE  ServerInv'
  <2>1. UNCHANGED <<conn, slots, server, report, late, signal, accepting, cancelled>>
    BY <1>16 DEF CallStep, CallDropped, OnlyConns, connVars, serverVars, signalVars
  <2>2. RunningConns' = RunningConns
    BY <2>1 DEF RunningConns
  <2>3. SlotsConserved'
    BY <2>1, <2>2, SameRunning
  <2>4. QED
    BY <2>1, <2>2, <2>3 DEF ServerInv
<1>17. QED
  BY <1>1, <1>2, <1>3, <1>4, <1>5, <1>6, <1>7, <1>8, <1>9, <1>10, <1>11, <1>14, <1>15, <1>16
     DEF Next, ServerStep, ConnStep, Environment

\* Connection slots neither leak nor multiply, for any number of connections.
THEOREM SlotsAreConserved == Spec => []SlotsConserved
<1>1. ServerInv => SlotsConserved
  BY DEF ServerInv
<1>2. QED
  BY <1>1, ServerInitially, ServerPreserved, PTL DEF Spec

\* The biased loop accepts at most one connection after the signal.
THEOREM OneLateAccept == Spec => []AtMostOneLateAccept
<1>1. ServerInv => AtMostOneLateAccept
  BY DEF ServerInv, AtMostOneLateAccept
<1>2. QED
  BY <1>1, ServerInitially, ServerPreserved, PTL DEF Spec

\* The report serve_until returns with is true.
THEOREM ServerReportIsTrue == Spec => []ReportIsTrue
<1>1. ServerInv => ReportIsTrue
  BY DEF ServerInv, ReportIsTrue
<1>2. QED
  BY <1>1, ServerInitially, ServerPreserved, PTL DEF Spec

\* No broadcast enters the relay once serve_until has left its loop.
THEOREM ServerNoCallDuringDrain == Spec => NoCallDuringDrain
<1> DEFINE quiet == \A c \in Conns : call[c] = "idle" /\ call'[c] # "idle" =>
                        server \notin {"notify", "drain", "cancel", "returned"}
<1>1. ServerInv /\ [Next]_vars => [quiet]_vars
  <2> SUFFICES ASSUME ServerInv, [Next]_vars, NEW d \in Conns,
                      call[d] = "idle", call'[d] # "idle"
               PROVE server \notin {"notify", "drain", "cancel", "returned"}
    OBVIOUS
  <2>1. ASSUME NEW c \in Conns, Broadcast(c) PROVE server \notin {"notify", "drain", "cancel", "returned"}
    BY <2>1 DEF Broadcast, ServerInv
  <2>2. call' # call
    OBVIOUS
  <2>3. ~(ServerStep \/ AcceptFails \/ SignalStep \/ Exited \/ Tick \/ UNCHANGED vars)
    BY <2>2 DEF ServerStep, AcceptFails, Bind, PollShutdown, PollJoin, AcceptNothing, Notify,
              DrainJoin, DrainDone, DrainExpires, CancelDone, OnlyServer, SignalStep, Exited,
              Tick, CallsTick, vars, callVars
  <2>4. ASSUME NEW c \in Conns,
               Accept(c) \/ Connected(c) \/ ConnectGivenUp(c) \/ Blocks(c) \/ Unblocks(c)
               \/ ConnEnds(c) \/ ConnFails(c) \/ ConnCancelled(c)
        PROVE  FALSE
    BY <2>2, <2>4 DEF Accept, Connected, ConnectGivenUp, Blocks, Unblocks, ConnEnds, ConnFails,
              ConnCancelled, OnlyServer, callVars
  <2>5. ASSUME NEW c \in Conns, NEW pc, call[c] # "idle", call' = [call EXCEPT ![c] = pc]
        PROVE  FALSE
    BY <2>5
  <2>6. ASSUME NEW c \in Conns, CallStep(c) \/ CallReturns(c) \/ CallDropped(c) \/ Closes(c)
        PROVE  FALSE
    BY <2>2, <2>5, <2>6 DEF CallStep, CallReturns, CallDropped, Closes, Proceed, Break, TimerFires,
              Respond, Collect, Abandon, Finishes, Enters, Expired, Phases, Outcomes, Timed, callVars
  <2>7. QED
    BY <2>1, <2>3, <2>4, <2>6 DEF Next, ConnStep, Environment
<1>2. QED
  BY <1>1, ServerInitially, ServerPreserved, PTL DEF Spec, NoCallDuringDrain

-----------------------------------------------------------------------------
(* The drain deadline *)

\* Where a connection that is not slow can be, for the time drained so far: a
\* call in progress is as old as the drain, since none starts during it, and
\* a connection that closes began to less than a relay timeout into it.
InTime(c) ==
    /\ conn[c] = "connecting" => drained = 0
    /\ conn[c] = "open" => drained < RelayTimeout
    /\ conn[c] = "relaying" =>
          /\ drained < RelayTimeout
          /\ Running(c) => drained <= total[c] /\ total[c] < RelayTimeout
    /\ conn[c] = "closing" => drained < RelayTimeout + age[c]

\* What holds of each connection.
ConnInv(c) ==
    /\ conn[c] = "relaying" => call[c] # "idle"
    /\ conn[c] = "closing" => age[c] <= FlushGrace
    /\ conn[c] = "blocked" => c \in slow
    /\ c \notin slow => InTime(c)

\* Types that the other invariants leave out.
DrainTypeOK ==
    /\ listening \in BOOLEAN /\ accepting \in BOOLEAN /\ shutdown \in BOOLEAN
    /\ age \in [Conns -> Nat]
    /\ drained \in 0..MaximumWait
    /\ cancelled \in SUBSET Conns /\ slow \in SUBSET Conns

\* The inductive invariant of the drain, on top of CallInv and ServerInv.
DrainInv ==
    /\ DrainTypeOK
    /\ drained > 0 => server \in {"drain", "cancel", "returned"}
    /\ server \in {"drain", "cancel", "returned"} => shutdown
    /\ \A c \in Conns : ConnInv(c)
    /\ CutOffOnlyIfSlow

\* The drain starts with nothing waited for.
LEMMA DrainInitially == Init => DrainInv
<1> SUFFICES ASSUME Init PROVE DrainInv
  OBVIOUS
<1>1. MaximumWait \in Nat /\ MaximumWait > 0
  BY SocksAssumption, ServerAssumption DEF MaximumWait
<1>2. \A c \in Conns : conn[c] = "none"
  BY DEF Init
<1>3. \A c \in Conns : ConnInv(c)
  BY <1>2 DEF ConnInv, InTime
<1>4. DrainTypeOK
  <2>1. listening \in BOOLEAN /\ accepting \in BOOLEAN /\ shutdown \in BOOLEAN
    BY DEF Init
  <2>2. age \in [Conns -> Nat] /\ drained \in 0..MaximumWait
    BY <1>1 DEF Init
  <2>3. cancelled \in SUBSET Conns /\ slow \in SUBSET Conns
    BY DEF Init
  <2> QED
    BY <2>1, <2>2, <2>3 DEF DrainTypeOK
<1> QED
  BY <1>1, <1>3, <1>4 DEF Init, DrainInv, CutOffOnlyIfSlow

\* A connection that a step does not touch.
LEMMA ConnUntouched ==
    ASSUME NEW c \in Conns, ConnInv(c), drained' = drained,
           conn'[c] = conn[c], age'[c] = age[c], call'[c] = call[c], total'[c] = total[c],
           c \in slow <=> c \in slow'
    PROVE  ConnInv(c)'
BY DEF ConnInv, InTime, Running

\* At the deadline every connection that is left is slow.
LEMMA LateMeansSlow ==
    ASSUME DrainInv, drained = MaximumWait, NEW c \in Conns, conn[c] \in Alive
    PROVE  c \in slow
<1> SUFFICES ASSUME c \notin slow PROVE FALSE
  OBVIOUS
<1>1. /\ RelayTimeout \in Nat \ {0} /\ FlushGrace \in Nat \ {0}
      /\ drained = RelayTimeout + FlushGrace /\ age[c] \in Nat
  BY SocksAssumption, ServerAssumption DEF MaximumWait, DrainInv, DrainTypeOK
<1>2. ConnInv(c) /\ InTime(c)
  BY DEF DrainInv, ConnInv
<1> QED
  BY <1>1, <1>2 DEF ConnInv, InTime, Alive

\* The server's own steps wait for connections and reap them.
LEMMA DrainServerStep ==
    ASSUME ServerInv, DrainInv,
           ServerStep \/ AcceptFails \/ SignalStep \/ Exited \/ UNCHANGED vars
    PROVE  DrainInv'
<1>1. UNCHANGED <<age, slow, call, total, drained, cancelled>>
  BY DEF ServerStep, AcceptFails, SignalStep, Exited, vars, callVars, connVars, serverVars,
         Bind, PollShutdown, PollJoin, AcceptNothing, Notify, DrainJoin, DrainDone,
         DrainExpires, CancelDone, OnlyServer, ServerGoes
<1>2. ASSUME NEW c \in Conns PROVE conn'[c] = conn[c] \/ conn'[c] = "none"
  <2>1. CASE PollJoin \/ DrainJoin \/ CancelDone
    BY <2>1 DEF PollJoin, DrainJoin, CancelDone, ServerInv
  <2>2. CASE conn' = conn
    BY <2>2
  <2> QED
    BY <2>1, <2>2 DEF ServerStep, AcceptFails, SignalStep, Exited, vars, connVars, Bind,
                      PollShutdown, AcceptNothing, Notify, DrainDone, DrainExpires
<1>3. ASSUME NEW c \in Conns PROVE ConnInv(c)'
  <2>1. CASE conn'[c] = conn[c]
    BY <1>1, <2>1, ConnUntouched DEF DrainInv
  <2>2. CASE conn'[c] = "none"
    BY <2>2 DEF ConnInv, InTime
  <2> QED
    BY <1>2, <2>1, <2>2
<1>4. /\ drained > 0 => server' \in {"drain", "cancel", "returned"}
      /\ server' \in {"drain", "cancel", "returned"} => shutdown'
      /\ listening' \in BOOLEAN /\ accepting' \in BOOLEAN /\ shutdown' \in BOOLEAN
  BY DEF DrainInv, DrainTypeOK, ServerStep, AcceptFails, SignalStep, SignalTask, Exited, vars,
         serverVars, signalVars, Bind, PollShutdown, AfterShutdownPoll, PollJoin,
         AcceptNothing, Notify, DrainJoin, DrainDone, DrainExpires, CancelDone, OnlyServer,
         ServerGoes
<1> QED
  BY <1>1, <1>3, <1>4 DEF DrainInv, DrainTypeOK, CutOffOnlyIfSlow, MaximumWait

\* Everything of a connection step but the connection it concerns.
LEMMA DrainConnStep ==
    ASSUME DrainInv, NEW c \in Conns, ConnInv(c)',
           UNCHANGED <<drained, server, shutdown, listening, accepting, cancelled>>,
           age' \in [Conns -> Nat], slow' \in SUBSET Conns,
           \A d \in Conns \ {c} :
               /\ conn'[d] = conn[d] /\ age'[d] = age[d]
               /\ call'[d] = call[d] /\ total'[d] = total[d]
               /\ d \in slow' <=> d \in slow,
           drained = MaximumWait /\ c \in slow => c \in slow'
    PROVE  DrainInv'
<1>1. ASSUME NEW d \in Conns PROVE ConnInv(d)'
  BY <1>1, ConnUntouched DEF DrainInv
<1>2. CutOffOnlyIfSlow'
  BY DEF DrainInv, DrainTypeOK, CutOffOnlyIfSlow, MaximumWait
<1> QED
  BY <1>1, <1>2 DEF DrainInv, DrainTypeOK, MaximumWait

\* A change of stage concerns one connection.
LEMMA GoesOne ==
    ASSUME ServerInv, DrainInv, NEW c \in Conns, NEW pc, ConnGoes(c, pc)
    PROVE  /\ age' \in [Conns -> Nat]
           /\ conn'[c] = pc /\ age'[c] = 0
           /\ \A d \in Conns \ {c} : conn'[d] = conn[d] /\ age'[d] = age[d]
BY DEF ConnGoes, ServerInv, DrainInv, DrainTypeOK

\* A step of a call concerns one connection, and only collecting its result
\* or dropping it makes it idle.
LEMMA CallOne ==
    ASSUME CallInv, NEW c \in Conns,
           \/ Submit(c) \/ Proceed(c) \/ Break(c) \/ TimerFires(c) \/ Respond(c)
           \/ Collect(c) \/ Abandon(c)
    PROVE  \A d \in Conns \ {c} : call'[d] = call[d] /\ total'[d] = total[d]
BY DEF CallInv, SocksTypeOK, Conns, Submit, Proceed, Break, TimerFires, Respond, Collect,
       Abandon, Finishes, Enters

\* The stages of a connection without its call.
LEMMA DrainStageStep ==
    ASSUME CallInv, ServerInv, DrainInv, NEW c \in Conns,
           Connected(c) \/ ConnectGivenUp(c) \/ Blocks(c) \/ Unblocks(c) \/ ConnEnds(c)
           \/ ConnFails(c)
    PROVE  DrainInv'
<1> USE SocksAssumption DEF OnlyConns, serverVars, signalVars
<1>1. UNCHANGED <<drained, server, shutdown, listening, accepting, cancelled, call, total>>
  BY DEF Connected, ConnectGivenUp, Blocks, Unblocks, ConnEnds, ConnFails, callVars
<1>2. PICK pc \in {"open", "ended", "blocked", "failed"} : ConnGoes(c, pc)
  BY DEF Connected, ConnectGivenUp, Blocks, Unblocks, ConnEnds, ConnFails, ConnStops
<1>3. /\ age' \in [Conns -> Nat]
      /\ conn'[c] = pc /\ age'[c] = 0
      /\ \A d \in Conns \ {c} : conn'[d] = conn[d] /\ age'[d] = age[d]
  BY <1>2, GoesOne
<1>4. /\ slow' \in SUBSET Conns
      /\ \A d \in Conns \ {c} : d \in slow' <=> d \in slow
      /\ shutdown /\ c \in slow => c \in slow'
  BY DEF Connected, ConnectGivenUp, Blocks, Unblocks, ConnEnds, ConnFails, ConnStops, DrainInv,
         DrainTypeOK
<1>5. ConnInv(c)'
  <2>1. CASE Blocks(c)
    BY <1>3, <2>1 DEF Blocks, ConnGoes, ConnInv
  <2>2. CASE Connected(c)
    <3>1. conn'[c] = "open" /\ slow' = slow /\ conn[c] = "connecting"
      BY <1>3, <2>2 DEF Connected, ConnGoes, ServerInv
    <3>2. c \notin slow => drained = 0
      BY <3>1 DEF DrainInv, ConnInv, InTime
    <3> QED
      BY <1>1, <3>1, <3>2 DEF ConnInv, InTime
  <2>3. CASE Unblocks(c)
    <3>1. conn'[c] = "open" /\ (c \notin slow' => drained = 0)
      BY <2>3 DEF Unblocks, ConnGoes, ServerInv, DrainInv, DrainTypeOK, ConnInv
    <3> QED
      BY <1>1, <3>1 DEF ConnInv, InTime
  <2>4. CASE ConnectGivenUp(c) \/ ConnEnds(c) \/ ConnFails(c)
    <3>1. conn'[c] \in {"ended", "failed"}
      BY <2>4 DEF ConnectGivenUp, ConnEnds, ConnFails, ConnStops, ConnGoes, ServerInv
    <3> QED
      BY <3>1 DEF ConnInv, InTime
  <2> QED
    BY <2>1, <2>2, <2>3, <2>4
<1>6. drained = MaximumWait => shutdown
  BY ServerAssumption DEF DrainInv, MaximumWait
<1> QED
  BY <1>1, <1>3, <1>4, <1>5, <1>6, DrainConnStep

\* A connection is accepted only before the drain.
LEMMA DrainAccept ==
    ASSUME ServerInv, DrainInv, NEW c \in Conns, Accept(c)
    PROVE  DrainInv'
<1>1. /\ server = "poll_accept" /\ server' = "poll_shutdown" /\ drained = 0
      /\ UNCHANGED <<drained, shutdown, listening, accepting, cancelled, call, total>>
  BY DEF Accept, ServerGoes, OnlyServer, signalVars, callVars, DrainInv, DrainTypeOK
<1>2. /\ age' \in [Conns -> Nat] /\ slow' = slow \ {c}
      /\ conn'[c] = "connecting"
      /\ \A d \in Conns \ {c} : conn'[d] = conn[d] /\ age'[d] = age[d]
  BY DEF Accept, ServerInv, DrainInv, DrainTypeOK
<1>3. ConnInv(c)'
  BY <1>1, <1>2 DEF ConnInv, InTime
<1>4. ASSUME NEW d \in Conns PROVE ConnInv(d)'
  <2>1. CASE d # c
    BY <1>1, <1>2, <2>1, ConnUntouched DEF DrainInv
  <2> QED
    BY <1>3, <2>1
<1>5. MaximumWait # 0
  BY SocksAssumption, ServerAssumption DEF MaximumWait
<1> QED
  BY <1>1, <1>2, <1>4, <1>5 DEF DrainInv, DrainTypeOK, CutOffOnlyIfSlow, MaximumWait

\* At the deadline the server cancels slow connections, and no others.
LEMMA DrainCancelled ==
    ASSUME ServerInv, DrainInv, NEW c \in Conns, ConnCancelled(c)
    PROVE  DrainInv'
<1>1. /\ UNCHANGED <<drained, server, shutdown, listening, accepting, slow, call, total>>
      /\ conn[c] \in Alive /\ ConnGoes(c, "failed") /\ cancelled' = cancelled \cup {c}
  BY DEF ConnCancelled, ConnStops, serverVars, signalVars, callVars
<1>2. /\ age' \in [Conns -> Nat]
      /\ conn'[c] = "failed"
      /\ \A d \in Conns \ {c} : conn'[d] = conn[d] /\ age'[d] = age[d]
  BY <1>1, GoesOne
<1>3. ConnInv(c)'
  BY <1>2 DEF ConnInv, InTime
<1>4. ASSUME NEW d \in Conns PROVE ConnInv(d)'
  <2>1. CASE d # c
    BY <1>1, <1>2, <2>1, ConnUntouched DEF DrainInv
  <2> QED
    BY <1>3, <2>1
<1>5. CutOffOnlyIfSlow'
  BY <1>1, LateMeansSlow DEF DrainInv, CutOffOnlyIfSlow, MaximumWait
<1> QED
  BY <1>1, <1>2, <1>4, <1>5 DEF DrainInv, DrainTypeOK, MaximumWait

\* A broadcast begins only before the drain, with its whole timeout ahead.
LEMMA DrainBroadcast ==
    ASSUME CallInv, ServerInv, DrainInv, NEW c \in Conns, Broadcast(c)
    PROVE  DrainInv'
<1>1. /\ UNCHANGED <<drained, server, shutdown, listening, accepting, cancelled>>
      /\ slow' = slow \ {c} /\ Submit(c) /\ ConnGoes(c, "relaying")
  BY DEF Broadcast, OnlyConns, serverVars, signalVars
<1>2. drained = 0
  BY DEF Broadcast, ServerInv, DrainInv, DrainTypeOK
<1>3. call'[c] = "connect" /\ total'[c] = 0
  BY <1>1 DEF Submit, Enters, CallInv, SocksTypeOK, Running, Phases, Conns
<1>4. conn'[c] = "relaying"
  BY <1>1, GoesOne
<1>5. ConnInv(c)'
  BY <1>1, <1>2, <1>3, <1>4, SocksAssumption DEF ConnInv, InTime
<1>6. MaximumWait # 0
  BY SocksAssumption, ServerAssumption DEF MaximumWait
<1> QED
  BY <1>1, <1>2, <1>5, <1>6, GoesOne, CallOne, DrainConnStep DEF DrainInv, DrainTypeOK

\* A call that returns, or is dropped with its connection, was in time or the
\* connection is slow.
LEMMA DrainCallEnds ==
    ASSUME CallInv, ServerInv, DrainInv, NEW c \in Conns, CallReturns(c) \/ Closes(c)
    PROVE  DrainInv'
<1> USE SocksAssumption
<1>1. /\ UNCHANGED <<drained, server, shutdown, listening, accepting, cancelled>>
      /\ slow' = slow \/ slow' = slow \cup {c}
  BY DEF CallReturns, Closes, OnlyConns, serverVars, signalVars
<1>2. PICK pc \in {"open", "blocked", "closing"} : ConnGoes(c, pc)
  BY DEF CallReturns, Closes
<1>3. /\ age' \in [Conns -> Nat]
      /\ conn'[c] = pc /\ age'[c] = 0
      /\ \A d \in Conns \ {c} : conn'[d] = conn[d] /\ age'[d] = age[d]
  BY <1>2, GoesOne
<1>4. \A d \in Conns \ {c} : call'[d] = call[d] /\ total'[d] = total[d]
  BY CallOne DEF CallReturns, Closes, callVars
<1>5. conn'[c] = "blocked" => c \in slow'
  BY <1>3 DEF CallReturns, Closes, ConnGoes, ServerInv
<1>6. c \notin slow => drained < RelayTimeout
  BY DEF CallReturns, Closes, DrainInv, ConnInv, InTime
<1>7. ConnInv(c)'
  BY <1>1, <1>3, <1>5, <1>6, ServerAssumption DEF ConnInv, InTime
<1> QED
  BY <1>1, <1>3, <1>4, <1>7, DrainConnStep DEF DrainInv, DrainTypeOK

\* A call that goes on keeps its age; one that is dropped belongs to no
\* connection that waits for it.
LEMMA DrainCallStep ==
    ASSUME CallInv, ServerInv, DrainInv, NEW c \in Conns, CallStep(c) \/ CallDropped(c)
    PROVE  DrainInv'
<1>1. UNCHANGED <<drained, server, shutdown, listening, accepting, cancelled, conn, age, slow>>
  BY DEF CallStep, CallDropped, OnlyConns, connVars, serverVars, signalVars
<1>2. \A d \in Conns \ {c} : call'[d] = call[d] /\ total'[d] = total[d]
  BY CallOne DEF CallStep, CallDropped
<1>3. ConnInv(c)'
  <2>1. CASE conn[c] # "relaying"
    BY <1>1, <2>1 DEF DrainInv, ConnInv, InTime
  <2>2. CASE conn[c] = "relaying" /\ Proceed(c)
    <3>1. Running(c) /\ call'[c] \in Phases /\ total'[c] = total[c]
      BY <2>2 DEF Proceed, Enters, CallInv, SocksTypeOK, Running, Phases, Conns
    <3> QED
      BY <1>1, <2>2, <3>1 DEF DrainInv, ConnInv, InTime, Running, Phases
  <2>3. CASE conn[c] = "relaying" /\ (Break(c) \/ TimerFires(c) \/ Respond(c))
    <3>1. call'[c] \in Outcomes
      BY <2>3 DEF Break, TimerFires, Respond, Finishes, Enters, CallInv, SocksTypeOK, Outcomes,
                  Conns
    <3> QED
      BY <1>1, <2>3, <3>1 DEF DrainInv, ConnInv, InTime, Running, Phases, Outcomes
  <2> QED
    BY <2>1, <2>2, <2>3 DEF CallStep, CallDropped
<1> QED
  BY <1>1, <1>2, <1>3, DrainConnStep DEF DrainInv, DrainTypeOK

\* Time passes for the drain only while every connection that is not slow has
\* a call in progress or flushes its responses.
LEMMA DrainTick ==
    ASSUME CallInv, ServerInv, DrainInv, Tick
    PROVE  DrainInv'
<1> USE SocksAssumption, ServerAssumption DEF Conns
<1>1. /\ UNCHANGED <<conn, server, shutdown, listening, accepting, cancelled, call>>
      /\ slow' = slow \cup {c \in Conns : Running(c) /\ total'[c] >= RelayTimeout}
  BY DEF Tick, CallsTick, signalVars
<1>2. /\ drained \in Nat /\ MaximumWait \in Nat
      /\ drained' \in 0..MaximumWait
      /\ drained' = drained \/ (server = "drain" /\ drained' = drained + 1 /\ drained # MaximumWait)
  BY DEF Tick, ServerUrgent, DrainInv, DrainTypeOK, MaximumWait
<1>3. age' \in [Conns -> Nat]
  BY DEF Tick, DrainInv, DrainTypeOK
<1>4. ASSUME NEW c \in Conns PROVE ConnInv(c)'
  <2>1. /\ age[c] \in Nat /\ total[c] \in Nat /\ ~Urgent(c) /\ ConnInv(c)
        /\ age'[c] = IF conn[c] \in {"connecting", "closing"} THEN age[c] + 1 ELSE age[c]
        /\ total'[c] = IF Running(c) THEN total[c] + 1 ELSE total[c]
        /\ c \notin slow' => c \notin slow /\ (Running(c) => total'[c] < RelayTimeout)
        /\ RelayTimeout \in Nat /\ FlushGrace \in Nat
    BY <1>1 DEF Tick, CallsTick, CallInv, SocksTypeOK, DrainInv, DrainTypeOK
  <2>2. drained' # drained => shutdown
    BY <1>2 DEF DrainInv
  <2>3. conn[c] = "relaying" => Running(c)
    BY <2>1 DEF Urgent, ConnInv, CallInv, SocksTypeOK, Running
  <2>4. conn[c] = "closing" => age'[c] <= FlushGrace
    BY <2>1 DEF Urgent, ConnInv
  <2>5. c \notin slow' => InTime(c)'
    <3> SUFFICES ASSUME c \notin slow' PROVE InTime(c)'
      OBVIOUS
    <3>1. InTime(c)
      BY <2>1 DEF ConnInv
    <3>2. conn[c] \in {"connecting", "open"} => drained' = drained
      BY <2>1, <2>2 DEF Urgent
    <3>3. (Running(c))' <=> Running(c)
      BY <1>1 DEF Running
    <3> QED
      <4>1. /\ conn'[c] = conn[c] /\ drained \in Nat /\ drained' \in {drained, drained + 1}
            /\ conn[c] = "relaying" => Running(c) /\ total'[c] = total[c] + 1
            /\ conn[c] = "relaying" => total'[c] < RelayTimeout
            /\ conn[c] = "closing" => age'[c] = age[c] + 1
        BY <1>1, <1>2, <2>1, <2>3
      <4> QED
        BY <2>1, <3>1, <3>2, <3>3, <4>1 DEF InTime
  <2> QED
    BY <1>1, <2>1, <2>4, <2>5 DEF ConnInv
<1>5. CutOffOnlyIfSlow'
  <2>1. CASE drained' = drained
    BY <1>1, <2>1 DEF DrainInv, CutOffOnlyIfSlow, MaximumWait
  <2>2. CASE server = "drain"
    BY <1>1, <2>2 DEF ServerInv, CutOffOnlyIfSlow
  <2> QED
    BY <1>2, <2>1, <2>2
<1>6. slow' \in SUBSET Conns
  BY <1>1 DEF DrainInv, DrainTypeOK
<1> QED
  BY <1>1, <1>2, <1>3, <1>4, <1>5, <1>6 DEF DrainInv, DrainTypeOK, MaximumWait

\* Every step preserves the invariant of the drain.
LEMMA DrainPreserved == CallInv /\ ServerInv /\ DrainInv /\ [Next]_vars => DrainInv'
BY DrainServerStep, DrainStageStep, DrainAccept, DrainCancelled, DrainBroadcast, DrainCallEnds,
   DrainCallStep, DrainTick DEF Next, ConnStep, Environment

\* The three invariants hold in every reachable state of the server.
THEOREM ServerInvariant == Spec => [](CallInv /\ ServerInv /\ DrainInv)
<1>1. Spec => []CallInv
  BY ServerUsesAdapter, CallInvariant, PTL
<1>2. Spec => []ServerInv
  BY ServerInitially, ServerPreserved, PTL DEF Spec
<1> QED
  BY <1>1, <1>2, DrainInitially, DrainPreserved, PTL DEF Spec

\* The deadline of the drain cuts off only connections that waited for a peer
\* or whose broadcast took the whole relay timeout, for any timeouts.
THEOREM DeadlineSparesTheFast == Spec => []CutOffOnlyIfSlow
BY ServerInvariant, PTL DEF DrainInv

\* The server's variables keep their types; in particular the semaphore never
\* holds more than max_connections permits, and the drain never waits longer
\* than its deadline.
THEOREM ServerTypeCorrect == Spec => []ServerTypeOK
<1>1. CallInv /\ ServerInv /\ DrainInv => ServerTypeOK
  <2> SUFFICES ASSUME CallInv, ServerInv, DrainInv PROVE ServerTypeOK
    OBVIOUS
  <2>1. IsFiniteSet(RunningConns)
    BY FS_Subset, ServerAssumption DEF RunningConns, Conns
  <2>2. Cardinality(RunningConns) \in Nat
    BY <2>1, FS_CardinalityType
  <2>3. slots \in 0..MaxConnections
    BY <2>2, ServerAssumption DEF ServerInv, SlotsConserved
  <2> QED
    BY <2>3 DEF ServerTypeOK, CallInv, ServerInv, DrainInv, DrainTypeOK, MaximumWait
<1> QED
  BY <1>1, ServerInvariant, PTL

=============================================================================

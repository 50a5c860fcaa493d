-------------------------- MODULE ConnectionProofs --------------------------
(* Supervision, flushing and shutdown in Connection, and the theorems the three
   proof modules lead to. *)
EXTENDS ConnectionAnswers

-----------------------------------------------------------------------------
(* Supervision *)

\* A task that has ended stays ended.
LEMMA EndedStable ==
    [Next]_vars => /\ client = "ended" => client' = "ended"
                   /\ upstream = "ended" => upstream' = "ended"
                   /\ WriterEnded => WriterEnded'
<1> SUFFICES ASSUME [Next]_vars
             PROVE  /\ client = "ended" => client' = "ended"
                    /\ upstream = "ended" => upstream' = "ended"
                    /\ WriterEnded => WriterEnded'
  OBVIOUS
<1>1. CASE ClientActs
  BY <1>1, ClientFrame
  DEF ClientActs, ClientStep, ClientSelect, ClientIdle, ClientReserve, ClientSubmit,
      RelayReturns, ClientRelease, ClientSend, ClientQuits, ClientWrite, ClientRead,
      WriterEnded
<1>2. CASE UpstreamActs
  BY <1>2, UpstreamFrame
  DEF UpstreamActs, UpstreamStep, UpstreamCorrelate, UpstreamSend, UpstreamCloses,
      UpstreamRead, WriterEnded
<1>3. CASE WriterActs
  BY <1>3, WriterFrame
  DEF WriterActs, WriterStep, WriterRecv, WriterFinishes, WriterWrite, WriterFails,
      WriterEnded
<1>4. CASE SupervisorActs
  BY <1>4, SupervisorFrame DEF WriterEnded
<1>5. CASE Cancellations
  BY <1>5, CancellationFrame DEF WriterEnded
<1>6. CASE UNCHANGED vars
  BY <1>6, StutterFrame DEF WriterEnded
<1> QED
  BY <1>1, <1>2, <1>3, <1>4, <1>5, <1>6, Actors

\* Every step keeps what the supervisor knows about its tasks.
LEMMA SupervisorInvStep ==
    TypeOK /\ SupervisorInv /\ [Next]_vars => SupervisorInv'
<1> SUFFICES ASSUME TypeOK, SupervisorInv, [Next]_vars PROVE SupervisorInv'
  OBVIOUS
<1>0. \A t : Ended(t) => Ended(t)'
  BY EndedStable DEF Ended
<1>1. CASE UNCHANGED <<supervisor, finished, aborted>>
  BY <1>1, <1>0, EndedStable DEF SupervisorInv, NoOrphanTasks, AllEnded
<1>2. CASE SupervisorActs
  <2>0. UNCHANGED <<client, upstream, writer>> /\ (WriterEnded' <=> WriterEnded)
    BY <1>2, SupervisorFrame DEF WriterEnded
  <2>1. ASSUME NEW t \in Tasks, SupervisorSelect(t) PROVE SupervisorInv'
    BY <2>1, <1>0 DEF SupervisorSelect, SupervisorInv, NoOrphanTasks
  <2>2. CASE SupervisorReap
    <3>1. finished \in Tasks /\ Ended(finished) /\ \A t \in MustStop[finished] : Ended(t)
      BY <2>2 DEF SupervisorReap, SupervisorInv, AbortedAwaited
    <3>2. CASE finished = "writer"
      <4>1. Ended("writer") /\ Ended("upstream") /\ Ended("client")
        BY <3>1, <3>2 DEF MustStop
      <4> QED
        BY <2>2, <3>2, <4>1, <1>0 DEF SupervisorReap, SupervisorInv, NoOrphanTasks, AllEnded, Tasks
    <3>3. CASE finished # "writer"
      <4>1. Ended("upstream") /\ Ended("client")
        BY <3>1, <3>3 DEF MustStop, Tasks
      <4>2. client = "ended" /\ upstream = "ended"
        BY <4>1 DEF Ended
      <4> QED
        BY <2>2, <3>3, <4>2, <2>0 DEF SupervisorReap, SupervisorInv, NoOrphanTasks
    <3> QED
      BY <3>2, <3>3
  <2>3. CASE SupervisorFlushed
    BY <2>3, <2>0 DEF SupervisorFlushed, SupervisorInv, NoOrphanTasks, AllEnded, Ended, Tasks
  <2>4. CASE SupervisorFlushExpires
    BY <2>4, <2>0 DEF SupervisorFlushExpires, SupervisorInv, NoOrphanTasks
  <2>5. CASE SupervisorCancelled
    BY <2>5 DEF SupervisorCancelled, SupervisorInv, NoOrphanTasks
  <2>6. CASE ShutdownSignal
    BY <2>6, <1>1 DEF ShutdownSignal, supervisorVars
  <2> QED
    BY <1>2, <2>1, <2>2, <2>3, <2>4, <2>5, <2>6 DEF SupervisorActs, SupervisorStep
<1> QED
  BY <1>1, <1>2, Actors, ClientFrame, UpstreamFrame, WriterFrame, CancellationFrame,
     StutterFrame

-----------------------------------------------------------------------------
(* The output channel *)

\* A task that has ended enqueues nothing.
LEMMA EnqueueNeedsTask ==
    ASSUME TypeOK, LocalInv, ClientActs \/ UpstreamActs
    PROVE  \/ UNCHANGED <<output, enqueued>>
           \/ /\ ~WriterEnded
              /\ Len(output') = Len(output) + 1 /\ enqueued' = enqueued + 1
<1>1. CASE ClientSend
  <2>1. reply \in Responses
    BY <1>1, CurHasKey, FrameTypes DEF ClientSend, LocalInv
  <2> QED
    BY <1>1, <2>1, EnqueueType DEF ClientSend, flowVars
<1>2. CASE UpstreamSend
  <2>1. upFrame \in Responses
    BY <1>2 DEF UpstreamSend, LocalInv
  <2> QED
    BY <1>2, <2>1, EnqueueType DEF UpstreamSend, flowVars
<1>3. CASE ~ClientSend /\ ~UpstreamSend
  BY <1>3
  DEF ClientActs, ClientStep, ClientSelect, ClientIdle, ClientReserve, ClientSubmit,
      RelayReturns, ClientRelease, ClientQuits, ClientWrite, ClientRead, OnlyClient,
      UpstreamActs, UpstreamStep, UpstreamCorrelate, UpstreamCloses, UpstreamRead, flowVars
<1> QED
  BY <1>1, <1>2, <1>3

\* No step loses or duplicates an enqueued frame while the writer runs.
LEMMA FlowStep == TypeOK /\ LocalInv /\ FlowInv /\ [Next]_vars => FlowInv'
<1> SUFFICES ASSUME TypeOK, LocalInv, FlowInv, [Next]_vars PROVE FlowInv'
  OBVIOUS
<1>0. enqueued \in Nat /\ delivered \in Nat /\ Len(output) \in Nat /\ output \in Seq(Responses)
  BY DEF TypeOK
<1>1. CASE ClientActs \/ UpstreamActs
  <2>1. UNCHANGED <<writer, delivered>>
    BY <1>1, ClientFrame, UpstreamFrame
  <2>2. CASE UNCHANGED <<output, enqueued>>
    BY <2>1, <2>2, EndedStable DEF FlowInv, WriterEnded, B
  <2>3. CASE /\ ~WriterEnded
             /\ Len(output') = Len(output) + 1 /\ enqueued' = enqueued + 1
    BY <1>0, <2>1, <2>3 DEF FlowInv, WriterEnded, B
  <2> QED
    BY <1>1, <2>2, <2>3, EnqueueNeedsTask
<1>2. CASE WriterActs
  <2>0. UNCHANGED <<client, upstream, enqueued>>
    BY <1>2, WriterFrame
  <2>1. CASE WriterRecv
    <3>1. Len(output') = Len(output) - 1 /\ Len(output) > 0
      BY <1>0, <2>1 DEF WriterRecv
    <3> QED
      BY <1>0, <2>0, <2>1, <3>1 DEF WriterRecv, FlowInv, WriterEnded, B
  <2>2. CASE WriterWrite
    BY <1>0, <2>0, <2>2 DEF WriterWrite, FlowInv, WriterEnded, B
  <2>3. CASE WriterFails
    BY <1>0, <2>0, <2>3 DEF WriterFails, FlowInv, WriterEnded
  <2>4. CASE WriterFinishes
    <3>1. Len(output) = 0
      BY <2>4 DEF WriterFinishes, ChannelClosed
    <3> QED
      BY <1>0, <2>0, <2>4, <3>1
      DEF WriterFinishes, ChannelClosed, FlowInv, WriterEnded, B, flowVars
  <2> QED
    BY <1>2, <2>1, <2>2, <2>3, <2>4 DEF WriterActs, WriterStep
<1>3. CASE SupervisorActs \/ Cancellations \/ UNCHANGED vars
  BY <1>3, EndedStable, SupervisorFrame, CancellationFrame, StutterFrame
  DEF FlowInv, WriterEnded, B
<1> QED
  BY <1>1, <1>2, <1>3, Actors

-----------------------------------------------------------------------------
(* Shutdown *)

\* A second late read would need the client task to pass its shutdown poll
\* with the signal up.
LEMMA LateStep == TypeOK /\ LocalInv /\ LateInv /\ [Next]_vars => LateInv'
<1> SUFFICES ASSUME TypeOK, LocalInv, LateInv, [Next]_vars PROVE LateInv'
  OBVIOUS
<1> DEFINE late == tally["late"][NoId]
<1>0. NoId \in Keys /\ "late" \in Events /\ late \in Nat
  BY DEF TypeOK, Keys, Events
<1>a. late <= 1 /\ (late > 0 => shutdown /\ client # "read")
  BY DEF LateInv, AtMostOneLateRead
<1> SUFFICES late' <= 1 /\ (late' > 0 => shutdown' /\ client' # "read")
  BY DEF LateInv, AtMostOneLateRead
<1>1. CASE ClientActs
  <2>0. UNCHANGED shutdown
    BY <1>1, ClientFrame
  <2>1. ASSUME NEW f \in WalletFrames, ClientRead(f)
        PROVE  late' <= 1 /\ (late' > 0 => shutdown' /\ client' # "read")
    <3>0. UNCHANGED tally \/ (shutdown /\ Count("late", NoId))
      BY <2>1 DEF ClientRead
    <3>1. late' = late \/ (late' = late + 1 /\ shutdown)
      BY <3>0, <1>0, CountEffect
    <3>2. client = "read" /\ client' # "read"
      BY <2>1 DEF ClientRead, Route
    <3> QED
      BY <3>1, <3>2, <2>0, <1>0, <1>a
  <2>2. CASE ClientSelect
    BY <2>2, <2>0, <1>a, <1>0 DEF ClientSelect, ClientGoesTo, AfterShutdownPoll, OnlyClient
  <2>3. CASE ClientIdle \/ ClientQuits \/ RelayReturns \/ ClientRelease
    BY <2>3, <2>0, <1>a, <1>0 DEF ClientIdle, ClientQuits, RelayReturns, ClientRelease,
       ClientGoesTo, OnlyClient, AfterRelay
  <2>4. CASE ClientReserve
    <3>1. cur.kind \in Events \ {"late"} /\ cur.id \in Keys
      BY <2>4, CurHasKey DEF ClientReserve, LocalInv, Events
    <3>2. late' = late
      <4>1. UNCHANGED tally \/ Count(cur.kind, cur.id)
        BY <2>4 DEF ClientReserve
      <4> QED
        BY <4>1, <3>1, <1>0, CountEffect
    <3> QED
      BY <2>4, <3>2, <2>0, <1>a DEF ClientReserve, ClientRefuses
  <2>5. CASE ClientWrite \/ ClientSubmit
    <3>0. Count("written", cur.id) \/ Count("called", cur.id)
      BY <2>5 DEF ClientWrite, ClientSubmit
    <3>1. late' = late
      BY <3>0, <1>0, CurHasKey, EventNames, CountEffect
    <3> QED
      BY <2>5, <3>1, <2>0, <1>a DEF ClientWrite, ClientSubmit, ClientGoesTo
  <2>6. CASE ClientSend
    <3>0. UNCHANGED tally \/ (client = "send" /\ Count("relayed", reply.id))
      BY <2>6 DEF ClientSend
    <3>1. late' = late
      BY <3>0, <1>0, CurHasKey, EventNames, CountEffect
    <3> QED
      BY <2>6, <3>1, <2>0, <1>a DEF ClientSend, ClientGoesTo
  <2> QED
    BY <1>1, <2>1, <2>2, <2>3, <2>4, <2>5, <2>6 DEF ClientActs, ClientStep
<1>2. CASE UpstreamActs
  <2>0. UNCHANGED tally \/ (upstream = "send" /\ Count("forwarded", upFrame.id))
    BY <1>2 DEF UpstreamActs, UpstreamStep, UpstreamCorrelate, UpstreamSend, UpstreamCloses,
       UpstreamRead
  <2>1. late' = late
    BY <2>0, <1>0, CurHasKey, EventNames, CountEffect
  <2> QED
    BY <1>2, <2>1, <1>a, UpstreamFrame
<1>3. CASE WriterActs \/ UNCHANGED vars
  BY <1>3, <1>a, WriterFrame, StutterFrame
<1>4. CASE SupervisorActs
  <2>1. shutdown' = shutdown \/ shutdown'
    BY <1>4 DEF SupervisorActs, SupervisorStep, SupervisorSelect, SupervisorReap,
       SupervisorFlushed, SupervisorFlushExpires, SupervisorCancelled, ShutdownSignal,
       OnlySupervisor, inputVars
  <2> QED
    BY <1>4, <2>1, <1>a, SupervisorFrame
<1>5. CASE Cancellations
  BY <1>5, <1>a, CancellationFrame
<1> QED
  BY <1>1, <1>2, <1>3, <1>4, <1>5, Actors

-----------------------------------------------------------------------------
(* The theorems *)

\* The inductive invariant holds initially.
LEMMA ConnInit == Init => ConnInv
<1> SUFFICES ASSUME Init PROVE ConnInv
  OBVIOUS
<1>1. TypeOK /\ LocalInv
  BY InitType
<1>2. BroadcastIsolation /\ BroadcastSlotOwned
  BY DEF Init, BroadcastIsolation, BroadcastSlotOwned
<1>3. TableInv
  <2>1. Outstanding = {}
    BY DEF Init, Outstanding
  <2> QED
    BY <2>1, FS_EmptySet, ConnectionAssumption DEF TableInv, PendingBounded
<1>4. AnswerBudget
  <2>1. \A e \in Events, i \in Ids : tally[e][i] = 0
    BY DEF Init, Keys
  <2>2. \A i \in Ids : pending[i] = "None" /\ client = "select" /\ upstream = "read"
    BY DEF Init
  <2> QED
    BY <2>1, <2>2, EventNames DEF AnswerBudget, B
<1>5. SupervisorInv
  BY DEF Init, SupervisorInv, NoOrphanTasks
<1>6. FlowInv
  BY DEF Init, FlowInv, B
<1>7. LateInv
  BY DEF Init, LateInv, AtMostOneLateRead, Events, Keys
<1> QED
  BY <1>1, <1>2, <1>3, <1>4, <1>5, <1>6, <1>7 DEF ConnInv

\* The inductive invariant of a connection, for any ids, limits and bounds and
\* whether or not the wallet reuses ids.
THEOREM ConnInvariant == Spec => []ConnInv
<1>1. ConnInv /\ [Next]_vars => ConnInv'
  BY TypeStep, LocalStep, IsolationStep, TableStep, SlotStep, BudgetStep,
     SupervisorInvStep, FlowStep, LateStep DEF ConnInv
<1> QED
  BY ConnInit, <1>1, PTL DEF Spec

\* proxy.rs keeps its types: every variable of a connection stays in its set.
THEOREM ConnectionTypeCorrect == Spec => []TypeOK
BY ConnInvariant, PTL DEF ConnInv

\* A broadcast never reaches the query upstream (handle_client_frames).
THEOREM BroadcastsStayPrivate == Spec => []BroadcastIsolation
BY ConnInvariant, PTL DEF ConnInv

\* The pending table respects max_pending_requests (reserve_request).
THEOREM TableWithinLimit == Spec => []PendingBounded
BY ConnInvariant, PTL DEF ConnInv, TableInv

\* A Broadcast entry is always the current broadcast's, and is released.
THEOREM SlotsOwned == Spec => []BroadcastSlotOwned
BY ConnInvariant, PTL DEF ConnInv

\* Counters are numbers, so an answer paid for in full is an answer paid for.
LEMMA BudgetPays == TypeOK /\ AnswerBudget => NoUnsolicitedAnswer
<1> SUFFICES ASSUME TypeOK, AnswerBudget, NEW i \in Ids
             PROVE  /\ tally["forwarded"][i] <= tally["query"][i]
                    /\ tally["relayed"][i] <= tally["called"][i]
                    /\ tally["called"][i] <= tally["broadcast"][i]
  BY DEF NoUnsolicitedAnswer
<1>1. /\ tally["forwarded"][i] \in Nat /\ tally["query"][i] \in Nat
      /\ tally["relayed"][i] \in Nat /\ tally["called"][i] \in Nat
      /\ tally["broadcast"][i] \in Nat
  BY EventNames DEF TypeOK, Keys
<1> QED
  BY <1>1 DEF AnswerBudget, B

\* The wallet gets no answer it did not ask for, and no broadcast is submitted
\* twice (forward_upstream_frames, handle_client_frames).
THEOREM AnswersSolicited == Spec => []NoUnsolicitedAnswer
BY ConnInvariant, BudgetPays, PTL DEF ConnInv

\* A writer that ends by itself has delivered everything (write_client_output).
THEOREM FlushComplete == Spec => []FlushedMeansDelivered
<1>1. ConnInv => FlushedMeansDelivered
  BY DEF ConnInv, FlowInv, FlushedMeansDelivered
<1> QED
  BY ConnInvariant, <1>1, PTL

\* proxy_streams_until leaves no task behind when it returns.
THEOREM NoOrphans == Spec => []NoOrphanTasks
BY ConnInvariant, PTL DEF ConnInv, SupervisorInv

\* The biased select reads at most one frame after the shutdown signal.
THEOREM OneLateRead == Spec => []AtMostOneLateRead
BY ConnInvariant, PTL DEF ConnInv, LateInv

-----------------------------------------------------------------------------
(* The connection as the server sees it *)

\* How proxy_streams_until moves.
LEMMA SupervisorMoves ==
    [Next]_vars =>
        \/ UNCHANGED supervisor /\ (client' = "await" => client \in {"await", "relay"})
        \/ supervisor = "select" /\ supervisor' = "reap"
        \/ /\ supervisor \in {"reap", "flush", "reap_writer"}
           /\ supervisor' \in {"flush", "reap_writer", "done"}
        \/ supervisor \notin {"done", "cancelled"} /\ supervisor' = "cancelled"
<1> SUFFICES ASSUME [Next]_vars
             PROVE  \/ UNCHANGED supervisor /\ (client' = "await" => client \in {"await", "relay"})
                    \/ supervisor = "select" /\ supervisor' = "reap"
                    \/ /\ supervisor \in {"reap", "flush", "reap_writer"}
                       /\ supervisor' \in {"flush", "reap_writer", "done"}
                    \/ supervisor \notin {"done", "cancelled"} /\ supervisor' = "cancelled"
  OBVIOUS
<1>1. CASE ClientActs
  <2>1. UNCHANGED supervisor
    BY <1>1, ClientFrame
  <2>2. client' = "await" => client \in {"await", "relay"}
    BY <1>1
    DEF ClientActs, ClientStep, ClientSelect, ClientIdle, ClientReserve, ClientSubmit,
        RelayReturns, ClientRelease, ClientSend, ClientQuits, ClientWrite, ClientRead,
        ClientGoesTo, ClientRefuses, AfterShutdownPoll, AfterRelay, Route
  <2> QED
    BY <2>1, <2>2
<1>2. CASE UpstreamActs \/ WriterActs \/ UNCHANGED vars
  BY <1>2, UpstreamFrame, WriterFrame, StutterFrame
<1>3. CASE Cancellations
  BY <1>3, CancellationFrame
<1>4. CASE SupervisorActs
  BY <1>4, SupervisorFrame
  DEF SupervisorActs, SupervisorStep, SupervisorSelect, SupervisorReap, SupervisorFlushed,
      SupervisorFlushExpires, SupervisorCancelled, ShutdownSignal, supervisorVars
<1> QED
  BY <1>1, <1>2, <1>3, <1>4, Actors

\* The stage at each supervisor step.
StageAt ==
    /\ supervisor = "done" => Stage = "ended"
    /\ supervisor = "cancelled" => Stage = "failed"
    /\ supervisor \in {"reap", "flush", "reap_writer"} => Stage = "closing"
    /\ supervisor = "select" => Stage \in {"open", "relaying", "blocked"}
    /\ supervisor = "select" /\ client = "relay" => Stage = "open"
    /\ supervisor = "select" => (Stage = "relaying" <=> client = "await")

\* The stage is always known from the supervisor and the client.
LEMMA StageKnown == TypeOK => StageAt
BY DEF TypeOK, SupervisorPcs, StageAt, Stage, BlockedOnPeer

\* A connection goes through the stages of ConnectionStages only, for any ids
\* and limits: what Server assumes of its connections, proxy_streams_until does.
THEOREM ConnectionFollowsStages == Spec => FollowsStages
<1>1. Init => Stage = "open"
  <2> SUFFICES ASSUME Init PROVE Stage = "open"
    OBVIOUS
  <2>1. supervisor = "select" /\ client = "select"
    BY DEF Init
  <2> QED
    BY <2>1 DEF Stage, BlockedOnPeer
<1>2. ConnInv /\ ConnInv' /\ [Next]_vars => [Stages!Moves]_Stage
  <2> SUFFICES ASSUME ConnInv, ConnInv', [Next]_vars, Stage' # Stage
               PROVE  Stages!Moves
    OBVIOUS
  <2>1. StageAt /\ StageAt'
    BY StageKnown, PTL DEF ConnInv
  <2>2. supervisor \in SupervisorPcs /\ supervisor' \in SupervisorPcs
    BY DEF ConnInv, TypeOK
  <2>3. CASE UNCHANGED supervisor /\ (client' = "await" => client \in {"await", "relay"})
    <3>1. supervisor = "select" /\ supervisor' = "select"
      BY <2>1, <2>2, <2>3 DEF StageAt, SupervisorPcs
    <3>2. Stage \in {"open", "relaying", "blocked"} /\ Stage' \in {"open", "relaying", "blocked"}
      BY <2>1, <3>1 DEF StageAt
    <3>3. Stage' = "relaying" => Stage \in {"open", "relaying"}
      BY <2>1, <2>3, <3>1 DEF StageAt
    <3> QED
      BY <3>2, <3>3 DEF Stages!Moves, Stages!Working
  <2>4. CASE supervisor = "select" /\ supervisor' = "reap"
    BY <2>1, <2>4 DEF StageAt, Stages!Moves, Stages!Closing
  <2>5. CASE /\ supervisor \in {"reap", "flush", "reap_writer"}
             /\ supervisor' \in {"flush", "reap_writer", "done"}
    BY <2>1, <2>5 DEF StageAt, Stages!Moves, Stages!Closing
  <2>6. CASE supervisor \notin {"done", "cancelled"} /\ supervisor' = "cancelled"
    <3>1. Stage \in {"open", "relaying", "blocked", "closing"} /\ Stage' = "failed"
      BY <2>1, <2>2, <2>6 DEF StageAt, SupervisorPcs
    <3> QED
      BY <3>1 DEF Stages!Moves, Stages!Failing
  <2> QED
    BY <2>3, <2>4, <2>5, <2>6, SupervisorMoves
<1> QED
  BY <1>1, <1>2, ConnInvariant, PTL DEF Spec, FollowsStages, Stages!StagesSpec

-----------------------------------------------------------------------------
(* Broadcasts and the upstream *)

\* If the wallet does not reuse an id it waits for, no upstream response is
\* forwarded under the id of a broadcast in progress, for any ids and limits.
THEOREM BroadcastsAnsweredByRelay ==
    ASSUME ~WalletReusesIds
    PROVE  Spec => UpstreamNeverAnswersBroadcast
<1> DEFINE AnswersInv == \A i \in Ids : OneAnswer(i)
           Quiet == \A i \in Ids :
               tally'["forwarded"][i] # tally["forwarded"][i] => ~BroadcastInProgress(i)
<1>1. Init => AnswersInv
  <2> SUFFICES ASSUME Init, NEW i \in Ids PROVE OneAnswer(i)
    OBVIOUS
  <2>1. ~WithClient(i) /\ ~WithTable(i) /\ ~WithUpstream(i) /\ ~WithWriter(i)
    BY DEF Init, WithClient, WithTable, WithUpstream, WithWriter
  <2>2. 1..Len(output) = {}
    BY DEF Init
  <2> QED
    BY <2>1, <2>2, Zenon DEF OneAnswer
<1>2. ConnInv /\ AnswersInv /\ [Next]_vars => AnswersInv'
  BY AnswerStep DEF ConnInv
<1>3. ConnInv /\ AnswersInv /\ [Next]_vars => [Quiet]_vars
  BY ForwardedBy DEF ConnInv, OneAnswer, WithClient, BroadcastInProgress
<1> QED
  BY <1>1, <1>2, <1>3, ConnInvariant, PTL DEF Spec, UpstreamNeverAnswersBroadcast

=============================================================================

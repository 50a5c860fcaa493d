-------------------------- MODULE ConnectionSteps ---------------------------
(* The inductive invariant of Connection, its typing part, what each actor
   leaves alone, and what the pending table promises: its limit and the owner of
   each slot; for any set of ids, any limits and any bounds. *)
EXTENDS Connection, FiniteSetTheorems, TLAPS

B(P) == IF P THEN 1 ELSE 0

\* What the tasks hold at each program counter.
LocalInv ==
    /\ client = "reserve" => cur.kind \in {"query", "broadcast"} /\ cur.id \in Ids
    /\ client = "release" => cur.id \in Ids
    /\ client \in {"release", "send"} => reply = [from |-> "relay", id |-> cur.id]
    /\ client = "refuse" => reply \in Responses
    /\ upstream = "correlate" => upFrame.id \in Ids
    /\ upstream \in {"correlate", "send"} => upFrame \in Responses

\* The pending table is finite, and within its limit.
TableInv == IsFiniteSet(Outstanding) /\ PendingBounded

\* An answer in preparation is already paid for by its request.
AnswerBudget ==
    \A i \in Ids :
        /\ tally["forwarded"][i] + B(pending[i] = "Upstream")
              + B(upstream = "send" /\ upFrame.id = i) <= tally["query"][i]
        /\ tally["relayed"][i] + B(client \in {"await", "release", "send"} /\ cur.id = i)
              <= tally["called"][i]
        /\ tally["called"][i] + B(client = "relay" /\ cur.id = i)
              <= tally["broadcast"][i]

\* What proxy_streams_until knows about its tasks.
SupervisorInv ==
    /\ supervisor = "reap" =>
          finished \in Tasks /\ Ended(finished) /\ MustStop[finished] \subseteq aborted
    /\ supervisor \in {"flush", "reap_writer"} => client = "ended" /\ upstream = "ended"
    /\ NoOrphanTasks

\* Frames enqueued are delivered, in the channel or in the writer's hands.
FlowInv ==
    /\ ~WriterEnded => enqueued = delivered + Len(output) + B(writer = "write")
    /\ writer = "flushed" =>
          client = "ended" /\ upstream = "ended" /\ delivered = enqueued

\* A late read leaves the task where it must see the signal next.
LateInv ==
    /\ AtMostOneLateRead
    /\ tally["late"][NoId] > 0 => shutdown /\ client # "read"

ConnInv ==
    /\ TypeOK /\ LocalInv /\ BroadcastIsolation /\ TableInv /\ BroadcastSlotOwned
    /\ AnswerBudget /\ SupervisorInv /\ FlowInv /\ LateInv

-----------------------------------------------------------------------------
(* Typing *)

\* A step that counts an event keeps the counters' type.
LEMMA CountType ==
    ASSUME TypeOK, NEW e \in Events, NEW k \in Keys, Count(e, k)
    PROVE  tally' \in [Events -> [Keys -> Nat]]
BY DEF TypeOK, Count

\* Frames the tasks build are of the channel's type.
LEMMA FrameTypes ==
    /\ NoId \in Keys /\ Ids \subseteq Keys
    /\ NoFrame.id = NoId /\ NoReply.id = NoId
    /\ \A k \in Keys : [from |-> "upstream", id |-> k] \in Responses
    /\ \A k \in Keys : [from |-> "relay", id |-> k] \in Responses
    /\ \A k \in Keys : [from |-> "proxy", id |-> k] \in Responses
BY DEF Keys, Responses, NoFrame, NoReply

\* Every request frame has an id in Keys.
LEMMA CurHasKey == TypeOK => cur.id \in Keys /\ reply.id \in Keys /\ upFrame.id \in Keys
BY FrameTypes DEF TypeOK, WalletFrames, Responses

\* A send that finds room makes the channel one frame longer.
LEMMA EnqueueType ==
    ASSUME TypeOK, NEW r \in Responses, Enqueue(r)
    PROVE  /\ output' \in Seq(Responses) /\ enqueued' \in Nat /\ delivered' \in Nat
           /\ Len(output') = Len(output) + 1
           /\ enqueued' = enqueued + 1 /\ delivered' = delivered
<1>1. output \in Seq(Responses)
  BY DEF TypeOK
<1>2. Append(output, r) \in Seq(Responses) /\ Len(Append(output, r)) = Len(output) + 1
  BY <1>1
<1> QED
  BY <1>2 DEF Enqueue, TypeOK

\* The initial state is typed.
LEMMA InitType == Init => TypeOK /\ LocalInv
BY ConnectionAssumption
DEF Init, TypeOK, LocalInv, ClientPcs, UpstreamPcs, WriterPcs, SupervisorPcs,
    Tasks, Events, Keys, NoFrame, NoReply

\* The client task's steps keep the types.
LEMMA ClientType ==
    ASSUME TypeOK, LocalInv,
           ClientStep \/ ClientQuits \/ ClientWrite
              \/ (\E f \in WalletFrames : ClientRead(f))
    PROVE  TypeOK'
<1> USE DEF OnlyClient, upstreamVars, writerVars, flowVars, supervisorVars, inputVars,
            ClientGoesTo, ClientPcs
<1>0. cur.id \in Keys /\ reply.id \in Keys /\ NoId \in Keys
  BY CurHasKey, FrameTypes
<1>1. CASE ClientSelect \/ ClientIdle \/ ClientQuits
  BY <1>1 DEF TypeOK, ClientSelect, ClientIdle, ClientQuits, AfterShutdownPoll
<1>2. ASSUME NEW f \in WalletFrames, ClientRead(f) PROVE TypeOK'
  <2>1. f.id \in Keys
    BY DEF WalletFrames
  <2>2. tally' \in [Events -> [Keys -> Nat]]
    BY <1>2, <1>0, CountType DEF ClientRead, Events, TypeOK
  <2>3. Route(f) \in ClientPcs /\ reply' \in Responses \cup {NoReply}
    BY <1>2, <2>1, FrameTypes DEF Route, ClientRead
  <2> QED
    BY <1>2, <2>2, <2>3 DEF TypeOK, ClientRead
<1>3. CASE ClientReserve
  <2>1. cur.kind \in Events /\ cur.id \in Ids
    BY <1>3 DEF LocalInv, ClientReserve, Events
  <2>2. tally' \in [Events -> [Keys -> Nat]]
    BY <1>3, <1>0, <2>1, CountType DEF ClientReserve, TypeOK
  <2>3. pending' \in [Ids -> {"None", "Upstream", "Broadcast"}]
    BY <1>3, <2>1 DEF ClientReserve, TypeOK
  <2>4. client' \in ClientPcs /\ cur' = cur /\ reply' \in Responses \cup {NoReply}
    BY <1>3, <1>0, FrameTypes DEF ClientReserve, ClientRefuses, TypeOK
  <2> QED
    BY <1>3, <2>2, <2>3, <2>4 DEF TypeOK, ClientReserve
<1>4. CASE ClientWrite \/ ClientSubmit
  <2>1. tally' \in [Events -> [Keys -> Nat]]
    BY <1>4, <1>0, CountType DEF ClientWrite, ClientSubmit, Events
  <2> QED
    BY <1>4, <2>1 DEF TypeOK, ClientWrite, ClientSubmit
<1>5. CASE RelayReturns
  BY <1>5, <1>0, FrameTypes DEF TypeOK, RelayReturns, AfterRelay, RelayReply
<1>6. CASE ClientRelease
  BY <1>6 DEF TypeOK, ClientRelease, TableWithoutBroadcast
<1>7. CASE ClientSend
  <2>1. tally' \in [Events -> [Keys -> Nat]]
    BY <1>7, <1>0, CountType DEF ClientSend, Events, TypeOK
  <2>2. reply \in Responses
    BY <1>7, <1>0, FrameTypes DEF ClientSend, LocalInv
  <2>3. output' \in Seq(Responses) /\ enqueued' \in Nat /\ delivered' \in Nat
    BY <1>7, <2>2, EnqueueType DEF ClientSend, TypeOK
  <2> QED
    BY <1>7, <2>1, <2>3 DEF TypeOK, ClientSend
<1> QED
  BY <1>1, <1>2, <1>3, <1>4, <1>5, <1>6, <1>7 DEF ClientStep

\* The upstream and writer tasks' steps keep the types.
LEMMA PeerType ==
    ASSUME TypeOK, LocalInv,
           UpstreamStep \/ WriterStep \/ UpstreamCloses \/ WriterWrite \/ WriterFails
              \/ (\E k \in Keys : UpstreamRead(k))
    PROVE  TypeOK'
<1> USE DEF clientVars, upstreamVars, writerVars, flowVars, supervisorVars, inputVars,
            UpstreamPcs, WriterPcs
<1>1. ASSUME NEW k \in Keys, UpstreamRead(k) PROVE TypeOK'
  BY <1>1, FrameTypes DEF TypeOK, UpstreamRead
<1>2. CASE UpstreamCloses
  BY <1>2 DEF TypeOK, UpstreamCloses
<1>3. CASE UpstreamCorrelate
  BY <1>3 DEF TypeOK, UpstreamCorrelate, TableWithoutQuery
<1>4. CASE UpstreamSend
  <2>1. upFrame \in Responses /\ upFrame.id \in Keys
    BY <1>4, CurHasKey DEF UpstreamSend, LocalInv
  <2>2. tally' \in [Events -> [Keys -> Nat]]
    BY <1>4, <2>1, CountType DEF UpstreamSend, Events, TypeOK
  <2>3. output' \in Seq(Responses) /\ enqueued' \in Nat /\ delivered' \in Nat
    BY <1>4, <2>1, EnqueueType DEF UpstreamSend, TypeOK
  <2> QED
    BY <1>4, <2>2, <2>3 DEF TypeOK, UpstreamSend
<1>5. CASE WriterRecv
  <2>1. Head(output) \in Responses /\ Tail(output) \in Seq(Responses)
    BY <1>5 DEF WriterRecv, TypeOK
  <2> QED
    BY <1>5, <2>1 DEF TypeOK, WriterRecv
<1>6. CASE WriterWrite \/ WriterFails \/ WriterFinishes
  BY <1>6 DEF TypeOK, WriterWrite, WriterFails, WriterFinishes
<1> QED
  BY <1>1, <1>2, <1>3, <1>4, <1>5, <1>6 DEF UpstreamStep, WriterStep

\* Supervision, cancellation and the shutdown signal keep the types.
LEMMA SupervisorType ==
    ASSUME TypeOK,
           SupervisorStep \/ SupervisorCancelled \/ ShutdownSignal \/ Over
              \/ (\E t \in Tasks : TaskCancelled(t)) \/ UNCHANGED vars
    PROVE  TypeOK'
<1> USE DEF OnlySupervisor, clientVars, upstreamVars, writerVars, flowVars,
            supervisorVars, inputVars
<1>1. ASSUME NEW t \in Tasks, SupervisorSelect(t) PROVE TypeOK'
  <2>1. MustStop[t] \in SUBSET Tasks
    BY DEF MustStop, Tasks
  <2> QED
    BY <1>1, <2>1 DEF TypeOK, SupervisorSelect, SupervisorPcs
<1>2. CASE SupervisorReap \/ SupervisorFlushed \/ SupervisorFlushExpires
           \/ SupervisorCancelled
  BY <1>2 DEF TypeOK, SupervisorReap, SupervisorFlushed, SupervisorFlushExpires,
              SupervisorCancelled, SupervisorPcs, Tasks
<1>3. ASSUME NEW t \in Tasks, TaskCancelled(t) PROVE TypeOK'
  BY <1>3 DEF TypeOK, TaskCancelled, ClientGoesTo, ClientPcs, UpstreamPcs, WriterPcs
<1>4. CASE ShutdownSignal
  BY <1>4 DEF TypeOK, ShutdownSignal
<1>5. CASE UNCHANGED vars
  BY <1>5 DEF TypeOK, vars
<1> QED
  BY <1>1, <1>2, <1>3, <1>4, <1>5 DEF SupervisorStep, Over

\* Every step keeps the types.
LEMMA TypeStep == TypeOK /\ LocalInv /\ [Next]_vars => TypeOK'
BY ClientType, PeerType, SupervisorType DEF Next, Environment

-----------------------------------------------------------------------------
(* The steps by actor, and what each actor leaves alone *)

ClientActs ==
    \/ ClientStep \/ ClientQuits \/ ClientWrite
    \/ \E f \in WalletFrames : ClientRead(f)
UpstreamActs == UpstreamStep \/ UpstreamCloses \/ \E k \in Keys : UpstreamRead(k)
WriterActs == WriterStep \/ WriterWrite \/ WriterFails
SupervisorActs == SupervisorStep \/ SupervisorCancelled \/ ShutdownSignal
Cancellations == \E t \in Tasks : TaskCancelled(t)

\* Every step belongs to one actor.
LEMMA Actors ==
    [Next]_vars => \/ ClientActs \/ UpstreamActs \/ WriterActs \/ SupervisorActs
                   \/ Cancellations \/ UNCHANGED vars
BY DEF Next, Environment, Over, ClientActs, UpstreamActs, WriterActs,
       SupervisorActs, Cancellations

\* The client task leaves the other tasks and their supervisor alone.
LEMMA ClientFrame ==
    ClientActs => UNCHANGED <<upstream, upFrame, writer, writing, delivered,
                              supervisor, finished, aborted, shutdown>>
<1> SUFFICES ASSUME ClientActs
             PROVE  UNCHANGED <<upstream, upFrame, writer, writing, delivered,
                                supervisor, finished, aborted, shutdown>>
  OBVIOUS
<1> QED
  BY DEF ClientActs, ClientStep, ClientSelect, ClientIdle, ClientReserve, ClientSubmit,
         RelayReturns, ClientRelease, ClientSend, ClientQuits, ClientWrite, ClientRead,
         OnlyClient, Enqueue, upstreamVars, writerVars, flowVars, supervisorVars, inputVars

\* The upstream task leaves the other tasks and their supervisor alone.
LEMMA UpstreamFrame ==
    UpstreamActs => UNCHANGED <<client, cur, reply, writer, writing, delivered,
                                supervisor, finished, aborted, shutdown>>
BY DEF UpstreamActs, UpstreamStep, UpstreamCorrelate, UpstreamSend, UpstreamCloses,
       UpstreamRead, Enqueue, clientVars, writerVars, flowVars, supervisorVars, inputVars

\* The writer task touches neither the table nor the other tasks.
LEMMA WriterFrame ==
    WriterActs => UNCHANGED <<client, cur, reply, upstream, upFrame, pending, enqueued,
                              supervisor, finished, aborted, shutdown, tally>>
BY DEF WriterActs, WriterStep, WriterRecv, WriterFinishes, WriterWrite, WriterFails,
       clientVars, upstreamVars, flowVars, supervisorVars, inputVars

\* Supervision itself changes no task, table or channel.
LEMMA SupervisorFrame ==
    SupervisorActs => UNCHANGED <<client, cur, reply, upstream, upFrame, writer, writing,
                                  output, enqueued, delivered, pending, tally>>
BY DEF SupervisorActs, SupervisorStep, SupervisorSelect, SupervisorReap,
       SupervisorFlushed, SupervisorFlushExpires, SupervisorCancelled, ShutdownSignal,
       OnlySupervisor, clientVars, upstreamVars, writerVars, flowVars, inputVars

\* A cancellation ends one task, dropping what it held, and nothing else.
LEMMA CancellationFrame ==
    Cancellations =>
        /\ UNCHANGED <<output, enqueued, delivered, pending, supervisor, finished,
                       aborted, shutdown, tally>>
        /\ UNCHANGED <<client, cur, reply>> \/ client' = "ended"
        /\ UNCHANGED <<upstream, upFrame>> \/ upstream' = "ended"
        /\ UNCHANGED <<writer, writing>> \/ (writer' = "ended" /\ ~WriterEnded)
<1> SUFFICES ASSUME NEW t \in Tasks, TaskCancelled(t)
             PROVE  /\ UNCHANGED <<output, enqueued, delivered, pending, supervisor,
                                   finished, aborted, shutdown, tally>>
                    /\ UNCHANGED <<client, cur, reply>> \/ client' = "ended"
                    /\ UNCHANGED <<upstream, upFrame>> \/ upstream' = "ended"
                    /\ UNCHANGED <<writer, writing>> \/ (writer' = "ended" /\ ~WriterEnded)
  BY DEF Cancellations
<1> USE DEF TaskCancelled, ClientGoesTo, Ended, clientVars, upstreamVars, writerVars,
            flowVars, supervisorVars, inputVars
<1>1. CASE t = "client"
  BY <1>1
<1>2. CASE t = "upstream"
  BY <1>2
<1>3. CASE t = "writer"
  BY <1>3
<1> QED
  BY <1>1, <1>2, <1>3 DEF Tasks

\* A stuttering step.
LEMMA StutterFrame ==
    UNCHANGED vars =>
        UNCHANGED <<client, cur, reply, upstream, upFrame, writer, writing, output,
                    enqueued, delivered, pending, supervisor, finished, aborted,
                    shutdown, tally>>
BY DEF vars, clientVars, upstreamVars, writerVars, flowVars, supervisorVars, inputVars

-----------------------------------------------------------------------------
(* What the tasks hold *)

\* Every step keeps the tasks' local state consistent with where they stand.
LEMMA LocalStep == TypeOK /\ LocalInv /\ [Next]_vars => LocalInv'
<1> SUFFICES ASSUME TypeOK, LocalInv, [Next]_vars PROVE LocalInv'
  OBVIOUS
<1>1. CASE ClientActs
  <2> UNCHANGED <<upstream, upFrame>>
    BY <1>1, ClientFrame
  <2>1. CASE ClientSelect \/ ClientIdle \/ ClientQuits \/ ClientWrite
    BY <2>1 DEF LocalInv, ClientSelect, ClientIdle, ClientQuits, ClientWrite,
                ClientGoesTo, AfterShutdownPoll
  <2>2. ASSUME NEW f \in WalletFrames, ClientRead(f) PROVE LocalInv'
    <3>1. f.id \in Keys /\ f.kind \in {"query", "broadcast", "bad_params", "invalid"}
      BY DEF WalletFrames
    <3> QED
      BY <2>2, <3>1, FrameTypes DEF LocalInv, ClientRead, Route, Keys
  <2>3. CASE ClientReserve
    BY <2>3, CurHasKey, FrameTypes DEF LocalInv, ClientReserve, ClientRefuses
  <2>4. CASE ClientSubmit
    BY <2>4 DEF LocalInv, ClientSubmit
  <2>5. CASE RelayReturns
    BY <2>5, CurHasKey DEF LocalInv, RelayReturns, AfterRelay, RelayReply, Keys
  <2>6. CASE ClientRelease
    BY <2>6 DEF LocalInv, ClientRelease
  <2>7. CASE ClientSend
    BY <2>7 DEF LocalInv, ClientSend, ClientGoesTo
  <2> QED
    BY <1>1, <2>1, <2>2, <2>3, <2>4, <2>5, <2>6, <2>7 DEF ClientActs, ClientStep
<1>2. CASE UpstreamActs
  <2> UNCHANGED <<client, cur, reply>>
    BY <1>2, UpstreamFrame
  <2>1. ASSUME NEW k \in Keys, UpstreamRead(k) PROVE LocalInv'
    BY <2>1, FrameTypes DEF LocalInv, UpstreamRead, Keys
  <2>2. CASE UpstreamCorrelate \/ UpstreamSend \/ UpstreamCloses
    BY <2>2 DEF LocalInv, UpstreamCorrelate, UpstreamSend, UpstreamCloses
  <2> QED
    BY <1>2, <2>1, <2>2 DEF UpstreamActs, UpstreamStep
<1>3. CASE WriterActs
  BY <1>3, WriterFrame DEF LocalInv
<1>4. CASE SupervisorActs
  BY <1>4, SupervisorFrame DEF LocalInv
<1>5. CASE Cancellations
  BY <1>5, CancellationFrame DEF LocalInv
<1>6. CASE UNCHANGED vars
  BY <1>6, StutterFrame DEF LocalInv
<1> QED
  BY <1>1, <1>2, <1>3, <1>4, <1>5, <1>6, Actors

\* No step brings a broadcast to upstream_writer or a query to the relay.
LEMMA IsolationStep ==
    LocalInv /\ BroadcastIsolation /\ [Next]_vars => BroadcastIsolation'
<1> SUFFICES ASSUME LocalInv, BroadcastIsolation, [Next]_vars
             PROVE  BroadcastIsolation'
  OBVIOUS
<1>1. CASE ClientActs
  <2>1. CASE ClientSelect \/ ClientIdle \/ ClientQuits \/ ClientWrite \/ ClientSend
    BY <2>1 DEF BroadcastIsolation, ClientSelect, ClientIdle, ClientQuits, ClientWrite,
                ClientSend, ClientGoesTo, AfterShutdownPoll
  <2>2. ASSUME NEW f \in WalletFrames, ClientRead(f) PROVE BroadcastIsolation'
    <3>1. f.kind \in {"query", "broadcast", "bad_params", "invalid"}
      BY DEF WalletFrames
    <3> QED
      BY <2>2, <3>1 DEF BroadcastIsolation, ClientRead, Route
  <2>3. CASE ClientReserve
    BY <2>3 DEF BroadcastIsolation, LocalInv, ClientReserve, ClientRefuses
  <2>4. CASE ClientSubmit \/ RelayReturns \/ ClientRelease
    BY <2>4 DEF BroadcastIsolation, ClientSubmit, RelayReturns, ClientRelease, AfterRelay
  <2> QED
    BY <1>1, <2>1, <2>2, <2>3, <2>4 DEF ClientActs, ClientStep
<1>2. CASE UpstreamActs \/ WriterActs \/ SupervisorActs \/ UNCHANGED vars
  BY <1>2, UpstreamFrame, WriterFrame, SupervisorFrame, StutterFrame
  DEF BroadcastIsolation
<1>3. CASE Cancellations
  BY <1>3, CancellationFrame DEF BroadcastIsolation
<1> QED
  BY <1>1, <1>2, <1>3, Actors

-----------------------------------------------------------------------------
(* The pending table *)

\* Only these three steps change the table.
LEMMA TableWriters ==
    [Next]_vars => ClientReserve \/ ClientRelease \/ UpstreamCorrelate \/ UNCHANGED pending
<1> SUFFICES ASSUME [Next]_vars
             PROVE  \/ ClientReserve \/ ClientRelease \/ UpstreamCorrelate
                    \/ UNCHANGED pending
  OBVIOUS
<1>1. CASE ClientActs
  BY <1>1 DEF ClientActs, ClientStep, ClientSelect, ClientIdle, ClientSubmit, RelayReturns,
              ClientSend, ClientQuits, ClientWrite, ClientRead, OnlyClient
<1>2. CASE UpstreamActs
  BY <1>2 DEF UpstreamActs, UpstreamStep, UpstreamSend, UpstreamCloses, UpstreamRead
<1>3. CASE WriterActs \/ SupervisorActs \/ Cancellations \/ UNCHANGED vars
  BY <1>3, WriterFrame, SupervisorFrame, CancellationFrame, StutterFrame
<1> QED
  BY <1>1, <1>2, <1>3, Actors

\* Removing an entry keeps the table finite and within its limit.
LEMMA RemovalBounded ==
    ASSUME TableInv, NEW i, pending' = [pending EXCEPT ![i] = "None"], TypeOK
    PROVE  TableInv'
<1>1. Outstanding' \subseteq Outstanding
  BY DEF Outstanding, TypeOK
<1>2. IsFiniteSet(Outstanding') /\ Cardinality(Outstanding') <= Cardinality(Outstanding)
  BY <1>1, FS_Subset DEF TableInv
<1>3. Cardinality(Outstanding) \in Nat /\ Cardinality(Outstanding') \in Nat
  BY <1>2, FS_CardinalityType DEF TableInv
<1> QED
  BY <1>2, <1>3, ConnectionAssumption DEF TableInv, PendingBounded

\* reserve_request inserts only below the limit; nothing else inserts.
LEMMA TableStep == TypeOK /\ LocalInv /\ TableInv /\ [Next]_vars => TableInv'
<1> SUFFICES ASSUME TypeOK, LocalInv, TableInv, [Next]_vars PROVE TableInv'
  OBVIOUS
<1>1. CASE ClientReserve /\ pending' # pending
  <2>1. /\ cur.id \in Ids /\ cur.id \notin Outstanding
        /\ ~TableFull
        /\ Outstanding' = Outstanding \cup {cur.id}
    BY <1>1 DEF ClientReserve, LocalInv, Outstanding, TypeOK
  <2>2. /\ IsFiniteSet(Outstanding')
        /\ Cardinality(Outstanding') = Cardinality(Outstanding) + 1
    BY <2>1, FS_AddElement DEF TableInv
  <2>3. Cardinality(Outstanding) \in Nat
    BY FS_CardinalityType DEF TableInv
  <2> QED
    BY <2>1, <2>2, <2>3, ConnectionAssumption DEF TableInv, PendingBounded, TableFull
<1>2. CASE ClientRelease
  BY <1>2, RemovalBounded DEF ClientRelease, TableWithoutBroadcast
<1>3. CASE UpstreamCorrelate /\ pending' # pending
  BY <1>3, RemovalBounded DEF UpstreamCorrelate, TableWithoutQuery
<1>4. CASE UNCHANGED pending
  BY <1>4 DEF TableInv, PendingBounded, Outstanding
<1> QED
  BY <1>1, <1>2, <1>3, <1>4, TableWriters

\* A broadcast's slot lives exactly as long as its relay call.
LEMMA SlotStep ==
    TypeOK /\ LocalInv /\ BroadcastIsolation /\ BroadcastSlotOwned /\ [Next]_vars
        => BroadcastSlotOwned'
<1> SUFFICES ASSUME TypeOK, LocalInv, BroadcastIsolation, BroadcastSlotOwned, [Next]_vars,
                    client' # "ended"
             PROVE  \A i \in Ids : (pending[i] = "Broadcast" <=>
                        client \in {"relay", "await", "release"} /\ cur.id = i)'
  BY DEF BroadcastSlotOwned
<1> TAKE i \in Ids
<1>0. i # NoId
  BY ConnectionAssumption
<1>1. CASE ClientActs
  <2>1. CASE ClientSelect \/ ClientIdle \/ ClientQuits \/ ClientWrite
    BY <2>1 DEF BroadcastSlotOwned, ClientSelect, ClientIdle, ClientQuits, ClientWrite,
                ClientGoesTo, AfterShutdownPoll, OnlyClient
  <2>2. ASSUME NEW f \in WalletFrames, ClientRead(f)
        PROVE  (pending[i] = "Broadcast" <=>
                  client \in {"relay", "await", "release"} /\ cur.id = i)'
    BY <1>0, <2>2 DEF BroadcastSlotOwned, ClientRead, Route
  <2>3. CASE ClientReserve
    BY <2>3 DEF BroadcastSlotOwned, LocalInv, ClientReserve, ClientRefuses, TypeOK
  <2>4. CASE ClientSubmit
    BY <2>4 DEF BroadcastSlotOwned, ClientSubmit
  <2>5. CASE RelayReturns
    BY <1>0, <2>5 DEF BroadcastSlotOwned, RelayReturns, AfterRelay, OnlyClient
  <2>6. CASE ClientRelease
    BY <2>6 DEF BroadcastSlotOwned, ClientRelease, TableWithoutBroadcast, TypeOK
  <2>7. CASE ClientSend
    BY <2>7 DEF BroadcastSlotOwned, ClientSend, ClientGoesTo
  <2> QED
    BY <1>1, <2>1, <2>2, <2>3, <2>4, <2>5, <2>6, <2>7 DEF ClientActs, ClientStep
<1>2. CASE UpstreamActs
  <2>1. UNCHANGED <<client, cur>>
    BY <1>2, UpstreamFrame
  <2>2. pending'[i] = "Broadcast" <=> pending[i] = "Broadcast"
    <3>1. CASE UpstreamCorrelate
      BY <3>1 DEF UpstreamCorrelate, MatchesQuery, TableWithoutQuery, TypeOK
    <3>2. CASE UNCHANGED pending
      BY <3>2
    <3> QED
      BY <1>2, <3>1, <3>2
      DEF UpstreamActs, UpstreamStep, UpstreamSend, UpstreamCloses, UpstreamRead
  <2> QED
    BY <2>1, <2>2 DEF BroadcastSlotOwned
<1>3. CASE WriterActs \/ SupervisorActs \/ UNCHANGED vars
  BY <1>3, WriterFrame, SupervisorFrame, StutterFrame DEF BroadcastSlotOwned
<1>4. CASE Cancellations
  BY <1>4, CancellationFrame DEF BroadcastSlotOwned
<1> QED
  BY <1>1, <1>2, <1>3, <1>4, Actors

=============================================================================

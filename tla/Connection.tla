----------------------------- MODULE Connection -----------------------------
(***************************************************************************)
(* One wallet connection: proxy_streams_until and the three tasks it       *)
(* supervises (src/proxy.rs).                                              *)
(*                                                                         *)
(*   client    handle_client_frames: reads wallet frames, reserves ids,    *)
(*             writes queries upstream, hands broadcasts to the relay      *)
(*   upstream  forward_upstream_frames: reads upstream frames, correlates  *)
(*             responses with the pending table                            *)
(*   writer    write_client_output: drains the output channel to the wallet*)
(*                                                                         *)
(* A step is the code between two await points, or between two places      *)
(* where another thread can run.  The wallet, the upstream and the relay   *)
(* are the environment: they may send anything, answer nothing, or stop    *)
(* reading.  Payloads are abstracted to a kind and a request id.           *)
(***************************************************************************)
EXTENDS Naturals, Sequences, FiniteSets

CONSTANTS
    Ids,                \* request ids with a correlation key
    NoId,               \* an absent or null id
    MaxPending,         \* limits.max_pending_requests
    OutputCapacity,     \* capacity of the client_output channel (32)
    WalletReusesIds,    \* may the wallet reuse an id it has no answer for?
    MaxReads,           \* bound: wallet frames read
    MaxUpstreamFrames   \* bound: upstream frames read

ASSUME ConnectionAssumption ==
    /\ NoId \notin Ids
    /\ MaxPending \in Nat \ {0}
    /\ OutputCapacity \in Nat \ {0}
    /\ WalletReusesIds \in BOOLEAN
    /\ MaxReads \in Nat
    /\ MaxUpstreamFrames \in Nat

Keys == Ids \cup {NoId}
Tasks == {"writer", "upstream", "client"}

\* What classify and read_frame make of a wallet frame.
WalletFrames ==
    {f \in [kind : {"query", "broadcast", "bad_params", "invalid"}, id : Keys] :
        f.kind = "invalid" => f.id = NoId}
NoFrame == [kind |-> "none", id |-> NoId]

\* What travels through client_output: an upstream response (id in Ids) or
\* notification (NoId), the relay's result, or an error made by the proxy.
Responses == [from : {"upstream", "relay", "proxy"}, id : Keys]
NoReply == [from |-> "none", id |-> NoId]

\* Ghost counters, per id.
Events == {"query",       \* query slots reserved
           "broadcast",   \* broadcast slots reserved
           "written",     \* queries written to the upstream
           "called",      \* relay.broadcast calls
           "forwarded",   \* upstream frames enqueued for the wallet
           "relayed",     \* relay results enqueued for the wallet
           "late"}        \* wallet frames read after the shutdown
                          \* signal (all under NoId)

VARIABLES
    client,       \* where handle_client_frames stands
    cur,          \* the wallet frame it is handling
    reply,        \* the response it is about to enqueue
    upstream,     \* where forward_upstream_frames stands
    upFrame,      \* the upstream frame it is handling
    writer,       \* where write_client_output stands
    writing,      \* the frame it is writing
    output,       \* the mpsc channel from client and upstream to writer
    pending,      \* pending_requests
    supervisor,   \* where proxy_streams_until stands
    finished,     \* the task its select saw finish first
    aborted,      \* tasks whose handle was aborted
    shutdown,     \* the server's shutdown watch
    unanswered,   \* ids the wallet sent and has no response for
    reads,        \* wallet frames read
    upReads,      \* upstream frames read
    tally,        \* ghost: [Events -> [Keys -> Nat]]
    enqueued,     \* ghost: frames put on the output channel
    delivered     \* ghost: frames written to the wallet

clientVars == <<client, cur, reply>>
upstreamVars == <<upstream, upFrame>>
writerVars == <<writer, writing>>
supervisorVars == <<supervisor, finished, aborted>>
flowVars == <<output, enqueued, delivered>>
inputVars == <<shutdown, unanswered, reads, upReads>>
vars == <<clientVars, upstreamVars, writerVars, flowVars, pending,
          supervisorVars, inputVars, tally>>

ClientPcs == {"select", "read", "reserve", "write", "relay", "await",
              "release", "send", "refuse", "ended"}
UpstreamPcs == {"read", "correlate", "send", "ended"}
WriterPcs == {"recv", "write", "flushed", "ended"}
SupervisorPcs == {"select", "reap", "flush", "reap_writer", "done", "cancelled"}

TypeOK ==
    /\ client \in ClientPcs
    /\ cur \in WalletFrames \cup {NoFrame}
    /\ reply \in Responses \cup {NoReply}
    /\ upstream \in UpstreamPcs
    /\ upFrame \in Responses \cup {NoReply}
    /\ writer \in WriterPcs
    /\ writing \in Responses \cup {NoReply}
    /\ output \in Seq(Responses)
    /\ pending \in [Ids -> {"None", "Upstream", "Broadcast"}]
    /\ supervisor \in SupervisorPcs
    /\ finished \in Tasks \cup {"none"}
    /\ aborted \in SUBSET Tasks
    /\ shutdown \in BOOLEAN
    /\ unanswered \in SUBSET Ids
    /\ reads \in Nat
    /\ upReads \in Nat
    /\ tally \in [Events -> [Keys -> Nat]]
    /\ enqueued \in Nat
    /\ delivered \in Nat

Init ==
    /\ client = "select" /\ cur = NoFrame /\ reply = NoReply
    /\ upstream = "read" /\ upFrame = NoReply
    /\ writer = "recv" /\ writing = NoReply
    /\ output = <<>>
    /\ pending = [i \in Ids |-> "None"]
    /\ supervisor = "select" /\ finished = "none" /\ aborted = {}
    /\ shutdown \in BOOLEAN
    /\ unanswered = {} /\ reads = 0 /\ upReads = 0
    /\ tally = [e \in Events |-> [k \in Keys |-> 0]]
    /\ enqueued = 0 /\ delivered = 0

Count(event, k) == tally' = [tally EXCEPT ![event][k] = @ + 1]

\* A send on client_output that finds room.
Enqueue(frame) ==
    /\ Len(output) < OutputCapacity
    /\ output' = Append(output, frame)
    /\ enqueued' = enqueued + 1
    /\ UNCHANGED delivered

WriterEnded == writer \in {"flushed", "ended"}
Ended(t) ==
    \/ t = "client" /\ client = "ended"
    \/ t = "upstream" /\ upstream = "ended"
    \/ t = "writer" /\ WriterEnded

\* The pending table's entries: pending.len() is their number.
Outstanding == {i \in Ids : pending[i] # "None"}

-----------------------------------------------------------------------------
(* The client task *)

OnlyClient == UNCHANGED <<upstreamVars, writerVars, flowVars, pending,
                          supervisorVars, inputVars, tally>>

ClientGoesTo(pc) == client' = pc /\ cur' = NoFrame /\ reply' = NoReply

ClientRefuses(id) ==
    /\ client' = "refuse"
    /\ reply' = [from |-> "proxy", id |-> id]
    /\ UNCHANGED cur

\* Mutant: read_frame is polled whatever the shutdown signal says.
PollUnbiased == "read"

\* The biased select polls wait_for_shutdown first: with the signal up the
\* task returns, otherwise it goes on to poll read_frame.
AfterShutdownPoll == IF shutdown THEN "ended" ELSE "read"

ClientSelect ==
    /\ client = "select"
    /\ ClientGoesTo(AfterShutdownPoll)
    /\ OnlyClient

\* No complete frame yet: the select waits and is polled again.
ClientIdle ==
    /\ client = "read"
    /\ ClientGoesTo("select")
    /\ OnlyClient

\* The match on classify's result: errors are answered and end the task,
\* requests with an id reserve it first.
Route(f) ==
    IF f.kind \in {"bad_params", "invalid"} THEN "refuse"
    ELSE IF f.id # NoId THEN "reserve"
    ELSE IF f.kind = "query" THEN "write" ELSE "relay"

\* read_frame returns a frame, which classify routes.
ClientRead(f) ==
    /\ client = "read"
    /\ reads < MaxReads
    /\ f.id \in unanswered => WalletReusesIds
    /\ cur' = f
    /\ client' = Route(f)
    /\ reply' = IF Route(f) = "refuse" THEN [from |-> "proxy", id |-> f.id] ELSE NoReply
    /\ reads' = reads + 1
    /\ unanswered' = unanswered \cup ({f.id} \cap Ids)
    /\ IF shutdown THEN Count("late", NoId) ELSE UNCHANGED tally
    /\ UNCHANGED <<upstreamVars, writerVars, flowVars, pending, supervisorVars,
                   shutdown, upReads>>

\* Mutant: the limit check is off by one.
TableFullOffByOne == Cardinality(Outstanding) > MaxPending

TableFull == Cardinality(Outstanding) >= MaxPending

\* reserve_request, under the table's lock, and the match on its result.
ClientReserve ==
    /\ client = "reserve"
    /\ \/ /\ pending[cur.id] # "None"                       \* Duplicate
          /\ ClientRefuses(NoId)
          /\ UNCHANGED <<pending, tally>>
       \/ /\ pending[cur.id] = "None"
          /\ TableFull                                     \* LimitExceeded
          /\ ClientRefuses(cur.id)
          /\ UNCHANGED <<pending, tally>>
       \/ /\ pending[cur.id] = "None"
          /\ ~TableFull                                    \* Reserved
          /\ pending' = [pending EXCEPT ![cur.id] =
                            IF cur.kind = "query" THEN "Upstream" ELSE "Broadcast"]
          /\ client' = IF cur.kind = "query" THEN "write" ELSE "relay"
          /\ Count(cur.kind, cur.id)
          /\ UNCHANGED <<cur, reply>>
    /\ UNCHANGED <<upstreamVars, writerVars, flowVars, supervisorVars, inputVars>>

\* The wallet closed its side, reading failed, or writing upstream failed.
ClientQuits ==
    /\ client \in {"read", "write"}
    /\ ClientGoesTo("ended")
    /\ OnlyClient

\* upstream_writer.write_all completes.
ClientWrite ==
    /\ client = "write"
    /\ ClientGoesTo("select")
    /\ Count("written", cur.id)
    /\ UNCHANGED <<upstreamVars, writerVars, flowVars, pending, supervisorVars,
                   inputVars>>

\* relay.broadcast is called ...
ClientSubmit ==
    /\ client = "relay"
    /\ client' = "await"
    /\ Count("called", cur.id)
    /\ UNCHANGED <<cur, reply, upstreamVars, writerVars, flowVars, pending,
                   supervisorVars, inputVars>>

\* Mutant: a failed relay call falls back to the query upstream.
AfterRelayFallback == {"release", "write"}

\* Where the task goes with the relay's result, success or error alike.
AfterRelay == {IF cur.id = NoId THEN "send" ELSE "release"}

\* Mutant: an error result builds no response.
NoRelayReply == reply

RelayReply == [from |-> "relay", id |-> cur.id]

\* ... and returns: both results become a response to the broadcast's id.
RelayReturns ==
    /\ client = "await"
    /\ client' \in AfterRelay
    /\ reply' = RelayReply
    /\ UNCHANGED cur /\ OnlyClient

\* Mutant: the broadcast's slot is never given back.
TableKept == pending

TableWithoutBroadcast == [pending EXCEPT ![cur.id] = "None"]

\* pending_requests.lock().await.remove(&key)
ClientRelease ==
    /\ client = "release"
    /\ client' = "send"
    /\ pending' = TableWithoutBroadcast
    /\ UNCHANGED <<cur, reply, upstreamVars, writerVars, flowVars,
                   supervisorVars, inputVars, tally>>

\* client_output.send(reply).await: waits for room, and fails once the writer
\* has dropped the receiver.  A refusal is followed by a return either way.
ClientSend ==
    /\ client \in {"send", "refuse"}
    /\ \/ /\ WriterEnded
          /\ ClientGoesTo("ended")
          /\ UNCHANGED <<flowVars, tally>>
       \/ /\ ~WriterEnded
          /\ Enqueue(reply)
          /\ IF client = "send" THEN Count("relayed", reply.id) ELSE UNCHANGED tally
          /\ ClientGoesTo(IF client = "send" THEN "select" ELSE "ended")
    /\ UNCHANGED <<upstreamVars, writerVars, pending, supervisorVars, inputVars>>

-----------------------------------------------------------------------------
(* The upstream task *)

\* A response with some id, or a notification (NoId).
UpstreamRead(k) ==
    /\ upstream = "read"
    /\ upReads < MaxUpstreamFrames
    /\ upReads' = upReads + 1
    /\ upFrame' = [from |-> "upstream", id |-> k]
    /\ upstream' = IF k = NoId THEN "send" ELSE "correlate"
    /\ UNCHANGED <<clientVars, writerVars, flowVars, pending, supervisorVars,
                   shutdown, unanswered, reads, tally>>

\* End of stream, a read error, or a frame that is neither a response with a
\* valid id nor a notification.
UpstreamCloses ==
    /\ upstream = "read"
    /\ upstream' = "ended"
    /\ UNCHANGED <<clientVars, upFrame, writerVars, flowVars, pending,
                   supervisorVars, inputVars, tally>>

\* Mutant: any pending entry is taken for a match.
MatchesAnyEntry(i) == pending[i] # "None"

MatchesQuery(i) == pending[i] = "Upstream"

\* Mutant: the matched entry stays in the table.
TableUntouched == pending

TableWithoutQuery == [pending EXCEPT ![upFrame.id] = "None"]

\* The lookup under the table's lock: a match is removed and forwarded, any
\* other response is dropped.
UpstreamCorrelate ==
    /\ upstream = "correlate"
    /\ \/ /\ MatchesQuery(upFrame.id)
          /\ pending' = TableWithoutQuery
          /\ upstream' = "send"
          /\ UNCHANGED upFrame
       \/ /\ ~MatchesQuery(upFrame.id)
          /\ upstream' = "read"
          /\ upFrame' = NoReply
          /\ UNCHANGED pending
    /\ UNCHANGED <<clientVars, writerVars, flowVars, supervisorVars, inputVars, tally>>

UpstreamSend ==
    /\ upstream = "send"
    /\ \/ /\ WriterEnded
          /\ upstream' = "ended"
          /\ UNCHANGED <<flowVars, tally>>
       \/ /\ ~WriterEnded
          /\ Enqueue(upFrame)
          /\ Count("forwarded", upFrame.id)
          /\ upstream' = "read"
    /\ upFrame' = NoReply
    /\ UNCHANGED <<clientVars, writerVars, pending, supervisorVars, inputVars>>

-----------------------------------------------------------------------------
(* The writer task *)

WriterRecv ==
    /\ writer = "recv"
    /\ output # <<>>
    /\ writing' = Head(output)
    /\ output' = Tail(output)
    /\ writer' = "write"
    /\ UNCHANGED <<clientVars, upstreamVars, enqueued, delivered, pending,
                   supervisorVars, inputVars, tally>>

WriterWrite ==
    /\ writer = "write"
    /\ writer' = "recv"
    /\ writing' = NoReply
    /\ unanswered' = unanswered \ {writing.id}
    /\ delivered' = delivered + 1
    /\ UNCHANGED <<clientVars, upstreamVars, output, enqueued, pending,
                   supervisorVars, shutdown, reads, upReads, tally>>

WriterFails ==
    /\ writer = "write"
    /\ writer' = "ended"
    /\ writing' = NoReply
    /\ UNCHANGED <<clientVars, upstreamVars, flowVars, pending, supervisorVars,
                   inputVars, tally>>

\* Mutant: the loop ends with the senders, whatever is still queued.
SendersGone == client = "ended" /\ upstream = "ended"

\* recv returns None: every sender is dropped and the channel is empty.
ChannelClosed == output = <<>> /\ client = "ended" /\ upstream = "ended"

\* The loop ends and the wallet's side is shut down.
WriterFinishes ==
    /\ writer = "recv"
    /\ ChannelClosed
    /\ writer' = "flushed"
    /\ UNCHANGED <<clientVars, upstreamVars, writing, flowVars, pending,
                   supervisorVars, inputVars, tally>>

-----------------------------------------------------------------------------
(* proxy_streams_until *)

OnlySupervisor == UNCHANGED <<clientVars, upstreamVars, writerVars, flowVars,
                              pending, inputVars, tally>>

\* The siblings aborted after each FinishedTask.
MustStop == [writer |-> {"upstream", "client"},
             upstream |-> {"client"},
             client |-> {"upstream"}]

\* Mutant: a writer that has ended needs no more attention.
SupervisorReturns(t) ==
    /\ supervisor = "select"
    /\ Ended(t)
    /\ finished' = t
    /\ aborted' = MustStop[t]
    /\ supervisor' = IF t = "writer" THEN "done" ELSE "reap"
    /\ OnlySupervisor

\* The select sees one finished task (any of them if there are several) and
\* aborts the tasks that must not outlive it.
SupervisorSelect(t) ==
    /\ supervisor = "select"
    /\ Ended(t)
    /\ finished' = t
    /\ aborted' = MustStop[t]
    /\ supervisor' = "reap"
    /\ OnlySupervisor

\* Mutant: the aborted handles are not awaited.
NobodyAwaited == TRUE

AbortedAwaited == \A t \in aborted : Ended(t)

\* The aborted handles are awaited; then the writer gets its grace period.
SupervisorReap ==
    /\ supervisor = "reap"
    /\ AbortedAwaited
    /\ supervisor' = IF finished = "writer" THEN "done" ELSE "flush"
    /\ UNCHANGED <<finished, aborted>> /\ OnlySupervisor

\* finish_or_abort: the writer finishes within the grace period ...
SupervisorFlushed ==
    /\ supervisor \in {"flush", "reap_writer"}
    /\ WriterEnded
    /\ supervisor' = "done"
    /\ UNCHANGED <<finished, aborted>> /\ OnlySupervisor

\* Mutant: the writer is awaited without a timeout.
WaitForever == FALSE

FlushTimerFires == ~WriterEnded

\* ... or its timeout fires, and the writer is aborted and awaited.
SupervisorFlushExpires ==
    /\ supervisor = "flush"
    /\ FlushTimerFires
    /\ aborted' = aborted \cup {"writer"}
    /\ supervisor' = "reap_writer"
    /\ UNCHANGED finished /\ OnlySupervisor

\* The server cancels the connection task: dropping the three AbortTaskOnDrop
\* handles requests cancellation of whatever still runs.
SupervisorCancelled ==
    /\ supervisor \notin {"done", "cancelled"}
    /\ supervisor' = "cancelled"
    /\ aborted' = Tasks
    /\ UNCHANGED finished /\ OnlySupervisor

\* An aborted task stops at its next await point.  Until then it may go on:
\* abort does not interrupt the poll in progress.
TaskCancelled(t) ==
    /\ t \in aborted
    /\ ~Ended(t)
    /\ \/ /\ t = "client"
          /\ ClientGoesTo("ended")
          /\ UNCHANGED <<upstreamVars, writerVars>>
       \/ /\ t = "upstream"
          /\ upstream' = "ended" /\ upFrame' = NoReply
          /\ UNCHANGED <<clientVars, writerVars>>
       \/ /\ t = "writer"
          /\ writer' = "ended" /\ writing' = NoReply
          /\ UNCHANGED <<clientVars, upstreamVars>>
    /\ UNCHANGED <<flowVars, pending, supervisorVars, inputVars, tally>>

\* serve_until raises the shutdown watch (dropping its sender has the same
\* effect on wait_for_shutdown).
ShutdownSignal ==
    /\ ~shutdown
    /\ shutdown' = TRUE
    /\ UNCHANGED <<clientVars, upstreamVars, writerVars, flowVars, pending,
                   supervisorVars, unanswered, reads, upReads, tally>>

AllEnded == \A t \in Tasks : Ended(t)
Closed == supervisor \in {"done", "cancelled"} /\ AllEnded

\* The connection is over: nothing happens any more.
Over == Closed /\ UNCHANGED vars

\* Steps the runtime takes by itself: local progress, a relay call that
\* returns (its timeouts bound it), timers and cancellations.
ClientStep ==
    \/ ClientSelect \/ ClientIdle \/ ClientReserve \/ ClientSubmit
    \/ RelayReturns \/ ClientRelease \/ ClientSend
UpstreamStep == UpstreamCorrelate \/ UpstreamSend
WriterStep == WriterRecv \/ WriterFinishes
SupervisorStep ==
    \/ \E t \in Tasks : SupervisorSelect(t)
    \/ SupervisorReap \/ SupervisorFlushed \/ SupervisorFlushExpires

\* Steps that need the wallet, the upstream or the server.
Environment ==
    \/ \E f \in WalletFrames : ClientRead(f)
    \/ ClientQuits \/ ClientWrite
    \/ \E k \in Keys : UpstreamRead(k)
    \/ UpstreamCloses \/ WriterWrite \/ WriterFails
    \/ SupervisorCancelled \/ ShutdownSignal

Next ==
    \/ ClientStep \/ UpstreamStep \/ WriterStep \/ SupervisorStep
    \/ \E t \in Tasks : TaskCancelled(t)
    \/ Environment
    \/ Over

Spec == Init /\ [][Next]_vars

Fairness ==
    /\ WF_vars(ClientStep)
    /\ WF_vars(UpstreamStep)
    /\ WF_vars(WriterStep)
    /\ WF_vars(SupervisorStep)
    /\ \A t \in Tasks : WF_vars(TaskCancelled(t))

FairSpec == Spec /\ Fairness

-----------------------------------------------------------------------------
(* Safety *)

\* Only queries are ever handed to upstream_writer.write_all, and only
\* broadcasts to relay.broadcast: a failed, slow or cancelled relay call never
\* turns into a public submission (the match in handle_client_frames).
BroadcastIsolation ==
    /\ client = "write" => cur.kind = "query"
    /\ client \in {"relay", "await", "release", "send"} => cur.kind = "broadcast"

\* pending.len() never exceeds max_pending_requests, whatever the two tasks
\* that insert and remove entries do (reserve_request).
PendingBounded == Cardinality(Outstanding) <= MaxPending

\* A Broadcast entry belongs to the one broadcast the client task is working
\* on: no path through the relay call leaks the slot, and the upstream task
\* never takes it away.
BroadcastSlotOwned ==
    client # "ended" =>
        \A i \in Ids :
            pending[i] = "Broadcast" <=>
                /\ client \in {"relay", "await", "release"}
                /\ cur.id = i

\* Per id, the wallet is never sent more upstream responses than it had
\* queries accepted, nor more relay results than broadcasts submitted, and a
\* broadcast is submitted at most once per accepted request: responses are
\* "forwarded only for outstanding query IDs" (docs/threat-model.md:47), and an
\* id is outstanding from reserve_request on.
NoUnsolicitedAnswer ==
    \A i \in Ids :
        /\ tally["forwarded"][i] <= tally["query"][i]
        /\ tally["relayed"][i] <= tally["called"][i]
        /\ tally["called"][i] <= tally["broadcast"][i]

\* Per id, no more upstream responses are forwarded than queries were written
\* to the upstream, the one whose write_all is going on left aside: "A response
\* is forwarded only when its ID belongs to a query actually sent upstream"
\* (docs/architecture.md:27).  The id is reserved before write_all, which may
\* stall and then fail or be cancelled.
AnsweredWasSent ==
    client # "write" =>
        \A i \in Ids : tally["forwarded"][i] <= tally["written"][i]

\* When the writer ends because the channel closed, every frame the two other
\* tasks enqueued has been written to the wallet (write_client_output).
FlushedMeansDelivered ==
    writer = "flushed" => delivered = enqueued

\* When proxy_streams_until returns, and the connection slot with it, none of
\* its three tasks is left running.
NoOrphanTasks == supervisor = "done" => AllEnded

\* After the shutdown signal at most one more wallet frame is read: the one
\* whose read_frame was being polled as the signal came.
AtMostOneLateRead == tally["late"][NoId] <= 1

\* While a broadcast has no answer yet, no upstream response with its id is
\* put on the wallet's channel.
BroadcastInProgress(i) ==
    /\ client \in {"relay", "await", "release", "send"}
    /\ cur.id = i
UpstreamNeverAnswersBroadcast ==
    [][\A i \in Ids :
         tally'["forwarded"][i] # tally["forwarded"][i] => ~BroadcastInProgress(i)]_vars

\* The client task waits for a peer that takes no data: nothing in the
\* connection itself ends that wait.
BlockedOnPeer ==
    \/ client = "write"
    \/ client \in {"send", "refuse"} /\ Len(output) = OutputCapacity

\* The stage of the connection, as the server sees it.
Stage ==
    CASE supervisor = "done" -> "ended"
      [] supervisor = "cancelled" -> "failed"
      [] supervisor \in {"reap", "flush", "reap_writer"} -> "closing"
      [] supervisor = "select" ->
           IF client = "await" THEN "relaying"
           ELSE IF BlockedOnPeer THEN "blocked" ELSE "open"

Stages == INSTANCE ConnectionStages WITH stage <- Stage

\* Seen from the server, the connection goes through the stages Server gives
\* it and no others: it never ends, or reopens, behind the server's back.
FollowsStages == Stages!StagesSpec

-----------------------------------------------------------------------------
(* Liveness *)

\* Once one of the three tasks ends, the connection is torn down completely,
\* even if the wallet never reads another byte.
TeardownCompletes == (\E t \in Tasks : Ended(t)) ~> Closed

\* After the shutdown signal the connection closes, unless its client task
\* waits forever for a peer that takes no data.
ShutdownCloses == shutdown ~> (Closed \/ []BlockedOnPeer)

=============================================================================

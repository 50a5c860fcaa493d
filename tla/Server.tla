------------------------------- MODULE Server -------------------------------
(***************************************************************************)
(* The server: serve_until (src/proxy.rs), its connection tasks, and the   *)
(* signal task of main.rs.                                                 *)
(*                                                                         *)
(* A connection task is what Connection shows of it: it connects upstream, *)
(* is open, has a broadcast at the relay (one at a time, the client task   *)
(* is sequential), is blocked on a peer that takes no data, or is closing  *)
(* within the flush grace.  Time is discrete.  It passes only when no task *)
(* has a step of its own to take: computation is instantaneous next to the *)
(* timeouts.                                                               *)
(***************************************************************************)
EXTENDS SocksElectrumRelay, Integers, FiniteSets

CONSTANTS
    MaxConnections,    \* max_connections
    ConnectTimeout,    \* connect_timeout, in ticks
    FlushGrace         \* CONNECTION_RESPONSE_FLUSH_GRACE, in ticks

ASSUME ServerAssumption ==
    /\ IsFiniteSet(Calls)
    /\ MaxConnections \in Nat \ {0}
    /\ ConnectTimeout \in Nat \ {0}
    /\ FlushGrace \in Nat \ {0}

\* A connection makes one broadcast at a time, so one set names both.
Conns == Calls

VARIABLES
    server,       \* where serve_until stands
    listening,    \* is the listener open?
    signal,       \* where main's signal task stands
    accepting,    \* does the relay gate admit new calls?
    shutdown,     \* the watch channel the connections subscribe to
    conn,         \* where each connection task stands
    slots,        \* permits left in connection_slots
    age,          \* time in a connection's timed stage
    drained,      \* time spent waiting for the connections
    report,       \* all_connections_drained
    cancelled,    \* ghost: connections cancelled by the server
    slow,         \* ghost: connections blocked, or with a call at its timeout
    late          \* ghost: connections accepted after the signal

connVars == <<conn, slots, age, slow>>
serverVars == <<server, listening, drained, report, late>>
signalVars == <<signal, accepting>>
vars == <<callVars, connVars, serverVars, signalVars, shutdown, cancelled>>

Alive == {"connecting", "open", "relaying", "blocked", "closing"}
Finished == {"ended", "failed"}
LoopPcs == {"poll_shutdown", "poll_join", "poll_accept"}
ServerPcs == LoopPcs \cup {"bind", "notify", "drain", "cancel", "cancel_failed",
                           "returned", "failed"}

RunningConns == {c \in Conns : conn[c] \in Alive}

ServerTypeOK ==
    /\ SocksTypeOK
    /\ server \in ServerPcs
    /\ listening \in BOOLEAN
    /\ signal \in {"waiting", "gated", "sent"}
    /\ accepting \in BOOLEAN
    /\ shutdown \in BOOLEAN
    /\ conn \in [Conns -> Alive \cup Finished \cup {"none"}]
    /\ slots \in 0..MaxConnections
    /\ age \in [Conns -> Nat]
    /\ drained \in 0..(RelayTimeout + FlushGrace)
    /\ report \in BOOLEAN
    /\ cancelled \in SUBSET Conns
    /\ slow \in SUBSET Conns
    /\ late \in Nat

Init ==
    /\ SocksInit
    /\ server = "bind" /\ listening = FALSE
    /\ signal = "waiting" /\ accepting = TRUE /\ shutdown = FALSE
    /\ conn = [c \in Conns |-> "none"]
    /\ slots = MaxConnections
    /\ age = [c \in Conns |-> 0]
    /\ drained = 0 /\ report = FALSE
    /\ cancelled = {} /\ slow = {} /\ late = 0

-----------------------------------------------------------------------------
(* main: the signal task *)

\* Mutant: the server is told first, the gate is closed second.
SignalReversed ==
    \/ signal = "waiting" /\ signal' = "sent" /\ UNCHANGED accepting
    \/ signal = "sent" /\ accepting /\ accepting' = FALSE /\ UNCHANGED signal

\* Ctrl-C closes the relay gate, then resolves serve_until's shutdown future.
SignalTask ==
    \/ signal = "waiting" /\ signal' = "gated" /\ accepting' = FALSE
    \/ signal = "gated" /\ signal' = "sent" /\ UNCHANGED accepting

SignalStep ==
    /\ SignalTask
    /\ UNCHANGED <<callVars, connVars, serverVars, shutdown, cancelled>>

-----------------------------------------------------------------------------
(* serve_until: the accept loop *)

OnlyServer == UNCHANGED <<callVars, signalVars, cancelled>>

ServerGoes(pc) == server' = pc /\ UNCHANGED <<drained, report>>

Bind ==
    /\ server = "bind"
    /\ \/ ServerGoes("poll_shutdown") /\ listening' = TRUE
       \/ ServerGoes("failed") /\ UNCHANGED listening
    /\ UNCHANGED <<connVars, shutdown, late>> /\ OnlyServer

\* Mutant: the shutdown future is polled last.
PollUnbiased == "poll_join"

AfterShutdownPoll == IF signal = "sent" THEN "notify" ELSE "poll_join"

\* The biased select polls the shutdown future first; leaving the loop drops
\* the listener.
PollShutdown ==
    /\ server = "poll_shutdown"
    /\ ServerGoes(AfterShutdownPoll)
    /\ listening' = (AfterShutdownPoll # "notify")
    /\ UNCHANGED <<connVars, shutdown, late>> /\ OnlyServer

\* Then it polls join_next: a finished task is reaped, and one that failed
\* makes the server give up.
PollJoin ==
    /\ server = "poll_join"
    /\ \/ /\ \A c \in Conns : conn[c] \notin Finished
          /\ ServerGoes("poll_accept")
          /\ UNCHANGED conn
       \/ \E c \in Conns :
             /\ conn[c] \in Finished
             /\ ServerGoes(IF conn[c] = "failed" THEN "cancel_failed" ELSE "poll_shutdown")
             /\ conn' = [conn EXCEPT ![c] = "none"]
    /\ UNCHANGED <<slots, age, slow, listening, shutdown, late>> /\ OnlyServer

\* Mutant: the slot is not taken.
SlotNotTaken == slots

SlotTaken == slots - 1

\* Then accept: a connection without a slot is dropped, one with a slot is
\* spawned and starts connecting upstream.
Accept(c) ==
    /\ server = "poll_accept"
    /\ conn[c] = "none"
    /\ slots > 0
    /\ slots' = SlotTaken
    /\ conn' = [conn EXCEPT ![c] = "connecting"]
    /\ age' = [age EXCEPT ![c] = 0]
    /\ slow' = slow \ {c}
    /\ late' = late + (IF signal = "sent" THEN 1 ELSE 0)
    /\ ServerGoes("poll_shutdown")
    /\ UNCHANGED <<listening, shutdown>> /\ OnlyServer

\* No connection is waiting, or the one accepted found no slot.
AcceptNothing ==
    /\ server = "poll_accept"
    /\ ServerGoes("poll_shutdown")
    /\ UNCHANGED <<connVars, listening, shutdown, late>> /\ OnlyServer

\* accept failed: returning drops the listener, and the JoinSet, which aborts
\* every connection task without waiting for it.
AcceptFails ==
    /\ server = "poll_accept"
    /\ ServerGoes("failed")
    /\ listening' = FALSE
    /\ UNCHANGED <<connVars, shutdown, late>> /\ OnlyServer

-----------------------------------------------------------------------------
(* serve_until: the bounded drain *)

Notify ==
    /\ server = "notify"
    /\ shutdown' = TRUE
    /\ ServerGoes("drain")
    /\ UNCHANGED <<connVars, listening, late>> /\ OnlyServer

\* join_next until the set is empty; a failed task ends the wait.
DrainJoin ==
    /\ server = "drain"
    /\ \E c \in Conns :
          /\ conn[c] \in Finished
          /\ conn' = [conn EXCEPT ![c] = "none"]
          /\ ServerGoes(IF conn[c] = "failed" THEN "cancel" ELSE "drain")
    /\ UNCHANGED <<slots, age, slow, listening, shutdown, late>> /\ OnlyServer

AllJoined == \A c \in Conns : conn[c] = "none"

DrainDone ==
    /\ server = "drain"
    /\ AllJoined
    /\ server' = "returned" /\ report' = TRUE
    /\ UNCHANGED <<connVars, listening, shutdown, drained, late>> /\ OnlyServer

\* Mutant: the grace for flushing responses is left out.
WithoutGrace == RelayTimeout

\* relay_timeout.saturating_add(CONNECTION_RESPONSE_FLUSH_GRACE)
MaximumWait == RelayTimeout + FlushGrace

DrainExpires ==
    /\ server = "drain"
    /\ drained = MaximumWait
    /\ RunningConns # {}
    /\ ServerGoes("cancel")
    /\ UNCHANGED <<connVars, listening, shutdown, late>> /\ OnlyServer

\* Mutant: the cancelled tasks are not awaited.
NobodyAwaited == TRUE

\* Mutant: the wait is for a set that nobody empties.
NobodyReaps == AllJoined

AllStopped == RunningConns = {}

\* connections.shutdown(): every task is aborted, awaited and reaped.
CancelDone ==
    /\ server \in {"cancel", "cancel_failed"}
    /\ AllStopped
    /\ server' = IF server = "cancel" THEN "returned" ELSE "failed"
    /\ listening' = FALSE
    /\ conn' = [c \in Conns |-> IF conn[c] \in Finished THEN "none" ELSE conn[c]]
    /\ UNCHANGED <<slots, age, slow, shutdown, drained, report, late>> /\ OnlyServer

-----------------------------------------------------------------------------
(* The connection tasks *)

OnlyConns == UNCHANGED <<serverVars, signalVars, shutdown, cancelled>>

ConnGoes(c, pc) ==
    /\ conn' = [conn EXCEPT ![c] = pc]
    /\ age' = [age EXCEPT ![c] = 0]

\* Mutant: the permit is lost with the task.
SlotLost == slots

SlotReturned == slots + 1

\* The task ends, one way or the other, and drops its permit.
ConnStops(c, pc) ==
    /\ ConnGoes(c, pc)
    /\ slots' = SlotReturned
    /\ UNCHANGED slow

\* The upstream connection is made, be it as the shutdown signal goes up.
Connected(c) ==
    /\ conn[c] = "connecting"
    /\ ConnGoes(c, "open")
    /\ UNCHANGED <<slots, slow, callVars>> /\ OnlyConns

\* The signal is up, or the connection attempt fails or times out.
ConnectGivenUp(c) ==
    /\ conn[c] = "connecting"
    /\ ConnStops(c, "ended")
    /\ UNCHANGED callVars /\ OnlyConns

\* The wallet sends a broadcast and the gate admits it.
Broadcast(c) ==
    /\ conn[c] = "open"
    /\ accepting
    /\ Submit(c)
    /\ ConnGoes(c, "relaying")
    /\ slow' = slow \ {c}
    /\ UNCHANGED slots /\ OnlyConns

\* The call goes on, by itself or by its timer.
CallStep(c) ==
    /\ conn[c] = "relaying" \/ Running(c)
    /\ Proceed(c) \/ Break(c) \/ TimerFires(c) \/ Respond(c)
    /\ UNCHANGED connVars /\ OnlyConns

\* Its result is answered; a wallet that reads nothing blocks the task.
CallReturns(c) ==
    /\ conn[c] = "relaying"
    /\ Collect(c)
    /\ \/ ConnGoes(c, "open") /\ UNCHANGED slow
       \/ ConnGoes(c, "blocked") /\ slow' = slow \cup {c}
    /\ UNCHANGED slots /\ OnlyConns

\* The client task waits for a peer that takes no data.  With the signal up it
\* can do so once more, for the frame it read as the signal came ...
Blocks(c) ==
    /\ conn[c] = "open"
    /\ shutdown => c \notin slow
    /\ ConnGoes(c, "blocked")
    /\ slow' = slow \cup {c}
    /\ UNCHANGED <<slots, callVars>> /\ OnlyConns

\* ... until it does.
Unblocks(c) ==
    /\ conn[c] = "blocked"
    /\ ConnGoes(c, "open")
    /\ slow' = IF shutdown THEN slow ELSE slow \ {c}
    /\ UNCHANGED <<slots, callVars>> /\ OnlyConns

\* The shutdown signal, the wallet or the upstream ends one of the three
\* tasks: the others are stopped, a broadcast in progress included, and the
\* writer gets its grace.
Closes(c) ==
    /\ conn[c] \in {"open", "relaying", "blocked"}
    /\ IF Running(c) THEN Abandon(c) ELSE UNCHANGED callVars
    /\ ConnGoes(c, "closing")
    /\ UNCHANGED <<slots, slow>> /\ OnlyConns

\* The writer has flushed, or its grace is over.
ConnEnds(c) ==
    /\ conn[c] = "closing"
    /\ ConnStops(c, "ended")
    /\ UNCHANGED callVars /\ OnlyConns

\* The connection task panics.
ConnFails(c) ==
    /\ conn[c] \in Alive
    /\ ConnStops(c, "failed")
    /\ UNCHANGED callVars /\ OnlyConns

\* An aborted connection task stops at its next await point; until then it
\* may go on.
ConnCancelled(c) ==
    /\ server \in {"cancel", "cancel_failed", "failed"}
    /\ conn[c] \in Alive
    /\ ConnStops(c, "failed")
    /\ cancelled' = cancelled \cup {c}
    /\ UNCHANGED <<callVars, serverVars, signalVars, shutdown>>

\* A connection task that ended early drops its subtasks' handles.  They are
\* aborted but not awaited: the call goes when the client subtask stops.
CallDropped(c) ==
    /\ conn[c] # "relaying"
    /\ Abandon(c) \/ Collect(c)
    /\ UNCHANGED connVars /\ OnlyConns

-----------------------------------------------------------------------------
(* Time *)

\* A connection that the code lets wait no longer.
Urgent(c) ==
    \/ conn[c] = "connecting" /\ (shutdown \/ age[c] = ConnectTimeout)
    \/ conn[c] = "open" /\ shutdown
    \/ conn[c] = "relaying" /\ call[c] \in Outcomes
    \/ conn[c] = "closing" /\ age[c] = FlushGrace
    \/ conn[c] # "relaying" /\ call[c] # "idle"

\* Has the server a step to take that waits for no one?
ServerUrgent ==
    \/ server \in LoopPcs /\ signal = "sent"
    \/ server \in {"notify", "cancel", "cancel_failed", "failed"}
    \/ server = "drain" /\ (drained = MaximumWait \/ AllJoined
                             \/ \E c \in Conns : conn[c] \in Finished)

Tick ==
    /\ server \notin {"bind", "returned", "failed"}
    /\ signal # "gated"
    /\ ~ServerUrgent
    /\ \A c \in Conns : ~Urgent(c)
    /\ CallsTick
    /\ age' = [c \in Conns |-> IF conn[c] \in {"connecting", "closing"}
                                THEN age[c] + 1 ELSE age[c]]
    /\ drained' = IF server = "drain" THEN drained + 1 ELSE drained
    /\ slow' = slow \cup {c \in Conns : Running(c) /\ total'[c] >= RelayTimeout}
    /\ UNCHANGED <<conn, slots, server, listening, report, late, signalVars,
                   shutdown, cancelled>>

-----------------------------------------------------------------------------

\* serve_until has returned and main with it: nothing happens any more.
Exited ==
    /\ server \in {"returned", "failed"}
    /\ UNCHANGED vars

ServerStep ==
    \/ Bind \/ PollShutdown \/ PollJoin \/ AcceptNothing
    \/ Notify \/ DrainJoin \/ DrainDone \/ DrainExpires \/ CancelDone

\* What a connection task does by itself.
ConnStep(c) ==
    \/ shutdown /\ (ConnectGivenUp(c) \/ (conn[c] = "open" /\ Closes(c)))
    \/ CallReturns(c) \/ ConnEnds(c) \/ ConnCancelled(c) \/ CallDropped(c)

\* What its peers make it do.  Nothing more is modelled of that once the
\* process is about to exit.
Environment ==
    \/ AcceptFails
    \/ \E c \in Conns :
          /\ server # "failed"
          /\ \/ Accept(c) \/ Connected(c) \/ ConnectGivenUp(c) \/ Broadcast(c)
             \/ CallStep(c) \/ Blocks(c) \/ Unblocks(c) \/ Closes(c) \/ ConnFails(c)

Next ==
    \/ ServerStep \/ SignalStep \/ Tick \/ Exited
    \/ \E c \in Conns : ConnStep(c)
    \/ Environment

Spec == Init /\ [][Next]_vars

Fairness ==
    /\ WF_vars(ServerStep) /\ WF_vars(Tick)
    /\ WF_vars(signal = "gated" /\ SignalStep)
    /\ \A c \in Conns :
          /\ WF_vars(ConnStep(c))
          /\ WF_vars(conn[c] = "relaying" /\ Expired(c) /\ CallStep(c))
          /\ WF_vars(conn[c] = "connecting" /\ age[c] = ConnectTimeout
                        /\ ConnectGivenUp(c))

FairSpec == Spec /\ Fairness

-----------------------------------------------------------------------------
(* Properties *)

\* Every connection task holds exactly one slot, from accept until it ends in
\* whatever way: slots neither leak nor multiply.
SlotsConserved == slots + Cardinality(RunningConns) = MaxConnections

\* The biased select accepts at most one connection after the signal: the one
\* whose accept was being polled as the signal came.
AtMostOneLateAccept == late <= 1

\* main closes the relay gate before it tells the server: from the moment
\* serve_until leaves its loop no broadcast enters the relay any more.
NoCallDuringDrain ==
    [][\A c \in Conns :
         call[c] = "idle" /\ call'[c] # "idle" =>
             server \notin {"notify", "drain", "cancel", "returned"}]_vars

\* The drain deadline cuts off only connections that were blocked on a peer
\* or whose broadcast used up the whole relay timeout: one that returned in
\* time always has its grace to flush.
CutOffOnlyIfSlow == drained = MaximumWait => cancelled \subseteq slow

\* When serve_until returns its report, no connection task is left, and a
\* report of a complete drain means that none was cancelled.
ReportIsTrue ==
    server = "returned" => RunningConns = {} /\ (report => cancelled = {})

\* After the signal serve_until returns, however its peers behave.
ShutdownTerminates == signal = "sent" ~> server \in {"returned", "failed"}

=============================================================================

# Formal models of electrum-private-relay

TLA+ models of the proxy, from its command line to its shutdown, of its relay
stack and of its release publication, checked by TLC on small instances and
largely proved with TLAPS for every value of the constants. `PROJECT.json` maps
every definition to the lines it models.

## The system and its parts

A wallet connects to the proxy. Ordinary Electrum requests go to a query
upstream; `blockchain.transaction.broadcast` is intercepted and handed to a
private relay, and never to the upstream.

| Part | State | Operations | Interacts with |
| --- | --- | --- | --- |
| Startup (`config.rs`, `endpoint.rs`, `main.rs`) | command line, parsed endpoints, chosen adapter | parse, validate, check only, build, dial | everything it configures |
| Frame reader (`read_frame`, `src/proxy.rs`) | socket, `BufReader`, bytes consumed and delivered | fill, scan, judge a frame | wallet or upstream, the task that reads |
| Classification (`protocol.rs`) | none | `classify`, ids and their keys, the upstream envelope | the tasks of a connection |
| Connection (`proxy_streams_until`, `src/proxy.rs`) | pending table, output channel, three tasks, abort requests | read and route a wallet frame, reserve an id, write upstream, call the relay, release, answer; correlate and forward an upstream frame; write to the wallet; abort, flush, cancel | server (shutdown watch, cancellation), relay stack, wallet, upstream |
| Server (`serve_until`, `main.rs`) | listener, connection slots, set of tasks, shutdown watch, drain timer | poll shutdown, reap, accept, notify, drain, cut off, report | connections, the relay gate (through the signal task) |
| Relay gate (`relay/draining.rs`) | `accepting` and `active` under a mutex, a watch channel | admit, refuse, return, begin shutdown, wait for idle | wraps the limiter |
| Limiter (`relay/limited.rs`) | two semaphores | take and give back request and payload permits | wraps the adapter |
| Adapters (`relay/socks_electrum.rs`, `relay/reject.rs`) | one SOCKS5 connection per call, or none | connect, write, read, each with a timeout; or refuse | the private relay |
| Publication (`scripts/release_candidate_once.py`) | lock file, archive, checksum sidecar | lock, check, build, create, copy, roll back, unlock | other invocations, the file system |

What is hard here: three tasks of a connection share a table and a channel and
may be aborted at any await; the shutdown signal races reads, accepts and relay
calls; counts and permits must survive cancellation; timeouts add up; frames are
cut from chunks that know nothing of frames; one target has many spellings; a
publication may fail, be interrupted or be killed between any two steps.

## Modules

- **Endpoint**, **Startup.** Endpoints with the comparisons, the parser and the
  printer; then `Cli::parse`, every check of `Config::try_from` in one predicate
  (`Accepts`), `run`, and what is dialled later. A host is its text without
  trailing dots plus their number; a text carries what the code asks of it (what
  `IpAddr` parses it to, its lower case, its length and colons). `dialled` and
  `answers` are ghosts.
- **FrameReader**, **Lines.** `read_frame` over a `BufReader`: bytes arrive in any
  chunks, the buffer holds what it holds, the `Take` shows at most one byte more
  than a frame may have. `Lines` says what this is for, without buffers.
- **Protocol**, **WalletInput.** `classify`, request ids and their keys as pure
  operators; then `FrameReader` composed with what `handle_client_frames` and
  `forward_upstream_frames` do with a frame. Integers that are no 64-bit integers
  become floats when parsed, as in `serde_json`, and floats do not tell all of them
  apart. Handling a frame is one step here; its interleavings are `Connection`'s.
- **Connection.** One wallet connection. A step is the code between two await
  points, or between two places where another thread can act. `client`,
  `upstream`, `writer` and `supervisor` say where each task stands; `pending` is
  the table, `output` the channel; `tally`, `enqueued` and `delivered` are ghost
  counters. Frames are reduced to a kind and an id. The wallet, the upstream and
  the relay may do anything: send any frame, answer anything or nothing, stop
  reading. An aborted task may take further steps until `TaskCancelled`, because
  an abort takes effect at the next await.
- **ConnectionStages.** The life of a connection as its server sees it (open,
  relaying, blocked on a peer, closing, ended or failed). `Connection` implements
  it, by the mapping `Stage`; `Server` takes its connections through these stages.
- **DrainingRelay.** The gate. Reading the count under the mutex and publishing
  it on the watch channel are separate steps, as in the code.
- **LimitedRelay**, **RelayStack.** The limiter, and the stack `main.rs` builds:
  the gate around the limiter around an arbitrary adapter. Permits are dropped in
  Rust's order, payload first.
- **SocksElectrumRelay.** A call's three timed phases, in discrete time.
- **Server.** The accept loop, the signal task and the bounded drain, together
  with the adapter's calls. Time passes only when no task has a step of its own
  to take.
- **Publication.** Concurrent invocations of the publication script, an outsider
  that drops files into the directory, kills, and interrupts. A
  `KeyboardInterrupt` may fall between any two statements; `Interrupted` covers
  the ones that come after a file was created, completed or removed and before
  the script has noted it.
- `MC*` modules and `.cfg` files instantiate these; `*Proofs` modules, with
  `ConnectionSteps` and `ConnectionAnswers`, hold the theorems. Operators marked
  "Mutant" are plausible wrong versions of the definition that follows; nothing in
  the models uses them, they serve to show that each property can fail.

How they fit: `Startup` establishes the bounds the others assume (`ProductAllowed`
is the hypothesis of `BudgetNeverBinds`; limits are positive); `PayloadWithinFrame`
gives the other half, that no payload is longer than `max_frame_bytes`;
`FrameReader` and `Protocol` justify the frames that `Connection` takes as input;
`Connection` justifies the stages in `Server`; `Server` contains the adapter.

## Runs

| Run | Instance | What it shows |
| --- | --- | --- |
| `startup` | 13 host texts, listeners on loopback, unspecified and other addresses, limits at and around each bound, a `usize` of 32 values | what is dialled is never the listener nor, as the relay, the upstream; spelling is irrelevant; texts round-trip |
| `wallet_input` | all streams to 6 bytes, frames of 5, a buffer of 3, ids around the largest integer, a table of 2 | the reader implements `Lines` and holds nothing back; ids are matched exactly; payloads fit their frames |
| `conn_safety` | 2 ids, table of 1, channel of 1, 3 wallet frames, 2 upstream frames, ids may be reused | types, isolation of broadcasts, table limit, slot ownership, no answer without an accepted request, complete flush, no orphan tasks, at most one late read |
| `conn_wallet` | 1 id, 2 and 2 frames, a wallet that does not reuse an unanswered id, fairness | the upstream never answers a broadcast; `ConnectionStages` is implemented; teardown and shutdown complete |
| `conn_reuse` | 1 id | a disagreement with the architecture document (below) |
| `conn_early` | 1 id | answers to queries that were never sent (below) |
| `drain_wait` | 3 callers, counter up to 2 | `wait_for_idle` (below) |
| `relay_stack` | 3 callers, 2 request permits, budgets 3 and 4, sizes to 3, u32 limit 2, fairness | exact count, permit accounting, budget, shutdown as a boundary of the whole stack, draining |
| `server` | 2 clients, 2 slots, relay timeout 2, other timeouts 1, fairness | slots, accept race, report, no call during the drain, who is cut off, call length, termination |
| `relay_timeout` | 2 calls, timeout 2 | length of a call (below) |
| `publication` | 3 invocations, fairness | serialisation, all-or-nothing, immutability, no waiting |
| `publication_interrupt` | 2 invocations | interrupts (below) |

**Bounds.** The frame bounds of `Connection` (`MaxReads`, `MaxUpstreamFrames`) and
the stream bound of `FrameReader` (`MaxStream`) are the only ones the code does not
have. Three wallet frames fill a table of one and reuse an id, and two upstream
frames give a duplicate. Six bytes hold a frame one byte too long, or two frames
with a chunk boundary anywhere; a buffer of three is shorter than a frame. A channel
of one is already full and blocks both senders. Budgets 3 and 4 lie on both sides of
`Config`'s bound (2 x 2). Two limits that are each allowed have products to 64,
beyond the payload budget and beyond a `usize` of 32 values. In `Server`, client
names are reused, so behaviours are unbounded, and two names fill the two slots: a
third wallet is accepted and dropped (`AcceptNothing`). The server's safety
properties are proved for any number of clients and slots. A relay timeout of two
ticks distinguishes a call that returns in time from one that does not. In
`Publication` each invocation runs once. The endpoints of `startup` vary in pairs,
and the limits, flags and malformed texts each on their own: the checks of one group
do not read the fields of another. The gate's counter has room in `relay_stack`, so
that the limiter is what fills up; `ActiveCountExact` is proved for a counter of any
width.

**Deadlock** is checked in every run; a connection, a server, a reader or a set of
invocations that is over stutters explicitly.

**Fairness.** Each task of a connection is weakly fair in the steps that need no
peer: tokio polls every ready task, timers fire, an aborted task is cancelled, and a
relay call returns since every phase has a timeout. Nothing is assumed of the wallet
or of the upstream: writes, reads and closes may never happen. In `WalletInput` only
reading what has arrived is fair: a peer need not send, and handling a frame need
not end, since it may wait for a peer that takes no data; `NothingHeldBack` is
therefore about a reader that is reading. The gate's callers are fair once admitted,
because adapters bound their calls. In `Server` time advances, and expired timers
and the server's own steps are taken; `ctrl_c` need not come, nor a blocked peer
ever read. In `Publication` an invocation goes on unless it is killed; the operator
need not clear a lock.

## Disagreements between code and documents

1. `drain_wait`: `wait_for_idle` promises that every admitted call has returned
   (`relay/draining.rs:56`). Counts are published after the mutex is released, so
   a stale zero can overwrite a newer count, and the wait ends early. `main.rs`
   does not call `wait_for_idle`, so the binary is not affected.
2. `conn_reuse`: an id reserved by a broadcast "cannot be satisfied by the query
   upstream" (`docs/architecture.md:29`). The entry of an answered query is
   removed before its response is queued; a wallet that reuses the id at that
   moment gets that response while its broadcast is pending. With a wallet that
   waits for its answers `conn_wallet` shows that it cannot happen.
3. `relay_timeout`: permits are held until the call "reaches its configured
   timeout" (`docs/architecture.md:91`). The timeout applies three times;
   three timeouts is the bound that holds (`CallBounded`, proved).
4. `publication_interrupt`: an "interrupted copy removes [...] partial evidence"
   (`docs/REPRODUCIBLE_BUILDS.md:42`). An interrupt right after a file is created
   or completed leaves it behind.
5. `conn_early`: a response is forwarded "only when its ID belongs to a query
   actually sent upstream" (`docs/architecture.md:27`). The id is reserved before
   the query is written, so a response that comes while `write_all` waits is
   forwarded, also when that write then fails or is cancelled. What
   `docs/threat-model.md:47` says, that the id is outstanding, holds
   (`NoUnsolicitedAnswer`, proved).

## Proofs

- **ConnectionProofs**, with the lemmas of **ConnectionSteps** (the invariant, its
  typing part, what each actor leaves alone, the table) and **ConnectionAnswers**
  (every answer is asked for, and one answer per id), proves every invariant of `conn_safety`, for any set of ids,
  any limits and any number of frames. The invariants are not inductive by
  themselves. `ConnInv` adds what ties the tasks together: what each task holds in
  its current place (`LocalInv`); that the table is finite and within its limit
  (`TableInv`); that answers forwarded, in hand or still owed in the table never
  exceed the queries accepted (`AnswerBudget`); what the supervisor has aborted and
  awaited (`SupervisorInv`); that enqueued frames are in the channel, in the
  writer's hand or delivered (`FlowInv`); and where a late read can come from
  (`LateInv`). Frame lemmas say which variables each actor leaves alone, so each
  conjunct is proved only against the actions that can disturb it. From the same
  invariant, `ConnectionFollowsStages` proves that a connection implements
  `ConnectionStages`: only the supervisor can leave the working stages, and it
  passes through closing. `BroadcastsAnsweredByRelay` proves
  `UpstreamNeverAnswersBroadcast` under the hypothesis that the wallet does not
  reuse an unanswered id (`~WalletReusesIds`), which `conn_reuse` shows to be needed.
  Its invariant `OneAnswer` says that what will answer an id is in one place at
  most (the client task, the table, the upstream task, the channel or the writer)
  and that the wallet still waits for it.
- **RelayStackProofs** proves the gate's type, exact count and shutdown boundary
  for any finite set of callers and any counter width. `GateInv` adds that the
  counts in flight are within range and that the recorded set of calls is the one
  `begin_shutdown` found. `StackImplementsGate` carries this over to the stack:
  every step of the stack is a step of the gate or leaves it alone. `StackInv` then
  adds the limiter's types, the conservation of both kinds of permits, and that a
  call is below the gate only while its caller is admitted (`InsideTheGate`); the
  last is what links an idle gate to free semaphores, and the shutdown boundary to
  the adapter. A payload permit is counted as a pair of a call and a number up to
  its size, so sums over calls are cardinalities and need no induction over the set
  of calls. `BudgetSuffices` rests on `RoomForOneMore`: while a call has a
  request permit and no payload permits yet, what the others hold leaves room for one
  more payload of the greatest length in the product of `Config`'s rule.
- **WalletInputProofs** proves that the reader implements `Lines` for every
  stream, buffer and limit, alone and inside `WalletInput`. `ReaderInv` orders the
  four positions (delivered, consumed, buffered, sent), and says that what was
  consumed of the current frame has no newline while reading goes on, and what it
  looks like once `read_until` has returned. Filling and scanning are stutters of
  `Lines`; a verdict is a step. `InputInv` adds that the frame at hand is within the
  limit and that every table entry is under the key of an id that was accepted.
  `CorrelationExact` then follows from `AcceptedIdKept` and `KeysTellIdsApart`: only
  ids are accepted that parsing leaves as they are, and on those the key is
  injective. `PayloadWithinFrame` follows from `SubmittedText`: a broadcast that is
  accepted has one parameter, and its text is part of the frame.
- **StartupProofs** first proves `SameTargetExact`: `same_target` is equality of
  what endpoints stand for. `StartupInv` then says that the endpoints are results
  of the parser, that the configuration in use was accepted, and that only what
  the adapter in use would dial was dialled. The three properties follow, for any
  hosts and command lines.
- **ServerProofs** proves that a call lasts at most three relay timeouts (the time
  since its start is at most the timeouts of the phases passed plus the time spent
  in the current one), that the server implements the adapter's specification
  (`ServerUsesAdapter`), so that the bound holds inside it, and the slot, accept,
  report and drain properties of the run `server` for any number of clients, slots
  and ticks. `ServerInv` adds where the server can be after a late accept, that an
  open gate means no signal yet, and who can have been cancelled when. For
  `CutOffOnlyIfSlow`, `DrainInv` bounds the time drained by the progress of every
  connection that is not slow (`InTime`): none while it connects, less than the
  relay timeout while it is open, no more than its call's age while it relays, and
  at most its flush time more while it closes. The deadline is the sum of the two
  timeouts, so at the deadline none of these is left.
- **PublicationProofs** proves serialisation, sidecars, all-or-nothing and
  immutability for any set of invocations. `PublicationInv` says, for each place
  an invocation can be in, which of the two files are its own and how complete
  they are.

The assumptions are the named `ASSUME`s of the modules: limits are positive
(`Config` enforces it), sets of callers are finite, `NoId` is no id, no host name
reads like an address, an address has one canonical text; the JSON around a
transaction is shorter than the smallest frame limit `Config` allows, a JSON value
has one length, and parameters are a sequence of values, one if they are a single
string. TLC evaluates them.

Every invariant, action property and refinement of a passing run is proved. Only
model-checked are the liveness properties, since liveness under fairness is outside
the prover's reach: `TeardownCompletes` and `ShutdownCloses` (connection),
`StackDrains`, `ShutdownTerminates`, `AllEnd` (publication) and `NothingHeldBack`
(reader). The invariants found by hand (`ConnInv`, `StackInv`, `InputInv`, `DrainInv`
and the others) are proved inductive, hence hold in every run as well.

## Not modelled

- The bytes of JSON and of SOCKS5, which belong to libraries; the wording of
  responses, errors and logs; the exit code.
- In endpoints: the characters of a host name beyond one flag, IPv6 scope ids,
  IPv4-mapped addresses, and what a name resolves to. The code does not look at the
  last either, so the separation of relay and upstream is one of addresses and
  names as written.
- Running out of memory, mutex poisoning (the code ignores it) and panics other
  than of a connection task.
- The packager `scripts/reproducible_release.py`: it runs compilers and writes into
  a private directory; `Publication` takes its success or failure as an input.
- The test harnesses, the fuzz target and CI: they exercise the program and are not
  part of it.

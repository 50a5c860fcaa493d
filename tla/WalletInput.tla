---------------------------- MODULE WalletInput -----------------------------
(***************************************************************************)
(* What handle_client_frames does with what read_frame returns             *)
(* (src/proxy.rs): the frames of a wallet's byte stream are classified,    *)
(* their ids reserved in the pending table, and their contents handed to   *)
(* the upstream or to the relay; forward_upstream_frames takes the entries *)
(* out again.  Connection has the interleavings of these tasks; here a     *)
(* frame is handled in one step, and what is in it matters.                *)
(***************************************************************************)
EXTENDS FrameReader, Protocol, FiniteSets

CONSTANTS
    Requests,        \* what wallets send
    UpstreamIds,     \* the ids in what the upstream sends
    MaxPending,      \* max_pending_requests
    JsonBytes        \* fewest bytes of JSON around the texts in params

\* Config asks for frames of 1024 bytes and more.  An id's text determines its
\* size, and params that are one string have one item.
ASSUME InputAssumption ==
    /\ JsonBytes \in Nat /\ JsonBytes < MaxFrameBytes
    /\ \A id \in {r.id : r \in Requests} \cup UpstreamIds :
          id \in [type : STRING, val : Int, size : Nat]
    /\ \A a, b \in {r.id : r \in Requests} \cup UpstreamIds :
          a.type = b.type /\ a.val = b.val => a.size = b.size
    /\ \A r \in Requests :
          /\ r.params.items \in Seq([text : BOOLEAN, size : Nat, hex : BOOLEAN])
          /\ r.params.shape = "string" => Len(r.params.items) = 1

VARIABLES
    length,     \* length of the frame read last
    table,      \* pending requests: key, kind, and (ghost) the id it stands for
    last        \* ghost: the last frame handled, with its id, the id of the
                \* table entry it met, and the bytes it submitted

inputVars == <<readerVars, length, table, last>>

Happened(what, id, entry, bytes) ==
    last' = [what |-> what, id |-> id, entry |-> entry, bytes |-> bytes]

InputInit ==
    /\ ReaderInit
    /\ length = 0
    /\ table = {}
    /\ last = [what |-> "none", id |-> NoId, entry |-> NoId, bytes |-> 0]

\* JSON escapes make a text longer, never shorter.
TextBytes(params) ==
    LET f[i \in 0..Len(params.items)] ==
          IF i = 0 THEN 0 ELSE f[i - 1] + params.items[i].size
    IN  f[Len(params.items)]

\* A frame this long can hold this request, its newline counted.
Holds(n, request) == JsonBytes + TextBytes(request.params) + 1 <= n

ReadStep ==
    /\ ReaderStep
    /\ length' = IF delivered' = delivered THEN length ELSE delivered' - delivered
    /\ UNCHANGED <<table, last>>

Wallet ==
    /\ PeerSends \/ (reader = "reading" /\ StopReading)
    /\ UNCHANGED <<length, table, last>>

-----------------------------------------------------------------------------
(* handle_client_frames *)

Entries(key) == {e \in table : e.key = key}

Refuse(what, id, entry) == StopReading /\ Happened(what, id, entry, 0) /\ UNCHANGED table

\* reserve_request: Duplicate, LimitExceeded, or Reserved with what follows.
Reserve(request, kind, Proceed) ==
    LET key == request_id_key(Parsed(request.id))
        entry == [key |-> key, kind |-> kind, id |-> request.id]
    IN  \/ \E e \in Entries(key) : Refuse("duplicate", request.id, e.id)
        \/ /\ Entries(key) = {}
           /\ Cardinality(table) >= MaxPending
           /\ Refuse("full", request.id, NoId)
        \/ /\ Entries(key) = {}
           /\ Cardinality(table) < MaxPending
           /\ table' = IF kind = "Upstream" THEN table \cup {entry} ELSE table
           /\ Proceed

\* The frame goes to the upstream, as it is.
Forwards(request) == ReadAgain /\ Happened("passed", request.id, NoId, 0)

\* The transaction goes to the relay; its entry is removed when that returns,
\* before another frame is read.
Submits(request) ==
    /\ ReadAgain
    /\ \E t \in RawTransactions(request.params) :
          Happened("submitted", request.id, NoId, t.size)

HandleFrame(request) ==
    /\ reader = "returned"
    /\ Holds(length, request)
    /\ LET frame == classify(request)
       IN  \/ /\ frame.kind \in {"invalid_request", "invalid_params"}
              /\ Refuse(frame.kind, request.id, NoId)
           \/ /\ frame.kind = "Passthrough"
              /\ IF frame.id = NoId THEN Forwards(request) /\ UNCHANGED table
                 ELSE Reserve(request, "Upstream", Forwards(request))
           \/ /\ frame.kind = "Broadcast"
              /\ IF frame.id = NoId THEN Submits(request) /\ UNCHANGED table
                 ELSE Reserve(request, "Broadcast", Submits(request))
    /\ UNCHANGED length

\* A frame that is no JSON object of the expected form.
HandleGarbage ==
    /\ reader = "returned"
    /\ Refuse("invalid_request", NoId, NoId)
    /\ UNCHANGED length

-----------------------------------------------------------------------------
(* forward_upstream_frames *)

\* A response that matches an entry takes it out and is forwarded, another is
\* dropped; a notification is forwarded; anything else ends the connection.
UpstreamFrame(id, method) ==
    /\ reader # "ended"
    /\ \/ /\ Envelope(id, method) = "response"
          /\ \E e \in Entries(request_id_key(Parsed(id))) :
                /\ table' = table \ {e}
                /\ Happened("answered", id, e.id, 0)
          /\ UNCHANGED readerVars
       \/ /\ Envelope(id, method) = "invalid"
          /\ reader \in {"reading", "returned"}
          /\ Refuse("invalid_upstream", id, NoId)
    /\ UNCHANGED length

InputNext ==
    \/ Wallet \/ ReadStep
    \/ \E request \in Requests : HandleFrame(request)
    \/ HandleGarbage
    \/ \E id \in UpstreamIds, method \in BOOLEAN : UpstreamFrame(id, method)
    \/ reader = "ended" /\ UNCHANGED inputVars

\* Reading goes on by itself.  Handling a frame need not come to an end:
\* write_all and client_output.send may wait for a peer that takes no data.
InputSpec ==
    /\ InputInit /\ [][InputNext]_inputVars
    /\ WF_inputVars(ReadStep)

-----------------------------------------------------------------------------
(* Properties *)

\* Requests and responses are matched by their ids and nothing else: a frame
\* is refused as a duplicate, or a response forwarded for an entry, only if the
\* two ids are the same JSON value.  The text of an accepted id tells it from
\* every other id (is_valid_request_id, request_id_key).
CorrelationExact == last.what \in {"duplicate", "answered"} => last.id = last.entry

\* What is handed to relay.broadcast leaves room for the JSON around it in a
\* frame of max_frame_bytes: LimitedRelay is never asked for more permits than
\* Config counted on (read_frame, classify).
PayloadWithinFrame == last.bytes + JsonBytes < MaxFrameBytes

=============================================================================

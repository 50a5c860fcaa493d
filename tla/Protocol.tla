------------------------------ MODULE Protocol ------------------------------
(***************************************************************************)
(* What the proxy makes of the JSON in a frame (src/protocol.rs), and the  *)
(* keys it correlates requests and responses by (src/proxy.rs).            *)
(*                                                                         *)
(* A request is the fields of its JSON object; texts are abstracted to     *)
(* their size and to whether they are hexadecimal.  An id is what its text *)
(* says; a JSON number outside the 64-bit integers becomes a float when it *)
(* is parsed, and floats do not tell all integers apart.                   *)
(***************************************************************************)
EXTENDS Integers, Sequences

CONSTANTS
    IntegerIds,                    \* the i64 and u64 values
    Rounded(_),                    \* an integer as an f64
    MAX_REQUEST_ID_STRING_BYTES

\* An absent or null id: serde's Option makes no difference between them.
NoId == [type |-> "none", val |-> 0, size |-> 0]

\* serde_json::from_slice on an id.
Parsed(id) ==
    IF id.type = "integer" /\ id.val \notin IntegerIds
    THEN [id EXCEPT !.type = "float", !.val = Rounded(id.val)]
    ELSE id

\* Mutant: any number is good enough for an id.
AnyNumberOrString(value) ==
    \/ value.type \in {"integer", "float"}
    \/ value.type = "string" /\ value.size <= MAX_REQUEST_ID_STRING_BYTES

is_valid_request_id(value) ==
    \/ value.type = "integer"
    \/ value.type = "string" /\ value.size <= MAX_REQUEST_ID_STRING_BYTES

\* The id's JSON text: integers and floats are written differently, strings
\* are quoted.
request_id_key(value) == <<value.type, value.val>>

-----------------------------------------------------------------------------

\* The one string in the params of a broadcast, or none.
RawTransactions(params) ==
    {t \in {params.items[i] : i \in DOMAIN params.items} :
        /\ t.text
        /\ \/ params.shape = "array" /\ Len(params.items) = 1
           \/ params.shape = "string"}

IsHexTransaction(t) == t.size > 0 /\ t.size % 2 = 0 /\ t.hex

\* classify: the kind of frame, with the id it has or is answered under.
classify(request) ==
    LET id == Parsed(request.id)
        accepted == \E t \in RawTransactions(request.params) : IsHexTransaction(t)
    IN  IF ~request.object \/ (id # NoId /\ ~is_valid_request_id(id))
        THEN [kind |-> "invalid_request", id |-> NoId]
        ELSE IF request.method # "broadcast"
        THEN [kind |-> "Passthrough", id |-> id]
        ELSE [kind |-> IF accepted THEN "Broadcast" ELSE "invalid_params", id |-> id]

\* forward_upstream_frames on the envelope of a frame: a response, a
\* notification, or neither.
Envelope(id, method) ==
    CASE Parsed(id) # NoId /\ ~method ->
           IF is_valid_request_id(Parsed(id)) THEN "response" ELSE "invalid"
      [] Parsed(id) = NoId /\ method -> "notification"
      [] OTHER -> "invalid"

=============================================================================

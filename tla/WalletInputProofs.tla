------------------------- MODULE WalletInputProofs --------------------------
(* Proofs about what a wallet sends: read_frame's buffered loop implements  *)
(* Lines, for every frame limit, buffer size and stream; ids are matched    *)
(* exactly; and what reaches the relay fits a frame.                        *)
EXTENDS WalletInput, WellFoundedInduction, TLAPS

\* A nonempty set of naturals has a least element.
LEMMA LeastNatural == \A S \in SUBSET Nat : S # {} => \E p \in S : \A q \in S : p <= q
<1> SUFFICES ASSUME NEW S \in SUBSET Nat, S # {}
             PROVE \E p \in S : \A q \in S : p <= q
  OBVIOUS
<1>1. PICK p \in S : \A q \in S : ~(<<q, p>> \in OpToRel(<, Nat))
  BY NatLessThanWellFounded, WFMin
<1>2. \A q \in S : ~(q < p)
  BY <1>1 DEF OpToRel
<1>3. QED
  BY <1>2

\* No newline among the bytes after a, up to b.
Plain(a, b) == \A q \in a + 1 .. b : ~stream[q]

\* What read_until returned: a line, or bytes without newline that fill the
\* Take or are the last the peer sent.
Result ==
    \/ taken > delivered /\ stream[taken] /\ Plain(delivered, taken - 1)
    \/ /\ Plain(delivered, taken)
       /\ taken - delivered = MaxFrameBytes + 1 \/ (taken = sent /\ ~open)

\* The inductive invariant of the reader.
ReaderInv ==
    /\ stream \in Seq(BOOLEAN)
    /\ open \in BOOLEAN
    /\ sent \in Nat /\ filled \in Nat /\ taken \in Nat /\ delivered \in Nat
    /\ delivered <= taken /\ taken <= filled /\ filled <= sent /\ sent <= Len(stream)
    /\ taken - delivered <= MaxFrameBytes + 1
    /\ reader \in {"reading", "checking", "returned", "ended"}
    /\ reader # "ended" <=> verdict = "none"
    /\ reader = "reading" => Plain(delivered, taken)
    /\ reader = "checking" => Result
    /\ reader = "returned" => taken = delivered

\* A new connection has read nothing.
LEMMA ReaderInitially == ReaderInit => ReaderInv
<1> SUFFICES ASSUME ReaderInit PROVE ReaderInv
  OBVIOUS
<1>1. PICK n \in 0..MaxStream : stream \in [1..n -> BOOLEAN]
  BY DEF ReaderInit
<1>2. n \in Nat
  BY <1>1, ReaderAssumption
<1>3. stream \in Seq(BOOLEAN)
  BY <1>1, <1>2
<1>4. QED
  BY <1>3, ReaderAssumption DEF ReaderInit, ReaderInv, Plain

\* Every step of read_frame, its caller and the peer preserves the invariant.
LEMMA ReaderPreserved == ReaderInv /\ [ReaderNext]_readerVars => ReaderInv'
<1> SUFFICES ASSUME ReaderInv, [ReaderNext]_readerVars PROVE ReaderInv'
  OBVIOUS
<1> USE ReaderAssumption
<1>1. CASE PeerSends
  BY <1>1 DEF PeerSends, ReaderInv, Plain, Result
<1>2. CASE Fill
  BY <1>2 DEF Fill, socketVars, ReaderInv, Plain, Result
<1>3. CASE ScanNewline
  <2>1. PICK p \in taken + 1 .. AvailableTo : NewlineAt(p) /\ taken' = p
    BY <1>3 DEF ScanNewline
  <2>2. AvailableTo <= filled /\ AvailableTo <= taken + TakeLimit /\ AvailableTo \in Int
    BY DEF AvailableTo, TakeLimit, ReaderInv
  <2>3. Result'
    BY <1>3, <2>1, <2>2 DEF ScanNewline, NewlineAt, socketVars, ReaderInv, Plain, Result
  <2>4. QED
    BY <1>3, <2>1, <2>2, <2>3 DEF ScanNewline, TakeLimit, socketVars, ReaderInv
<1>4. CASE ScanAll
  <2>1. AvailableTo <= filled /\ AvailableTo <= taken + TakeLimit /\ AvailableTo \in Nat
    BY <1>4 DEF ScanAll, AvailableTo, TakeLimit, ReaderInv
  <2>2. \A q \in taken + 1 .. AvailableTo : ~stream[q]
    <3> SUFFICES ASSUME \E q \in taken + 1 .. AvailableTo : stream[q]
                 PROVE \E p \in taken + 1 .. AvailableTo : NewlineAt(p)
      BY <1>4 DEF ScanAll
    <3> DEFINE S == {q \in Nat : q \in taken + 1 .. AvailableTo /\ stream[q]}
    <3>1. S # {} /\ S \subseteq Nat
      BY DEF ReaderInv
    <3>2. PICK p \in S : \A q \in S : p <= q
      BY <3>1, LeastNatural
    <3>3. p \in taken + 1 .. AvailableTo /\ stream[p]
      BY <3>2
    <3>4. \A q \in taken + 1 .. p - 1 : ~stream[q]
      <4> SUFFICES ASSUME NEW q \in taken + 1 .. p - 1, stream[q] PROVE FALSE
        OBVIOUS
      <4>1. q \in S /\ q < p
        BY <2>1, <3>3 DEF ReaderInv
      <4>2. QED
        BY <3>2, <4>1
    <3>5. QED
      BY <3>3, <3>4 DEF NewlineAt
  <2>3. QED
    BY <1>4, <2>1, <2>2 DEF ScanAll, TakeLimit, socketVars, ReaderInv, Plain
<1>5. CASE ScanEnds
  BY <1>5 DEF ScanEnds, TakeLimit, socketVars, ReaderInv, Plain, Result
<1>6. CASE CheckEnd \/ CheckInvalid \/ StopReading
  BY <1>6 DEF CheckEnd, CheckInvalid, StopReading, Ends, socketVars, ReaderInv
<1>7. CASE CheckFrame
  BY <1>7 DEF CheckFrame, socketVars, ReaderInv
<1>8. CASE ReadAgain
  BY <1>8 DEF ReadAgain, socketVars, ReaderInv, Plain
<1>9. CASE UNCHANGED readerVars
  BY <1>9 DEF readerVars, socketVars, ReaderInv, Plain, Result
<1>10. QED
  BY <1>1, <1>2, <1>3, <1>4, <1>5, <1>6, <1>7, <1>8, <1>9 DEF ReaderNext, ReaderStep

\* Each verdict of read_frame is a step of Lines; filling and scanning are none.
LEMMA ReaderStepsAreLines == ReaderInv /\ [ReaderNext]_readerVars => [Split!LinesNext]_(Split!linesVars)
<1> SUFFICES ASSUME ReaderInv, [ReaderNext]_readerVars
             PROVE [Split!LinesNext]_(Split!linesVars)
  OBVIOUS
<1> USE ReaderAssumption
<1>1. CASE PeerSends
  BY <1>1 DEF PeerSends, Split!LinesNext, Split!Arrive
<1>2. CASE Fill \/ ScanNewline \/ ScanAll \/ ScanEnds \/ ReadAgain \/ UNCHANGED readerVars
  BY <1>2 DEF Fill, ScanNewline, ScanAll, ScanEnds, ReadAgain, readerVars, socketVars, Split!linesVars
<1>3. CASE CheckEnd
  BY <1>3 DEF CheckEnd, Ends, socketVars, ReaderInv, Result, Split!LinesNext, Split!Finish
<1>4. CASE CheckInvalid
  <2>1. \/ Plain(delivered, delivered + MaxFrameBytes) /\ sent > delivered + MaxFrameBytes
        \/ ~open /\ sent > delivered /\ Plain(delivered, sent)
    BY <1>4 DEF CheckInvalid, FrameValid, ReaderInv, Result, Plain
  <2>2. Split!Reject
    BY <1>4, <2>1 DEF CheckInvalid, Ends, socketVars, ReaderInv, Plain, Split!Reject, Split!Unfinished
  <2>3. QED
    BY <2>2 DEF Split!LinesNext
<1>5. CASE CheckFrame
  <2>1. Split!LineEndsAt(taken)
    BY <1>5 DEF CheckFrame, FrameValid, ReaderInv, Result, Plain, Split!LineEndsAt
  <2>2. Split!Deliver
    BY <1>5, <2>1 DEF CheckFrame, FrameValid, socketVars, ReaderInv, Split!Deliver
  <2>3. QED
    BY <2>2 DEF Split!LinesNext
<1>6. CASE StopReading
  BY <1>6 DEF StopReading, Ends, socketVars, ReaderInv, Split!LinesNext, Split!Stop
<1>7. QED
  BY <1>1, <1>2, <1>3, <1>4, <1>5, <1>6 DEF ReaderNext, ReaderStep

\* read_frame implements Lines: for every limit and buffer size, and however
\* the bytes come in, the frames handed out are exactly the lines of the
\* stream, and reading ends only where Lines may end it.
THEOREM ReaderRefinesLines == ReaderSpec => FramesAreLines
<1>1. ReaderInit => Split!LinesInit
  BY ReaderInitially DEF ReaderInit, ReaderInv, Split!LinesInit
<1>2. QED
  BY <1>1, ReaderInitially, ReaderPreserved, ReaderStepsAreLines, PTL
     DEF ReaderSpec, FramesAreLines, Split!LinesSpec

-----------------------------------------------------------------------------
(* What is in the frames *)

\* The steps of handle_client_frames call read_frame or drop the call, and
\* those of forward_upstream_frames leave the wallet's reader alone.
LEMMA InputStepsAreReaderSteps == [InputNext]_inputVars => [ReaderNext]_readerVars
<1> SUFFICES ASSUME [InputNext]_inputVars PROVE [ReaderNext]_readerVars
  OBVIOUS
<1>1. CASE Wallet \/ ReadStep
  BY <1>1 DEF Wallet, ReadStep, ReaderNext
<1>2. ASSUME NEW request \in Requests, HandleFrame(request) PROVE ReaderNext
  BY <1>2 DEF HandleFrame, Reserve, Refuse, Forwards, Submits, ReaderNext
<1>3. CASE HandleGarbage
  BY <1>3 DEF HandleGarbage, Refuse, ReaderNext
<1>4. ASSUME NEW id \in UpstreamIds, NEW method \in BOOLEAN, UpstreamFrame(id, method)
      PROVE  [ReaderNext]_readerVars
  BY <1>4 DEF UpstreamFrame, Refuse, ReaderNext
<1>5. CASE UNCHANGED inputVars
  BY <1>5 DEF inputVars
<1> QED
  BY <1>1, <1>2, <1>3, <1>4, <1>5 DEF InputNext

\* The reader of a wallet is read_frame called over and over, so the frames
\* that are handled are exactly the lines the wallet sent.
THEOREM InputReadsLines == InputSpec => FramesAreLines
<1>1. InputSpec => ReaderSpec
  BY InputStepsAreReaderSteps, PTL DEF InputSpec, InputInit, ReaderSpec
<1> QED
  BY <1>1, ReaderRefinesLines, PTL

\* The ids of frames, which are not only the accepted ones.
Ids == {r.id : r \in Requests} \cup UpstreamIds

\* serde_json keeps an id that is then accepted as it is.
LEMMA AcceptedIdKept ==
    ASSUME NEW id \in Ids, is_valid_request_id(Parsed(id))
    PROVE  Parsed(id) = id /\ is_valid_request_id(id)
BY InputAssumption DEF Ids, Parsed, is_valid_request_id

\* The key of an accepted id belongs to no other accepted id.
LEMMA KeysTellIdsApart ==
    ASSUME NEW a \in Ids, NEW b \in Ids,
           is_valid_request_id(Parsed(a)), is_valid_request_id(Parsed(b)),
           request_id_key(Parsed(a)) = request_id_key(Parsed(b))
    PROVE  a = b
<1>1. Parsed(a) = a /\ Parsed(b) = b
  BY AcceptedIdKept
<1>2. a.type = b.type /\ a.val = b.val
  BY <1>1 DEF request_id_key
<1>3. a.size = b.size
  BY <1>2, InputAssumption DEF Ids
<1>4. a \in [type : STRING, val : Int, size : Nat] /\ b \in [type : STRING, val : Int, size : Nat]
  BY InputAssumption DEF Ids
<1> QED
  BY <1>2, <1>3, <1>4

\* One text among the params is all the text there is.
LEMMA OneText ==
    ASSUME NEW params, NEW n \in Nat, Len(params.items) = 1, params.items[1].size = n
    PROVE  TextBytes(params) = n
<1> DEFINE F(g) == [i \in 0..1 |-> IF i = 0 THEN 0 ELSE g[i - 1] + params.items[i].size]
           f == CHOOSE g : g = F(g)
           w == [i \in 0..1 |-> IF i = 0 THEN 0 ELSE n]
<1>1. w = F(w)
  OBVIOUS
<1>2. f = F(f)
  BY <1>1
<1>3. TextBytes(params) = f[1]
  BY DEF TextBytes
<1> HIDE DEF f
<1>4. f[0] = 0
  BY <1>2
<1>5. f[1] = f[0] + params.items[1].size
  BY <1>2
<1> QED
  BY <1>3, <1>4, <1>5

\* The transaction of an accepted broadcast is the one text in its params.
LEMMA SubmittedText ==
    ASSUME NEW request \in Requests, NEW t \in RawTransactions(request.params)
    PROVE  t.size \in Nat /\ TextBytes(request.params) = t.size
<1> DEFINE items == request.params.items
<1>1. items \in Seq([text : BOOLEAN, size : Nat, hex : BOOLEAN])
  BY InputAssumption
<1>2. Len(items) = 1
  BY InputAssumption DEF RawTransactions
<1>3. DOMAIN items = {1}
  BY <1>1, <1>2
<1>4. t = items[1]
  BY <1>3 DEF RawTransactions
<1>5. items[1] \in [text : BOOLEAN, size : Nat, hex : BOOLEAN]
  <2>1. \A S : \A s \in Seq(S) : Len(s) = 1 => s[1] \in S
    OBVIOUS
  <2> HIDE DEF items
  <2> QED
    BY <1>1, <1>2, <2>1
<1>6. items[1].size \in Nat
  BY <1>5
<1> QED
  BY <1>2, <1>4, <1>6, OneText

\* Entries of the pending table are for accepted ids, under their own keys.
TableInv ==
    \A e \in table :
        e.id \in Ids /\ is_valid_request_id(Parsed(e.id)) /\ e.key = request_id_key(Parsed(e.id))

\* The inductive invariant.
InputInv ==
    /\ ReaderInv
    /\ length \in Nat /\ length <= MaxFrameBytes
    /\ TableInv
    /\ last.bytes \in Nat
    /\ CorrelationExact
    /\ PayloadWithinFrame

\* A wallet's connection starts with no frame read and nothing pending.
LEMMA InputInitially == InputInit => InputInv
BY ReaderInitially, ReaderAssumption, InputAssumption
   DEF InputInit, InputInv, TableInv, CorrelationExact, PayloadWithinFrame

\* A frame or answer that hands nothing to the relay, and meets no entry but
\* its own.
LEMMA NothingSubmitted ==
    ASSUME NEW what, NEW id, NEW entry, Happened(what, id, entry, 0),
           what \in {"duplicate", "answered"} => id = entry
    PROVE  last'.bytes \in Nat /\ CorrelationExact' /\ PayloadWithinFrame'
BY ReaderAssumption, InputAssumption DEF Happened, CorrelationExact, PayloadWithinFrame

\* reserve_request reports a duplicate only for the very id.
LEMMA DuplicateExact ==
    ASSUME TableInv, NEW request \in Requests, is_valid_request_id(Parsed(request.id)),
           NEW e \in Entries(request_id_key(Parsed(request.id)))
    PROVE  request.id = e.id
BY KeysTellIdsApart DEF Entries, TableInv, Ids

\* What was handed to the relay came in one frame, with JSON around it.
LEMMA SubmittedFits ==
    ASSUME NEW request \in Requests, InputInv, Holds(length, request), Submits(request)
    PROVE  last'.bytes \in Nat /\ CorrelationExact' /\ PayloadWithinFrame'
<1>1. PICK t \in RawTransactions(request.params) : Happened("submitted", request.id, NoId, t.size)
  BY DEF Submits
<1>2. t.size \in Nat /\ TextBytes(request.params) = t.size
  BY SubmittedText
<1> QED
  BY <1>1, <1>2, ReaderAssumption, InputAssumption
     DEF Happened, Holds, InputInv, CorrelationExact, PayloadWithinFrame

\* A frame that is handled leaves the table and the ghosts as they should be.
LEMMA FrameHandled ==
    ASSUME InputInv, NEW request \in Requests, HandleFrame(request)
    PROVE  TableInv' /\ last'.bytes \in Nat /\ CorrelationExact' /\ PayloadWithinFrame'
<1> DEFINE frame == classify(request)
           key == request_id_key(Parsed(request.id))
           Good == TableInv' /\ last'.bytes \in Nat /\ CorrelationExact' /\ PayloadWithinFrame'
<1> USE DEF InputInv
<1>1. frame.kind # "invalid_request" /\ frame.id # NoId => is_valid_request_id(Parsed(request.id))
  BY DEF classify
<1>2. CASE frame.kind \in {"invalid_request", "invalid_params"}
           /\ Refuse(frame.kind, request.id, NoId)
  BY <1>2, NothingSubmitted DEF Refuse, TableInv
<1>3. CASE Forwards(request) /\ UNCHANGED table
  BY <1>3, NothingSubmitted DEF Forwards, TableInv
<1>4. CASE Submits(request) /\ UNCHANGED table
  BY <1>4, SubmittedFits DEF HandleFrame, TableInv
<1>5. ASSUME NEW kind \in {"Upstream", "Broadcast"}, is_valid_request_id(Parsed(request.id)),
             Reserve(request, kind, Forwards(request)) \/ Reserve(request, kind, Submits(request))
      PROVE  Good
  <2>1. ASSUME NEW e \in Entries(key), Refuse("duplicate", request.id, e.id) PROVE Good
    <3>1. request.id = e.id
      BY <1>5, <2>1, DuplicateExact
    <3> QED
      BY <2>1, <3>1, NothingSubmitted DEF Refuse, TableInv
  <2>2. CASE Refuse("full", request.id, NoId)
    BY <2>2, NothingSubmitted DEF Refuse, TableInv
  <2>3. ASSUME table' = IF kind = "Upstream"
                        THEN table \cup {[key |-> key, kind |-> kind, id |-> request.id]}
                        ELSE table,
               Forwards(request) \/ Submits(request)
        PROVE  Good
    <3>1. TableInv'
      BY <1>5, <2>3 DEF TableInv, Ids
    <3>2. CASE Forwards(request)
      BY <3>1, <3>2, NothingSubmitted DEF Forwards
    <3>3. CASE Submits(request)
      BY <3>1, <3>3, SubmittedFits DEF HandleFrame
    <3> QED
      BY <2>3, <3>2, <3>3
  <2> QED
    BY <1>5, <2>1, <2>2, <2>3 DEF Reserve
<1>6. CASE frame.kind = "Passthrough" /\ frame.id # NoId
             /\ Reserve(request, "Upstream", Forwards(request))
  BY <1>1, <1>5, <1>6
<1>7. CASE frame.kind = "Broadcast" /\ frame.id # NoId
             /\ Reserve(request, "Broadcast", Submits(request))
  BY <1>1, <1>5, <1>7
<1> HIDE DEF frame
<1> QED
  BY <1>2, <1>3, <1>4, <1>6, <1>7 DEF HandleFrame, frame

\* Every step of the wallet's input preserves the invariant.
LEMMA InputPreserved == InputInv /\ [InputNext]_inputVars => InputInv'
<1> SUFFICES ASSUME InputInv, [InputNext]_inputVars PROVE InputInv'
  OBVIOUS
<1> DEFINE Same == TableInv' /\ last'.bytes \in Nat /\ CorrelationExact' /\ PayloadWithinFrame'
           Length == length' \in Nat /\ length' <= MaxFrameBytes
<1>1. ReaderInv'
  BY InputStepsAreReaderSteps, ReaderPreserved DEF InputInv
<1>2. UNCHANGED <<table, last>> => Same
  BY DEF InputInv, TableInv, CorrelationExact, PayloadWithinFrame
<1>3. UNCHANGED length => Length
  BY DEF InputInv
<1>4. CASE ReadStep
  <2>1. Length
    <3>1. CASE CheckFrame
      BY <1>4, <3>1, ReaderAssumption DEF ReadStep, CheckFrame, FrameValid, InputInv, ReaderInv
    <3>2. CASE delivered' = delivered
      BY <1>3, <1>4, <3>2 DEF ReadStep
    <3> QED
      BY <1>4, <3>1, <3>2 DEF ReadStep, ReaderStep, Fill, ScanNewline, ScanAll, ScanEnds,
                              CheckEnd, CheckInvalid, Ends
  <2> QED
    BY <1>1, <1>2, <1>4, <2>1 DEF ReadStep, InputInv
<1>5. ASSUME NEW request \in Requests, HandleFrame(request) PROVE Length /\ Same
  BY <1>3, <1>5, FrameHandled DEF HandleFrame
<1>6. CASE HandleGarbage
  BY <1>1, <1>3, <1>6, NothingSubmitted DEF HandleGarbage, Refuse, InputInv, TableInv
<1>7. ASSUME NEW id \in UpstreamIds, NEW method \in BOOLEAN, UpstreamFrame(id, method)
      PROVE  Length /\ Same
  <2>1. ASSUME NEW e \in Entries(request_id_key(Parsed(id))), table' = table \ {e},
               Envelope(id, method) = "response", Happened("answered", id, e.id, 0)
        PROVE  Same
    <3>1. is_valid_request_id(Parsed(id))
      BY <2>1 DEF Envelope
    <3>2. id = e.id
      BY <2>1, <3>1, KeysTellIdsApart DEF Entries, InputInv, TableInv, Ids
    <3> QED
      BY <2>1, <3>2, NothingSubmitted DEF InputInv, TableInv
  <2>2. CASE Refuse("invalid_upstream", id, NoId)
    BY <1>3, <1>7, <2>2, NothingSubmitted DEF UpstreamFrame, Refuse, InputInv, TableInv
  <2> QED
    BY <1>3, <1>7, <2>1, <2>2 DEF UpstreamFrame
<1>8. CASE Wallet \/ UNCHANGED inputVars
  BY <1>1, <1>2, <1>3, <1>8 DEF Wallet, inputVars, InputInv
<1> QED
  BY <1>1, <1>4, <1>5, <1>6, <1>7, <1>8 DEF InputNext, InputInv

\* The inductive invariant holds in every reachable state.
THEOREM InputInvariant == InputSpec => []InputInv
BY InputInitially, InputPreserved, PTL DEF InputSpec

\* Requests and responses are matched by their ids alone, whatever the ids are
\* and however the floats round.
THEOREM IdsMatchExactly == InputSpec => []CorrelationExact
BY InputInvariant, PTL DEF InputInv

\* What is handed to the relay fits a frame, for every frame limit.
THEOREM PayloadFitsFrame == InputSpec => []PayloadWithinFrame
BY InputInvariant, PTL DEF InputInv

=============================================================================

---------------------------- MODULE FrameReader -----------------------------
(***************************************************************************)
(* read_frame (src/proxy.rs) over a BufReader, called again for frame      *)
(* after frame, as handle_client_frames and forward_upstream_frames do.    *)
(*                                                                         *)
(* read_until works on whatever the BufReader holds: chunks of any size,   *)
(* cut without regard to frames, and seen through a Take that allows one   *)
(* byte more than a frame may have.  A byte is a newline or not.           *)
(***************************************************************************)
EXTENDS Integers, Sequences

CONSTANTS
    MaxFrameBytes,    \* max_frame_bytes
    BufferBytes,      \* capacity of the BufReader
    MaxStream         \* bound: bytes a peer sends

ASSUME ReaderAssumption ==
    /\ MaxFrameBytes \in Nat \ {0}
    /\ BufferBytes \in Nat \ {0}
    /\ MaxStream \in Nat

VARIABLES
    stream,       \* the bytes the peer sends, TRUE for a newline
    sent,         \* how many of them have arrived at the socket
    open,         \* has the peer left its side open?
    filled,       \* how many the BufReader has read from the socket
    taken,        \* how many read_until has consumed
    delivered,    \* how many were consumed by earlier calls: the frame being
                  \* read is delivered + 1 .. taken
    reader,       \* where read_frame stands
    verdict       \* why reading ended, "none" while it goes on

socketVars == <<stream, sent, open>>
readerVars == <<socketVars, filled, taken, delivered, reader, verdict>>

ReaderInit ==
    /\ stream \in UNION {[1..n -> BOOLEAN] : n \in 0..MaxStream}
    /\ sent = 0 /\ open = TRUE
    /\ filled = 0 /\ taken = 0 /\ delivered = 0
    /\ reader = "reading" /\ verdict = "none"

-----------------------------------------------------------------------------
(* The peer *)

\* Bytes arrive, and the peer may close its side after them.
PeerSends ==
    /\ open
    /\ \E n \in sent .. Len(stream) : sent' = n
    /\ open' \in BOOLEAN
    /\ UNCHANGED <<stream, filled, taken, delivered, reader, verdict>>

-----------------------------------------------------------------------------
(* read_until on the Take of the BufReader *)

\* Mutant: read_until is called on the BufReader itself.
TakeForgotten == MaxStream + 1

\* What the Take still allows.
TakeLimit == MaxFrameBytes + 1 - (taken - delivered)

\* fill_buf with an empty buffer reads some of what has arrived.
Fill ==
    /\ reader = "reading"
    /\ TakeLimit > 0
    /\ filled = taken
    /\ \E n \in 1..BufferBytes : filled + n <= sent /\ filled' = filled + n
    /\ UNCHANGED <<socketVars, taken, delivered, reader, verdict>>

\* The part of the buffer that read_until is shown.
AvailableTo == IF filled - taken <= TakeLimit THEN filled ELSE taken + TakeLimit

\* Mutant: the buffer is searched for some newline, not the first.
SomeNewlineAt(p) == stream[p]

\* The first newline read_until is shown is at position p.
NewlineAt(p) == stream[p] /\ \A q \in taken + 1 .. p - 1 : ~stream[q]

\* The buffer is consumed up to a newline, which ends read_until ...
ScanNewline ==
    /\ reader = "reading"
    /\ \E p \in taken + 1 .. AvailableTo : NewlineAt(p) /\ taken' = p
    /\ reader' = "checking"
    /\ UNCHANGED <<socketVars, filled, delivered, verdict>>

\* ... or all of it is, and read_until goes on ...
ScanAll ==
    /\ reader = "reading"
    /\ AvailableTo > taken
    /\ \A p \in taken + 1 .. AvailableTo : ~NewlineAt(p)
    /\ taken' = AvailableTo
    /\ UNCHANGED <<socketVars, filled, delivered, reader, verdict>>

\* ... until fill_buf has nothing to show: the Take is used up, or the peer
\* closed and everything was read.
ScanEnds ==
    /\ reader = "reading"
    /\ \/ TakeLimit = 0
       \/ filled = taken /\ taken = sent /\ ~open
    /\ reader' = "checking"
    /\ UNCHANGED <<socketVars, filled, taken, delivered, verdict>>

-----------------------------------------------------------------------------
(* read_frame's verdict on what read_until returned *)

\* Mutant: a frame may be one byte longer.
FrameOffByOne == taken - delivered <= MaxFrameBytes + 1 /\ stream[taken]

FrameValid == taken - delivered <= MaxFrameBytes /\ stream[taken]

Ends(why) ==
    /\ reader' = "ended" /\ verdict' = why
    /\ UNCHANGED <<socketVars, filled, taken, delivered>>

CheckEnd == reader = "checking" /\ taken = delivered /\ Ends("end")

CheckInvalid ==
    /\ reader = "checking" /\ taken # delivered
    /\ ~FrameValid
    /\ Ends("invalid")

\* The frame is returned; the caller handles it.
CheckFrame ==
    /\ reader = "checking" /\ taken # delivered
    /\ FrameValid
    /\ delivered' = taken
    /\ reader' = "returned"
    /\ UNCHANGED <<socketVars, filled, taken, verdict>>

\* The caller has handled the frame and calls read_frame again.
ReadAgain ==
    /\ reader = "returned"
    /\ reader' = "reading"
    /\ UNCHANGED <<socketVars, filled, taken, delivered, verdict>>

\* The caller stops: the socket fails, the shutdown signal wins the select and
\* drops the call, or the frame it was given ends the connection.
StopReading == reader \in {"reading", "returned"} /\ Ends("stopped")

ReaderStep ==
    \/ Fill \/ ScanNewline \/ ScanAll \/ ScanEnds
    \/ CheckEnd \/ CheckInvalid \/ CheckFrame

ReaderNext == PeerSends \/ ReaderStep \/ ReadAgain \/ StopReading

ReaderSpec == ReaderInit /\ [][ReaderNext]_readerVars

-----------------------------------------------------------------------------
(* Properties *)

Split == INSTANCE Lines

\* However the bytes arrive and are buffered, read_frame hands out exactly the
\* lines of the stream, whole, in order and none twice; it ends with an error
\* only at a line that is too long or cut off, and with None only when all was
\* delivered: buffers and limits implement Lines.
FramesAreLines == Split!LinesSpec

\* A call of read_frame returns once a complete line, a line too long or the
\* end of the stream is there, whatever else is or is not sent.  A caller that
\* is still busy with the frame before is excused.
NothingHeldBack ==
    WF_(Split!linesVars)(
        /\ reader \in {"reading", "checking"}
        /\ Split!Deliver \/ Split!Reject \/ Split!Finish)

=============================================================================

-------------------------------- MODULE Lines -------------------------------
(***************************************************************************)
(* What reading newline-delimited frames promises, without buffers, chunks *)
(* or limits on a read: the bytes a peer sends are cut into lines, each    *)
(* line of at most MaxFrameBytes bytes is delivered whole and in order,    *)
(* and the first thing that is no such line ends the reading.              *)
(***************************************************************************)
EXTENDS Integers, Sequences

CONSTANT MaxFrameBytes    \* longest frame, its newline included

VARIABLES
    stream,       \* the bytes the peer sends, TRUE for a newline
    sent,         \* how many of them have arrived
    open,         \* may more arrive?
    delivered,    \* how many of them have been delivered in frames
    verdict       \* why reading ended, "none" while it goes on

linesVars == <<stream, sent, open, delivered, verdict>>

LinesInit ==
    /\ stream \in Seq(BOOLEAN)
    /\ sent = 0 /\ open = TRUE
    /\ delivered = 0 /\ verdict = "none"

\* The first newline after the bytes already delivered is at position p.
LineEndsAt(p) ==
    /\ p \in delivered + 1 .. sent
    /\ stream[p]
    /\ \A q \in delivered + 1 .. p - 1 : ~stream[q]

\* So much has arrived, with no newline in it.
Unfinished(n) ==
    /\ n <= sent - delivered
    /\ \A q \in delivered + 1 .. delivered + n : ~stream[q]

Arrive ==
    /\ open
    /\ \E n \in sent .. Len(stream) : sent' = n
    /\ open' \in BOOLEAN
    /\ UNCHANGED <<stream, delivered, verdict>>

Deliver ==
    /\ verdict = "none"
    /\ \E p \in delivered + 1 .. delivered + MaxFrameBytes :
          LineEndsAt(p) /\ delivered' = p
    /\ UNCHANGED <<stream, sent, open, verdict>>

\* The line is too long, or the peer closed in the middle of it.
Reject ==
    /\ verdict = "none"
    /\ \/ Unfinished(MaxFrameBytes) /\ sent > delivered + MaxFrameBytes
       \/ ~open /\ sent > delivered /\ Unfinished(sent - delivered)
    /\ verdict' = "invalid"
    /\ UNCHANGED <<stream, sent, open, delivered>>

\* The peer closed and everything was delivered.
Finish ==
    /\ verdict = "none"
    /\ ~open /\ sent = delivered
    /\ verdict' = "end"
    /\ UNCHANGED <<stream, sent, open, delivered>>

\* The task that reads stops for a reason of its own, or the socket fails.
Stop ==
    /\ verdict = "none"
    /\ verdict' = "stopped"
    /\ UNCHANGED <<stream, sent, open, delivered>>

LinesNext == Arrive \/ Deliver \/ Reject \/ Finish \/ Stop

LinesSpec == LinesInit /\ [][LinesNext]_linesVars

=============================================================================

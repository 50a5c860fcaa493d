------------------------- MODULE SocksElectrumRelay -------------------------
(***************************************************************************)
(* The socks-electrum adapter (src/relay/socks_electrum.rs): each broadcast*)
(* opens a SOCKS5 connection, writes one request and reads one response,   *)
(* each under a timeout of its own.                                        *)
(*                                                                         *)
(* Time is discrete: Tick lets one unit pass for every call in progress,   *)
(* and cannot pass the expiry of a timer that has not fired.  The proxy    *)
(* and the relay behind it are the environment: every phase takes any time *)
(* up to its timeout, fails, or never ends.                                *)
(***************************************************************************)
EXTENDS Naturals

CONSTANTS
    Calls,           \* concurrent broadcasts
    RelayTimeout     \* relay_timeout, in ticks

ASSUME SocksAssumption == RelayTimeout \in Nat \ {0}

VARIABLES
    call,            \* where each broadcast stands
    spent,           \* time spent in the current phase
    total            \* ghost: time since the broadcast was called, while it runs

callVars == <<call, spent, total>>

Phases == {"connect", "write", "read"}
Outcomes == {"ok", "failed"}

\* What the relay may answer: what read_until makes of the bytes, and what
\* the response says if they are one line.
Framings == {"line", "nothing", "oversized", "unterminated"}
Replies == [framing : Framings, json : BOOLEAN, ours : BOOLEAN, error : BOOLEAN,
            result : {"absent", "text", "txid"}]

SocksTypeOK ==
    /\ call \in [Calls -> Phases \cup Outcomes \cup {"idle"}]
    /\ spent \in [Calls -> 0..RelayTimeout]
    /\ total \in [Calls -> Nat]

SocksInit ==
    /\ call = [c \in Calls |-> "idle"]
    /\ spent = [c \in Calls |-> 0]
    /\ total = [c \in Calls |-> 0]

Enters(c, pc) ==
    /\ call' = [call EXCEPT ![c] = pc]
    /\ spent' = [spent EXCEPT ![c] = 0]

Finishes(c, outcome) ==
    /\ Enters(c, outcome)
    /\ total' = [total EXCEPT ![c] = 0]

\* broadcast is called and starts connecting.
Submit(c) ==
    /\ call[c] = "idle"
    /\ Enters(c, "connect")
    /\ UNCHANGED total

\* Socks5Stream::connect, then write_all, completes.
Proceed(c) ==
    /\ \/ call[c] = "connect" /\ Enters(c, "write")
       \/ call[c] = "write" /\ Enters(c, "read")
    /\ UNCHANGED total

\* One line within MAX_RELAY_RESPONSE_BYTES, a JSON object with our request
\* id and no error, and a transaction id of 64 hex digits as its result.
Accepted(r) ==
    /\ r.framing = "line" /\ r.json
    /\ r.ours /\ ~r.error
    /\ r.result = "txid"

\* read_until completes with some reply, which is accepted or not.
Respond(c) ==
    /\ call[c] = "read"
    /\ \E accepted \in {Accepted(r) : r \in Replies} :
          Finishes(c, IF accepted THEN "ok" ELSE "failed")

\* Connecting, writing or reading fails.
Break(c) ==
    /\ call[c] \in Phases
    /\ Finishes(c, "failed")

\* Mutant: the response is awaited without a timeout.
Untimed == {"connect", "write"}

\* The phases under timeout(self.timeout, ..).
Timed == {"connect", "write", "read"}

Expired(c) == call[c] \in Timed /\ spent[c] = RelayTimeout

TimerFires(c) ==
    /\ Expired(c)
    /\ Finishes(c, "failed")

\* The caller takes the result; or its task is cancelled, which drops the
\* call wherever it stands.
Collect(c) == call[c] \in Outcomes /\ Finishes(c, "idle")
Abandon(c) == call[c] \in Phases /\ Finishes(c, "idle")

Running(c) == call[c] \in Phases

\* One unit of time passes for the calls in progress.
CallsTick ==
    /\ \A c \in Calls : ~Expired(c)
    /\ spent' = [c \in Calls |->
                    IF call[c] \in Timed THEN spent[c] + 1 ELSE spent[c]]
    /\ total' = [c \in Calls |-> IF Running(c) THEN total[c] + 1 ELSE total[c]]
    /\ UNCHANGED call

SocksNext ==
    \/ \E c \in Calls :
          \/ Submit(c) \/ Proceed(c) \/ Break(c) \/ TimerFires(c)
          \/ Respond(c) \/ Collect(c) \/ Abandon(c)
    \/ CallsTick

SocksSpec == SocksInit /\ [][SocksNext]_callVars

-----------------------------------------------------------------------------

\* A broadcast returns within three relay timeouts, whatever the proxy and the
\* relay do: one for connecting, one for writing, one for reading.
CallBounded == \A c \in Calls : total[c] <= 3 * RelayTimeout

\* A broadcast returns, or fails, within its configured relay timeout.
CallWithinTimeout == \A c \in Calls : total[c] <= RelayTimeout

=============================================================================

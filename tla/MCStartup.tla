----------------------------- MODULE MCStartup ------------------------------
(* Startup on command lines that vary the endpoints, and on command lines   *)
(* that vary the limits.                                                    *)
EXTENDS Startup

Address(text, ip, colons) ==
    [text |-> text, fold |-> text, ip |-> ip, size |-> 3, colons |-> colons, clean |-> TRUE]
Name(text, fold, size) ==
    [text |-> text, fold |-> fold, ip |-> NoIp, size |-> size, colons |-> 0, clean |-> TRUE]

MCStems ==
    {Address("127.0.0.1", "127.0.0.1", 0), Address("127.0.0.2", "127.0.0.2", 0),
     Address("::1", "::1", 2), Address("0:0:0:0:0:0:0:1", "::1", 7),
     Address("0.0.0.0", "0.0.0.0", 0), Address("192.0.2.1", "192.0.2.1", 0),
     Name("localhost", "localhost", 3), Name("LocalHost", "localhost", 3),
     Name("relay.example", "relay.example", 3), Name("Relay.Example", "relay.example", 3),
     Name("longest", "longest", 4), Name("too.long", "too.long", 5),
     [Name("under_score", "under_score", 3) EXCEPT !.clean = FALSE]}

MCLoopback == {"127.0.0.1", "127.0.0.2", "::1"}
MCUnspecified == {"0.0.0.0"}

\* Texts with brackets where they belong.
Texts(dots, ports) ==
    {[padded |-> FALSE, bracketed |-> s.colons > 0, host |-> [stem |-> s, dots |-> d], port |-> p] :
        s \in MCStems, d \in dots, p \in ports}
Text(stem, port) ==
    [padded |-> FALSE, bracketed |-> FALSE, port |-> port,
     host |-> [stem |-> CHOOSE s \in MCStems : s.text = stem, dots |-> 0]]

Plain ==
    [check_config |-> FALSE, allow_non_loopback_listen |-> TRUE,
     listen |-> [ip |-> "127.0.0.1", port |-> 3], upstream |-> Text("127.0.0.1", 1),
     relay_mode |-> "SocksElectrum", relay_given |-> TRUE,
     relay_endpoint |-> Text("relay.example", 1),
     socks5_proxy |-> [ip |-> "127.0.0.1", port |-> 9],
     max_connections |-> 1, max_concurrent_broadcasts |-> 2, max_pending_requests |-> 1,
     max_frame_bytes |-> 4, connect_timeout_seconds |-> 1, relay_timeout_seconds |-> 1]

Listeners == [ip : {"127.0.0.1", "0.0.0.0", "192.0.2.1"}, port : {0, 3}]

\* Every pair of endpoint texts, for listeners the process may be given.
EndpointClis ==
    {[Plain EXCEPT !.listen.ip = l, !.upstream = u, !.relay_endpoint = r] :
        l \in {"127.0.0.1", "0.0.0.0", "192.0.2.1"},
        u \in Texts(0..1, {1, 3}), r \in Texts(0..1, {1, 3})}

\* Misplaced brackets, padding, ports, dots and modes.
TextClis ==
    {[Plain EXCEPT !.upstream = [u EXCEPT !.padded = d, !.bracketed = b], !.relay_mode = m] :
        u \in Texts(0..2, {0, 1, NoPort}), d \in BOOLEAN, b \in BOOLEAN,
        m \in {"Reject", "SocksElectrum"}}

\* Listeners, proxies and flags.
FlagClis ==
    {[Plain EXCEPT !.listen = l, !.relay_given = g, !.relay_mode = m, !.check_config = c,
                   !.allow_non_loopback_listen = a, !.socks5_proxy = s] :
        l \in Listeners, g \in BOOLEAN, m \in {"Reject", "SocksElectrum"},
        c \in BOOLEAN, a \in BOOLEAN,
        s \in [ip : {"127.0.0.1", "192.0.2.1"}, port : {0, 3, 9}]}

\* Every limit at, below and above its bounds.
LimitClis ==
    {[Plain EXCEPT !.max_concurrent_broadcasts = b, !.max_frame_bytes = f,
                   !.max_connections = n, !.max_pending_requests = p,
                   !.connect_timeout_seconds = t, !.relay_timeout_seconds = t] :
        b \in 0..9, f \in 1..9, n \in {0, 2, 3}, p \in {0, 2, 3}, t \in {0, 1}}

MCClis == EndpointClis \cup TextClis \cup FlagClis \cup LimitClis

=============================================================================

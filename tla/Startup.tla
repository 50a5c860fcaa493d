------------------------------ MODULE Startup -------------------------------
(***************************************************************************)
(* From the command line to the first sockets: Cli::parse, Config::try_from*)
(* (src/config.rs), run (src/main.rs), and what is dialled afterwards for  *)
(* a wallet connection (src/proxy.rs) and for a broadcast (src/relay).     *)
(*                                                                         *)
(* A command line is a record of texts and numbers; every field of Cli     *)
(* except the two endpoints is already parsed by clap and std.             *)
(***************************************************************************)
EXTENDS Endpoint

CONSTANTS
    Clis,                     \* command lines
    MAX_CONNECTIONS,          \* MAX_CONFIGURABLE_CONNECTIONS
    MAX_PENDING_REQUESTS,     \* MAX_CONFIGURABLE_PENDING_REQUESTS
    MAX_BROADCASTS,           \* MAX_CONFIGURABLE_CONCURRENT_BROADCASTS
    MIN_FRAME_BYTES,          \* 1_024
    MAX_FRAME_BYTES,          \* MAX_CONFIGURABLE_FRAME_BYTES
    MAX_IN_FLIGHT_BYTES,      \* MAX_CONFIGURABLE_IN_FLIGHT_BROADCAST_BYTES
    UsizeValues               \* number of values of a usize

ASSUME StartupAssumption ==
    /\ {MAX_CONNECTIONS, MAX_PENDING_REQUESTS, MAX_BROADCASTS, MIN_FRAME_BYTES,
        MAX_FRAME_BYTES, MAX_IN_FLIGHT_BYTES} \subseteq Nat \ {0}
    /\ UsizeValues \in Nat \ 0..MAX_IN_FLIGHT_BYTES
    /\ \A c \in Clis :
          /\ c.relay_mode \in {"Reject", "SocksElectrum"}
          /\ {c.listen.ip, c.socks5_proxy.ip} \subseteq Ips
          /\ c.socks5_proxy.port \in Nat
          /\ \A text \in {c.upstream, c.relay_endpoint} :
                /\ text.host \in [stem : Stems, dots : Nat]
                /\ text.port \in Nat /\ text.bracketed \in BOOLEAN

VARIABLES
    phase,        \* where run stands
    cli,          \* the command line
    upstream,     \* the parsed query upstream
    relay,        \* the parsed relay endpoint, NoEndpoint if none was given
    adapter,      \* the relay built, "none" before
    dialled,      \* ghost: what has been connected to, and as what
    answers       \* ghost: the kinds of response broadcasts have got

vars == <<phase, cli, upstream, relay, adapter, dialled, answers>>

Init ==
    /\ phase = "start"
    /\ cli \in Clis
    /\ upstream = NoEndpoint /\ relay = NoEndpoint
    /\ adapter = "none" /\ dialled = {} /\ answers = {}

\* Cli::parse: clap exits when one of the endpoints does not parse.
Parse ==
    /\ phase = "start"
    /\ upstream' = FromStr(cli.upstream)
    /\ relay' = IF cli.relay_given THEN FromStr(cli.relay_endpoint) ELSE NoEndpoint
    /\ phase' = IF upstream' = NoEndpoint \/ (cli.relay_given /\ relay' = NoEndpoint)
                THEN "failed" ELSE "parsed"
    /\ UNCHANGED <<cli, adapter, dialled, answers>>

-----------------------------------------------------------------------------
(* Config::try_from *)

ListenerAllowed ==
    /\ cli.listen.port # 0
    /\ cli.listen.ip \in Loopback \/ cli.allow_non_loopback_listen

\* checked_mul, and the payload budget.
ProductAllowed(a, b) == a * b < UsizeValues /\ a * b <= MAX_IN_FLIGHT_BYTES

\* The two limits that have a type of their own, and its TryFrom<usize>.
ConcurrentBroadcastLimit(value) == value \in 1..MAX_BROADCASTS

PendingRequestLimit(value) == value \in 1..MAX_PENDING_REQUESTS

LimitsAllowed ==
    /\ cli.max_connections \in 1..MAX_CONNECTIONS
    /\ ConcurrentBroadcastLimit(cli.max_concurrent_broadcasts)
    /\ PendingRequestLimit(cli.max_pending_requests)
    /\ cli.max_frame_bytes \in MIN_FRAME_BYTES..MAX_FRAME_BYTES
    /\ ProductAllowed(cli.max_concurrent_broadcasts, cli.max_frame_bytes)
    /\ cli.connect_timeout_seconds # 0 /\ cli.relay_timeout_seconds # 0

UpstreamAllowed(up) == validate(up) /\ ~could_target_listener(up, cli.listen)

SocksEndpoint == [host |-> IpText(cli.socks5_proxy.ip), port |-> cli.socks5_proxy.port]

\* In socks-electrum mode: an endpoint, apart from the upstream, and no loop.
RelayAllowed(up, rel) ==
    /\ rel # NoEndpoint
    /\ ~same_target(rel, up)
    /\ ~could_target_listener(rel, cli.listen)
    /\ ~could_target_listener(SocksEndpoint, cli.listen)

\* Config::try_from returns Ok.
Accepts(up, rel) ==
    /\ ListenerAllowed
    /\ UpstreamAllowed(up)
    /\ cli.socks5_proxy.port # 0
    /\ rel # NoEndpoint => validate(rel)
    /\ LimitsAllowed
    /\ cli.relay_mode = "SocksElectrum" => RelayAllowed(up, rel)

Validate ==
    /\ phase = "parsed"
    /\ phase' = IF Accepts(upstream, relay) THEN "valid" ELSE "failed"
    /\ UNCHANGED <<cli, upstream, relay, adapter, dialled, answers>>

-----------------------------------------------------------------------------
(* run, after the configuration was accepted *)

\* --check-config returns here; otherwise the adapter of the mode is built and
\* serve_until binds the listener, or fails to.
BuildOrExit ==
    /\ phase = "valid"
    /\ IF cli.check_config
       THEN phase' = "checked" /\ UNCHANGED adapter
       ELSE phase' \in {"serving", "failed"} /\ adapter' = cli.relay_mode
    /\ UNCHANGED <<cli, upstream, relay, dialled, answers>>

\* A wallet connects: its task in serve_until connects to the query upstream.
DialUpstream ==
    /\ phase = "serving"
    /\ dialled' = dialled \cup {[as |-> "upstream", to |-> upstream]}
    /\ UNCHANGED <<phase, cli, upstream, relay, adapter, answers>>

\* SocksElectrumRelay connects to the proxy and names it the relay endpoint;
\* RejectRelay uses neither.
AdapterDials ==
    IF adapter = "SocksElectrum"
    THEN {[as |-> "proxy", to |-> SocksEndpoint], [as |-> "relay", to |-> relay]}
    ELSE {}

\* What broadcast returns: RejectRelay always RelayError::disabled, the other
\* adapter a transaction id or RelayError::failed.
RelayResults == IF adapter = "Reject" THEN {"Disabled"} ELSE {"Ok", "Failed"}

\* success_response, or relay_error_response with its two codes.
Response(result) ==
    CASE result = "Ok" -> "result"
      [] result = "Disabled" -> "not_configured"
      [] result = "Failed" -> "broadcast_failed"

\* A wallet broadcasts a transaction and gets its answer.
Broadcast ==
    /\ phase = "serving"
    /\ dialled' = dialled \cup AdapterDials
    /\ \E result \in RelayResults : answers' = answers \cup {Response(result)}
    /\ UNCHANGED <<phase, cli, upstream, relay, adapter>>

\* run has returned, or serves on.
Done == phase \in {"failed", "checked", "serving"} /\ UNCHANGED vars

Next == Parse \/ Validate \/ BuildOrExit \/ DialUpstream \/ Broadcast \/ Done

Spec == Init /\ [][Next]_vars

-----------------------------------------------------------------------------
(* Properties *)

\* The socket addresses an endpoint obviously names: an address names itself,
\* the unspecified one and localhost name the loopback addresses; what other
\* names resolve to is not known here.
NamedIps(e) ==
    LET ip == e.host.stem.ip
    IN  IF ip \in Unspecified \/ e.host.stem.fold = Localhost THEN Loopback
        ELSE {ip} \ {NoIp}

\* The addresses a listener hears: an unspecified one hears loopback too.
Hears(listener) ==
    IF listener.ip \in Unspecified THEN Loopback \cup Unspecified ELSE {listener.ip}

\* What an endpoint stands for, spelling aside: a port on this host, on an
\* address, or under a name.
Target(e) ==
    [port |-> e.port,
     on |-> IF e.host.stem.ip \in Loopback \/ e.host.stem.fold = Localhost
            THEN Localhost
            ELSE IF e.host.stem.ip # NoIp THEN e.host.stem.ip ELSE e.host.stem.fold]

\* Whatever the process connects to, through a configuration it accepted and
\* outside --check-config, is not its own listener; the relay endpoint is never
\* the query upstream under another spelling; and a wallet that was told that
\* broadcasting is not configured had its transaction sent nowhere
\* (Config::try_from, could_target_listener, same_target, run, RejectRelay).
DialsSeparate ==
    \A d \in dialled :
        /\ ~cli.check_config
        /\ d.to.port = cli.listen.port => NamedIps(d.to) \cap Hears(cli.listen) = {}
        /\ d.as # "upstream" => "not_configured" \notin answers
        /\ d.as = "relay" => Target(d.to) # Target(upstream)

\* Whether a configuration is accepted does not depend on how its endpoints
\* are spelled: valid endpoints with the same targets are accepted too.
SpellingIrrelevant ==
    phase = "valid" =>
        \A e \in Endpoints({upstream.port, relay.port} \ {NoPort}, 0..1) :
            validate(e) =>
                /\ same_target(e, upstream) => Accepts(e, relay)
                /\ relay # NoEndpoint /\ same_target(e, relay) => Accepts(upstream, e)

\* A parsed endpoint is written so that it is read back unchanged (Display and
\* FromStr).
RoundTrip ==
    \A e \in {upstream, relay} \ {NoEndpoint} : FromStr(Display(e)) = e

=============================================================================

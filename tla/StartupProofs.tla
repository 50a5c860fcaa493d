--------------------------- MODULE StartupProofs ----------------------------
(* Proofs about Startup, for every set of host texts, command lines and     *)
(* limits that satisfies the assumptions.                                   *)
EXTENDS Startup, TLAPS

Hosts == [stem : Stems, dots : Nat]

\* Endpoint values with a host from a text.
Proper == [host : Hosts, port : Nat]

-----------------------------------------------------------------------------
(* The comparisons *)

LEMMA NormalizedIp ==
    \A e \in Proper : /\ ParseIp(normalized_host(e)) = e.host.stem.ip
                      /\ normalized_host(e).stem = e.host.stem
BY DEF Proper, Hosts, ParseIp, normalized_host

\* same_target says that two endpoints have one target, whatever their
\* spelling; as an equality of targets it is an equivalence.
THEOREM SameTargetExact ==
    \A a, b \in Proper : same_target(a, b) <=> Target(a) = Target(b)
<1> SUFFICES ASSUME NEW a \in Proper, NEW b \in Proper
             PROVE same_target(a, b) <=> Target(a) = Target(b)
  OBVIOUS
<1> DEFINE s == a.host.stem
           t == b.host.stem
           on(x) == IF x.ip \in Loopback \/ x.fold = Localhost THEN Localhost
                    ELSE IF x.ip # NoIp THEN x.ip ELSE x.fold
<1>1. s \in Stems /\ t \in Stems
  BY DEF Proper, Hosts
<1>2. same_target(a, b) <=>
        /\ a.port = b.port
        /\ \/ s.ip # NoIp /\ s.ip = t.ip
           \/ s.ip \in Loopback /\ t.ip \in Loopback
           \/ s.ip \in Loopback /\ t.ip = NoIp /\ t.fold = Localhost
           \/ s.ip = NoIp /\ s.fold = Localhost /\ t.ip \in Loopback
           \/ s.ip = NoIp /\ t.ip = NoIp /\ s.fold = t.fold
  BY NormalizedIp DEF same_target, IsLocalhost
<1>3. Target(a) = Target(b) <=> a.port = b.port /\ on(s) = on(t)
  BY DEF Target
<1>4. /\ s.ip # NoIp => s.ip \in Ips /\ s.ip # Localhost /\ s.fold # Localhost
      /\ t.ip # NoIp => t.ip \in Ips /\ t.ip # Localhost /\ t.fold # Localhost
      /\ s.ip = NoIp => s.fold \notin Ips /\ s.ip \notin Loopback
      /\ t.ip = NoIp => t.fold \notin Ips /\ t.ip \notin Loopback
  BY <1>1, EndpointAssumption DEF Ips
<1> HIDE DEF s, t
<1>5. QED
  BY <1>2, <1>3, <1>4

\* An endpoint that names an address the listener hears is refused by
\* could_target_listener.
LEMMA ListenerIsSeen ==
    \A e \in Proper, c \in Clis :
        /\ ~could_target_listener(e, c.listen)
        /\ e.port = c.listen.port
        => NamedIps(e) \cap Hears(c.listen) = {}
<1> SUFFICES ASSUME NEW e \in Proper, NEW c \in Clis,
                    ~could_target_listener(e, c.listen), e.port = c.listen.port
             PROVE NamedIps(e) \cap Hears(c.listen) = {}
  OBVIOUS
<1> DEFINE s == e.host.stem
           ip == c.listen.ip
<1>1. s \in Stems
  BY DEF Proper, Hosts
<1>2. ~(IF s.fold = Localhost
        THEN ip \in Loopback \cup Unspecified
        ELSE /\ s.ip # NoIp
             /\ \/ s.ip = ip
                \/ s.ip \in Loopback /\ ip \in Loopback
                \/ ip \in Unspecified /\ s.ip \in Loopback \cup Unspecified
                \/ s.ip \in Unspecified /\ ip \in Loopback)
  BY NormalizedIp DEF could_target_listener, IsLocalhost
<1>3. /\ Loopback \cap Unspecified = {} /\ NoIp \notin Loopback /\ NoIp \notin Unspecified
      /\ s.fold = Localhost => s.ip = NoIp
  BY <1>1, EndpointAssumption
<1>4. /\ NamedIps(e) = IF s.ip \in Unspecified \/ s.fold = Localhost THEN Loopback ELSE {s.ip} \ {NoIp}
      /\ Hears(c.listen) = IF ip \in Unspecified THEN Loopback \cup Unspecified ELSE {ip}
  BY DEF NamedIps, Hears
<1> HIDE DEF s, ip
<1>5. QED
  BY <1>2, <1>3, <1>4

\* Endpoints with one target are refused for the same listeners.
LEMMA SameForListener ==
    \A a, b \in Proper, c \in Clis :
        same_target(a, b) => (could_target_listener(a, c.listen) <=> could_target_listener(b, c.listen))
<1> SUFFICES ASSUME NEW a \in Proper, NEW b \in Proper, NEW c \in Clis, same_target(a, b)
             PROVE could_target_listener(a, c.listen) <=> could_target_listener(b, c.listen)
  OBVIOUS
<1> DEFINE s == a.host.stem
           t == b.host.stem
           ip == c.listen.ip
           hits(x) == IF x.fold = Localhost
                      THEN ip \in Loopback \cup Unspecified
                      ELSE /\ x.ip # NoIp
                           /\ \/ x.ip = ip
                              \/ x.ip \in Loopback /\ ip \in Loopback
                              \/ ip \in Unspecified /\ x.ip \in Loopback \cup Unspecified
                              \/ x.ip \in Unspecified /\ ip \in Loopback
<1>1. s \in Stems /\ t \in Stems
  BY DEF Proper, Hosts
<1>2. /\ could_target_listener(a, c.listen) <=> a.port = c.listen.port /\ hits(s)
      /\ could_target_listener(b, c.listen) <=> b.port = c.listen.port /\ hits(t)
  BY NormalizedIp DEF could_target_listener, IsLocalhost
<1>3. /\ a.port = b.port
      /\ \/ s.ip # NoIp /\ s.ip = t.ip
         \/ s.ip \in Loopback /\ t.ip \in Loopback
         \/ s.ip \in Loopback /\ t.ip = NoIp /\ t.fold = Localhost
         \/ s.ip = NoIp /\ s.fold = Localhost /\ t.ip \in Loopback
         \/ s.ip = NoIp /\ t.ip = NoIp /\ s.fold = t.fold
  BY NormalizedIp DEF same_target, IsLocalhost
<1>4. /\ NoIp \notin Loopback /\ NoIp \notin Unspecified
      /\ s.fold = Localhost => s.ip = NoIp
      /\ t.fold = Localhost => t.ip = NoIp
  BY <1>1, EndpointAssumption
<1> HIDE DEF s, t, ip
<1>5. QED
  BY <1>2, <1>3, <1>4

-----------------------------------------------------------------------------
(* Texts *)

LEMMA IpTextProper == \A ip \in Ips : IpText(ip) \in Hosts /\ IpText(ip).stem.ip = ip /\ IpText(ip).dots = 0
<1> SUFFICES ASSUME NEW ip \in Ips
             PROVE IpText(ip) \in Hosts /\ IpText(ip).stem.ip = ip /\ IpText(ip).dots = 0
  OBVIOUS
<1> DEFINE s == CHOOSE s \in Stems : s.text = ip
<1>1. PICK t \in Stems : t.text = ip /\ t.ip = ip
  BY EndpointAssumption
<1>2. s \in Stems /\ s.text = ip
  BY <1>1
<1>3. s = t
  BY <1>1, <1>2, EndpointAssumption
<1>4. IpText(ip) = [stem |-> s, dots |-> 0]
  BY DEF IpText
<1> HIDE DEF s
<1>5. QED
  BY <1>1, <1>2, <1>3, <1>4 DEF Hosts

\* The texts of command lines.
CliTexts == UNION {{c.upstream, c.relay_endpoint} : c \in Clis}

\* What FromStr reads is a valid endpoint, and Display writes it so that
\* FromStr reads it back.
LEMMA FromStrReadsBack ==
    \A text \in CliTexts :
        FromStr(text) # NoEndpoint =>
            /\ FromStr(text) \in Proper
            /\ FromStr(Display(FromStr(text))) = FromStr(text)
<1> SUFFICES ASSUME NEW text \in CliTexts, FromStr(text) # NoEndpoint
             PROVE /\ FromStr(text) \in Proper
                   /\ FromStr(Display(FromStr(text))) = FromStr(text)
  OBVIOUS
<1> DEFINE e == FromStr(text)
<1>1. text.host \in Hosts /\ text.port \in Nat /\ text.bracketed \in BOOLEAN
  BY StartupAssumption DEF CliTexts, Hosts
<1>2. ~BadSyntax(text)
  BY DEF FromStr
<1>3. CASE ParseSocket(text) # NoIp
  <2> DEFINE ip == ParseSocket(text)
  <2>1. ip \in Ips
    BY <1>1, <1>3 DEF ParseSocket, ParseIp, Ips, Hosts
  <2>2. e = [host |-> IpText(ip), port |-> text.port] /\ validate(e)
    BY <1>2, <1>3 DEF FromStr, Validated
  <2>3. IpText(ip) \in Hosts /\ IpText(ip).stem.ip = ip /\ IpText(ip).dots = 0
    BY <2>1, IpTextProper
  <2>4. e.host = IpText(ip) /\ e.port = text.port /\ e \in Proper
    BY <1>1, <2>2, <2>3 DEF Proper
  <2>5. text.port # NoPort
    BY <1>2 DEF BadSyntax
  <2> DEFINE shown == Display(e)
  <2>6. /\ shown.padded = FALSE /\ shown.bracketed = (e.host.stem.colons > 0)
        /\ shown.host = e.host /\ shown.port = e.port
    BY DEF Display
  <2> HIDE DEF shown, e
  <2>7. ~BadSyntax(shown)
    BY <2>4, <2>5, <2>6 DEF BadSyntax
  <2>8. ParseSocket(shown) = ip
    BY <2>3, <2>4, <2>5, <2>6 DEF ParseSocket, ParseIp
  <2>9. FromStr(shown) = e
    BY <1>3, <2>2, <2>4, <2>6, <2>7, <2>8 DEF FromStr, Validated
  <2>10. QED
    BY <2>4, <2>9 DEF e, shown
<1>4. CASE ParseSocket(text) = NoIp
  <2>1. e = [host |-> text.host, port |-> text.port] /\ validate(e) /\ ~text.bracketed
    BY <1>2, <1>4 DEF FromStr, Validated
  <2>2. e.host = text.host /\ e.port = text.port /\ e \in Proper
    BY <1>1, <2>1 DEF Proper
  <2>3. text.port # NoPort /\ ~(text.host.stem.colons > 0)
    BY <1>2, <2>1 DEF BadSyntax
  <2>4. ParseIp(text.host) = NoIp
    BY <1>1, <1>4, <2>1, <2>3 DEF ParseSocket
  <2> DEFINE shown == Display(e)
  <2>5. /\ shown.padded = FALSE /\ shown.bracketed = (e.host.stem.colons > 0)
        /\ shown.host = e.host /\ shown.port = e.port
    BY DEF Display
  <2> HIDE DEF shown, e
  <2>6. ~BadSyntax(shown)
    BY <2>2, <2>3, <2>5 DEF BadSyntax
  <2>7. ParseSocket(shown) = NoIp /\ ~shown.bracketed
    BY <2>2, <2>3, <2>4, <2>5 DEF ParseSocket
  <2>8. FromStr(shown) = e
    BY <2>1, <2>2, <2>5, <2>6, <2>7 DEF FromStr, Validated
  <2>9. QED
    BY <2>2, <2>8 DEF e, shown
<1>5. QED
  BY <1>3, <1>4

-----------------------------------------------------------------------------
(* The invariant *)

\* An endpoint that is used was read by FromStr and is read back.
Read(e) == e \in Proper /\ FromStr(Display(e)) = e

\* The inductive invariant: past Parse the endpoints are proper, past Validate
\* they are accepted, and what is dialled follows the adapter that was built.
StartupInv ==
    /\ cli \in Clis
    /\ phase \in {"start", "parsed", "valid", "checked", "serving", "failed"}
    /\ upstream = NoEndpoint \/ Read(upstream)
    /\ relay = NoEndpoint \/ Read(relay)
    /\ phase \in {"parsed", "valid", "checked", "serving"} => upstream # NoEndpoint
    /\ phase \in {"valid", "checked", "serving"} => Accepts(upstream, relay)
    /\ phase = "serving" => adapter = cli.relay_mode /\ ~cli.check_config
    /\ phase # "serving" => dialled = {} /\ answers = {}
    /\ "not_configured" \in answers => adapter = "Reject"
    /\ dialled \subseteq {[as |-> "upstream", to |-> upstream]}
                           \cup (IF adapter = "SocksElectrum"
                                 THEN {[as |-> "proxy", to |-> SocksEndpoint],
                                       [as |-> "relay", to |-> relay]}
                                 ELSE {})

LEMMA StartupInitially == Init => StartupInv
BY DEF Init, StartupInv

LEMMA StartupPreserved == StartupInv /\ [Next]_vars => StartupInv'
<1> SUFFICES ASSUME StartupInv, [Next]_vars PROVE StartupInv'
  OBVIOUS
<1>1. CASE Parse
  <2>1. cli.upstream \in CliTexts /\ cli.relay_endpoint \in CliTexts
    BY DEF StartupInv, CliTexts
  <2>2. FromStr(cli.upstream) = NoEndpoint \/ Read(FromStr(cli.upstream))
    BY <2>1, FromStrReadsBack DEF Read
  <2>3. FromStr(cli.relay_endpoint) = NoEndpoint \/ Read(FromStr(cli.relay_endpoint))
    BY <2>1, FromStrReadsBack DEF Read
  <2>4. /\ upstream' = NoEndpoint \/ Read(upstream')
        /\ relay' = NoEndpoint \/ Read(relay')
    BY <1>1, <2>2, <2>3 DEF Parse
  <2>5. phase' = "parsed" => upstream' # NoEndpoint
    BY <1>1 DEF Parse
  <2>6. QED
    BY <1>1, <2>4, <2>5 DEF Parse, StartupInv
<1>2. CASE Validate
  <2>1. Accepts(upstream, relay)' <=> Accepts(upstream, relay)
    BY <1>2 DEF Validate, Accepts, ListenerAllowed, UpstreamAllowed, LimitsAllowed, RelayAllowed, SocksEndpoint
  <2>2. QED
    BY <1>2, <2>1 DEF Validate, StartupInv
<1>3. CASE BuildOrExit
  <2>1. Accepts(upstream, relay)' <=> Accepts(upstream, relay)
    BY <1>3 DEF BuildOrExit, Accepts, ListenerAllowed, UpstreamAllowed, LimitsAllowed, RelayAllowed, SocksEndpoint
  <2>2. QED
    BY <1>3, <2>1 DEF BuildOrExit, StartupInv
<1>4. CASE DialUpstream
  <2>1. Accepts(upstream, relay)' <=> Accepts(upstream, relay)
    BY <1>4 DEF DialUpstream, Accepts, ListenerAllowed, UpstreamAllowed, LimitsAllowed, RelayAllowed, SocksEndpoint
  <2>2. SocksEndpoint' = SocksEndpoint
    BY <1>4 DEF DialUpstream, SocksEndpoint
  <2>3. QED
    BY <1>4, <2>1, <2>2 DEF DialUpstream, StartupInv
<1>5. CASE Broadcast
  <2>1. Accepts(upstream, relay)' <=> Accepts(upstream, relay)
    BY <1>5 DEF Broadcast, Accepts, ListenerAllowed, UpstreamAllowed, LimitsAllowed, RelayAllowed, SocksEndpoint
  <2>2. SocksEndpoint' = SocksEndpoint
    BY <1>5 DEF Broadcast, SocksEndpoint
  <2>3. PICK result \in RelayResults : answers' = answers \cup {Response(result)}
    BY <1>5 DEF Broadcast
  <2>4. "not_configured" \in answers' => adapter = "Reject"
    BY <2>3 DEF RelayResults, Response, StartupInv
  <2>5. QED
    BY <1>5, <2>1, <2>2, <2>4 DEF Broadcast, AdapterDials, StartupInv
<1>6. CASE UNCHANGED vars
  <2>1. Accepts(upstream, relay)' <=> Accepts(upstream, relay)
    BY <1>6 DEF vars, Accepts, ListenerAllowed, UpstreamAllowed, LimitsAllowed, RelayAllowed, SocksEndpoint
  <2>2. SocksEndpoint' = SocksEndpoint
    BY <1>6 DEF vars, SocksEndpoint
  <2>3. QED
    BY <1>6, <2>1, <2>2 DEF vars, StartupInv
<1>7. QED
  BY <1>1, <1>2, <1>3, <1>4, <1>5, <1>6 DEF Next, Done

-----------------------------------------------------------------------------
(* The properties *)

LEMMA InvDialsSeparate == StartupInv => DialsSeparate
<1> SUFFICES ASSUME StartupInv, NEW d \in dialled
             PROVE /\ ~cli.check_config
                   /\ d.to.port = cli.listen.port => NamedIps(d.to) \cap Hears(cli.listen) = {}
                   /\ d.as # "upstream" => "not_configured" \notin answers
                   /\ d.as = "relay" => Target(d.to) # Target(upstream)
  BY DEF DialsSeparate
<1>1. /\ phase = "serving" /\ cli \in Clis /\ ~cli.check_config
      /\ adapter = cli.relay_mode /\ Accepts(upstream, relay)
      /\ upstream \in Proper
      /\ "not_configured" \in answers => adapter = "Reject"
  BY DEF StartupInv, Read
<1>2. UpstreamAllowed(upstream)
  BY <1>1 DEF Accepts
<1>3. CASE d = [as |-> "upstream", to |-> upstream]
  BY <1>1, <1>2, <1>3, ListenerIsSeen DEF UpstreamAllowed
<1>4. ASSUME adapter = "SocksElectrum"
      PROVE RelayAllowed(upstream, relay) /\ relay \in Proper
  BY <1>1, <1>4 DEF Accepts, RelayAllowed, StartupInv, Read
<1>5. CASE adapter = "SocksElectrum" /\ d = [as |-> "proxy", to |-> SocksEndpoint]
  <2>1. SocksEndpoint \in Proper
    BY <1>1, IpTextProper, StartupAssumption DEF SocksEndpoint, Proper
  <2>2. QED
    BY <1>1, <1>4, <1>5, <2>1, ListenerIsSeen DEF RelayAllowed
<1>6. CASE adapter = "SocksElectrum" /\ d = [as |-> "relay", to |-> relay]
  BY <1>1, <1>4, <1>6, ListenerIsSeen, SameTargetExact DEF RelayAllowed
<1>7. QED
  BY <1>3, <1>5, <1>6 DEF StartupInv

LEMMA InvSpellingIrrelevant == StartupInv => SpellingIrrelevant
<1> SUFFICES ASSUME StartupInv, phase = "valid",
                    NEW e \in Endpoints({upstream.port, relay.port} \ {NoPort}, 0..1),
                    validate(e)
             PROVE /\ same_target(e, upstream) => Accepts(e, relay)
                   /\ relay # NoEndpoint /\ same_target(e, relay) => Accepts(upstream, e)
  BY DEF SpellingIrrelevant
<1>1. /\ cli \in Clis /\ upstream \in Proper /\ Accepts(upstream, relay)
      /\ relay = NoEndpoint \/ relay \in Proper
  BY DEF StartupInv, Read
<1>2. e \in Proper /\ e # NoEndpoint
  BY <1>1 DEF Endpoints, Proper, Hosts, NoEndpoint, NoPort
<1>3. ASSUME same_target(e, upstream) PROVE Accepts(e, relay)
  <2>1. UpstreamAllowed(e)
    BY <1>1, <1>2, <1>3, SameForListener DEF Accepts, UpstreamAllowed
  <2>2. RelayAllowed(upstream, relay) => RelayAllowed(e, relay)
    BY <1>1, <1>2, <1>3, SameTargetExact DEF RelayAllowed
  <2>3. QED
    BY <1>1, <2>1, <2>2 DEF Accepts
<1>4. ASSUME relay # NoEndpoint, same_target(e, relay) PROVE Accepts(upstream, e)
  <2>1. RelayAllowed(upstream, relay) => RelayAllowed(upstream, e)
    BY <1>1, <1>2, <1>4, SameTargetExact, SameForListener DEF RelayAllowed
  <2>2. QED
    BY <1>1, <2>1 DEF Accepts
<1>5. QED
  BY <1>3, <1>4

LEMMA InvRoundTrip == StartupInv => RoundTrip
BY DEF StartupInv, RoundTrip, Read

\* Whatever is dialled is apart from the listener, and the relay endpoint from
\* the query upstream, for every accepted command line.
THEOREM StartupDialsSeparate == Spec => []DialsSeparate
BY StartupInitially, StartupPreserved, InvDialsSeparate, PTL DEF Spec

\* Acceptance is the same for every spelling of an endpoint.
THEOREM StartupSpellingIrrelevant == Spec => []SpellingIrrelevant
BY StartupInitially, StartupPreserved, InvSpellingIrrelevant, PTL DEF Spec

\* Every endpoint in use is read back from what Display writes.
THEOREM StartupRoundTrip == Spec => []RoundTrip
BY StartupInitially, StartupPreserved, InvRoundTrip, PTL DEF Spec

=============================================================================

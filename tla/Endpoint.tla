------------------------------ MODULE Endpoint ------------------------------
(***************************************************************************)
(* Endpoints, their spellings and the comparisons made between them        *)
(* (src/endpoint.rs).                                                      *)
(*                                                                         *)
(* A host is its text without trailing dots, the stem, and the number of   *)
(* those dots.  A stem is described by what the code asks of it: what      *)
(* IpAddr parses it to, its ASCII lower case, its length and colons, and   *)
(* whether its characters and labels are those of a DNS name.              *)
(* An IP address is named by its canonical text.                           *)
(***************************************************************************)
EXTENDS Naturals

CONSTANTS
    Stems,          \* host texts without their trailing dots
    NoIp,           \* the failure of parse::<IpAddr>
    Loopback,       \* addresses for which is_loopback holds
    Unspecified,    \* addresses for which is_unspecified holds
    Localhost,      \* "localhost"
    MaxHostBytes    \* longest DNS name (253)

Ips == {s.ip : s \in Stems} \ {NoIp}

ASSUME EndpointAssumption ==
    /\ Loopback \cap Unspecified = {} /\ NoIp \notin Loopback \cup Unspecified
    /\ \A s \in Stems : s.colons \in Nat
    \* No name reads like an address, and localhost is a name.
    /\ Localhost \notin Ips
    /\ \A s \in Stems : s.fold = Localhost => s.ip = NoIp
    /\ \A s \in Stems : s.ip = NoIp => s.fold \notin Ips
    \* An address has a canonical text; a text determines its stem.
    /\ \A ip \in Ips : \E s \in Stems : s.text = ip /\ s.ip = ip
    /\ \A s, t \in Stems : s.text = t.text => s = t
    /\ MaxHostBytes \in Nat

\* Endpoint values, whether valid or not.
Endpoints(ports, dots) == [host : [stem : Stems, dots : dots], port : ports]

ParseIp(host) == IF host.dots = 0 THEN host.stem.ip ELSE NoIp

normalized_host(e) == [e.host EXCEPT !.dots = 0]

\* validate_host takes off one dot, not all of them.
validate_host(host) ==
    \/ ParseIp(host) # NoIp
    \/ /\ host.stem.clean
       /\ host.stem.colons = 0
       /\ host.dots <= 1
       /\ host.stem.size \in 1..MaxHostBytes

validate(e) == e.port # 0 /\ validate_host(e.host)

IsLocalhost(host) == host.stem.fold = Localhost

-----------------------------------------------------------------------------
(* The two comparisons *)

\* Mutant: the hosts are compared as they are spelled.
SameSpelling(a, b) == a.port = b.port /\ a.host = b.host

same_target(a, b) ==
    LET left == normalized_host(a)
        right == normalized_host(b)
        leftIp == ParseIp(left)
        rightIp == ParseIp(right)
    IN  /\ a.port = b.port
        /\ \/ leftIp # NoIp /\ leftIp = rightIp
           \/ leftIp \in Loopback /\ rightIp \in Loopback
           \/ leftIp \in Loopback /\ rightIp = NoIp /\ IsLocalhost(right)
           \/ leftIp = NoIp /\ IsLocalhost(left) /\ rightIp \in Loopback
           \/ leftIp = NoIp /\ rightIp = NoIp /\ left.stem.fold = right.stem.fold

\* Mutant: an address that is spelled with a final dot is taken for a name.
ListenerMissed(e, listener) ==
    /\ e.port = listener.port
    /\ ParseIp(e.host) # NoIp
    /\ \/ ParseIp(e.host) = listener.ip
       \/ {ParseIp(e.host), listener.ip} \subseteq Loopback \cup Unspecified

could_target_listener(e, listener) ==
    LET host == normalized_host(e)
        ip == ParseIp(host)
    IN  /\ e.port = listener.port
        /\ IF IsLocalhost(host)
           THEN listener.ip \in Loopback \cup Unspecified
           ELSE /\ ip # NoIp
                /\ \/ ip = listener.ip
                   \/ ip \in Loopback /\ listener.ip \in Loopback
                   \/ listener.ip \in Unspecified /\ ip \in Loopback \cup Unspecified
                   \/ ip \in Unspecified /\ listener.ip \in Loopback

-----------------------------------------------------------------------------
(* Texts: what Display writes and FromStr reads.  The port of a text is a  *)
(* number that fits a u16, or NoPort when it is missing or does not parse. *)

NoPort == 65536
NoStem == [text |-> "", fold |-> "", ip |-> NoIp, size |-> 0, colons |-> 0, clean |-> FALSE]
NoEndpoint == [host |-> [stem |-> NoStem, dots |-> 0], port |-> NoPort]

\* Mutant: Display never writes brackets.
DisplayBare(e) ==
    [padded |-> FALSE, bracketed |-> FALSE, host |-> e.host, port |-> e.port]

Display(e) ==
    [padded |-> FALSE, bracketed |-> e.host.stem.colons > 0, host |-> e.host, port |-> e.port]

\* The address a text has as a SocketAddr: IPv6 goes in brackets, IPv4 not.
ParseSocket(text) ==
    IF /\ text.port # NoPort
       /\ text.bracketed = (text.host.stem.colons > 0)
    THEN ParseIp(text.host) ELSE NoIp

\* The host ip.to_string() writes.
IpText(ip) == [stem |-> CHOOSE s \in Stems : s.text = ip, dots |-> 0]

Validated(e) == IF validate(e) THEN e ELSE NoEndpoint

\* Empty or padded text, forbidden characters (the host is not clean), more
\* than one colon outside brackets, and no port.
BadSyntax(text) ==
    \/ text.padded \/ text.port = NoPort
    \/ text.host.stem.colons > 0 /\ ~text.bracketed

\* An address is kept in its canonical text, any other host as it is spelled;
\* brackets around anything but an IPv6 address are part of an invalid host.
FromStr(text) ==
    IF BadSyntax(text) THEN NoEndpoint
    ELSE IF ParseSocket(text) # NoIp
    THEN Validated([host |-> IpText(ParseSocket(text)), port |-> text.port])
    ELSE IF text.bracketed THEN NoEndpoint
    ELSE Validated([host |-> text.host, port |-> text.port])

=============================================================================

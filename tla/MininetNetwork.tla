--------------------------- MODULE MininetNetwork ---------------------------
(***************************************************************************)
(* The emulated network of mininet_tests_123.py: build_network's hosts,    *)
(* switches and links, and the flows of start_background_traffic.          *)
(*                                                                         *)
(* Bandwidths, delays, jitter and loss are drawn at random and left out.   *)
(***************************************************************************)
EXTENDS Integers, FiniteSets

CONSTANTS NumClients, Networks   \* --clients, and the networks asked for

Level == {"none", "light", "medium", "heavy", "burst"}

\* --network-model, --gateway-count, --background-hosts, --background-traffic
Network == [model : {"simple", "multi-tier"}, gateways : Nat,
            background : Nat, level : Level]

SERVER_OCTET == 1           \* SERVER_IP = "10.0.0.1"
BACKGROUND_OCTET == 150     \* bg1 is 10.0.0.151
LAST_OCTET == 254

ASSUME NetworkAssumption ==
    /\ NumClients \in Nat \ {0}
    /\ NumClients + 1 <= BACKGROUND_OCTET
    /\ Networks \subseteq Network

Smaller(a, b) == IF a < b THEN a ELSE b

MultiTier(w) == w.model = "multi-tier"

\* The loop over the background hosts ends at the last octet of the /24; the
\* simple network has none.
Background(w) ==
    IF MultiTier(w) THEN Smaller(w.background, LAST_OCTET - 1 - BACKGROUND_OCTET) ELSE 0

Host(w) ==
    {<<"server", 0>>} \cup ({"client"} \X (1 .. NumClients))
                      \cup ({"bg"} \X (1 .. Background(w)))

Switch(w) ==
    IF MultiTier(w) THEN {<<"core", 1>>, <<"agg", 1>>} \cup ({"edge"} \X (1 .. w.gateways))
                    ELSE {<<"s", 1>>}

\* Faulty variant: clients and background hosts count from one octet.
SameOctets(h) ==
    CASE h[1] = "server" -> SERVER_OCTET
      [] h[1] = "client" -> h[2] + 1
      [] h[1] = "bg" -> NumClients + h[2]

\* The last octet of a host's address.
Octet(h) ==
    CASE h[1] = "server" -> SERVER_OCTET
      [] h[1] = "client" -> h[2] + 1
      [] h[1] = "bg" -> BACKGROUND_OCTET + h[2]

\* make_assignments and build_network hand the edge switches out in turn.
Edge(w, i) == <<"edge", ((i - 1) % w.gateways) + 1>>

\* The switch that a host is linked to: every fourth background host is
\* behind the core switch, as the server is.
SwitchOf(w, h) ==
    IF ~MultiTier(w) THEN <<"s", 1>>
    ELSE IF h[1] = "server" \/ (h[1] = "bg" /\ h[2] % 4 = 0) THEN <<"core", 1>>
    ELSE Edge(w, h[2])

\* edge_switches[...] raises IndexError when there are none.
Buildable(w) == MultiTier(w) => w.gateways > 0
-----------------------------------------------------------------------------
\* BACKGROUND_TRAFFIC_PROFILES
Profile(level) ==
    CASE level = "none" -> [ping |-> 0, tcp |-> 0, udp |-> 0]
      [] level = "light" -> [ping |-> 4, tcp |-> 1, udp |-> 1]
      [] level = "medium" -> [ping |-> 8, tcp |-> 2, udp |-> 2]
      [] level = "heavy" -> [ping |-> 12, tcp |-> 4, udp |-> 4]
      [] level = "burst" -> [ping |-> 12, tcp |-> 2, udp |-> 6]

Quiet(w) == w.level = "none" \/ Background(w) = 0

\* One iperf server for each port, counted from sink_port_base.
Sinks(w) ==
    LET p == Profile(w.level)
    IN  IF Quiet(w) THEN {}
        ELSE 0 .. (IF p.tcp + p.udp < 1 THEN 1 ELSE p.tcp + p.udp) - 1

\* The generators: the first hosts of the list ping and send TCP, the ones
\* after these send UDP.  A flow is its host and its port.
Pings(w) == IF Quiet(w) THEN {} ELSE 1 .. Smaller(Profile(w.level).ping, Background(w))

TcpFlows(w) ==
    IF Quiet(w) THEN {}
    ELSE {[host |-> i, port |-> i - 1] : i \in 1 .. Smaller(Profile(w.level).tcp, Background(w))}

UdpFlows(w) ==
    LET p == Profile(w.level)
    IN  IF Quiet(w) THEN {}
        ELSE {[host |-> i, port |-> i - 1] :
                  i \in p.tcp + 1 .. Smaller(p.tcp + p.udp, Background(w))}

\* How many processes start_background_traffic starts.
Processes(w) ==
    Cardinality(Sinks(w)) + Cardinality(Pings(w))
        + Cardinality(TcpFlows(w)) + Cardinality(UdpFlows(w))
-----------------------------------------------------------------------------
\* What a network that can be built must be like for its measurements to mean
\* anything.  by_ip finds a client by its address, so no two hosts share one
\* and none is outside of the /24; every host is behind a switch that exists;
\* no two flows share a sink ("avoid port contention"), and every flow has one.
SoundNetwork(w) ==
    /\ \A g, h \in Host(w) : Octet(g) = Octet(h) => g = h
    /\ \A h \in Host(w) : Octet(h) \in 1 .. LAST_OCTET - 1 /\ SwitchOf(w, h) \in Switch(w)
    /\ \A f, g \in TcpFlows(w) \cup UdpFlows(w) : f.port = g.port => f = g
    /\ \A f \in TcpFlows(w) \cup UdpFlows(w) :
        f.port \in Sinks(w) /\ <<"bg", f.host>> \in Host(w)
=============================================================================

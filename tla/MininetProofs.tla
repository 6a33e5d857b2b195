--------------------------- MODULE MininetProofs ---------------------------
(***************************************************************************)
(* Proofs about MininetNetwork and MininetTests, for any number of clients *)
(* and iterations, any networks and any command lines.                     *)
(***************************************************************************)
EXTENDS MininetTests, FiniteSetTheorems, TLAPS

\* The remainder of a division, as make_assignments uses it.
LEMMA Remainder ==
    ASSUME NEW a \in Nat, NEW n \in Nat \ {0}
    PROVE  a % n \in 0 .. n - 1
  BY SMT

\* The edge switch that a host is given is one that build_network has added.
LEMMA EdgeExists ==
    ASSUME NEW w \in Network, w.gateways > 0, NEW i \in Nat \ {0}
    PROVE  Edge(w, i) \in {"edge"} \X (1 .. w.gateways)
<1>1. w.gateways \in Nat \ {0}
  BY DEF Network
<1>2. i - 1 \in Nat
  OBVIOUS
<1>3. (i - 1) % w.gateways \in 0 .. w.gateways - 1
  BY <1>1, <1>2, Remainder
<1>. QED
  BY <1>1, <1>3 DEF Edge

\* The background hosts that fit into the /24.
LEMMA BackgroundBounded ==
    ASSUME NEW w \in Network
    PROVE  Background(w) \in Nat /\ Background(w) + BACKGROUND_OCTET < LAST_OCTET
  BY DEF Background, Smaller, BACKGROUND_OCTET, LAST_OCTET, Network

\* No two hosts have one address.
LEMMA AddressesDiffer ==
    ASSUME NEW w \in Network, NEW g \in Host(w), NEW h \in Host(w), Octet(g) = Octet(h)
    PROVE  g = h
<1>1. Background(w) \in Nat /\ NumClients \in Nat /\ NumClients + 1 <= 150
  BY BackgroundBounded, NetworkAssumption DEF BACKGROUND_OCTET
<1>2. \A x \in Host(w) :
          \/ x = <<"server", 0>> /\ Octet(x) = 1
          \/ \E i \in 1 .. NumClients : x = <<"client", i>> /\ Octet(x) = i + 1
          \/ \E i \in 1 .. Background(w) : x = <<"bg", i>> /\ Octet(x) = 150 + i
  BY DEF Host, Octet, SERVER_OCTET, BACKGROUND_OCTET
<1>. QED
  BY <1>1, <1>2

\* Every address is in the /24 and every host behind a switch.
LEMMA HostsAreLinked ==
    ASSUME NEW w \in Network, Buildable(w), NEW h \in Host(w)
    PROVE  Octet(h) \in 1 .. LAST_OCTET - 1 /\ SwitchOf(w, h) \in Switch(w)
<1>1. /\ Background(w) \in Nat /\ Background(w) < 104
      /\ NumClients \in Nat /\ NumClients + 1 <= 150
  BY BackgroundBounded, NetworkAssumption DEF BACKGROUND_OCTET, LAST_OCTET
<1>2. \/ h = <<"server", 0>> /\ Octet(h) = 1
      \/ \E i \in 1 .. NumClients : h = <<"client", i>> /\ Octet(h) = i + 1
      \/ \E i \in 1 .. Background(w) : h = <<"bg", i>> /\ Octet(h) = 150 + i
  BY DEF Host, Octet, SERVER_OCTET, BACKGROUND_OCTET
<1>3. Octet(h) \in 1 .. LAST_OCTET - 1
  BY <1>1, <1>2 DEF LAST_OCTET
<1>4. SwitchOf(w, h) \in Switch(w)
  <2>1. CASE ~MultiTier(w)
    BY <2>1 DEF SwitchOf, Switch
  <2>2. CASE MultiTier(w) /\ (h[1] = "server" \/ (h[1] = "bg" /\ h[2] % 4 = 0))
    BY <2>2 DEF SwitchOf, Switch
  <2>3. CASE MultiTier(w) /\ ~(h[1] = "server" \/ (h[1] = "bg" /\ h[2] % 4 = 0))
    <3>1. h[2] \in Nat \ {0}
      BY <1>1, <1>2, <2>3
    <3>2. SwitchOf(w, h) = Edge(w, h[2])
      BY <2>3 DEF SwitchOf
    <3>3. Edge(w, h[2]) \in {"edge"} \X (1 .. w.gateways)
      BY <2>3, <3>1, EdgeExists DEF Buildable
    <3>. QED
      BY <2>3, <3>2, <3>3 DEF Switch
  <2>. QED
    BY <2>1, <2>2, <2>3
<1>. QED
  BY <1>3, <1>4

\* A profile's numbers of generators.
LEMMA ProfileCounts ==
    ASSUME NEW level \in Level
    PROVE  Profile(level).tcp \in Nat /\ Profile(level).udp \in Nat
  BY DEF Level, Profile

\* Flows have ports of their own, with a sink behind, and hosts that exist.
LEMMA FlowsAreApart ==
    ASSUME NEW w \in Network
    PROVE  /\ \A f, g \in TcpFlows(w) \cup UdpFlows(w) : f.port = g.port => f = g
           /\ \A f \in TcpFlows(w) \cup UdpFlows(w) :
                f.port \in Sinks(w) /\ <<"bg", f.host>> \in Host(w)
<1> DEFINE tcp == Profile(w.level).tcp
           udp == Profile(w.level).udp
           all == tcp + udp
<1>1. tcp \in Nat /\ udp \in Nat /\ Background(w) \in Nat
  BY ProfileCounts, BackgroundBounded DEF Network
<1>2. \A f \in TcpFlows(w) \cup UdpFlows(w) :
          /\ ~Quiet(w)
          /\ \E i \in 1 .. Background(w) : i <= all /\ f = [host |-> i, port |-> i - 1]
  <2> HIDE DEF tcp, udp
  <2>1. ASSUME NEW f \in TcpFlows(w)
        PROVE  ~Quiet(w) /\ \E i \in 1 .. Smaller(tcp, Background(w)) : f = [host |-> i, port |-> i - 1]
    BY <2>1 DEF TcpFlows, tcp
  <2>2. ASSUME NEW f \in UdpFlows(w)
        PROVE  ~Quiet(w) /\ \E i \in tcp + 1 .. Smaller(tcp + udp, Background(w)) : f = [host |-> i, port |-> i - 1]
    BY <2>2 DEF UdpFlows, tcp, udp
  <2>. QED
    BY <1>1, <2>1, <2>2 DEF Smaller
<1>3. ~Quiet(w) => \A n \in Nat : n < all => n \in Sinks(w)
  BY <1>1 DEF Sinks
<1> HIDE DEF tcp, udp, all
<1>4. ASSUME NEW f \in TcpFlows(w) \cup UdpFlows(w), NEW g \in TcpFlows(w) \cup UdpFlows(w),
             f.port = g.port
      PROVE  f = g
  <2>1. PICK i \in 1 .. Background(w) : f = [host |-> i, port |-> i - 1]
    BY <1>2
  <2>2. PICK j \in 1 .. Background(w) : g = [host |-> j, port |-> j - 1]
    BY <1>2
  <2>3. i = j
    BY <1>1, <1>4, <2>1, <2>2
  <2>. QED
    BY <2>1, <2>2, <2>3
<1>5. ASSUME NEW f \in TcpFlows(w) \cup UdpFlows(w)
      PROVE  f.port \in Sinks(w) /\ <<"bg", f.host>> \in Host(w)
  <2>1. PICK i \in 1 .. Background(w) :
            ~Quiet(w) /\ i <= all /\ f = [host |-> i, port |-> i - 1]
    BY <1>2
  <2>2. i - 1 \in Nat /\ i - 1 < all
    BY <1>1, <2>1 DEF all
  <2>3. <<"bg", i>> \in Host(w)
    BY <2>1 DEF Host
  <2>. QED
    BY <1>3, <2>1, <2>2, <2>3
<1>. QED
  BY <1>4, <1>5

\* Whatever the numbers of gateways and of background hosts, and whichever the
\* profile, a network that build_network can build is sound.
THEOREM NetworkIsSound ==
    ASSUME NEW w \in Network, Buildable(w)
    PROVE  SoundNetwork(w)
  BY AddressesDiffer, HostsAreLinked, FlowsAreApart DEF SoundNetwork
-----------------------------------------------------------------------------
\* Where the script is, and what is up there: what TornDown needs.
TearInv ==
    /\ opt \in Options
    /\ pc \in {"project", "next", "build", "start", "traffic", "server", "pin", "setup", "poll", "skip", "launch",
               "wait", "sequential", "collect", "stop traffic", "stop server", "stop net", "done", "failed"}
    /\ net = "built" => Buildable(opt.network)
    /\ pc \in {"build", "start", "traffic"} => ~bound /\ ~server
    /\ pc \in {"stop server", "stop net"} => (bound => traffic = 0)
    /\ pc = "stop net" => ~server
    /\ pc \in {"project", "next", "done", "failed"} => ~server /\ (bound => traffic = 0)
    /\ pc \in {"project", "next", "build", "done"} => net = "none"
    /\ pc = "failed" => net \in {"none", "partial"}
    /\ net = "partial" => pc = "failed"

\* What is running is what the next clean-up step stops.
LEMMA TearStep == TearInv /\ [Next]_vars => TearInv'
<1>. SUFFICES ASSUME TearInv, [Next]_vars PROVE TearInv'
  OBVIOUS
<1>. USE DEF TearInv, machine, record, provisioning, position, results
<1>1. CASE PrepareProject
  BY <1>1 DEF PrepareProject
<1>2. CASE PrepareRun
  BY <1>2 DEF PrepareRun
<1>3. CASE AllRun
  BY <1>3 DEF AllRun
<1>4. CASE StartNet
  BY <1>4 DEF StartNet
<1>5. CASE StartTraffic
  BY <1>5 DEF StartTraffic
<1>6. CASE StartServer
  BY <1>6 DEF StartServer, Begin
<1>7. CASE PinClient
  BY <1>7 DEF PinClient
<1>8. CASE SetupClient
  BY <1>8 DEF SetupClient
<1>9. CASE SetupFails
  BY <1>9 DEF SetupFails
<1>10. CASE PollSetupLog
  BY <1>10 DEF PollSetupLog
<1>11. CASE SkipSetupLines
  BY <1>11 DEF SkipSetupLines, Begin
<1>12. CASE LaunchBatch
  BY <1>12 DEF LaunchBatch
<1>13. CASE FinishBatch
  BY <1>13 DEF FinishBatch
<1>14. CASE RunSession
  BY <1>14 DEF RunSession
<1>15. CASE SessionFails
  BY <1>15 DEF SessionFails
<1>16. CASE RunRepeat
  BY <1>16 DEF RunRepeat
<1>17. CASE CollectServerMetrics
  BY <1>17 DEF CollectServerMetrics, Continue, Begin
<1>18. CASE StopTraffic
  BY <1>18 DEF StopTraffic
<1>19. CASE StopServer
  BY <1>19 DEF StopServer
<1>20. CASE StopNet
  BY <1>20 DEF StopNet
<1>21. CASE PreparationFails \/ BuildNetwork \/ BuildInterrupted
  <2>1. CASE PreparationFails
    BY <2>1 DEF PreparationFails
  <2>2. CASE BuildInterrupted
    <3>1. /\ pc = "build" /\ pc' = "failed" /\ net' \in {"none", "partial"}
          /\ UNCHANGED <<opt, raised, traffic, bound, server>>
      BY <2>2 DEF BuildInterrupted
    <3>. QED
      BY <3>1
  <2>3. CASE BuildNetwork
    <3>1. pc = "build" /\ net = "none"
      BY <2>3 DEF BuildNetwork
    <3>2. UNCHANGED <<opt, raised, traffic, bound, server>>
      BY <2>3 DEF BuildNetwork
    <3>3. CASE Buildable(opt.network)
      BY <2>3, <3>1, <3>2, <3>3 DEF BuildNetwork
    <3>4. CASE ~Buildable(opt.network)
      BY <2>3, <3>1, <3>2, <3>4 DEF BuildNetwork
    <3>. QED
      BY <3>3, <3>4
  <2>. QED
    BY <1>21, <2>1, <2>2, <2>3
<1>22. CASE TrafficRaises
  BY <1>22 DEF TrafficRaises
<1>23. CASE Interrupt
  BY <1>23 DEF Interrupt, InTry
<1>24. ASSUME NEW c \in Client, ClientSucceeds(c)
      PROVE  TearInv'
  BY <1>24 DEF ClientSucceeds
<1>25. ASSUME NEW c \in Client, ClientFails(c)
      PROVE  TearInv'
  BY <1>25 DEF ClientFails
<1>26. ASSUME NEW s \in pending, PrintLine(s)
      PROVE  TearInv'
  BY <1>26 DEF PrintLine
<1>27. CASE ServerDies
  BY <1>27 DEF ServerDies
<1>28. CASE UNCHANGED vars
  BY <1>28 DEF vars
<1>. QED
  BY <1>1, <1>2, <1>3, <1>4, <1>5, <1>6, <1>7, <1>8, <1>9, <1>10, <1>11, <1>12, <1>13,
     <1>14, <1>15, <1>16, <1>17, <1>18, <1>19, <1>20, <1>21, <1>22, <1>23, <1>24, <1>25,
     <1>26, <1>27, <1>28 DEF Next, Script, ClientEnds

\* However a run is interrupted, the server is down when the script goes on or
\* ends, all background traffic that it knows of has stopped, and a network
\* that build_network returned is down; one that it did not return is left only
\* when the script ends.
THEOREM TearsDown == Spec => []TornDown
<1>1. Init => TearInv
  BY TestsAssumption DEF Init, TearInv
<1>2. TearInv => TornDown
  BY DEF TearInv, TornDown
<1>. QED
  BY <1>1, <1>2, TearStep, PTL DEF Spec

\* Every network that a protocol's run builds is sound.
THEOREM NetworksAreSound == Spec => []NetworkSound
<1>1. Init => TearInv
  BY TestsAssumption DEF Init, TearInv
<1>2. TearInv => NetworkSound
  <2>1. \A o \in Options : o.network \in Network
    BY TestsAssumption, NetworkAssumption DEF Option
  <2>. QED
    BY <2>1, NetworkIsSound DEF TearInv, NetworkSound
<1>. QED
  BY <1>1, <1>2, TearStep, PTL DEF Spec
-----------------------------------------------------------------------------
\* How far prepare_zkarche_state has come: what EnrolledBeforeTests and
\* ClientSessionsWhole need.
Provisioned(c) == c \in enrolled /\ setup[c] = {SetupOf(c)}

EnrolInv ==
    /\ DOMAIN setup = Client
    /\ client \in Nat
    /\ pc \in {"build", "start", "traffic", "server"} => client = 1
    /\ pc \in {"pin", "setup"} =>
          client \in Client /\ \A c \in Client : c < client => Provisioned(c)
    /\ Zk /\ pc \in {"poll", "skip", "launch", "wait", "sequential", "collect"} =>
          \A c \in Client : Provisioned(c)

\* No step reaches the tests with a client that is not enrolled.
LEMMA EnrolStep == EnrolInv /\ [Next]_vars => EnrolInv'
<1>. SUFFICES ASSUME EnrolInv, [Next]_vars PROVE EnrolInv'
  OBVIOUS
<1>. NumClients \in Nat \ {0}
  BY NetworkAssumption
<1>. USE DEF EnrolInv, Provisioned, Client, Zk, machine, record, provisioning, position, results
<1>1. CASE PrepareProject
  BY <1>1 DEF PrepareProject
<1>2. CASE PrepareRun
  BY <1>2 DEF PrepareRun, Nowhere
<1>3. CASE AllRun
  BY <1>3 DEF AllRun
<1>4. CASE StartNet
  BY <1>4 DEF StartNet
<1>5. CASE StartTraffic
  BY <1>5 DEF StartTraffic
<1>6. CASE StartServer
  BY <1>6 DEF StartServer, Begin
<1>7. CASE PinClient
  BY <1>7 DEF PinClient
<1>8. CASE SetupClient
  BY <1>8 DEF SetupClient
<1>9. CASE SetupFails
  BY <1>9 DEF SetupFails
<1>10. CASE PollSetupLog
  BY <1>10 DEF PollSetupLog
<1>11. CASE SkipSetupLines
  BY <1>11 DEF SkipSetupLines, Begin
<1>12. CASE LaunchBatch
  BY <1>12 DEF LaunchBatch
<1>13. CASE FinishBatch
  BY <1>13 DEF FinishBatch
<1>14. CASE RunSession
  BY <1>14 DEF RunSession
<1>15. CASE SessionFails
  BY <1>15 DEF SessionFails
<1>16. CASE RunRepeat
  BY <1>16 DEF RunRepeat
<1>17. CASE CollectServerMetrics
  BY <1>17 DEF CollectServerMetrics, Continue, Begin
<1>18. CASE StopTraffic
  BY <1>18 DEF StopTraffic
<1>19. CASE StopServer
  BY <1>19 DEF StopServer
<1>20. CASE StopNet
  BY <1>20 DEF StopNet
<1>21. CASE PreparationFails \/ BuildNetwork \/ BuildInterrupted
  BY <1>21 DEF PreparationFails, BuildNetwork, BuildInterrupted
<1>22. CASE TrafficRaises
  BY <1>22 DEF TrafficRaises
<1>23. CASE Interrupt
  BY <1>23 DEF Interrupt, InTry
<1>24. ASSUME NEW c \in Client, ClientSucceeds(c)
      PROVE  EnrolInv'
  BY <1>24 DEF ClientSucceeds
<1>25. ASSUME NEW c \in Client, ClientFails(c)
      PROVE  EnrolInv'
  BY <1>25 DEF ClientFails
<1>26. ASSUME NEW s \in pending, PrintLine(s)
      PROVE  EnrolInv'
  BY <1>26 DEF PrintLine
<1>27. CASE ServerDies
  BY <1>27 DEF ServerDies
<1>28. CASE UNCHANGED vars
  BY <1>28 DEF vars
<1>. QED
  BY <1>1, <1>2, <1>3, <1>4, <1>5, <1>6, <1>7, <1>8, <1>9, <1>10, <1>11, <1>12, <1>13,
     <1>14, <1>15, <1>16, <1>17, <1>18, <1>19, <1>20, <1>21, <1>22, <1>23, <1>24, <1>25,
     <1>26, <1>27, <1>28 DEF Next, Script, ClientEnds

\* So it is in every reachable state.
LEMMA EnrolCorrect == Spec => []EnrolInv
<1>1. Init => EnrolInv
  BY DEF Init, EnrolInv, Nowhere
<1>. QED
  BY <1>1, EnrolStep, PTL DEF Spec

\* No test begins before all clients are enrolled and their setups measured.
THEOREM EnrolsFirst == Spec => []EnrolledBeforeTests
<1>1. EnrolInv => EnrolledBeforeTests
  BY DEF EnrolInv, Provisioned, EnrolledBeforeTests
<1>. QED
  BY <1>1, EnrolCorrect, PTL
-----------------------------------------------------------------------------
\* A row that a successful session leaves has the session's setup in it.
Whole(r) ==
    r.ok => r.full = IF Zk THEN {SetupOf(r.session.client), r.session} ELSE {r.session}

\* The row of a session that succeeded has all that belongs to it.
LEMMA RowIsWhole ==
    ASSUME EnrolInv, pc \in {"wait", "sequential"}, NEW ok \in BOOLEAN,
           NEW s, s.client \in Client
    PROVE  Whole(ClientRow(s, ok)) /\ ClientRow(s, ok).ok = ok
  BY DEF EnrolInv, Provisioned, Whole, ClientRow, ClientMetrics, WithSetup

WholeInv == \A r \in clientRows : Whole(r)

\* Rows are added whole and stay so.
LEMMA WholeStep == EnrolInv /\ WholeInv /\ [Next]_vars => WholeInv'
<1>. SUFFICES ASSUME EnrolInv, WholeInv, [Next]_vars PROVE WholeInv'
  OBVIOUS
<1>. 1 \in Client
  BY NetworkAssumption DEF Client
<1>. UNCHANGED <<clientRows, protocol>> => WholeInv'
  BY DEF WholeInv, Whole, Zk
<1>. ASSUME NEW R, clientRows' = clientRows \cup R, \A r \in R : Whole(r), UNCHANGED protocol
     PROVE  WholeInv'
  BY DEF WholeInv, Whole, Zk
<1>. USE DEF machine, record, provisioning, position, results
<1>1. CASE PrepareProject
  BY <1>1 DEF PrepareProject
<1>2. CASE PrepareRun
  BY <1>2 DEF PrepareRun, WholeInv
<1>3. CASE AllRun
  BY <1>3 DEF AllRun
<1>4. CASE StartNet
  BY <1>4 DEF StartNet
<1>5. CASE StartTraffic
  BY <1>5 DEF StartTraffic
<1>6. CASE StartServer
  BY <1>6 DEF StartServer
<1>7. CASE PinClient
  BY <1>7 DEF PinClient
<1>8. CASE SetupClient
  BY <1>8 DEF SetupClient
<1>9. CASE SetupFails
  BY <1>9 DEF SetupFails
<1>10. CASE PollSetupLog
  BY <1>10 DEF PollSetupLog
<1>11. CASE SkipSetupLines
  BY <1>11 DEF SkipSetupLines
<1>12. CASE LaunchBatch
  BY <1>12 DEF LaunchBatch
<1>13. CASE FinishBatch
  <2>1. ASSUME NEW c \in Client
        PROVE  Whole(ClientRow(SessionOf(c, step, 1), proc[c] = "ok"))
    BY <1>13, RowIsWhole DEF FinishBatch, SessionOf
  <2>. QED
    BY <1>13, <2>1 DEF FinishBatch, ClientSessionsWhole
<1>14. CASE RunSession
  <2>1. Whole(ClientRow(SessionOf(1, 2, run), TRUE))
    BY <1>14, RowIsWhole, 1 \in Client DEF RunSession, SessionOf
  <2>2. clientRows' = clientRows \cup {ClientRow(SessionOf(1, 2, run), TRUE)} /\ UNCHANGED protocol
    BY <1>14 DEF RunSession, SequentialRows
  <2>. QED
    BY <2>1, <2>2 DEF WholeInv, Whole, Zk
<1>15. CASE SessionFails
  <2>1. Whole(ClientRow(SessionOf(1, 2, run), FALSE))
    BY <1>15, RowIsWhole, 1 \in Client DEF SessionFails, SessionOf
  <2>2. clientRows' = clientRows \cup {ClientRow(SessionOf(1, 2, run), FALSE)} /\ UNCHANGED protocol
    BY <1>15 DEF SessionFails, SequentialRows
  <2>. QED
    BY <2>1, <2>2 DEF WholeInv, Whole, Zk
<1>16. CASE RunRepeat
  <2> DEFINE Row(n, done) ==
               [ClientRow(SessionOf(1, 2, n), n <= done) EXCEPT !.ok = (done = Iterations)]
  <2>1. PICK done \in 0 .. Iterations :
            SequentialRows({Row(n, done) : n \in 1 .. Iterations})
    BY <1>16 DEF RunRepeat
  <2>2. ASSUME NEW n \in 1 .. Iterations
        PROVE  Whole(Row(n, done))
    <3>1. SessionOf(1, 2, n).client \in Client
      BY DEF SessionOf
    <3>2. (n <= done) \in BOOLEAN /\ pc = "sequential"
      BY <1>16 DEF RunRepeat
    <3>3. Whole(ClientRow(SessionOf(1, 2, n), n <= done))
      BY <3>1, <3>2, RowIsWhole
    <3>4. ClientRow(SessionOf(1, 2, n), n <= done).ok = (n <= done)
      BY <3>1, <3>2, RowIsWhole
    <3>5. done = Iterations => n <= done
      BY TestsAssumption
    <3>. QED
      BY <3>3, <3>4, <3>5 DEF Whole, ClientRow, ClientMetrics
  <2>3. clientRows' = clientRows \cup {Row(n, done) : n \in 1 .. Iterations} /\ UNCHANGED protocol
    BY <1>16, <2>1 DEF RunRepeat, SequentialRows
  <2> HIDE DEF Row
  <2>. QED
    BY <2>2, <2>3
<1>17. CASE CollectServerMetrics
  BY <1>17 DEF CollectServerMetrics
<1>18. CASE StopTraffic
  BY <1>18 DEF StopTraffic
<1>19. CASE StopServer
  BY <1>19 DEF StopServer
<1>20. CASE StopNet
  BY <1>20 DEF StopNet
<1>21. CASE PreparationFails \/ BuildNetwork \/ BuildInterrupted
  BY <1>21 DEF PreparationFails, BuildNetwork, BuildInterrupted
<1>22. CASE TrafficRaises
  BY <1>22 DEF TrafficRaises
<1>23. CASE Interrupt
  BY <1>23 DEF Interrupt
<1>24. ASSUME NEW c \in Client, ClientSucceeds(c)
      PROVE  WholeInv'
  BY <1>24 DEF ClientSucceeds
<1>25. ASSUME NEW c \in Client, ClientFails(c)
      PROVE  WholeInv'
  BY <1>25 DEF ClientFails
<1>26. ASSUME NEW s \in pending, PrintLine(s)
      PROVE  WholeInv'
  BY <1>26 DEF PrintLine
<1>27. CASE ServerDies
  BY <1>27 DEF ServerDies
<1>28. CASE UNCHANGED vars
  BY <1>28 DEF vars
<1>. QED
  BY <1>1, <1>2, <1>3, <1>4, <1>5, <1>6, <1>7, <1>8, <1>9, <1>10, <1>11, <1>12, <1>13,
     <1>14, <1>15, <1>16, <1>17, <1>18, <1>19, <1>20, <1>21, <1>22, <1>23, <1>24, <1>25,
     <1>26, <1>27, <1>28 DEF Next, Script, ClientEnds

\* The full session of every successful row is its own setup and session.
THEOREM SessionsAreWhole == Spec => []ClientSessionsWhole
<1>1. Init => WholeInv
  BY DEF Init, WholeInv
<1>2. WholeInv => ClientSessionsWhole
  BY DEF WholeInv, Whole, ClientSessionsWhole
<1>. QED
  BY <1>1, <1>2, EnrolCorrect, WholeStep, PTL DEF Spec
-----------------------------------------------------------------------------
\* The steps of the selected tests come in their order.
LEMMA SelectedSteps == Selected \subseteq Step \ {0}
  BY TestsAssumption DEF Selected, Step

\* What comes first of the selected steps that are later than the one at hand.
LEMMA FirstLater ==
    ASSUME NEW n \in Nat, {s \in Selected : s > n} # {}
    PROVE  \E s \in Selected : s > n /\ \A other \in Selected : other > n => s <= other
<1>1. CASE 1 \in Selected /\ n < 1
  BY <1>1, SelectedSteps DEF Step
<1>2. CASE ~(1 \in Selected /\ n < 1) /\ 2 \in Selected /\ n < 2
  <2>1. \A s \in Selected : s > n => 2 <= s
    BY <1>2, SelectedSteps DEF Step
  <2>. QED
    BY <1>2, <2>1
<1>3. CASE ~(1 \in Selected /\ n < 1) /\ ~(2 \in Selected /\ n < 2)
  <2>1. PICK s \in Selected : s > n
    OBVIOUS
  <2>2. \A q \in Selected : q > n => q > 2
    BY <1>3, SelectedSteps DEF Step
  <2>3. Selected \cap (3 .. 2 + Iterations) = 3 .. 2 + Iterations
    <3>1. s > 2
      BY <2>1, <2>2
    <3>2. "3" \in opt.tests
      BY <3>1 DEF Selected
    <3>. QED
      BY <3>2 DEF Selected
  <2>4. CASE n < 3
    <3>1. 3 \in Selected
      BY <2>3, TestsAssumption
    <3>. QED
      BY <2>2, <2>4, <3>1, SelectedSteps DEF Step
  <2>5. CASE n >= 3
    <3>1. s \in Int /\ s <= 2 + Iterations
      BY SelectedSteps, TestsAssumption DEF Step
    <3>2. n + 1 \in 3 .. 2 + Iterations
      BY <2>1, <2>5, <3>1, TestsAssumption
    <3>3. n + 1 \in Selected
      BY <2>3, <3>2
    <3>. QED
      BY <3>3, SelectedSteps DEF Step
  <2>. QED
    BY <2>4, <2>5
<1>. QED
  BY <1>1, <1>2, <1>3

\* The first step of a command line is the smallest of those it selects.
LEMMA FirstIsSelected ==
    ASSUME opt \in Options
    PROVE  FirstStep \in Selected /\ \A s \in Selected : FirstStep <= s
<1>1. PICK t \in Test : t \in opt.tests
  BY TestsAssumption DEF Option, Tests, Test
<1>2. PICK s \in Selected : TRUE
  <2>1. 3 \in 3 .. 2 + Iterations
    BY TestsAssumption
  <2>. QED
    BY <1>1, <2>1 DEF Selected, Test
<1>3. s > 0
  BY <1>2, SelectedSteps DEF Step
<1>4. {q \in Selected : q > 0} # {}
  BY <1>2, <1>3
<1>5. \E q \in Selected : q > 0 /\ \A other \in Selected : other > 0 => q <= other
  BY <1>4, FirstLater
<1>6. \E q \in Selected : \A other \in Selected : q <= other
  BY <1>5, SelectedSteps DEF Step
<1>. QED
  BY <1>6 DEF FirstStep

\* Where a step of the experiment that is over leads.
LEMMA ContinueOn ==
    ASSUME step \in Nat, Continue
    PROVE  \/ pc' = "stop traffic" /\ step' = step /\ \A s \in Selected : ~(s > step)
           \/ /\ step' \in Selected /\ step' > step
              /\ pc' = IF step' = 2 THEN "sequential" ELSE "launch"
              /\ \A s \in Selected : s > step => step' <= s
<1> DEFINE later == {s \in Selected : s > step}
           next == CHOOSE s \in later : \A other \in later : s <= other
<1>1. CASE later = {}
  BY <1>1 DEF Continue
<1>2. CASE later # {}
  <2>1. next \in later /\ \A s \in later : next <= s
    <3>1. \E s \in later : \A other \in later : s <= other
      BY <1>2, FirstLater
    <3>. QED
      BY <3>1
  <2>2. Begin(next)
    BY <1>2 DEF Continue
  <2>3. step' = next /\ pc' = IF next = 2 THEN "sequential" ELSE "launch"
    BY <2>2 DEF Begin
  <2>. QED
    BY <2>1, <2>3
<1>. QED
  BY <1>1, <1>2
-----------------------------------------------------------------------------
\* The types of what the log and the rows are made of, and where each step and
\* each iteration of test 2 belongs.
LogLine == {Line(s) : s \in Session} \cup {OtherLine}

TypeInv ==
    /\ opt \in Options
    /\ log \in Seq(LogLine)
    /\ pending \subseteq Session
    /\ step \in Step
    /\ start \in Nat /\ offset \in Nat
    /\ client \in Nat \ {0}
    /\ run \in Nat \ {0}
    /\ DOMAIN proc = Client
    /\ pc \in {"build", "start", "traffic", "server"} => client = 1
    /\ pc \in {"pin", "setup"} => client \in Client
    /\ pc \in {"build", "start", "traffic", "server", "pin", "setup", "poll", "skip"} => step = 0 /\ run = 1
    /\ pc \in {"launch", "wait", "collect"} => step > 0
    /\ pc \in {"launch", "wait"} => step # 2
    /\ pc = "sequential" => step = 2 /\ run <= Iterations
    /\ pc \in {"launch", "wait", "collect"} /\ step < 2 => run = 1

\* The sessions that the runner starts.
LEMMA SessionsOfSteps ==
    /\ \A c \in Client, s \in Step : SessionOf(c, s, 1) \in Session
    /\ \A n \in 1 .. Iterations : SessionOf(1, 2, n) \in Session
    /\ \A c \in Client : SetupOf(c) \in Session
  BY NetworkAssumption, TestsAssumption DEF SessionOf, SetupOf, Session, Client, Step

\* Every step keeps the types and the place of the loops.
LEMMA TypeStep == TypeInv /\ [Next]_vars => TypeInv'
<1>. SUFFICES ASSUME TypeInv, [Next]_vars PROVE TypeInv'
  OBVIOUS
<1>. NumClients \in Nat \ {0} /\ Iterations \in Nat \ {0}
  BY NetworkAssumption, TestsAssumption
<1>. USE DEF TypeInv, Client, Step, machine, record, provisioning, position, results
<1>1. CASE PrepareProject
  BY <1>1 DEF PrepareProject
<1>2. CASE PrepareRun
  BY <1>2 DEF PrepareRun, Nowhere
<1>3. CASE AllRun
  BY <1>3 DEF AllRun
<1>4. CASE StartNet
  BY <1>4 DEF StartNet
<1>5. CASE StartTraffic
  BY <1>5 DEF StartTraffic
<1>6. CASE StartServer
  <2>1. FirstStep \in Selected
    BY FirstIsSelected DEF TypeInv
  <2>. QED
    BY <1>6, <2>1, SelectedSteps DEF StartServer, Begin, OtherLine, LogLine
<1>7. CASE PinClient
  BY <1>7 DEF PinClient
<1>8. CASE SetupClient
  BY <1>8, SessionsOfSteps DEF SetupClient
<1>9. CASE SetupFails
  BY <1>9, SessionsOfSteps DEF SetupFails
<1>10. CASE PollSetupLog
  BY <1>10 DEF PollSetupLog
<1>11. CASE SkipSetupLines
  <2>1. FirstStep \in Selected
    BY FirstIsSelected DEF TypeInv
  <2>. QED
    BY <1>11, <2>1, SelectedSteps DEF SkipSetupLines, Begin
<1>12. CASE LaunchBatch
  BY <1>12 DEF LaunchBatch, NoProcesses
<1>13. CASE FinishBatch
  BY <1>13 DEF FinishBatch, NoProcesses
<1>14. CASE RunSession
  BY <1>14, SessionsOfSteps DEF RunSession
<1>15. CASE SessionFails
  BY <1>15, SessionsOfSteps DEF SessionFails, MayRecord
<1>16. CASE RunRepeat
  <2>1. PICK done \in 0 .. Iterations :
            \E S \in IF done = Iterations THEN {{}} ELSE MayRecord(SessionOf(1, 2, done + 1)) :
                pending' = pending \cup {SessionOf(1, 2, n) : n \in 1 .. done} \cup S
    BY <1>16 DEF RunRepeat
  <2>2. done # Iterations => done + 1 \in 1 .. Iterations
    OBVIOUS
  <2>3. {SessionOf(1, 2, n) : n \in 1 .. done} \subseteq Session
    BY SessionsOfSteps
  <2>4. pending' \subseteq Session
    BY <2>1, <2>2, <2>3, SessionsOfSteps DEF MayRecord
  <2>5. /\ pc = "sequential" /\ pc' = "collect"
        /\ UNCHANGED <<opt, log, start, offset, client, run, step, proc>>
    BY <1>16 DEF RunRepeat
  <2>. QED
    BY <2>4, <2>5
<1>17. CASE CollectServerMetrics
  <2>1. /\ pc = "collect" /\ step \in Nat /\ step > 0 /\ Continue
        /\ offset' \in Nat
        /\ UNCHANGED <<opt, log, pending, start, client, run, proc>>
    BY <1>17 DEF CollectServerMetrics
  <2>2. \/ pc' = "stop traffic" /\ step' = step
        \/ step' \in Selected /\ step' > step
              /\ pc' = IF step' = 2 THEN "sequential" ELSE "launch"
    BY <2>1, ContinueOn
  <2>3. CASE pc' = "stop traffic" /\ step' = step
    BY <2>1, <2>3
  <2>4. CASE step' \in Selected /\ step' > step /\ pc' = IF step' = 2 THEN "sequential" ELSE "launch"
    <3>1. step' \in Step /\ step' # 0 /\ (step' = 2 => step = 1 /\ run = 1)
      BY <2>1, <2>4, SelectedSteps
    <3>. QED
      BY <2>1, <2>4, <3>1
  <2>. QED
    BY <2>2, <2>3, <2>4
<1>18. CASE StopTraffic
  BY <1>18 DEF StopTraffic
<1>19. CASE StopServer
  BY <1>19 DEF StopServer
<1>20. CASE StopNet
  BY <1>20 DEF StopNet
<1>21. CASE PreparationFails \/ BuildNetwork \/ BuildInterrupted
  BY <1>21 DEF PreparationFails, BuildNetwork, BuildInterrupted
<1>22. CASE TrafficRaises
  BY <1>22 DEF TrafficRaises
<1>23. CASE Interrupt
  BY <1>23 DEF Interrupt, InTry
<1>24. ASSUME NEW c \in Client, ClientSucceeds(c)
      PROVE  TypeInv'
  BY <1>24, SessionsOfSteps DEF ClientSucceeds
<1>25. ASSUME NEW c \in Client, ClientFails(c)
      PROVE  TypeInv'
  BY <1>25, SessionsOfSteps DEF ClientFails, MayRecord
<1>26. ASSUME NEW s \in pending, PrintLine(s)
      PROVE  TypeInv'
  <2>1. Line(s) \in LogLine
    BY DEF Line, LogLine, TypeInv
  <2>. QED
    BY <1>26, <2>1 DEF PrintLine
<1>27. CASE ServerDies
  BY <1>27 DEF ServerDies
<1>28. CASE UNCHANGED vars
  BY <1>28 DEF vars
<1>. QED
  BY <1>1, <1>2, <1>3, <1>4, <1>5, <1>6, <1>7, <1>8, <1>9, <1>10, <1>11, <1>12, <1>13,
     <1>14, <1>15, <1>16, <1>17, <1>18, <1>19, <1>20, <1>21, <1>22, <1>23, <1>24, <1>25,
     <1>26, <1>27, <1>28 DEF Next, Script, ClientEnds

\* The types, in every reachable state.
LEMMA TypesCorrect == Spec => []TypeInv
<1>1. Init => TypeInv
  BY TestsAssumption DEF Init, TypeInv, NoProcesses, Step
<1>. QED
  BY <1>1, TypeStep, PTL DEF Spec
-----------------------------------------------------------------------------
\* Of the log, the rows, and where between them the tests have come.
RowsInv ==
    /\ start <= offset /\ offset <= Len(log)
    /\ pc \in {"build", "start", "traffic", "server"} => log = <<>> /\ pending = {} /\ ~server
    /\ pc \in {"build", "start", "traffic", "server", "pin", "setup", "poll", "skip"} =>
          serverRows = {} /\ start = 0 /\ offset = 0
    /\ RowsAreTheLog

\* A row is only ever made from what the log has shown.
LEMMA RowsStep == TypeInv /\ RowsInv /\ [Next]_vars => RowsInv'
<1>. SUFFICES ASSUME TypeInv, RowsInv, [Next]_vars PROVE RowsInv'
  OBVIOUS
<1>. UNCHANGED <<serverRows, log, start, offset>> => RowsAreTheLog'
  BY DEF RowsInv, RowsAreTheLog
<1>. USE DEF RowsInv, machine, record, provisioning, position, results
<1>1. CASE PrepareProject
  BY <1>1 DEF PrepareProject
<1>2. CASE PrepareRun
  BY <1>2 DEF PrepareRun, RowsAreTheLog
<1>3. CASE AllRun
  BY <1>3 DEF AllRun
<1>4. CASE StartNet
  BY <1>4 DEF StartNet
<1>5. CASE StartTraffic
  BY <1>5 DEF StartTraffic
<1>6. CASE StartServer
  <2>1. serverRows' = {} /\ start' = 0 /\ offset' = 0 /\ log' = <<OtherLine>> /\ Len(log') = 1
    BY <1>6 DEF StartServer
  <2>2. pc' \in {"pin", "launch", "sequential"}
    BY <1>6 DEF StartServer, Begin
  <2>. QED
    BY <2>1, <2>2 DEF RowsAreTheLog
<1>7. CASE PinClient
  BY <1>7 DEF PinClient
<1>8. CASE SetupClient
  BY <1>8 DEF SetupClient
<1>9. CASE SetupFails
  BY <1>9 DEF SetupFails
<1>10. CASE PollSetupLog
  BY <1>10 DEF PollSetupLog
<1>11. CASE SkipSetupLines
  <2>1. serverRows' = {} /\ log' = log /\ start' = Len(log) /\ offset' = Len(log)
    BY <1>11 DEF SkipSetupLines
  <2>2. pc' \in {"launch", "sequential"}
    BY <1>11 DEF SkipSetupLines, Begin
  <2>3. Len(log) \in Nat
    BY DEF TypeInv
  <2>. QED
    BY <2>1, <2>2, <2>3 DEF RowsAreTheLog
<1>12. CASE LaunchBatch
  BY <1>12 DEF LaunchBatch
<1>13. CASE FinishBatch
  BY <1>13 DEF FinishBatch
<1>14. CASE RunSession
  BY <1>14 DEF RunSession
<1>15. CASE SessionFails
  BY <1>15 DEF SessionFails
<1>16. CASE RunRepeat
  BY <1>16 DEF RunRepeat
<1>17. CASE CollectServerMetrics
  <2>1. /\ serverRows' = serverRows \cup {ServerRow(i) : i \in Metrics(offset)}
        /\ offset' = Len(log) /\ log' = log /\ start' = start
        /\ Len(log) \in Nat /\ offset \in Nat /\ start \in Nat
    BY <1>17 DEF CollectServerMetrics, TypeInv
  <2>2. pc' \in {"stop traffic", "launch", "sequential"}
    BY <1>17 DEF CollectServerMetrics, Continue, Begin
  <2>3. ASSUME NEW i \in Metrics(offset)
        PROVE  /\ ServerRow(i).line = i
               /\ i \in offset + 1 .. Len(log) /\ log[i].metrics # {}
               /\ log[i] = Line(ServerRow(i).session)
    <3>1. i \in 1 .. Len(log) /\ log[i] \in LogLine /\ log[i].metrics # {}
      BY <2>1 DEF Metrics, TypeInv
    <3>2. PICK s \in Session : log[i] = Line(s)
      BY <3>1 DEF LogLine, OtherLine
    <3>3. SessionAt(i) = s
      BY <3>2 DEF SessionAt, Line
    <3>. QED
      BY <3>1, <3>2, <3>3 DEF ServerRow, Metrics
  <2>4. {ServerRow(i).line : i \in Metrics(offset)} = {i \in offset + 1 .. Len(log) : log[i].metrics # {}}
    BY <2>3 DEF Metrics
  <2>5. {r.line : r \in serverRows'} = {i \in start' + 1 .. offset' : log'[i].metrics # {}}
    <3>1. {r.line : r \in serverRows'} =
              {r.line : r \in serverRows} \cup {ServerRow(i).line : i \in Metrics(offset)}
      BY <2>1
    <3>. QED
      BY <2>1, <2>4, <3>1 DEF RowsAreTheLog
  <2>6. \A r \in serverRows : r.line <= offset
    BY <2>1 DEF RowsAreTheLog
  <2>7. \A r, q \in serverRows' : r.line = q.line => r = q
    BY <2>1, <2>3, <2>6 DEF RowsAreTheLog
  <2>8. \A r \in serverRows' : log'[r.line] = Line(r.session)
    BY <2>1, <2>3 DEF RowsAreTheLog
  <2>9. start' <= offset' /\ offset' <= Len(log')
    BY <2>1
  <2>10. RowsAreTheLog'
    BY <2>5, <2>7, <2>8 DEF RowsAreTheLog
  <2>. QED
    BY <2>2, <2>9, <2>10
<1>18. CASE StopTraffic
  BY <1>18 DEF StopTraffic
<1>19. CASE StopServer
  BY <1>19 DEF StopServer
<1>20. CASE StopNet
  BY <1>20 DEF StopNet
<1>21. CASE PreparationFails \/ BuildNetwork \/ BuildInterrupted
  BY <1>21 DEF PreparationFails, BuildNetwork, BuildInterrupted
<1>22. CASE TrafficRaises
  BY <1>22 DEF TrafficRaises
<1>23. CASE Interrupt
  BY <1>23 DEF Interrupt, InTry
<1>24. ASSUME NEW c \in Client, ClientSucceeds(c)
      PROVE  RowsInv'
  BY <1>24 DEF ClientSucceeds
<1>25. ASSUME NEW c \in Client, ClientFails(c)
      PROVE  RowsInv'
  BY <1>25 DEF ClientFails, MayRecord
<1>26. ASSUME NEW s \in pending, PrintLine(s)
      PROVE  RowsInv'
  <2>1. /\ log \in Seq(LogLine) /\ log' = Append(log, Line(s))
        /\ UNCHANGED <<pc, start, offset, serverRows>>
        /\ start \in Nat /\ offset \in Nat
    BY <1>26 DEF PrintLine, TypeInv
  <2>2. Len(log) \in Nat /\ Len(log') = Len(log) + 1 /\ \A i \in 1 .. Len(log) : log'[i] = log[i]
    BY <2>1
  <2>3. pending # {}
    BY <1>26
  <2>4. \A i \in start + 1 .. offset : log'[i] = log[i]
    BY <2>1, <2>2
  <2>5. \A r \in serverRows : r.line \in start + 1 .. offset
    BY DEF RowsAreTheLog
  <2>6. RowsAreTheLog'
    BY <2>1, <2>4, <2>5 DEF RowsAreTheLog
  <2>. QED
    BY <2>1, <2>2, <2>3, <2>6
<1>27. CASE ServerDies
  BY <1>27 DEF ServerDies
<1>28. CASE UNCHANGED vars
  BY <1>28 DEF vars
<1>. QED
  BY <1>1, <1>2, <1>3, <1>4, <1>5, <1>6, <1>7, <1>8, <1>9, <1>10, <1>11, <1>12, <1>13,
     <1>14, <1>15, <1>16, <1>17, <1>18, <1>19, <1>20, <1>21, <1>22, <1>23, <1>24, <1>25,
     <1>26, <1>27, <1>28 DEF Next, Script, ClientEnds

\* So it is in every reachable state.
LEMMA RowsCorrect == Spec => []RowsInv
<1>1. Init => RowsInv
  BY DEF Init, RowsInv, RowsAreTheLog
<1>. QED
  BY <1>1, TypesCorrect, RowsStep, PTL DEF Spec

\* However late the lines come, the server rows are those of the log between
\* the offset with which the tests began and the one that was reached.
THEOREM RowsFollowTheLog == Spec => []RowsAreTheLog
<1>1. RowsInv => RowsAreTheLog
  BY DEF RowsInv
<1>. QED
  BY <1>1, RowsCorrect, PTL
-----------------------------------------------------------------------------
\* The sessions that the server has recorded, printed or not.
Logged == UNION {log[i].metrics : i \in 1 .. Len(log)}
Seen == pending \cup Logged

\* No session is recorded that has not been run, and none is recorded twice.
FreshInv ==
    /\ pending \cap Logged = {}
    /\ \A i, j \in 1 .. Len(log) : log[i].metrics \cap log[j].metrics # {} => i = j
    /\ \A x \in Seen : x.step <= step
    /\ raised => pc \in {"stop traffic", "stop server", "stop net", "failed"}
    /\ \A c \in Client : proc[c] = "running" =>
          (pc = "wait" \/ raised) /\ SessionOf(c, step, 1) \notin Seen
    /\ pc = "launch" => \A x \in Seen : x.step < step
    /\ pc = "sequential" => \A x \in Seen : x.step = 2 => x.run < run
    /\ Repeats => run = 1
    /\ pc \in {"pin", "setup"} => \A x \in Seen : x.client < client

\* What was seen of the server are sessions.
LEMMA SeenSessions == TypeInv => Seen \subseteq Session
  <1>. SUFFICES ASSUME TypeInv PROVE Seen \subseteq Session
    OBVIOUS
  <1>1. ASSUME NEW i \in 1 .. Len(log)
        PROVE  log[i].metrics \subseteq Session
    <2>1. log[i] \in LogLine
      BY DEF TypeInv
    <2>. QED
      BY <2>1 DEF LogLine, Line, OtherLine
  <1>. QED
    BY <1>1 DEF Seen, Logged, TypeInv

\* Steps and clients are numbers, and so is the first step.
LEMMA StepsAreNumbers ==
    /\ Step \subseteq Nat /\ Client \subseteq Nat
    /\ opt \in Options => FirstStep \in Nat /\ FirstStep > 0
<1>1. Step \subseteq Nat /\ Client \subseteq Nat
  BY TestsAssumption, NetworkAssumption DEF Step, Client
<1>2. \A s \in Selected : s \in Nat /\ s > 0
  BY <1>1, SelectedSteps
<1>. QED
  BY <1>1, <1>2, FirstIsSelected

\* Step, client and run of a session that was seen.
LEMMA SeenTypes ==
    ASSUME TypeInv, NEW x \in Seen
    PROVE  x.step \in Nat /\ x.client \in Nat /\ x.run \in Nat /\ x.run > 0
<1>1. x \in Session
  BY SeenSessions
<1>2. x.client \in Client /\ x.step \in Step /\ x.run \in 1 .. Iterations
  BY <1>1 DEF Session
<1>3. x.run \in Nat /\ x.run > 0
  BY <1>2, TestsAssumption
<1>. QED
  BY <1>2, <1>3, StepsAreNumbers

\* A line that is printed moves its session from the one set to the other.
LEMMA PrintMoves ==
    ASSUME TypeInv, NEW s \in pending, log' = Append(log, Line(s)), pending' = pending \ {s}
    PROVE  /\ Logged' = Logged \cup {s} /\ Seen' = Seen
           /\ Len(log) \in Nat /\ Len(log') = Len(log) + 1
           /\ \A i \in 1 .. Len(log) : log'[i] = log[i]
           /\ log'[Len(log) + 1].metrics = {s}
<1>1. /\ Len(log) \in Nat /\ Len(log') = Len(log) + 1
      /\ \A i \in 1 .. Len(log) : log'[i] = log[i]
      /\ log'[Len(log) + 1].metrics = {s}
  BY DEF TypeInv, Line
<1>2. 1 .. Len(log') = 1 .. Len(log) \cup {Len(log) + 1}
  BY <1>1
<1>3. Logged' = Logged \cup {s}
  BY <1>1, <1>2 DEF Logged
<1>. QED
  BY <1>1, <1>3 DEF Seen

\* No step starts a session that was seen before.
LEMMA FreshStep == TypeInv /\ RowsInv /\ FreshInv /\ [Next]_vars => FreshInv'
<1>. SUFFICES ASSUME TypeInv, RowsInv, FreshInv, [Next]_vars PROVE FreshInv'
  OBVIOUS
<1>. log' = log => Logged' = Logged
  BY DEF Logged
<1>. log' = log /\ pending' = pending => Seen' = Seen
  BY DEF Seen, Logged
<1>0. \A x \in Seen : x.step \in Nat /\ x.client \in Nat /\ x.run \in Nat /\ x.run > 0
  BY SeenTypes
<1>. step \in Nat
  BY StepsAreNumbers DEF TypeInv
<1>00. \A x \in Seen : x.step <= step
  BY DEF FreshInv
<1>. USE DEF Repeats, Zk, machine, record, provisioning, position, results
<1>1. CASE PrepareProject
  BY <1>1 DEF PrepareProject, FreshInv
<1>2. CASE PrepareRun
  <2>1. Seen' = {} /\ Logged' = {} /\ pending' = {} /\ log' = <<>>
    BY <1>2 DEF PrepareRun, Logged, Seen
  <2>2. \A c \in Client : proc[c] # "running"
    BY <1>2 DEF PrepareRun, FreshInv
  <2>3. \A i, j \in 1 .. Len(log') : i = j
    BY <2>1
  <2>4. pc' = "build" /\ proc' = proc /\ run' = 1 /\ ~raised'
    BY <1>2 DEF PrepareRun, FreshInv
  <2>. QED
    BY <2>1, <2>2, <2>3, <2>4 DEF FreshInv
<1>3. CASE AllRun
  BY <1>3 DEF AllRun, FreshInv
<1>4. CASE StartNet
  BY <1>4 DEF StartNet, FreshInv
<1>5. CASE StartTraffic
  BY <1>5 DEF StartTraffic, FreshInv
<1>6. CASE StartServer
  <2>1. pending = {} /\ log' = <<OtherLine>> /\ pending' = {} /\ run' = run /\ run = 1
        /\ UNCHANGED <<proc, raised>> /\ ~raised /\ pc' \in {"pin", "launch", "sequential"}
    BY <1>6 DEF StartServer, Begin, RowsInv, TypeInv, FreshInv
  <2>2. Logged' = {} /\ Seen' = {}
    BY <2>1 DEF Logged, Seen, OtherLine
  <2>3. \A i, j \in 1 .. Len(log') : i = j
    BY <2>1
  <2>4. \A c \in Client : proc[c] # "running"
    BY <1>6 DEF StartServer, FreshInv
  <2>. QED
    BY <2>1, <2>2, <2>3, <2>4 DEF FreshInv
<1>7. CASE PinClient
  BY <1>7 DEF PinClient, FreshInv
<1>8. CASE SetupClient
  <2>1. Seen' = Seen \cup {SetupOf(client)} /\ Logged' = Logged
    BY <1>8 DEF SetupClient, Seen
  <2>2. SetupOf(client) \notin Seen /\ SetupOf(client).client = client /\ SetupOf(client).step = 0
    BY <1>8 DEF SetupClient, SetupOf, SessionOf, TypeInv, Client, FreshInv
  <2>3. \A x \in Seen : x.client < client /\ x.client \in Int
    BY <1>0, <1>8 DEF SetupClient, FreshInv
  <2>. QED
    BY <1>8, <2>1, <2>2, <2>3 DEF SetupClient, TypeInv, Seen, Step, FreshInv
<1>9. CASE SetupFails
  <2>0. pending' = pending \/ pending' = pending \cup {SetupOf(client)}
    BY <1>9 DEF SetupFails
  <2>1. PICK A \in SUBSET {SetupOf(client)} : pending' = pending \cup A
    <3>1. pending = pending \cup {} /\ {} \in SUBSET {SetupOf(client)}
      OBVIOUS
    <3>. QED
      BY <2>0, <3>1
  <2>2. Seen' = Seen \cup A /\ Logged' = Logged
    BY <1>9, <2>1 DEF SetupFails, Seen
  <2>3. SetupOf(client) \notin Seen /\ SetupOf(client).step = 0 /\ step = 0
    <3>1. SetupOf(client).client = client /\ SetupOf(client).step = 0
      BY DEF SetupOf, SessionOf
    <3>2. client \in Nat /\ \A x \in Seen : x.client < client
      BY <1>9 DEF SetupFails, TypeInv, FreshInv
    <3>3. step = 0
      BY <1>9 DEF SetupFails, TypeInv
    <3>. QED
      BY <3>1, <3>2, <3>3
  <2>4. \A c \in Client : proc[c] # "running"
    BY <1>9 DEF SetupFails, FreshInv
  <2>5. /\ pc' = "stop traffic" /\ raised'
        /\ UNCHANGED <<opt, protocol, log, step, run, proc>>
    BY <1>9 DEF SetupFails
  <2>6. \A x \in Seen' : x.step <= step
    BY <1>00, <2>2, <2>3
  <2>7. pending' \cap Logged' = {}
    BY <2>1, <2>2, <2>3 DEF FreshInv, Seen
  <2>. QED
    BY <2>4, <2>5, <2>6, <2>7 DEF FreshInv
<1>10. CASE PollSetupLog
  BY <1>10 DEF PollSetupLog, FreshInv
<1>11. CASE SkipSetupLines
  <2>1. FirstStep \in Nat /\ FirstStep > 0
    BY StepsAreNumbers DEF TypeInv
  <2>2. /\ step' = FirstStep /\ step = 0
        /\ pc' = IF FirstStep = 2 THEN "sequential" ELSE "launch"
        /\ UNCHANGED <<opt, protocol, log, pending, raised, proc, run>>
    BY <1>11 DEF SkipSetupLines, Begin, TypeInv
  <2>3. \A x \in Seen : x.step < FirstStep
    BY <1>0, <1>00, <2>1, <2>2
  <2>4. \A c \in Client : proc[c] # "running"
    BY <1>11 DEF SkipSetupLines, FreshInv
  <2>5. ~raised
    BY <1>11 DEF SkipSetupLines, FreshInv
  <2>6. \A x \in Seen' : x.step < step' /\ x.step <= step'
    BY <1>0, <2>1, <2>2, <2>3
  <2>7. pc' = "sequential" => \A x \in Seen' : x.step # 2
    BY <2>2, <2>6, <1>0
  <2>8. pc' \in {"sequential", "launch"}
    BY <2>2
  <2>. QED
    BY <2>2, <2>4, <2>5, <2>6, <2>7, <2>8 DEF FreshInv
<1>12. CASE LaunchBatch
  <2>1. \A c \in Client : SessionOf(c, step, 1) \notin Seen
    BY <1>12 DEF LaunchBatch, SessionOf, TypeInv, Step, FreshInv
  <2>. QED
    BY <1>12, <2>1 DEF LaunchBatch, FreshInv
<1>13. CASE FinishBatch
  BY <1>13 DEF FinishBatch, NoProcesses, FreshInv
<1>14. CASE RunSession
  <2>1. Seen' = Seen \cup {SessionOf(1, 2, run)} /\ Logged' = Logged /\ step = 2
    BY <1>14 DEF RunSession, Seen, TypeInv
  <2>2. SessionOf(1, 2, run) \notin Seen
    BY <1>0, <1>14 DEF RunSession, SessionOf, TypeInv, FreshInv
  <2>3. /\ pending' = pending \cup {SessionOf(1, 2, run)} /\ run' = run + 1
        /\ pc' \in {"sequential", "collect"} /\ ~Repeats
        /\ UNCHANGED <<opt, protocol, log, step, proc, raised>>
    BY <1>14 DEF RunSession
  <2>4. \A x \in Seen' : x.step <= 2 /\ (x.step = 2 => x.run < run + 1)
    <3>1. run \in Nat /\ pc = "sequential"
      BY <1>14 DEF RunSession, TypeInv
    <3>2. SessionOf(1, 2, run).step = 2 /\ SessionOf(1, 2, run).run = run
      BY DEF SessionOf
    <3>. QED
      BY <1>0, <2>1, <3>1, <3>2 DEF FreshInv
  <2>5. \A c \in Client : proc[c] # "running"
    BY <1>14 DEF RunSession, FreshInv
  <2>. QED
    BY <1>14, <2>1, <2>2, <2>3, <2>4, <2>5 DEF Seen, RunSession, FreshInv
<1>15. CASE SessionFails
  <2>1. PICK A \in SUBSET {SessionOf(1, 2, run)} :
            /\ pending' = pending \cup A
            /\ run' = run + 1 /\ pc' \in {"sequential", "collect"} /\ ~Repeats
            /\ UNCHANGED <<opt, protocol, log, step, proc, raised>>
    BY <1>15 DEF SessionFails, MayRecord
  <2>2. Seen' = Seen \cup A /\ Logged' = Logged /\ step = 2
    BY <1>15, <2>1 DEF SessionFails, Seen, TypeInv
  <2>3. SessionOf(1, 2, run) \notin Seen
    BY <1>0, <1>15 DEF SessionFails, SessionOf, TypeInv, FreshInv
  <2>4. \A x \in Seen' : x.step <= 2 /\ (x.step = 2 => x.run < run + 1)
    <3>1. run \in Nat /\ pc = "sequential"
      BY <1>15 DEF SessionFails, TypeInv
    <3>2. SessionOf(1, 2, run).step = 2 /\ SessionOf(1, 2, run).run = run
      BY DEF SessionOf
    <3>. QED
      BY <1>0, <2>2, <3>1, <3>2 DEF FreshInv
  <2>5. \A c \in Client : proc[c] # "running"
    BY <1>15 DEF SessionFails, FreshInv
  <2>. QED
    BY <1>15, <2>1, <2>2, <2>3, <2>4, <2>5 DEF Seen, SessionFails, FreshInv
<1>16. CASE RunRepeat
  <2>0. PICK done \in 0 .. Iterations : \E S \in SUBSET {SessionOf(1, 2, done + 1)} :
            pending' = pending \cup {SessionOf(1, 2, n) : n \in 1 .. done} \cup S
    BY <1>16 DEF RunRepeat, MayRecord
  <2>1. PICK S \in SUBSET {SessionOf(1, 2, done + 1)} :
            pending' = pending \cup {SessionOf(1, 2, n) : n \in 1 .. done} \cup S
    BY <2>0
  <2> DEFINE A == {SessionOf(1, 2, n) : n \in 1 .. done} \cup S
  <2>2. /\ pc = "sequential" /\ pc' = "collect" /\ step = 2 /\ run = 1
        /\ UNCHANGED <<opt, protocol, log, step, run, proc, raised>>
    BY <1>16 DEF RunRepeat, TypeInv, FreshInv
  <2>3. Seen' = Seen \cup A /\ pending' = pending \cup A /\ Logged' = Logged
    BY <2>1, <2>2 DEF Seen
  <2>4. \A x \in A : x.step = 2
    <3>1. \A n : SessionOf(1, 2, n).step = 2
      BY DEF SessionOf
    <3>. QED
      BY <3>1
  <2>5. \A x \in Seen : x.step # 2
    BY <1>0, <2>2 DEF FreshInv
  <2> HIDE DEF A
  <2>6. \A c \in Client : proc[c] # "running"
    BY <2>2 DEF FreshInv
  <2>7. \A x \in Seen' : x.step <= step
    BY <1>00, <2>2, <2>3, <2>4
  <2>8. pending' \cap Logged' = {}
    <3>1. A \cap Logged = {}
      BY <2>4, <2>5 DEF Seen
    <3>. QED
      BY <2>3, <3>1 DEF FreshInv
  <2>9. \A i, j \in 1 .. Len(log') : log'[i].metrics \cap log'[j].metrics # {} => i = j
    BY <2>2 DEF FreshInv
  <2>. QED
    BY <2>2, <2>6, <2>7, <2>8, <2>9 DEF FreshInv
<1>17. CASE CollectServerMetrics
  <2>1. /\ pc = "collect" /\ step \in Nat /\ Continue
        /\ UNCHANGED <<opt, protocol, log, pending, run, proc, raised>>
    BY <1>17 DEF CollectServerMetrics, TypeInv, Step
  <2>2. \/ pc' = "stop traffic" /\ step' = step
        \/ step' > step /\ step' \in Nat /\ pc' = IF step' = 2 THEN "sequential" ELSE "launch"
    BY <2>1, ContinueOn, SelectedSteps, StepsAreNumbers
  <2>3. \A c \in Client : proc[c] # "running"
    BY <2>1 DEF FreshInv
  <2>4. CASE pc' = "stop traffic" /\ step' = step
    BY <2>1, <2>3, <2>4 DEF FreshInv
  <2>5. CASE step' > step /\ step' \in Nat /\ pc' = IF step' = 2 THEN "sequential" ELSE "launch"
    <3>1. \A x \in Seen : x.step < step'
      BY <1>0, <1>00, <2>5
    <3>. QED
      BY <1>0, <2>1, <2>3, <2>5, <3>1 DEF FreshInv
  <2>. QED
    BY <2>2, <2>4, <2>5 DEF FreshInv
<1>18. CASE StopTraffic
  BY <1>18 DEF StopTraffic, FreshInv
<1>19. CASE StopServer
  <2>1. Seen' \subseteq Seen
    BY <1>19 DEF StopServer, Seen
  <2>. QED
    BY <1>19, <2>1 DEF StopServer, FreshInv
<1>20. CASE StopNet
  BY <1>20 DEF StopNet, FreshInv
<1>21. CASE PreparationFails \/ BuildNetwork \/ BuildInterrupted
  <2>1. /\ pc \in {"next", "build"} /\ pc' \in {"start", "failed"}
        /\ UNCHANGED <<opt, protocol, log, pending, step, run, proc, raised>>
    BY <1>21 DEF PreparationFails, BuildNetwork, BuildInterrupted
  <2>. QED
    BY <2>1 DEF FreshInv
<1>22. CASE TrafficRaises
  BY <1>22 DEF TrafficRaises, FreshInv
<1>23. CASE Interrupt
  BY <1>23 DEF Interrupt, InTry, FreshInv
<1>24. ASSUME NEW c \in Client, ClientSucceeds(c)
      PROVE  FreshInv'
  <2>1. Seen' = Seen \cup {SessionOf(c, step, 1)} /\ Logged' = Logged
    BY <1>24 DEF ClientSucceeds, Seen
  <2>2. pc \in {"wait", "stop traffic", "stop server", "stop net", "failed"}
    BY <1>24 DEF ClientSucceeds, FreshInv
  <2>3. /\ proc' = [proc EXCEPT ![c] = "ok"] /\ proc[c] = "running"
        /\ pending' = pending \cup {SessionOf(c, step, 1)}
        /\ UNCHANGED <<opt, protocol, pc, log, step, run, raised>>
    BY <1>24 DEF ClientSucceeds
  <2>4. \A d \in Client : proc'[d] = "running" => proc[d] = "running" /\ d # c
    BY <2>3 DEF TypeInv
  <2>5. \A d \in Client : proc'[d] = "running" => SessionOf(d, step, 1) \notin Seen'
    BY <2>1, <2>4 DEF SessionOf, FreshInv
  <2>6. SessionOf(c, step, 1) \notin Seen /\ SessionOf(c, step, 1).step = step
    BY <2>3 DEF SessionOf, FreshInv
  <2>7. \A x \in Seen' : x.step <= step
    BY <1>00, <2>1, <2>6
  <2>8. pending' \cap Logged' = {}
    BY <2>1, <2>3, <2>6 DEF Seen, FreshInv
  <2>9. \A i, j \in 1 .. Len(log') : log'[i].metrics \cap log'[j].metrics # {} => i = j
    BY <2>3 DEF FreshInv
  <2>10. \A d \in Client : proc'[d] = "running" => pc' = "wait" \/ raised'
    BY <2>3, <2>4 DEF FreshInv
  <2>11. ~Repeats' \/ run' = 1
    BY <2>3 DEF FreshInv
  <2>. QED
    BY <2>2, <2>3, <2>5, <2>7, <2>8, <2>9, <2>10, <2>11 DEF FreshInv
<1>25. ASSUME NEW c \in Client, ClientFails(c)
      PROVE  FreshInv'
  <2>1. PICK A \in SUBSET {SessionOf(c, step, 1)} :
            /\ proc' = [proc EXCEPT ![c] = "failed"] /\ proc[c] = "running"
            /\ pending' = pending \cup A
            /\ UNCHANGED <<opt, protocol, pc, log, step, run, raised>>
    BY <1>25 DEF ClientFails, MayRecord
  <2>2. pc \in {"wait", "stop traffic", "stop server", "stop net", "failed"}
    BY <2>1 DEF FreshInv
  <2>3. Seen' = Seen \cup A /\ Logged' = Logged
    BY <2>1 DEF Seen
  <2>4. \A d \in Client : proc'[d] = "running" => proc[d] = "running" /\ d # c
    BY <2>1 DEF TypeInv
  <2>5. \A d \in Client : proc'[d] = "running" => SessionOf(d, step, 1) \notin Seen'
    BY <2>3, <2>4 DEF SessionOf, FreshInv
  <2>6. SessionOf(c, step, 1) \notin Seen /\ SessionOf(c, step, 1).step = step
    BY <2>1 DEF SessionOf, FreshInv
  <2>7. \A x \in Seen' : x.step <= step
    BY <1>00, <2>3, <2>6
  <2>8. pending' \cap Logged' = {}
    BY <2>1, <2>3, <2>6 DEF Seen, FreshInv
  <2>9. \A i, j \in 1 .. Len(log') : log'[i].metrics \cap log'[j].metrics # {} => i = j
    BY <2>1 DEF FreshInv
  <2>10. \A d \in Client : proc'[d] = "running" => pc' = "wait" \/ raised'
    BY <2>1, <2>4 DEF FreshInv
  <2>11. ~Repeats' \/ run' = 1
    BY <2>1 DEF FreshInv
  <2>. QED
    BY <2>1, <2>2, <2>5, <2>7, <2>8, <2>9, <2>10, <2>11 DEF FreshInv
<1>26. ASSUME NEW s \in pending, PrintLine(s)
      PROVE  FreshInv'
  <2>1. /\ log' = Append(log, Line(s)) /\ pending' = pending \ {s}
        /\ UNCHANGED <<opt, protocol, pc, step, run, proc, raised, client>>
    BY <1>26 DEF PrintLine
  <2>2. Logged' = Logged \cup {s} /\ Seen' = Seen
    BY <2>1, PrintMoves
  <2>3. \A i \in 1 .. Len(log) : s \notin log[i].metrics
    <3>1. s \notin Logged
      BY DEF FreshInv
    <3>. QED
      BY <3>1 DEF Logged
  <2>4. ASSUME NEW i \in 1 .. Len(log'), NEW j \in 1 .. Len(log'),
               log'[i].metrics \cap log'[j].metrics # {}
        PROVE  i = j
    <3>1. /\ Len(log) \in Nat /\ Len(log') = Len(log) + 1
          /\ \A k \in 1 .. Len(log) : log'[k] = log[k]
          /\ log'[Len(log) + 1].metrics = {s}
      BY <2>1, PrintMoves
    <3>2. CASE i \in 1 .. Len(log) /\ j \in 1 .. Len(log)
      BY <2>4, <3>1, <3>2 DEF FreshInv
    <3>3. CASE i = Len(log) + 1 /\ j \in 1 .. Len(log)
      BY <2>3, <2>4, <3>1, <3>3
    <3>4. CASE j = Len(log) + 1 /\ i \in 1 .. Len(log)
      BY <2>3, <2>4, <3>1, <3>4
    <3>5. (i \in 1 .. Len(log) \/ i = Len(log) + 1) /\ (j \in 1 .. Len(log) \/ j = Len(log) + 1)
      BY <3>1
    <3>. QED
      BY <3>2, <3>3, <3>4, <3>5
  <2>. QED
    BY <2>1, <2>2, <2>4 DEF FreshInv
<1>27. CASE ServerDies
  <2>1. Seen' \subseteq Seen
    BY <1>27 DEF ServerDies, Seen
  <2>. QED
    BY <1>27, <2>1 DEF ServerDies, FreshInv
<1>28. CASE UNCHANGED vars
  BY <1>28 DEF vars, FreshInv
<1>. QED
  BY <1>1, <1>2, <1>3, <1>4, <1>5, <1>6, <1>7, <1>8, <1>9, <1>10, <1>11, <1>12, <1>13,
     <1>14, <1>15, <1>16, <1>17, <1>18, <1>19, <1>20, <1>21, <1>22, <1>23, <1>24, <1>25,
     <1>26, <1>27, <1>28 DEF Next, Script, ClientEnds

\* So it is in every reachable state.
LEMMA FreshCorrect == Spec => []FreshInv
<1>1. Init => FreshInv
  BY DEF Init, FreshInv, Seen, Logged, NoProcesses, Repeats, Zk
<1>. QED
  BY <1>1, TypesCorrect, RowsCorrect, FreshStep, PTL DEF Spec
-----------------------------------------------------------------------------
\* The bookings of the ledger that the log and the rows implement.
Booked == {[session |-> r.session, step |-> r.step] : r \in serverRows}

OnlySessions == Seen \subseteq Session

LedgerStep == Ledger!LedgerNext

\* What a server row books is in the log.
LEMMA BookedIsLogged == TypeInv /\ RowsInv => \A r \in serverRows : r.session \in Logged
<1>. SUFFICES ASSUME TypeInv, RowsInv, NEW r \in serverRows PROVE r.session \in Logged
  OBVIOUS
<1>1. r.line \in start + 1 .. offset /\ log[r.line] = Line(r.session)
  BY DEF RowsInv, RowsAreTheLog
<1>2. start \in Nat /\ offset \in Nat /\ Len(log) \in Nat /\ offset <= Len(log)
  BY DEF TypeInv, RowsInv
<1>3. r.line \in 1 .. Len(log)
  BY <1>1, <1>2
<1>. QED
  BY <1>1, <1>3 DEF Logged, Line

\* A step that records sessions, or changes nothing that the ledger sees.
LEMMA Records ==
    ASSUME OnlySessions', Seen \subseteq Seen', serverRows' = serverRows
    PROVE  LedgerStep
<1>1. Booked' = Booked
  BY DEF Booked
<1>2. Ledger!Record
  BY <1>1 DEF OnlySessions, Ledger!Record, Seen, Logged, Booked
<1>. QED
  BY <1>2 DEF LedgerStep, Ledger!LedgerNext

\* A step that loses what has not been printed.
LEMMA Loses ==
    ASSUME Seen' \subseteq Seen, serverRows' = serverRows,
           \A r \in serverRows : r.session \in Seen'
    PROVE  LedgerStep
<1>1. Booked' = Booked
  BY DEF Booked
<1>2. \A b \in Booked : b.session \in Seen'
  BY DEF Booked
<1>3. Ledger!Lose
  BY <1>1, <1>2 DEF Ledger!Lose, Ledger!Sessions, Seen, Logged, Booked
<1>. QED
  BY <1>3 DEF LedgerStep, Ledger!LedgerNext

\* The rows of a step book sessions that are in the log and that no row of an
\* earlier step has: a session has one line, and the offset is behind it.
LEMMA Books == TypeInv /\ RowsInv /\ FreshInv /\ CollectServerMetrics => Ledger!Book
<1>. SUFFICES ASSUME TypeInv, RowsInv, FreshInv, CollectServerMetrics PROVE Ledger!Book
  OBVIOUS
<1>1. /\ serverRows' = serverRows \cup {ServerRow(i) : i \in Metrics(offset)}
      /\ UNCHANGED <<log, pending>>
      /\ start \in Nat /\ offset \in Nat /\ Len(log) \in Nat
  BY DEF CollectServerMetrics, TypeInv, record
<1>2. Seen' = Seen
  BY <1>1 DEF Seen, Logged
<1> DEFINE Entry(r) == [session |-> r.session, step |-> r.step]
<1>3. ASSUME NEW i \in Metrics(offset)
      PROVE  /\ ServerRow(i).step = step /\ ServerRow(i).session = SessionAt(i)
             /\ i \in 1 .. Len(log) /\ i > offset
             /\ SessionAt(i) \in log[i].metrics
  BY <1>1 DEF ServerRow, SessionAt, Metrics
<1>4. ASSUME NEW i \in Metrics(offset)
      PROVE  /\ SessionAt(i) \in Seen /\ SessionAt(i).step <= step
             /\ \A r \in serverRows : r.session # SessionAt(i)
  <2>1. SessionAt(i) \in Logged
    BY <1>3 DEF Logged
  <2>2. SessionAt(i) \in Seen /\ SessionAt(i).step <= step
    BY <2>1 DEF Seen, FreshInv
  <2>3. ASSUME NEW r \in serverRows, r.session = SessionAt(i)
        PROVE  FALSE
    <3>1. r.line \in start + 1 .. offset /\ log[r.line] = Line(r.session)
      BY DEF RowsInv, RowsAreTheLog
    <3>2. offset <= Len(log)
      BY DEF RowsInv
    <3>3. r.line \in 1 .. Len(log) /\ r.line # i
      BY <1>1, <1>3, <3>1, <3>2
    <3>4. SessionAt(i) \in log[r.line].metrics \cap log[i].metrics
      BY <1>3, <2>3, <3>1 DEF Line
    <3>. QED
      BY <1>3, <3>3, <3>4 DEF FreshInv
  <2>. QED
    BY <2>2, <2>3
<1>5. Booked' = Booked \cup {Entry(ServerRow(i)) : i \in Metrics(offset)}
  BY <1>1 DEF Booked
<1>6. ASSUME NEW b \in Booked' \ Booked
      PROVE  /\ b.session \in Seen /\ b.session.step <= b.step /\ b.step = step
             /\ b = [session |-> b.session, step |-> step]
             /\ \A d \in Booked : d.session # b.session
  <2>1. PICK i \in Metrics(offset) : b = Entry(ServerRow(i))
    BY <1>5
  <2>2. b = [session |-> SessionAt(i), step |-> step]
    BY <1>3, <2>1
  <2>. QED
    BY <1>4, <2>2 DEF Booked
<1>7. \A b, c \in Booked' \ Booked : b.step = c.step /\ (b.session = c.session => b = c)
  BY <1>6
<1>8. Booked \subseteq Booked'
  BY <1>5
<1>. QED
  BY <1>2, <1>6, <1>7, <1>8 DEF Ledger!Book, Ledger!Sessions, Seen, Logged, Booked

\* Every step of the runner is one of the ledger's.
LEMMA LedgerSteps ==
    TypeInv /\ RowsInv /\ FreshInv /\ OnlySessions' /\ [Next]_vars => LedgerStep
<1>. SUFFICES ASSUME TypeInv, RowsInv, FreshInv, OnlySessions', [Next]_vars
              PROVE  LedgerStep
  OBVIOUS
<1>0. \A r \in serverRows : r.session \in Logged
  BY BookedIsLogged
<1>. USE DEF machine, record, provisioning, position, results
<1>1. CASE PrepareProject
  <2>1. Seen \subseteq Seen' /\ serverRows' = serverRows
    BY <1>1 DEF PrepareProject, Seen, Logged
  <2>. QED
    BY <2>1, Records
<1>2. CASE PrepareRun
  <2>1. Seen' = {} /\ Booked' = {}
    BY <1>2 DEF PrepareRun, Seen, Logged, Booked
  <2>. QED
    BY <2>1 DEF LedgerStep, Ledger!LedgerNext, Ledger!NextExperiment, Seen, Logged, Booked
<1>3. CASE AllRun
  <2>1. Seen \subseteq Seen' /\ serverRows' = serverRows
    BY <1>3 DEF AllRun, Seen, Logged
  <2>. QED
    BY <2>1, Records
<1>4. CASE StartNet
  <2>1. Seen \subseteq Seen' /\ serverRows' = serverRows
    BY <1>4 DEF StartNet, Seen, Logged
  <2>. QED
    BY <2>1, Records
<1>5. CASE StartTraffic
  <2>1. Seen \subseteq Seen' /\ serverRows' = serverRows
    BY <1>5 DEF StartTraffic, Seen, Logged
  <2>. QED
    BY <2>1, Records
<1>6. CASE StartServer
  <2>1. Seen' \subseteq Seen /\ serverRows' = {} /\ serverRows = {}
    BY <1>6 DEF StartServer, Seen, Logged, OtherLine, RowsInv
  <2>. QED
    BY <2>1, Loses
<1>7. CASE PinClient
  <2>1. Seen \subseteq Seen' /\ serverRows' = serverRows
    BY <1>7 DEF PinClient, Seen, Logged
  <2>. QED
    BY <2>1, Records
<1>8. CASE SetupClient
  <2>1. Seen \subseteq Seen' /\ serverRows' = serverRows
    BY <1>8 DEF SetupClient, Seen, Logged
  <2>. QED
    BY <2>1, Records
<1>9. CASE SetupFails
  <2>1. Seen \subseteq Seen' /\ serverRows' = serverRows
    BY <1>9 DEF SetupFails, Seen, Logged
  <2>. QED
    BY <2>1, Records
<1>10. CASE PollSetupLog
  <2>1. Seen \subseteq Seen' /\ serverRows' = serverRows
    BY <1>10 DEF PollSetupLog, Seen, Logged
  <2>. QED
    BY <2>1, Records
<1>11. CASE SkipSetupLines
  <2>1. Seen \subseteq Seen' /\ serverRows' = serverRows
    BY <1>11 DEF SkipSetupLines, Seen, Logged
  <2>. QED
    BY <2>1, Records
<1>12. CASE LaunchBatch
  <2>1. Seen \subseteq Seen' /\ serverRows' = serverRows
    BY <1>12 DEF LaunchBatch, Seen, Logged
  <2>. QED
    BY <2>1, Records
<1>13. CASE FinishBatch
  <2>1. Seen \subseteq Seen' /\ serverRows' = serverRows
    BY <1>13 DEF FinishBatch, Seen, Logged
  <2>. QED
    BY <2>1, Records
<1>14. CASE RunSession
  <2>1. Seen \subseteq Seen' /\ serverRows' = serverRows
    BY <1>14 DEF RunSession, Seen, Logged
  <2>. QED
    BY <2>1, Records
<1>15. CASE SessionFails
  <2>1. Seen \subseteq Seen' /\ serverRows' = serverRows
    BY <1>15 DEF SessionFails, Seen, Logged, MayRecord
  <2>. QED
    BY <2>1, Records
<1>16. CASE RunRepeat
  <2>1. Seen \subseteq Seen' /\ serverRows' = serverRows
    BY <1>16 DEF RunRepeat, Seen, Logged
  <2>. QED
    BY <2>1, Records
<1>17. CASE CollectServerMetrics
  BY <1>17, Books DEF LedgerStep, Ledger!LedgerNext
<1>18. CASE StopTraffic
  <2>1. Seen \subseteq Seen' /\ serverRows' = serverRows
    BY <1>18 DEF StopTraffic, Seen, Logged
  <2>. QED
    BY <2>1, Records
<1>19. CASE StopServer
  <2>1. Seen' \subseteq Seen /\ Logged \subseteq Seen' /\ serverRows' = serverRows
    BY <1>19 DEF StopServer, Seen, Logged
  <2>. QED
    BY <2>1, <1>0, Loses
<1>20. CASE StopNet
  <2>1. Seen \subseteq Seen' /\ serverRows' = serverRows
    BY <1>20 DEF StopNet, Seen, Logged
  <2>. QED
    BY <2>1, Records
<1>21. CASE PreparationFails \/ BuildNetwork \/ BuildInterrupted
  <2>1. Seen \subseteq Seen' /\ serverRows' = serverRows
    BY <1>21 DEF PreparationFails, BuildNetwork, BuildInterrupted, Seen, Logged
  <2>. QED
    BY <2>1, Records
<1>22. CASE TrafficRaises
  <2>1. Seen \subseteq Seen' /\ serverRows' = serverRows
    BY <1>22 DEF TrafficRaises, Seen, Logged
  <2>. QED
    BY <2>1, Records
<1>23. CASE Interrupt
  <2>1. Seen \subseteq Seen' /\ serverRows' = serverRows
    BY <1>23 DEF Interrupt, Seen, Logged
  <2>. QED
    BY <2>1, Records
<1>24. ASSUME NEW c \in Client, ClientSucceeds(c)
      PROVE  LedgerStep
  <2>1. Seen \subseteq Seen' /\ serverRows' = serverRows
    BY <1>24 DEF ClientSucceeds, Seen, Logged
  <2>. QED
    BY <2>1, Records
<1>25. ASSUME NEW c \in Client, ClientFails(c)
      PROVE  LedgerStep
  <2>1. Seen \subseteq Seen' /\ serverRows' = serverRows
    BY <1>25 DEF ClientFails, Seen, Logged
  <2>. QED
    BY <2>1, Records
<1>26. ASSUME NEW s \in pending, PrintLine(s)
      PROVE  LedgerStep
  <2>1. Seen' = Seen /\ serverRows' = serverRows
    BY <1>26, PrintMoves DEF PrintLine
  <2>. QED
    BY <2>1, Records
<1>27. CASE ServerDies
  <2>1. Seen' \subseteq Seen /\ Logged \subseteq Seen' /\ serverRows' = serverRows
    BY <1>27 DEF ServerDies, Seen, Logged
  <2>. QED
    BY <2>1, <1>0, Loses
<1>28. CASE UNCHANGED vars
  <2>1. Seen \subseteq Seen' /\ serverRows' = serverRows
    BY <1>28 DEF Seen, Logged, vars
  <2>. QED
    BY <2>1, Records
<1>. QED
  BY <1>1, <1>2, <1>3, <1>4, <1>5, <1>6, <1>7, <1>8, <1>9, <1>10, <1>11, <1>12, <1>13,
     <1>14, <1>15, <1>16, <1>17, <1>18, <1>19, <1>20, <1>21, <1>22, <1>23, <1>24, <1>25,
     <1>26, <1>27, <1>28 DEF Next, Script, ClientEnds

\* The rows of the runner implement the ledger: each session is booked at most
\* once, under no step before its own, and stays booked.
THEOREM ImplementsTheLedger == Spec => ImplementsLedger
<1>1. Init => Ledger!LedgerInit
  BY DEF Init, Ledger!LedgerInit
<1>2. TypeInv => OnlySessions
  BY SeenSessions DEF OnlySessions
<1>. QED
  BY <1>1, <1>2, TypesCorrect, RowsCorrect, FreshCorrect, LedgerSteps, PTL
     DEF Spec, ImplementsLedger, Ledger!LedgerSpec, LedgerStep
-----------------------------------------------------------------------------
\* What follows is the argument that the setup lines are kept out of the rows
\* of the tests, when prepare_zkarche_state found one for each client.
\*
\* Whatever was recorded of the enrolment is the one setup of a client.
OnceInv == \A x \in Seen : x.step = 0 => x.run = 1

\* No client is enrolled a second time.
LEMMA OnceStep == TypeInv /\ OnceInv /\ [Next]_vars => OnceInv'
<1>. SUFFICES ASSUME TypeInv, OnceInv, [Next]_vars PROVE OnceInv'
  OBVIOUS
<1>0. /\ \A c, s : SessionOf(c, s, 1).run = 1
      /\ \A n : SessionOf(1, 2, n).step = 2
      /\ \A c : SetupOf(c).run = 1
  BY DEF SessionOf, SetupOf
<1>. log' = log /\ pending' \subseteq pending => OnceInv'
  BY DEF OnceInv, Seen, Logged
<1>. USE DEF machine, record, provisioning, position, results
<1>1. CASE SetupClient \/ SetupFails
  <2>1. log' = log /\ pending' \subseteq pending \cup {SetupOf(client)}
    BY <1>1 DEF SetupClient, SetupFails
  <2>2. Seen' \subseteq Seen \cup {SetupOf(client)}
    BY <2>1 DEF Seen, Logged
  <2>. QED
    BY <1>0, <2>2 DEF OnceInv
<1>2. CASE RunSession \/ SessionFails
  <2>1. log' = log /\ pending' \subseteq pending \cup {SessionOf(1, 2, run)}
    BY <1>2 DEF RunSession, SessionFails, MayRecord
  <2>2. Seen' \subseteq Seen \cup {SessionOf(1, 2, run)}
    BY <2>1 DEF Seen, Logged
  <2>. QED
    BY <1>0, <2>2 DEF OnceInv
<1>3. CASE RunRepeat
  <2>1. PICK done \in 0 .. Iterations : \E S \in SUBSET {SessionOf(1, 2, done + 1)} :
            pending' = pending \cup {SessionOf(1, 2, n) : n \in 1 .. done} \cup S
    BY <1>3 DEF RunRepeat, MayRecord
  <2> DEFINE A == {SessionOf(1, 2, n) : n \in 1 .. done} \cup {SessionOf(1, 2, done + 1)}
  <2>2. log' = log /\ pending' \subseteq pending \cup A
    BY <1>3, <2>1 DEF RunRepeat
  <2>3. Seen' \subseteq Seen \cup A
    BY <2>2 DEF Seen, Logged
  <2>4. \A x \in A : x.step = 2
    BY <1>0
  <2>5. \A x \in A : x.step = 0 => x.run = 1
    BY <2>4
  <2>. QED
    BY <2>3, <2>5 DEF OnceInv
<1>4. ASSUME NEW c \in Client, ClientEnds(c)
      PROVE  OnceInv'
  <2>1. log' = log /\ pending' \subseteq pending \cup {SessionOf(c, step, 1)}
    BY <1>4 DEF ClientEnds, ClientSucceeds, ClientFails, MayRecord
  <2>2. Seen' \subseteq Seen \cup {SessionOf(c, step, 1)}
    BY <2>1 DEF Seen, Logged
  <2>. QED
    BY <1>0, <2>2 DEF OnceInv
<1>5. ASSUME NEW s \in pending, PrintLine(s)
      PROVE  OnceInv'
  BY <1>5, PrintMoves DEF PrintLine, OnceInv
<1>6. CASE PrepareRun \/ StartServer
  <2>1. \/ log' = <<>> /\ pending' = {}
        \/ log' = <<OtherLine>> /\ pending' = pending
    BY <1>6 DEF PrepareRun, StartServer
  <2>2. Logged' = {} /\ pending' \subseteq pending
    BY <2>1 DEF Logged, OtherLine
  <2>. QED
    BY <2>2 DEF OnceInv, Seen
<1>7. CASE PrepareProject \/ AllRun \/ StartNet \/ StartTraffic \/ PinClient \/ PollSetupLog \/ SkipSetupLines
  BY <1>7 DEF PrepareProject, AllRun, StartNet, StartTraffic, PinClient, PollSetupLog, SkipSetupLines
<1>8. CASE LaunchBatch \/ FinishBatch \/ CollectServerMetrics \/ StopTraffic \/ StopServer \/ StopNet
  BY <1>8 DEF LaunchBatch, FinishBatch, CollectServerMetrics, StopTraffic, StopServer, StopNet
<1>9. CASE PreparationFails \/ BuildNetwork \/ BuildInterrupted \/ TrafficRaises \/ Interrupt \/ ServerDies \/ UNCHANGED vars
  BY <1>9 DEF PreparationFails, BuildNetwork, BuildInterrupted, TrafficRaises, Interrupt, ServerDies, vars
<1>. QED
  BY <1>1, <1>2, <1>3, <1>4, <1>5, <1>6, <1>7, <1>8, <1>9 DEF Next, Script

\* So it is in every reachable state.
LEMMA OnceCorrect == Spec => []OnceInv
<1>1. Init => OnceInv
  BY DEF Init, OnceInv, Seen, Logged
<1>. QED
  BY <1>1, OnceStep, TypesCorrect, PTL DEF Spec
-----------------------------------------------------------------------------
\* The setup of every client is among the first n lines of the log.
SetupsWithin(n) == \A c \in Client : \E i \in 1 .. n : SetupOf(c) \in log[i].metrics

\* While the enrolment is at work, every line of the log is a client's setup,
\* and no two of one client; NumClients lines are all of them.
LEMMA EnoughAreAll ==
    ASSUME TypeInv, FreshInv, OnceInv, pc = "poll", NEW n \in Nat,
           Cardinality(Metrics(n)) >= NumClients
    PROVE  SetupsWithin(Len(log))
<1>1. NumClients \in Nat /\ Len(log) \in Nat /\ step = 0
  BY NetworkAssumption DEF TypeInv
<1>2. IsFiniteSet(Client) /\ Cardinality(Client) = NumClients
  BY <1>1, FS_Interval DEF Client
<1>3. ASSUME NEW i \in Metrics(n)
      PROVE  /\ i \in 1 .. Len(log) /\ SessionAt(i) \in log[i].metrics
             /\ SessionAt(i).client \in Client /\ SessionAt(i) = SetupOf(SessionAt(i).client)
  <2>1. i \in 1 .. Len(log) /\ SessionAt(i) \in log[i].metrics
    BY <1>1 DEF Metrics, SessionAt
  <2>2. SessionAt(i) \in Seen
    BY <2>1 DEF Seen, Logged
  <2>3. SessionAt(i) \in Session
    BY <2>2, SeenSessions
  <2>4. SessionAt(i).step = 0 /\ SessionAt(i).run = 1
    <3>1. SessionAt(i).step \in Nat /\ SessionAt(i).step <= 0
      BY <1>1, <2>2, SeenTypes DEF FreshInv
    <3>. QED
      BY <2>2, <3>1 DEF OnceInv
  <2>. QED
    BY <2>1, <2>3, <2>4 DEF Session, SetupOf, SessionOf
<1> DEFINE f == [i \in Metrics(n) |-> SessionAt(i).client]
<1>4. f \in Injection(Metrics(n), Client)
  <2>1. f \in [Metrics(n) -> Client]
    BY <1>3
  <2>2. ASSUME NEW i \in Metrics(n), NEW j \in Metrics(n), f[i] = f[j]
        PROVE  i = j
    <3>1. SessionAt(i) = SessionAt(j)
      BY <1>3, <2>2
    <3>2. SessionAt(i) \in log[i].metrics \cap log[j].metrics
      BY <1>3, <3>1
    <3>. QED
      BY <1>3, <3>2 DEF FreshInv
  <2>. QED
    BY <2>1, <2>2 DEF Injection, IsInjective
<1> HIDE DEF f
<1>5. f \in Surjection(Metrics(n), Client)
  <2>1. /\ IsFiniteSet(Metrics(n)) /\ Cardinality(Metrics(n)) <= Cardinality(Client)
        /\ Cardinality(Metrics(n)) = Cardinality(Client) <=> f \in Surjection(Metrics(n), Client)
    BY <1>2, <1>4, FS_Injection
  <2>2. Cardinality(Metrics(n)) \in Nat
    BY <2>1, FS_CardinalityType
  <2>. QED
    BY <1>1, <1>2, <2>1, <2>2
<1>. SUFFICES ASSUME NEW c \in Client
              PROVE  \E i \in 1 .. Len(log) : SetupOf(c) \in log[i].metrics
  BY DEF SetupsWithin
<1>6. PICK i \in Metrics(n) : f[i] = c
  BY <1>5 DEF Surjection
<1>7. SetupOf(c) = SessionAt(i)
  BY <1>3, <1>6 DEF f
<1>. QED
  BY <1>3, <1>7
-----------------------------------------------------------------------------
\* Where the setups are in the log, once the poll has found enough of them:
\* before the offset with which the tests begin.
SetupInv ==
    /\ from \in Nat
    /\ pc \in {"project", "build", "start", "traffic", "server", "pin", "setup"} => captured = 0
    /\ pc = "skip" /\ captured >= NumClients => SetupsWithin(Len(log))
    /\ pc \in {"launch", "wait", "sequential", "collect"} /\ captured >= NumClients => SetupsWithin(start)
    /\ SetupsExcluded

\* A line that comes last moves no other.
LEMMA WithinKept ==
    ASSUME TypeInv, NEW s \in pending, log' = Append(log, Line(s)), start <= Len(log)
    PROVE  /\ SetupsWithin(Len(log)) => SetupsWithin(Len(log))'
           /\ start' = start /\ SetupsWithin(start) => SetupsWithin(start)'
<1>1. /\ Len(log) \in Nat /\ Len(log') = Len(log) + 1 /\ start \in Nat
      /\ \A i \in 1 .. Len(log) : log'[i] = log[i]
  BY DEF TypeInv
<1>2. \A i \in 1 .. Len(log) : i \in 1 .. Len(log')
  BY <1>1
<1>3. \A i \in 1 .. start : i \in 1 .. Len(log)
  BY <1>1
<1>4. \A c \in Client : SetupOf(c)' = SetupOf(c)
  BY DEF SetupOf, SessionOf
<1>. QED
  BY <1>1, <1>2, <1>3, <1>4 DEF SetupsWithin

\* With all setups before the offset, what is collected after it is none.
LEMMA CollectsNoSetup ==
    ASSUME TypeInv, RowsInv, FreshInv, OnceInv, SetupsWithin(start), NEW i \in Metrics(offset)
    PROVE  ServerRow(i).session.step > 0
<1>1. /\ start \in Nat /\ offset \in Nat /\ Len(log) \in Nat
      /\ start <= offset /\ offset <= Len(log)
  BY DEF TypeInv, RowsInv
<1>2. /\ ServerRow(i).session = SessionAt(i) /\ i \in 1 .. Len(log) /\ i > start
      /\ SessionAt(i) \in log[i].metrics
  BY <1>1 DEF ServerRow, SessionAt, Metrics
<1>3. SessionAt(i) \in Seen /\ SessionAt(i) \in Session
  BY <1>2, SeenSessions DEF Seen, Logged
<1>4. ASSUME SessionAt(i).step = 0
      PROVE  FALSE
  <2>1. SessionAt(i) = SetupOf(SessionAt(i).client) /\ SessionAt(i).client \in Client
    BY <1>3, <1>4 DEF OnceInv, Session, SetupOf, SessionOf
  <2>2. PICK j \in 1 .. start : SessionAt(i) \in log[j].metrics
    BY <2>1 DEF SetupsWithin
  <2>3. j \in 1 .. Len(log) /\ j # i
    BY <1>1, <1>2
  <2>. QED
    BY <1>2, <2>2, <2>3 DEF FreshInv
<1>. QED
  BY <1>2, <1>3, <1>4, SeenTypes

\* No step puts a setup among the rows of the server.
LEMMA SetupStep ==
    TypeInv /\ RowsInv /\ FreshInv /\ OnceInv /\ SetupInv /\ [Next]_vars => SetupInv'
<1>. SUFFICES ASSUME TypeInv, RowsInv, FreshInv, OnceInv, SetupInv, [Next]_vars
              PROVE  SetupInv'
  OBVIOUS
<1>. NumClients \in Nat \ {0}
  BY NetworkAssumption
<1>. UNCHANGED <<captured, serverRows>> => SetupsExcluded'
  BY DEF SetupInv, SetupsExcluded
<1>. UNCHANGED <<log, start>> =>
         (SetupsWithin(Len(log))' <=> SetupsWithin(Len(log))) /\ (SetupsWithin(start)' <=> SetupsWithin(start))
  BY DEF SetupsWithin, SetupOf, SessionOf
<1>. USE DEF machine, record, provisioning, position, results
<1>1. CASE PrepareProject \/ AllRun \/ StartNet \/ StartTraffic \/ PinClient
  BY <1>1 DEF PrepareProject, AllRun, StartNet, StartTraffic, PinClient, SetupInv
<1>2. CASE PrepareRun
  BY <1>2 DEF PrepareRun, SetupInv, SetupsExcluded
<1>3. CASE StartServer
  BY <1>3 DEF StartServer, Begin, SetupInv
<1>4. CASE SetupClient
  BY <1>4 DEF SetupClient, SetupInv
<1>5. CASE SetupFails
  BY <1>5 DEF SetupFails, SetupInv
<1>6. CASE PollSetupLog
  <2>1. /\ pc = "poll" /\ captured' = Cardinality(Metrics(from)) /\ pc' \in {"poll", "skip"}
        /\ UNCHANGED <<from, log, start, serverRows>>
    BY <1>6 DEF PollSetupLog
  <2>2. serverRows = {}
    BY <2>1 DEF RowsInv
  <2>3. captured' >= NumClients => SetupsWithin(Len(log))
    BY <2>1, EnoughAreAll DEF SetupInv
  <2>. QED
    BY <2>1, <2>2, <2>3 DEF SetupInv, SetupsExcluded
<1>7. CASE SkipSetupLines
  <2>1. /\ pc = "skip" /\ start' = Len(log) /\ pc' \in {"sequential", "launch"}
        /\ UNCHANGED <<from, log, captured, serverRows>>
    BY <1>7 DEF SkipSetupLines, Begin
  <2>2. SetupsWithin(Len(log)) => SetupsWithin(start)'
    BY <2>1 DEF SetupsWithin, SetupOf, SessionOf
  <2>. QED
    BY <2>1, <2>2 DEF SetupInv
<1>8. CASE LaunchBatch \/ FinishBatch
  BY <1>8 DEF LaunchBatch, FinishBatch, SetupInv
<1>9. CASE RunSession \/ SessionFails \/ RunRepeat
  <2>1. /\ pc = "sequential" /\ pc' \in {"sequential", "collect"}
        /\ UNCHANGED <<from, log, start, captured, serverRows>>
    BY <1>9 DEF RunSession, SessionFails, RunRepeat
  <2>. QED
    BY <2>1 DEF SetupInv
<1>10. CASE CollectServerMetrics
  <2>1. /\ pc = "collect" /\ pc' \in {"stop traffic", "launch", "sequential"}
        /\ serverRows' = serverRows \cup {ServerRow(i) : i \in Metrics(offset)}
        /\ UNCHANGED <<from, log, start, captured>>
    BY <1>10 DEF CollectServerMetrics, Continue, Begin
  <2>2. captured >= NumClients => \A i \in Metrics(offset) : ServerRow(i).session.step > 0
    BY <2>1, CollectsNoSetup DEF SetupInv
  <2>3. SetupsExcluded'
    BY <2>1, <2>2 DEF SetupInv, SetupsExcluded
  <2>. QED
    BY <2>1, <2>3 DEF SetupInv
<1>11. CASE StopTraffic \/ StopServer \/ StopNet
  BY <1>11 DEF StopTraffic, StopServer, StopNet, SetupInv
<1>12. CASE PreparationFails \/ BuildNetwork \/ BuildInterrupted \/ TrafficRaises \/ Interrupt
  BY <1>12 DEF PreparationFails, BuildNetwork, BuildInterrupted, TrafficRaises, Interrupt, SetupInv
<1>13. ASSUME NEW c \in Client, ClientEnds(c)
       PROVE  SetupInv'
  BY <1>13 DEF ClientEnds, ClientSucceeds, ClientFails, SetupInv
<1>14. ASSUME NEW s \in pending, PrintLine(s)
       PROVE  SetupInv'
  <2>1. log' = Append(log, Line(s)) /\ UNCHANGED <<pc, from, captured, start, serverRows>>
    BY <1>14 DEF PrintLine
  <2>2. start <= Len(log)
    BY DEF RowsInv, TypeInv
  <2>. QED
    BY <2>1, <2>2, WithinKept DEF SetupInv
<1>15. CASE ServerDies \/ UNCHANGED vars
  BY <1>15 DEF ServerDies, vars, SetupInv
<1>. QED
  BY <1>1, <1>2, <1>3, <1>4, <1>5, <1>6, <1>7, <1>8, <1>9, <1>10, <1>11, <1>12, <1>13, <1>14, <1>15
     DEF Next, Script

\* The setup lines are kept out of the tests' rows, however late any line is,
\* whenever the poll found as many of them as there are clients.
THEOREM ExcludesSetups == Spec => []SetupsExcluded
<1>1. Init => SetupInv
  BY DEF Init, SetupInv, SetupsExcluded
<1>2. SetupInv => SetupsExcluded
  BY DEF SetupInv
<1>. QED
  BY <1>1, <1>2, TypesCorrect, RowsCorrect, FreshCorrect, OnceCorrect, SetupStep, PTL DEF Spec
-----------------------------------------------------------------------------
\* The rows of a step, and the sessions of some rows.
RowsOf(s) == {r \in clientRows : r.session.step = s}
SessionsOf(rows) == {r.session : r \in rows}

\* The step is over: its rows are all there, and in its file if it is a test's
\* last one.
IsOver(s) == s < step \/ (s = step /\ pc \notin {"launch", "wait", "sequential"})

\* The rows of the steps that are over and of the one at work, and the files.
BookedOnce ==
    /\ DOMAIN csv = Test
    /\ \A r \in clientRows : r.session.step \in Selected /\ r.session.step <= step
    /\ \A r, q \in clientRows : r.session = q.session => r = q

AtWork ==
    /\ pc \in {"launch", "wait", "sequential", "collect"} => step \in Selected
    /\ pc \in {"launch", "wait"} => RowsOf(step) = {}
    /\ pc = "sequential" =>
          /\ SessionsOf(RowsOf(2)) = {SessionOf(1, 2, n) : n \in 1 .. run - 1}
          /\ Repeats => run = 1

OverBooked ==
    \A s \in Selected : IsOver(s) =>
        /\ SessionsOf(RowsOf(s)) = TestSessions(s)
        /\ s \in {1, 2} => csv[TestOf(s)] = RowsOf(s)

LastBooked ==
    /\ step = 2 + Iterations /\ pc \notin {"launch", "wait", "collect"} =>
          csv["3"] = {r \in clientRows : r.session.step > 2}
    /\ pc \in {"stop traffic", "stop server", "stop net"} => \A s \in Selected : s <= step

BookInv == BookedOnce /\ AtWork /\ (~raised => OverBooked /\ LastBooked)

\* The selected steps are those of the tests, and none is the enrolment.
LEMMA SelectedNumbers == Iterations \in Nat \ {0} /\ \A s \in Selected : s \in Nat \ {0} /\ s <= 2 + Iterations
  BY TestsAssumption, SelectedSteps DEF Step

\* The file of a step's rows.
LEMMA TestsOfSteps == TestOf(1) = "1" /\ TestOf(2) = "2" /\ \A n \in Nat : n > 2 => TestOf(n) = "3"
  BY DEF TestOf

\* Rows that are new in the step at work leave those of other steps alone.
LEMMA NewRows ==
    ASSUME BookInv, step \in Selected, NEW rows, clientRows' = clientRows \cup rows,
           UNCHANGED <<opt, step>>,
           \A r \in rows : r.session.step = step,
           \A r, q \in rows : r.session = q.session => r = q,
           \A r \in rows : r.session \notin SessionsOf(RowsOf(step))
    PROVE  /\ \A r \in clientRows' : r.session.step \in Selected' /\ r.session.step <= step'
           /\ \A r, q \in clientRows' : r.session = q.session => r = q
           /\ RowsOf(step)' = RowsOf(step) \cup rows
           /\ SessionsOf(RowsOf(step))' = SessionsOf(RowsOf(step)) \cup SessionsOf(rows)
           /\ \A s : s # step => RowsOf(s)' = RowsOf(s)
<1>0. step \in Nat /\ Selected' = Selected
  BY SelectedSteps DEF Step, Selected
<1>1. \A r \in clientRows : r.session.step \in Selected /\ r.session.step <= step
  BY DEF BookInv, BookedOnce, AtWork, OverBooked, LastBooked
<1>2. \A r \in clientRows' : r.session.step \in Selected' /\ r.session.step <= step'
  BY <1>0, <1>1
<1>3. \A r \in rows, q \in clientRows : r.session # q.session
  BY DEF RowsOf, SessionsOf
<1>4. \A r, q \in clientRows' : r.session = q.session => r = q
  BY <1>3 DEF BookInv, BookedOnce, AtWork, OverBooked, LastBooked
<1>5. RowsOf(step)' = RowsOf(step) \cup rows /\ \A s : s # step => RowsOf(s)' = RowsOf(s)
  BY DEF RowsOf
<1>6. SessionsOf(RowsOf(step))' = SessionsOf(RowsOf(step)) \cup SessionsOf(rows)
  BY <1>5 DEF SessionsOf
<1>. QED
  BY <1>2, <1>4, <1>5, <1>6

\* A step is over with these rows: of the files, its own has them and the
\* others are as they were.
LEMMA StepEnds ==
    ASSUME BookInv, TypeInv, step \in Selected, pc \in {"wait", "sequential"}, pc' = "collect",
           UNCHANGED <<opt, step, raised>>,
           \A r \in clientRows' : r.session.step \in Selected' /\ r.session.step <= step',
           \A r, q \in clientRows' : r.session = q.session => r = q,
           SessionsOf(RowsOf(step))' = TestSessions(step),
           \A s : s # step => RowsOf(s)' = RowsOf(s),
           DOMAIN csv' = Test, \A t \in Test : csv'[t] = IF step < 3 /\ t = TestOf(step) THEN RowsOf(step)' ELSE csv[t]
    PROVE  BookInv'
<1>0. step \in Nat /\ Selected' = Selected /\ Selected \subseteq Nat \ {0}
  BY SelectedSteps DEF Step, Selected
<1>1. \A s \in Selected : IsOver(s)' => s = step \/ (s # step /\ IsOver(s))
  BY <1>0 DEF IsOver
<1>. SUFFICES ASSUME ~raised
              PROVE  /\ \A s \in Selected : IsOver(s)' => SessionsOf(RowsOf(s))' = TestSessions(s)
                     /\ \A s \in Selected \cap {1, 2} : IsOver(s)' => csv'[TestOf(s)] = RowsOf(s)'
  BY <1>0 DEF BookInv, BookedOnce, AtWork, OverBooked, LastBooked
<1>2. /\ \A s \in Selected : IsOver(s) => SessionsOf(RowsOf(s)) = TestSessions(s)
      /\ \A s \in Selected \cap {1, 2} : IsOver(s) => csv[TestOf(s)] = RowsOf(s)
  BY DEF BookInv, BookedOnce, AtWork, OverBooked, LastBooked
<1>3. ASSUME NEW s \in Selected, IsOver(s)' PROVE SessionsOf(RowsOf(s))' = TestSessions(s)
  <2>1. CASE s = step
    BY <2>1
  <2>2. CASE s # step
    <3>1. IsOver(s) /\ RowsOf(s)' = RowsOf(s)
      BY <1>1, <1>3, <2>2
    <3>. QED
      BY <1>2, <3>1 DEF SessionsOf
  <2>. QED
    BY <2>1, <2>2
<1>4. ASSUME NEW s \in Selected \cap {1, 2}, IsOver(s)' PROVE csv'[TestOf(s)] = RowsOf(s)'
  <2>0. TestOf(1) = "1" /\ TestOf(2) = "2" /\ TestOf(1) \in Test /\ TestOf(2) \in Test /\ TestOf(1) # TestOf(2)
    BY DEF TestOf, Test
  <2>1. CASE s = step
    BY <2>0, <2>1
  <2>2. CASE s # step
    <3>1. IsOver(s) /\ RowsOf(s)' = RowsOf(s)
      BY <1>1, <1>4, <2>2
    <3>2. ~(step < 3 /\ TestOf(s) = TestOf(step))
      BY <1>0, <2>0, <2>2
    <3>. QED
      BY <1>2, <2>0, <3>1, <3>2
  <2>. QED
    BY <2>1, <2>2
<1>. QED
  BY <1>3, <1>4

\* A batch has one row for each client.
LEMMA BatchRows == BookInv /\ TypeInv /\ FinishBatch => BookInv'
<1>. SUFFICES ASSUME BookInv, TypeInv, FinishBatch PROVE BookInv'
  OBVIOUS
<1>0. NumClients \in Nat \ {0}
  BY NetworkAssumption
<1>1. /\ pc = "wait" /\ pc' = "collect" /\ step \in Selected /\ step \in Nat \ {0} /\ step # 2
      /\ RowsOf(step) = {} /\ DOMAIN csv = Test
      /\ UNCHANGED <<opt, raised, step>>
  <2>1. pc = "wait" /\ pc' = "collect" /\ UNCHANGED <<opt, raised, step>>
    BY DEF FinishBatch, position
  <2>2. step \in Selected /\ RowsOf(step) = {} /\ DOMAIN csv = Test
    BY <2>1 DEF BookInv, BookedOnce, AtWork, OverBooked, LastBooked
  <2>3. step # 2 /\ step \in Nat \ {0}
    BY <2>1, <2>2, SelectedSteps DEF TypeInv, Step
  <2>. QED
    BY <2>1, <2>2, <2>3
<1>2. PICK rows : /\ rows = {ClientRow(SessionOf(c, step, 1), proc[c] = "ok") : c \in Client}
                  /\ clientRows' = clientRows \cup rows
  BY DEF FinishBatch
<1>3. \A r \in rows : \E c \in Client : r = ClientRow(SessionOf(c, step, 1), proc[c] = "ok")
                                        /\ r.session = SessionOf(c, step, 1) /\ r.session.step = step
  <2>1. \A s, ok : ClientRow(s, ok).session = s
    BY DEF ClientRow
  <2>2. \A c : SessionOf(c, step, 1).step = step
    BY DEF SessionOf
  <2>. QED
    BY <1>2, <2>1, <2>2
<1>4. \A c, d \in Client : SessionOf(c, step, 1) = SessionOf(d, step, 1) => c = d
  BY DEF SessionOf
<1>5. \A r, q \in rows : r.session = q.session => r = q
  BY <1>3, <1>4
<1>6. SessionsOf(rows) = TestSessions(step) /\ SessionsOf(RowsOf(step)) = {}
  <2>1. \A c \in Client : ClientRow(SessionOf(c, step, 1), proc[c] = "ok").session = SessionOf(c, step, 1)
    BY DEF ClientRow
  <2>2. SessionsOf(rows) = {SessionOf(c, step, 1) : c \in Client}
    BY <1>2, <2>1 DEF SessionsOf
  <2>. QED
    BY <1>1, <2>2 DEF TestSessions, SessionsOf
<1>7. /\ \A r \in clientRows' : r.session.step \in Selected' /\ r.session.step <= step'
      /\ \A r, q \in clientRows' : r.session = q.session => r = q
      /\ RowsOf(step)' = rows
      /\ SessionsOf(RowsOf(step))' = TestSessions(step)
      /\ \A s : s # step => RowsOf(s)' = RowsOf(s)
  BY <1>1, <1>2, <1>3, <1>5, <1>6, NewRows
<1>8. rows # {}
  <2>1. 1 \in Client
    BY <1>0 DEF Client
  <2>. QED
    BY <1>2, <2>1
<1>9. /\ DOMAIN csv' = Test
      /\ \A t \in Test : csv'[t] = IF step < 3 /\ t = TestOf(step) THEN RowsOf(step)' ELSE csv[t]
  <2>1. CASE step = 1
    <3>1. csv' = [csv EXCEPT !["1"] = RowsOf(step)']
      BY <1>1, <1>7, <1>8, <2>1 DEF FinishBatch, WriteCsv, RowsOf
    <3>. QED
      BY <1>1, <2>1, <3>1 DEF TestOf, Test
  <2>2. CASE step # 1
    BY <1>1, <2>2 DEF FinishBatch
  <2>. QED
    BY <2>1, <2>2
<1>. QED
  BY <1>1, <1>7, <1>9, StepEnds

\* Test 2 goes on with these rows, of sessions that are its next ones.
LEMMA SequentialGoesOn ==
    ASSUME BookInv, TypeInv, pc = "sequential", NEW n \in Nat, run <= n, NEW rows,
           SequentialRows(rows), UNCHANGED <<opt, step, raised, protocol>>,
           \A r \in rows : r.session \in {SessionOf(1, 2, m) : m \in run .. n},
           \A r, q \in rows : r.session = q.session => r = q,
           SessionsOf(rows) = {SessionOf(1, 2, m) : m \in run .. n},
           \/ pc' = pc /\ run' = n + 1 /\ ~Repeats
           \/ pc' = "collect" /\ n = Iterations
    PROVE  BookInv'
<1>0. /\ step = 2 /\ step \in Selected /\ DOMAIN csv = Test /\ run \in Nat \ {0} /\ Iterations \in Nat \ {0}
      /\ SessionsOf(RowsOf(step)) = {SessionOf(1, 2, m) : m \in 1 .. run - 1}
      /\ clientRows' = clientRows \cup rows
  BY TestsAssumption DEF BookInv, BookedOnce, AtWork, OverBooked, LastBooked, TypeInv, SequentialRows
<1>1. \A m, k : SessionOf(1, 2, m) = SessionOf(1, 2, k) => m = k
  BY DEF SessionOf
<1>2. \A m : SessionOf(1, 2, m).step = 2
  BY DEF SessionOf
<1>3. \A r \in rows : r.session \notin SessionsOf(RowsOf(step))
  <2>. SUFFICES ASSUME NEW r \in rows, r.session \in SessionsOf(RowsOf(step)) PROVE FALSE
    OBVIOUS
  <2>1. PICK m \in run .. n : r.session = SessionOf(1, 2, m)
    OBVIOUS
  <2>2. PICK k \in 1 .. run - 1 : r.session = SessionOf(1, 2, k)
    BY <1>0
  <2>3. m = k
    BY <1>1, <2>1, <2>2
  <2>. QED
    BY <1>0, <2>3
<1>4. \A r \in rows : r.session.step = step
  BY <1>0, <1>2
<1>5. /\ \A r \in clientRows' : r.session.step \in Selected' /\ r.session.step <= step'
      /\ \A r, q \in clientRows' : r.session = q.session => r = q
      /\ RowsOf(step)' = RowsOf(step) \cup rows
      /\ SessionsOf(RowsOf(step))' = SessionsOf(RowsOf(step)) \cup SessionsOf(rows)
      /\ \A s : s # step => RowsOf(s)' = RowsOf(s)
  BY <1>0, <1>3, <1>4, NewRows
<1>6. SessionsOf(RowsOf(step))' = {SessionOf(1, 2, m) : m \in 1 .. n}
  <2>1. 1 .. n = (1 .. run - 1) \cup (run .. n)
    BY <1>0
  <2>2. {SessionOf(1, 2, m) : m \in 1 .. n}
            = {SessionOf(1, 2, m) : m \in 1 .. run - 1} \cup {SessionOf(1, 2, m) : m \in run .. n}
    BY <2>1
  <2>. QED
    BY <1>0, <1>5, <2>2
<1>7. CASE pc' = "collect" /\ n = Iterations
  <2>1. SessionsOf(RowsOf(step))' = TestSessions(step)
    BY <1>0, <1>6, <1>7 DEF TestSessions
  <2>2. RowsOf(step)' # {}
    <3>1. SessionOf(1, 2, 1) \in SessionsOf(RowsOf(step))'
      BY <1>0, <1>6, <1>7
    <3>. QED
      BY <3>1 DEF SessionsOf
  <2>3. csv' = [csv EXCEPT !["2"] = RowsOf(step)']
    BY <1>0, <1>7, <2>2 DEF SequentialRows, WriteCsv, RowsOf
  <2>4. /\ DOMAIN csv' = Test
        /\ \A t \in Test : csv'[t] = IF step < 3 /\ t = TestOf(step) THEN RowsOf(step)' ELSE csv[t]
    BY <1>0, <2>3 DEF TestOf, Test
  <2>. QED
    BY <1>0, <1>5, <1>7, <2>1, <2>4, StepEnds
<1>8. CASE pc' = pc /\ run' = n + 1 /\ ~Repeats
  <2>1. csv' = csv
    BY <1>8 DEF SequentialRows
  <2>2. \A s \in Selected : IsOver(s)' => IsOver(s) /\ s # step
    BY <1>0, <1>8, SelectedSteps DEF IsOver, Step
  <2>3. \A s \in Selected : IsOver(s)' => RowsOf(s)' = RowsOf(s)
    BY <1>5, <2>2
  <2>4. /\ Selected' = Selected /\ ~Repeats'
        /\ SessionsOf(RowsOf(2))' = {SessionOf(1, 2, m) : m \in 1 .. run' - 1}
    BY <1>0, <1>6, <1>8 DEF Selected, Repeats, Zk
  <2>5. ~raised => /\ \A s \in Selected : IsOver(s)' => SessionsOf(RowsOf(s))' = TestSessions(s)
                   /\ \A s \in Selected \cap {1, 2} : IsOver(s)' => csv'[TestOf(s)] = RowsOf(s)'
    <3>. SUFFICES ASSUME ~raised, NEW s \in Selected, IsOver(s)'
                  PROVE  /\ SessionsOf(RowsOf(s))' = TestSessions(s)
                         /\ s \in {1, 2} => csv'[TestOf(s)] = RowsOf(s)'
      OBVIOUS
    <3>1. IsOver(s) /\ RowsOf(s)' = RowsOf(s)
      BY <2>2, <2>3
    <3>. QED
      BY <2>1, <3>1 DEF BookInv, BookedOnce, AtWork, OverBooked, LastBooked, SessionsOf
  <2>. QED
    BY <1>0, <1>5, <1>8, <2>1, <2>4, <2>5 DEF BookInv, BookedOnce, AtWork, OverBooked, LastBooked
<1>. QED
  BY <1>7, <1>8

\* What a collection leads to: the next of the selected steps has no rows yet,
\* or the tests are over and all of them have theirs.
LEMMA CollectGoesOn == BookInv /\ TypeInv /\ CollectServerMetrics => BookInv'
<1>. SUFFICES ASSUME BookInv, TypeInv, CollectServerMetrics PROVE BookInv'
  OBVIOUS
<1>0. /\ Iterations \in Nat \ {0} /\ NumClients \in Nat \ {0}
      /\ \A s \in Selected : s \in Nat \ {0} /\ s <= 2 + Iterations
  BY NetworkAssumption, TestsAssumption, SelectedSteps DEF Step
<1>1. /\ pc = "collect" /\ step \in Selected /\ step \in Nat \ {0} /\ Continue /\ DOMAIN csv = Test
      /\ UNCHANGED <<opt, raised, run, clientRows, protocol>>
      /\ IF step = 2 + Iterations THEN WriteCsv("3", {r \in clientRows : r.session.step > 2}) ELSE UNCHANGED csv
  <2>1. /\ pc = "collect" /\ Continue /\ UNCHANGED <<opt, raised, run, clientRows, protocol>>
        /\ IF step = 2 + Iterations THEN WriteCsv("3", {r \in clientRows : r.session.step > 2}) ELSE UNCHANGED csv
    BY DEF CollectServerMetrics
  <2>2. step \in Selected /\ DOMAIN csv = Test
    BY <2>1 DEF BookInv, BookedOnce, AtWork, OverBooked, LastBooked
  <2>. QED
    BY <1>0, <2>1, <2>2
<1>2. Selected' = Selected /\ \A s : RowsOf(s)' = RowsOf(s) /\ SessionsOf(RowsOf(s))' = SessionsOf(RowsOf(s))
  BY <1>1 DEF Selected, RowsOf, SessionsOf
<1>3. /\ \A r \in clientRows : r.session.step \in Selected /\ r.session.step <= step
      /\ \A r, q \in clientRows : r.session = q.session => r = q
      /\ ~raised =>
            /\ \A s \in Selected : s <= step => SessionsOf(RowsOf(s)) = TestSessions(s)
            /\ \A s \in Selected \cap {1, 2} : s <= step => csv[TestOf(s)] = RowsOf(s)
  <2>1. \A s \in Selected : s <= step => IsOver(s)
    BY <1>0, <1>1 DEF IsOver
  <2>. QED
    BY <2>1 DEF BookInv, BookedOnce, OverBooked
<1>4. /\ DOMAIN csv' = Test /\ csv'["1"] = csv["1"] /\ csv'["2"] = csv["2"]
      /\ ~raised /\ step = 2 + Iterations => csv'["3"] = {r \in clientRows : r.session.step > 2}
  <2>1. CASE step # 2 + Iterations
    BY <1>1, <2>1
  <2>2. CASE step = 2 + Iterations
    <3>1. ~raised => {r \in clientRows : r.session.step > 2} # {}
      <4>1. SessionOf(1, step, 1) \in TestSessions(step)
        BY <1>0, <2>2 DEF TestSessions, Client
      <4>2. ~raised => SessionOf(1, step, 1) \in SessionsOf(RowsOf(step))
        BY <1>1, <1>3, <4>1
      <4>3. ~raised => \E r \in clientRows : r.session.step = step
        BY <4>2 DEF SessionsOf, RowsOf
      <4>. QED
        BY <1>0, <2>2, <4>3
    <3>2. \/ csv' = csv
          \/ csv' = [csv EXCEPT !["3"] = {r \in clientRows : r.session.step > 2}]
      BY <1>1, <2>2 DEF WriteCsv
    <3>3. ~raised => csv' = [csv EXCEPT !["3"] = {r \in clientRows : r.session.step > 2}]
      BY <1>1, <2>2, <3>1 DEF WriteCsv
    <3>. QED
      BY <1>1, <3>2, <3>3 DEF Test
  <2>. QED
    BY <2>1, <2>2
<1>5. TestOf(1) = "1" /\ TestOf(2) = "2"
  BY DEF TestOf
<1>8. step \in Nat
  BY <1>1
<1>6. CASE pc' = "stop traffic" /\ step' = step /\ \A s \in Selected : ~(s > step)
  <2>1. \A s \in Selected : s <= step
    <3>. SUFFICES ASSUME NEW s \in Selected PROVE s <= step
      OBVIOUS
    <3>1. s \in Nat /\ ~(s > step)
      BY <1>0, <1>6
    <3>. QED
      BY <1>8, <3>1
  <2>. QED
    BY <1>1, <1>2, <1>3, <1>4, <1>5, <1>6, <2>1 DEF BookInv, BookedOnce, AtWork, OverBooked, LastBooked
<1>7. CASE /\ step' \in Selected /\ step' > step
           /\ pc' = IF step' = 2 THEN "sequential" ELSE "launch"
           /\ \A s \in Selected : s > step => step' <= s
  <2>1. RowsOf(step') = {} /\ SessionsOf(RowsOf(step')) = {}
    <3>1. \A r \in clientRows : r.session.step # step'
      <4>. SUFFICES ASSUME NEW r \in clientRows PROVE r.session.step # step'
        OBVIOUS
      <4>1. r.session.step \in Nat /\ r.session.step <= step /\ step' \in Nat /\ step' > step
        BY <1>0, <1>3, <1>7
      <4>. QED
        BY <1>8, <4>1
    <3>. QED
      BY <3>1 DEF RowsOf, SessionsOf
  <2>2. \A s \in Selected : IsOver(s)' => s <= step
    <3>. SUFFICES ASSUME NEW s \in Selected, IsOver(s)' PROVE s <= step
      OBVIOUS
    <3>1. pc' \in {"launch", "sequential"}
      BY <1>7
    <3>2. s < step'
      BY <3>1 DEF IsOver
    <3>3. s \in Nat /\ step' \in Nat /\ (s > step => step' <= s)
      BY <1>0, <1>7
    <3>. QED
      BY <1>8, <3>2, <3>3
  <2>3. \A r \in clientRows : r.session.step <= step'
    <3>. SUFFICES ASSUME NEW r \in clientRows PROVE r.session.step <= step'
      OBVIOUS
    <3>1. r.session.step \in Nat /\ r.session.step <= step /\ step' \in Nat /\ step' > step
      BY <1>0, <1>3, <1>7
    <3>. QED
      BY <1>8, <3>1
  <2>4. step' = 2 => run = 1
    BY <1>0, <1>1, <1>7 DEF TypeInv
  <2>5. step # 2 + Iterations
    BY <1>0, <1>7
  <2>6. pc' \in {"launch", "sequential"} /\ (pc' = "sequential" => step' = 2)
    BY <1>7
  <2>7. pc' = "sequential" =>
            /\ SessionsOf(RowsOf(2))' = {SessionOf(1, 2, n) : n \in 1 .. run' - 1}
            /\ Repeats' => run' = 1
    BY <1>1, <1>2, <2>1, <2>4, <2>6
  <2>8. pc' = "launch" => RowsOf(step)' = {}
    BY <1>2, <2>1
  <2>9. step' = 2 + Iterations => pc' = "launch"
    BY <1>0, <2>6
  <2>10. ~raised =>
            /\ \A s \in Selected : IsOver(s)' => SessionsOf(RowsOf(s))' = TestSessions(s)
            /\ \A s \in Selected \cap {1, 2} : IsOver(s)' => csv'[TestOf(s)] = RowsOf(s)'
    BY <1>2, <1>3, <1>4, <1>5, <2>2
  <2>. QED
    BY <1>1, <1>2, <1>3, <1>4, <1>7, <2>3, <2>6, <2>7, <2>8, <2>9, <2>10 DEF BookInv, BookedOnce, AtWork, OverBooked, LastBooked
<1>. QED
  BY <1>1, <1>6, <1>7, <1>8, ContinueOn

\* A step of the system keeps the books.
LEMMA BookStep == BookInv /\ TypeInv /\ [Next]_vars => BookInv'
<1>. SUFFICES ASSUME BookInv, TypeInv, [Next]_vars PROVE BookInv'
  OBVIOUS
<1>0. /\ Iterations \in Nat \ {0} /\ step \in Nat
      /\ \A s \in Selected : s \in Nat \ {0} /\ s <= 2 + Iterations
  BY TestsAssumption, SelectedSteps DEF Step, TypeInv
<1>. DEFINE Same == UNCHANGED <<opt, protocol, clientRows, csv, step, run>>
<1>1. Same => /\ Selected' = Selected /\ Repeats' = Repeats
              /\ \A s : RowsOf(s)' = RowsOf(s) /\ SessionsOf(RowsOf(s))' = SessionsOf(RowsOf(s))
  BY DEF Selected, Repeats, Zk, RowsOf, SessionsOf
\* Steps between two places where no row is made.
<1>2. ASSUME Same, \/ UNCHANGED <<pc, raised>>
                   \/ pc = "launch" /\ pc' = "wait" /\ raised' = raised
                   \/ /\ raised' = raised
                      /\ {pc, pc'} \cap {"launch", "wait", "sequential", "collect"} = {}
                      /\ \/ pc' \notin {"stop traffic", "stop server", "stop net"}
                         \/ pc \in {"stop traffic", "stop server", "stop net"}
                   \/ raised' /\ pc' = "stop traffic"
      PROVE  BookInv'
  <2>1. \A s : IsOver(s)' => IsOver(s) \/ raised'
    BY <1>2 DEF IsOver
  <2>2. ~raised' => ~raised
    BY <1>2
  <2>3. BookedOnce /\ AtWork /\ (~raised' => OverBooked /\ LastBooked)
    BY <2>2 DEF BookInv
  <2>4. BookedOnce'
    BY <1>1, <1>2, <2>3 DEF BookedOnce
  <2>5. AtWork'
    <3>1. RowsOf(step)' = RowsOf(step) /\ SessionsOf(RowsOf(2))' = SessionsOf(RowsOf(2))
      BY <1>2 DEF RowsOf, SessionsOf
    <3>2. \/ pc' = pc
          \/ pc = "launch" /\ pc' = "wait"
          \/ pc' \notin {"launch", "wait", "sequential", "collect"}
      BY <1>2
    <3>3. UNCHANGED <<step, run>> /\ Selected' = Selected /\ Repeats' = Repeats /\ AtWork
      BY <1>1, <1>2, <2>3
    <3>. QED
      BY <3>1, <3>2, <3>3 DEF AtWork
  <2>6. ~raised' => OverBooked'
    BY <1>1, <1>2, <2>1, <2>3 DEF OverBooked
  <2>7. ~raised' => LastBooked'
    BY <1>1, <1>2, <2>2, <2>3 DEF LastBooked
  <2>. QED
    BY <2>4, <2>5, <2>6, <2>7 DEF BookInv
<1>. HIDE DEF Same
<1>. USE DEF machine, record, provisioning, position, results
<1>3. CASE PrepareProject \/ PreparationFails \/ BuildNetwork \/ BuildInterrupted \/ AllRun \/ StartNet \/ StartTraffic
  BY <1>2, <1>3 DEF PrepareProject, PreparationFails, BuildNetwork, BuildInterrupted, AllRun, StartNet, StartTraffic, Same
<1>4. CASE PinClient \/ SetupClient \/ SetupFails \/ PollSetupLog
  BY <1>2, <1>4 DEF PinClient, SetupClient, SetupFails, PollSetupLog, Same
<1>5. CASE TrafficRaises \/ Interrupt \/ StopTraffic \/ StopServer \/ StopNet \/ ServerDies \/ LaunchBatch
  BY <1>2, <1>5 DEF TrafficRaises, Interrupt, StopTraffic, StopServer, StopNet, ServerDies, LaunchBatch, Same
<1>6. ASSUME NEW c \in Client, ClientEnds(c) PROVE BookInv'
  BY <1>2, <1>6 DEF ClientEnds, ClientSucceeds, ClientFails, Same
<1>7. ASSUME NEW s \in pending, PrintLine(s) PROVE BookInv'
  BY <1>2, <1>7 DEF PrintLine, Same
<1>8. CASE UNCHANGED vars
  BY <1>2, <1>8 DEF vars, Same
<1>9. CASE PrepareRun
  <2>1. /\ clientRows' = {} /\ step' = 0 /\ DOMAIN csv' = Test /\ opt' = opt /\ pc' = "build"
    BY <1>9 DEF PrepareRun, NoFiles
  <2>2. Selected' = Selected /\ \A s \in Selected : ~IsOver(s)'
    BY <1>0, <2>1 DEF Selected, IsOver
  <2>3. BookedOnce' /\ AtWork'
    BY <2>1 DEF BookedOnce, AtWork
  <2>4. OverBooked'
    BY <2>2 DEF OverBooked
  <2>5. LastBooked'
    <3>1. step' # 2 + Iterations
      BY <1>0, <2>1
    <3>2. pc' \notin {"stop traffic", "stop server", "stop net"}
      BY <2>1
    <3>. QED
      BY <3>1, <3>2 DEF LastBooked
  <2>. QED
    BY <2>3, <2>4, <2>5 DEF BookInv
<1>10. CASE StartServer \/ SkipSetupLines
  <2>1. /\ pc \in {"server", "skip"} /\ UNCHANGED <<opt, clientRows, csv, run, raised, protocol>>
        /\ (pc' = "pin" /\ step' = step) \/ Begin(FirstStep)
    BY <1>10 DEF StartServer, SkipSetupLines
  <2>2. CASE pc' = "pin" /\ step' = step
    BY <1>2, <2>1, <2>2 DEF Same
  <2>3. CASE Begin(FirstStep)
    <3>1. FirstStep \in Selected /\ \A s \in Selected : FirstStep <= s
      BY FirstIsSelected DEF TypeInv
    <3>2. step = 0 /\ run = 1
      BY <2>1 DEF TypeInv
    <3>3. clientRows = {}
      <4>. SUFFICES ASSUME NEW r \in clientRows PROVE FALSE
        OBVIOUS
      <4>1. r.session.step \in Selected /\ r.session.step <= 0
        BY <3>2 DEF BookInv, BookedOnce, AtWork, OverBooked, LastBooked
      <4>. QED
        BY <1>0, <4>1
    <3>4. PICK n \in Selected : n = FirstStep
      BY <3>1
    <3>5. /\ step' = n /\ pc' \in {"launch", "sequential"} /\ (pc' = "sequential" => n = 2)
          /\ n = 2 => pc' = "sequential"
      BY <2>3, <3>4 DEF Begin
    <3>6. \A s \in Selected : ~IsOver(s)'
      BY <1>0, <3>1, <3>4, <3>5 DEF IsOver
    <3>7. /\ Selected' = Selected /\ \A s : RowsOf(s)' = {} /\ SessionsOf(RowsOf(s))' = {}
      BY <2>1, <3>3 DEF Selected, RowsOf, SessionsOf
    <3>8. n # 2 => pc' = "launch"
      BY <3>5
    <3>9. n = 2 + Iterations => pc' = "launch"
      BY <1>0, <3>8
    <3>10. DOMAIN csv = Test
      BY DEF BookInv, BookedOnce
    <3>11. BookedOnce'
      BY <2>1, <3>3, <3>10 DEF BookedOnce
    <3>12. AtWork'
      BY <2>1, <3>2, <3>4, <3>5, <3>7 DEF AtWork
    <3>13. OverBooked' /\ LastBooked'
      BY <3>5, <3>6, <3>7, <3>9 DEF OverBooked, LastBooked
    <3>. QED
      BY <3>11, <3>12, <3>13 DEF BookInv
  <2>. QED
    BY <2>1, <2>2, <2>3
<1>11. CASE FinishBatch
  BY <1>11, BatchRows
<1>12. CASE RunSession \/ SessionFails
  <2>1. PICK ok \in BOOLEAN :
            /\ pc = "sequential" /\ ~Repeats /\ run' = run + 1
            /\ pc' = IF run < Iterations THEN pc ELSE "collect"
            /\ SequentialRows({ClientRow(SessionOf(1, 2, run), ok)})
            /\ UNCHANGED <<opt, step, raised, protocol>>
    BY <1>12 DEF RunSession, SessionFails
  <2>2. PICK n : n = run
    OBVIOUS
  <2>3. PICK rows : rows = {ClientRow(SessionOf(1, 2, run), ok)}
    OBVIOUS
  <2>4. run \in Nat /\ run <= Iterations /\ n .. n = {n}
    BY <2>1, <2>2 DEF TypeInv
  <2>5. \A r \in rows : r.session = SessionOf(1, 2, n)
    BY <2>2, <2>3 DEF ClientRow
  <2>6. /\ \A r \in rows : r.session \in {SessionOf(1, 2, m) : m \in n .. n}
        /\ \A r, q \in rows : r.session = q.session => r = q
        /\ SessionsOf(rows) = {SessionOf(1, 2, m) : m \in n .. n}
    BY <2>3, <2>4, <2>5 DEF SessionsOf
  <2>7. \/ pc' = pc /\ run' = n + 1 /\ ~Repeats
        \/ pc' = "collect" /\ n = Iterations
    BY <1>0, <2>1, <2>2, <2>4
  <2>. QED
    BY <2>1, <2>2, <2>3, <2>4, <2>6, <2>7, SequentialGoesOn
<1>13. CASE RunRepeat
  <2>1. PICK done \in 0 .. Iterations :
            SequentialRows({[ClientRow(SessionOf(1, 2, n), n <= done) EXCEPT !.ok = (done = Iterations)] :
                                n \in 1 .. Iterations})
    BY <1>13 DEF RunRepeat
  <2>2. pc = "sequential" /\ Repeats /\ pc' = "collect" /\ UNCHANGED <<opt, step, raised, protocol>>
    BY <1>13 DEF RunRepeat
  <2>3. run = 1 /\ run <= Iterations
    BY <1>0, <2>2 DEF BookInv, BookedOnce, AtWork, OverBooked, LastBooked
  <2>4. PICK rows : rows = {[ClientRow(SessionOf(1, 2, n), n <= done) EXCEPT !.ok = (done = Iterations)] :
                                n \in 1 .. Iterations}
    OBVIOUS
  <2>5. \A n : [ClientRow(SessionOf(1, 2, n), n <= done) EXCEPT !.ok = (done = Iterations)].session
                   = SessionOf(1, 2, n)
    BY DEF ClientRow
  <2>6. \A m, n : SessionOf(1, 2, m) = SessionOf(1, 2, n) => m = n
    BY DEF SessionOf
  <2>7. /\ \A r \in rows : r.session \in {SessionOf(1, 2, m) : m \in run .. Iterations}
        /\ \A r, q \in rows : r.session = q.session => r = q
        /\ SessionsOf(rows) = {SessionOf(1, 2, m) : m \in run .. Iterations}
    <3>1. \A r \in rows : \E n \in 1 .. Iterations :
              /\ r = [ClientRow(SessionOf(1, 2, n), n <= done) EXCEPT !.ok = (done = Iterations)]
              /\ r.session = SessionOf(1, 2, n)
      BY <2>4, <2>5
    <3>2. \A n \in 1 .. Iterations : \E r \in rows : r.session = SessionOf(1, 2, n)
      BY <2>4, <2>5
    <3>3. SessionsOf(rows) = {SessionOf(1, 2, m) : m \in 1 .. Iterations}
      BY <3>1, <3>2 DEF SessionsOf
    <3>4. \A r, q \in rows : r.session = q.session => r = q
      BY <2>6, <3>1
    <3>. QED
      BY <2>3, <3>1, <3>3, <3>4
  <2>. QED
    BY <1>0, <2>1, <2>2, <2>3, <2>4, <2>7, SequentialGoesOn
<1>14. CASE CollectServerMetrics
  BY <1>14, CollectGoesOn
<1>. QED
  BY <1>3, <1>4, <1>5, <1>6, <1>7, <1>8, <1>9, <1>10, <1>11, <1>12, <1>13, <1>14 DEF Next, Script

\* The step is a number, and what it has reached or passed is over once no
\* client is at work.
LEMMA StepIsNumber == TypeInv => step \in Nat
  BY TestsAssumption DEF TypeInv, Step

\* A step not after the one at work is over when that one is.
LEMMA OverIfReached ==
    ASSUME NEW q \in Nat, step \in Nat, q <= step, pc \notin {"launch", "wait", "sequential"}
    PROVE  IsOver(q)
  BY DEF IsOver

\* Once all of the selected steps are over, the files of their tests have the
\* sessions of all of them.
LEMMA FilesComplete ==
    ASSUME TypeInv, BookedOnce, OverBooked, NEW s \in Selected,
           \A q \in Selected : IsOver(q) /\ q <= step,
           step = 2 + Iterations => csv["3"] = {r \in clientRows : r.session.step > 2}
    PROVE  /\ {r.session : r \in csv[TestOf(s)]} =
                  UNION {TestSessions(q) : q \in {x \in Selected : TestOf(x) = TestOf(s)}}
           /\ \A r, q \in csv[TestOf(s)] : r.session = q.session => r = q
<1>1. /\ \A r \in clientRows : r.session.step \in Selected
      /\ \A r, q \in clientRows : r.session = q.session => r = q
  BY DEF BookedOnce
<1>2. /\ \A q \in Selected : SessionsOf(RowsOf(q)) = TestSessions(q)
      /\ \A q \in Selected \cap {1, 2} : csv[TestOf(q)] = RowsOf(q)
  BY DEF OverBooked
<1>3. TestOf(1) = "1" /\ TestOf(2) = "2" /\ \A x \in Selected \ {1, 2} : TestOf(x) = "3" /\ x > 2
  BY SelectedNumbers, TestsOfSteps
<1>. DEFINE Alike == {x \in Selected : TestOf(x) = TestOf(s)}
<1>4. csv[TestOf(s)] = {r \in clientRows : r.session.step \in Alike}
  <2>1. CASE s \in {1, 2}
    <3>1. Alike = {s}
      BY <1>3, <2>1
    <3>. QED
      BY <1>2, <2>1, <3>1 DEF RowsOf
  <2>2. CASE s \notin {1, 2}
    <3>1. Alike = Selected \ {1, 2} /\ TestOf(s) = "3"
      BY <1>3, <2>2
    <3>2. s \in 3 .. 2 + Iterations
      BY <2>2, SelectedNumbers
    <3>3. 2 + Iterations \in Selected
      BY <2>2, <3>2, SelectedNumbers DEF Selected
    <3>4. step = 2 + Iterations
      BY <3>3, SelectedNumbers DEF TypeInv, Step
    <3>5. \A r \in clientRows : r.session.step > 2 <=> r.session.step \in Alike
      <4>. SUFFICES ASSUME NEW r \in clientRows PROVE r.session.step > 2 <=> r.session.step \in Alike
        OBVIOUS
      <4>1. r.session.step \in Selected
        BY <1>1
      <4>. QED
        BY <1>3, <3>1, <4>1
    <3>. QED
      BY <3>1, <3>4, <3>5
  <2>. QED
    BY <2>1, <2>2
<1>5. {r.session : r \in csv[TestOf(s)]} = UNION {SessionsOf(RowsOf(q)) : q \in Alike}
  BY <1>4 DEF SessionsOf, RowsOf
<1>6. UNION {SessionsOf(RowsOf(q)) : q \in Alike} = UNION {TestSessions(q) : q \in Alike}
  BY <1>2
<1>. QED
  BY <1>1, <1>4, <1>5, <1>6

\* Every file of results is complete and has no row twice: when a protocol's
\* run ends without an exception, each selected test has one row for each
\* session that the script ran, whatever the server recorded of them.
THEOREM ResultsAreComplete == Spec => []ResultsComplete
<1>1. Init => BookInv
  <2>. SUFFICES ASSUME Init PROVE BookInv
    OBVIOUS
  <2>1. /\ clientRows = {} /\ step = 0 /\ DOMAIN csv = Test /\ pc = "project" /\ Iterations \in Nat \ {0}
    BY TestsAssumption DEF Init, NoFiles
  <2>2. \A s \in Selected : ~IsOver(s)
    BY <2>1, SelectedSteps DEF IsOver, Step
  <2>. QED
    BY <2>1, <2>2 DEF BookInv, BookedOnce, AtWork, OverBooked, LastBooked
<1>2. TypeInv /\ BookInv => ResultsComplete
  <2>. SUFFICES ASSUME TypeInv, BookInv, pc = "stop net", ~raised PROVE ResultsComplete
    BY DEF ResultsComplete
  <2>1. BookedOnce /\ OverBooked /\ LastBooked
    BY DEF BookInv
  <2>2. /\ \A q \in Selected : q <= step
        /\ step = 2 + Iterations => csv["3"] = {r \in clientRows : r.session.step > 2}
    BY <2>1 DEF LastBooked
  <2>3. step \in Nat /\ \A q \in Selected : q \in Nat
    BY StepIsNumber, SelectedNumbers
  <2>4. pc \notin {"launch", "wait", "sequential"}
    OBVIOUS
  <2>5. \A q \in Selected : IsOver(q) /\ q <= step
    BY <2>2, <2>3, <2>4, OverIfReached
  <2>. QED
    BY <2>1, <2>2, <2>5, FilesComplete DEF ResultsComplete
<1>. QED
  BY <1>1, <1>2, BookStep, TypesCorrect, PTL DEF Spec
=============================================================================

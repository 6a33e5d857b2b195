---------------------------- MODULE MininetTests ----------------------------
(***************************************************************************)
(* The runner mininet_tests_123.py: for each protocol, build a network,    *)
(* start a server, enrol the clients (ZK-ARCHE), run the selected tests    *)
(* and measure them, and tear down what was built, whatever happens.       *)
(*                                                                         *)
(* The script is one process.  Around it are the clients that it starts    *)
(* and waits for, the server, whose threads print a line for a session     *)
(* some time after the session is over, and what interrupts the script.    *)
(*                                                                         *)
(* A step of an experiment is a number: 0 is the enrolment, 1 and 2 are    *)
(* the tests 1 and 2, and 2 + r is the round r of test 3.  What is         *)
(* measured is named by the sessions that it measures: the duration of two *)
(* sessions together is the set of the two, and {} is None.                *)
(***************************************************************************)
EXTENDS MininetNetwork, Sequences

CONSTANTS
    Iterations,     \* --iterations
    Options,        \* the command lines, see Option
    MaxPolls,       \* attempts to find the setup lines (20 in the code)
    MaxFaults,      \* bound: interrupts, failing sessions, servers that die
    MaxLate         \* bound: lines that are not printed within the 0.2 s of sleep

Client == 1 .. NumClients
Protocol == {"zkarche", "mtls", "edhoc"}
Test == {"1", "2", "3"}

\* The command line: the network, --protocol (all is the three in a row),
\* --test (all is the three of them), and ZKARCHE_CLIENT_REPEAT of the
\* environment.
Protocols == {<<p>> : p \in Protocol} \cup {<<"zkarche", "mtls", "edhoc">>}
Tests == {{t} : t \in Test} \cup {Test}
Option == [network : Networks, protocols : Protocols, tests : Tests, repeat : BOOLEAN]

ASSUME TestsAssumption ==
    /\ Iterations \in Nat \ {0}
    /\ {MaxPolls, MaxFaults, MaxLate} \subseteq Nat
    /\ MaxPolls > 0
    /\ Options \subseteq Option

Step == 0 .. 2 + Iterations
TestOf(step) == CASE step = 1 -> "1" [] step = 2 -> "2" [] step > 2 -> "3"

Session == [client : Client, step : Step, run : 1 .. Iterations]
SessionOf(c, step, n) == [client |-> c, step |-> step, run |-> n]
SetupOf(c) == SessionOf(c, 0, 1)

\* The server's log: one line for each session recorded, and other lines.
Line(s) == [metrics |-> {s}]
OtherLine == [metrics |-> {}]

VARIABLES
    opt,            \* args
    todo,           \* the protocols that main has not begun
    protocol,       \* the one that it is running
    pc, raised,     \* where the script is, and whether an exception is on its way up
    net,            \* the network: "none", "partial" (build_network did not
                    \* return it), "built", "up"
    traffic,        \* processes of background traffic that run
    bound,          \* bg_procs is bound
    server,         \* a server process runs
    log, pending,   \* the server's log, and the sessions that it is about to record
    enrolled,       \* the server's registry (ZK-ARCHE)
    setup,          \* assignment["setup_duration_ms"] of each client, ...
    serverSetup,    \* ... and assignment["server_setup_duration_ms"]
    client, polls,  \* counters of prepare_zkarche_state
    from,           \* setup_start_line
    offset,         \* server_metric_offset["line"]
    start,          \* history: the offset with which the tests began
    captured,       \* history: setup lines found by the last poll
    step, run,      \* the step, and the iteration of test 2
    proc,           \* the client processes: "none", "running", "ok", "failed"
    clientRows, serverRows,     \* rows of the client and server CSV files
    csv,            \* the files written: test -> rows
    faults

machine == <<net, traffic, bound, server>>
record == <<log, pending>>
provisioning == <<enrolled, setup, serverSetup, client, polls, from, captured>>
position == <<offset, start, step, run>>
results == <<clientRows, serverRows, csv>>
vars == <<opt, todo, protocol, pc, raised, machine, record, provisioning, position, proc,
          results, faults>>

Zk == protocol = "zkarche"

Nowhere == [c \in Client |-> {}]
NoFiles == [t \in Test |-> {}]
NoProcesses == [c \in Client |-> "none"]

\* The steps of the selected tests, one after the other.
Selected == (IF "1" \in opt.tests THEN {1} ELSE {})
                \cup (IF "2" \in opt.tests THEN {2} ELSE {})
                \cup (IF "3" \in opt.tests THEN 3 .. 2 + Iterations ELSE {})

TestSessions(s) ==
    IF s = 2 THEN {SessionOf(1, 2, n) : n \in 1 .. Iterations}
             ELSE {SessionOf(c, s, 1) : c \in Client}
-----------------------------------------------------------------------------
Init ==
    /\ opt \in Options
    /\ todo = opt.protocols /\ protocol = "none"
    /\ pc = "project" /\ raised = FALSE
    /\ net = "none" /\ traffic = 0 /\ bound = FALSE /\ server = FALSE
    /\ log = <<>> /\ pending = {}
    /\ enrolled = {} /\ setup = Nowhere /\ serverSetup = Nowhere
    /\ client = 1 /\ polls = 0 /\ from = 0 /\ captured = 0
    /\ offset = 0 /\ start = 0 /\ step = 0 /\ run = 1
    /\ proc = NoProcesses
    /\ clientRows = {} /\ serverRows = {} /\ csv = NoFiles
    /\ faults = 0

Fault == faults < MaxFaults /\ faults' = faults + 1

\* prepare_project builds the binaries or raises: nothing to clean up yet.
PrepareProject ==
    /\ pc = "project"
    /\ pc' \in {"next", "failed"}
    /\ UNCHANGED <<opt, todo, protocol, raised, machine, record, provisioning, position, proc, results, faults>>

\* run_protocol_tests starts: a fresh working directory with certificates and
\* allowlist, and the assignments.
PrepareRun ==
    /\ pc = "next" /\ todo # <<>>
    /\ pc' = "build"
    /\ bound' = FALSE /\ server' = FALSE
    /\ enrolled' = {} /\ setup' = Nowhere /\ serverSetup' = Nowhere
    /\ client' = 1 /\ polls' = 0 /\ from' = 0 /\ captured' = 0
    /\ offset' = 0 /\ start' = 0 /\ step' = 0 /\ run' = 1
    /\ log' = <<>> /\ pending' = {}
    /\ clientRows' = {} /\ serverRows' = {} /\ csv' = NoFiles
    /\ protocol' = Head(todo) /\ todo' = Tail(todo)
    /\ UNCHANGED <<opt, raised, net, traffic, proc, faults>>

\* A directory cannot be made, a certificate is missing, or control-C.
PreparationFails ==
    /\ pc = "next" /\ todo # <<>> /\ Fault
    /\ pc' = "failed"
    /\ UNCHANGED <<opt, todo, protocol, raised, machine, record, provisioning, position, proc, results>>

\* build_network is called before the try: without a gateway it raises when it
\* comes to the first client, and nobody has what it has made by then, switches
\* and the links between them.
BuildNetwork ==
    /\ pc = "build"
    /\ IF Buildable(opt.network) THEN pc' = "start" /\ net' = "built"
                                 ELSE pc' = "failed" /\ net' = "partial"
    /\ UNCHANGED <<opt, todo, protocol, raised, traffic, bound, server, record, provisioning, position, proc,
                   results, faults>>

\* Control-C or an exception of the emulator while it builds, before or after it
\* has made the first of it.
BuildInterrupted ==
    /\ pc = "build" /\ Fault
    /\ pc' = "failed" /\ net' \in {"none", "partial"}
    /\ UNCHANGED <<opt, todo, protocol, raised, traffic, bound, server, record, provisioning, position, proc,
                   results>>

\* main returns.
AllRun ==
    /\ pc = "next" /\ todo = <<>>
    /\ pc' = "done"
    /\ UNCHANGED <<opt, todo, protocol, raised, machine, record, provisioning, position, proc, results, faults>>

StartNet ==
    /\ pc = "start"
    /\ net' = "up"
    /\ pc' = "traffic"
    /\ UNCHANGED <<opt, todo, protocol, raised, traffic, bound, server, record, provisioning, position, proc,
                   results, faults>>

StartTraffic ==
    /\ pc = "traffic"
    /\ traffic' = traffic + Processes(opt.network)
    /\ bound' = TRUE
    /\ pc' = "server"
    /\ UNCHANGED <<opt, todo, protocol, raised, net, server, record, provisioning, position, proc, results, faults>>

\* It fails or is interrupted: the processes started so far are in a list
\* that nobody else has.
TrafficRaises ==
    /\ pc = "traffic" /\ Fault
    /\ \E n \in 0 .. Processes(opt.network) : traffic' = traffic + n
    /\ raised' = TRUE
    /\ pc' = "stop traffic"
    /\ UNCHANGED <<opt, todo, protocol, net, bound, server, record, provisioning, position, proc, results>>

\* Where the tests begin: the first of the selected ones.
Begin(s) ==
    /\ step' = s
    /\ pc' = IF s = 2 THEN "sequential" ELSE "launch"

FirstStep == CHOOSE s \in Selected : \A other \in Selected : s <= other

\* start_server truncates the log and gives the server a second to come up.
StartServer ==
    /\ pc = "server"
    /\ server' = TRUE
    /\ log' = <<OtherLine>>
    /\ IF Zk THEN pc' = "pin" /\ step' = step /\ from' = 1
             ELSE Begin(FirstStep) /\ from' = from
    /\ UNCHANGED <<opt, todo, protocol, raised, net, traffic, bound, pending, enrolled, setup, serverSetup,
                   client, polls, captured, offset, start, run, proc, results, faults>>
-----------------------------------------------------------------------------
\* prepare_zkarche_state, client by client: pin the server's key, ...
PinClient ==
    /\ pc = "pin"
    /\ pc' = "setup"
    /\ UNCHANGED <<opt, todo, protocol, raised, machine, record, provisioning, position, proc, results, faults>>

\* Faulty variant of SetupClient: the measurement of the first client is kept.
SetupClientFirst ==
    /\ pc = "setup" /\ server
    /\ enrolled' = enrolled \cup {client}
    /\ pending' = pending \cup {SetupOf(client)}
    /\ setup' = [setup EXCEPT ![client] = {SetupOf(1)}]
    /\ client' = client + 1
    /\ pc' = IF client < NumClients THEN "pin" ELSE "poll"
    /\ UNCHANGED <<opt, todo, protocol, raised, machine, log, serverSetup, polls, from, captured, position,
                   proc, results, faults>>

\* ... run the setup, and keep what the client printed.
SetupClient ==
    /\ pc = "setup" /\ server
    /\ enrolled' = enrolled \cup {client}
    /\ pending' = pending \cup {SetupOf(client)}
    /\ setup' = [setup EXCEPT ![client] = {SetupOf(client)}]
    /\ client' = client + 1
    /\ pc' = IF client < NumClients THEN "pin" ELSE "poll"
    /\ UNCHANGED <<opt, todo, protocol, raised, machine, log, serverSetup, polls, from, captured, position,
                   proc, results, faults>>

\* Faulty variant of SetupFails: the next client's turn, as in the tests.
SetupFailsOn ==
    /\ pc = "setup" /\ Fault
    /\ client' = client + 1
    /\ pc' = IF client < NumClients THEN "pin" ELSE "poll"
    /\ UNCHANGED <<opt, todo, protocol, raised, machine, record, enrolled, setup, serverSetup, polls, from,
                   captured, position, proc, results>>

\* The setup fails, which raises.  The server may have enrolled the device,
\* and may have something to record.
SetupFails ==
    /\ pc = "setup"
    /\ IF server THEN Fault ELSE UNCHANGED faults
    /\ \/ UNCHANGED <<pending, enrolled>>
       \/ /\ server
          /\ pending' = pending \cup {SetupOf(client)}
          /\ enrolled' \in {enrolled, enrolled \cup {client}}
    /\ raised' = TRUE
    /\ pc' = "stop traffic"
    /\ UNCHANGED <<opt, todo, protocol, machine, log, setup, serverSetup, client, polls, from, captured,
                   position, proc, results>>

\* Faulty variant: one line is skipped.
MetricsAfterNext(n) == {i \in n + 2 .. Len(log) : log[i].metrics # {}}

\* The log's lines after the first n that stand for a session.
Metrics(n) == {i \in n + 1 .. Len(log) : log[i].metrics # {}}
SessionAt(i) == CHOOSE s \in log[i].metrics : TRUE

\* A server row's peer up to the first colon, as a prefix and an address.
\* ZK-ARCHE's server prints Some(10.0.0.2:50000), the others 10.0.0.2:50000.
PeerHost(c) == <<IF Zk THEN "Some(" ELSE "", Octet(<<"client", c>>)>>

\* by_ip.get(ip), as a set of no or one client.
ByIp(host) == {c \in Client : <<"", Octet(<<"client", c>>)>> = host}

\* The log is read until it has a setup line for each client, or 20 times;
\* then the lines are attached to the clients that they are from.
PollSetupLog ==
    /\ pc = "poll"
    /\ polls' = polls + 1
    /\ captured' = Cardinality(Metrics(from))
    /\ IF captured' >= NumClients \/ polls' = MaxPolls
       THEN /\ serverSetup' =
                  [c \in Client |->
                      {SessionAt(i) : i \in {j \in Metrics(from) :
                                                c \in ByIp(PeerHost(SessionAt(j).client))}}]
            /\ pc' = "skip"
       ELSE UNCHANGED <<serverSetup, pc>>
    /\ UNCHANGED <<opt, todo, protocol, raised, machine, record, enrolled, setup, client, from, position, proc,
                   results, faults>>

\* Faulty variant of SkipSetupLines: the offset stays where it was.
SkipNoLines ==
    /\ pc = "skip"
    /\ Begin(FirstStep)
    /\ UNCHANGED <<opt, todo, protocol, raised, machine, record, provisioning, offset, start, run, proc,
                   results, faults>>

\* "Exclude enrollment/setup log lines": whatever is in the log by now.
SkipSetupLines ==
    /\ pc = "skip"
    /\ offset' = Len(log) /\ start' = Len(log)
    /\ Begin(FirstStep)
    /\ UNCHANGED <<opt, todo, protocol, raised, machine, record, provisioning, run, proc, results, faults>>
-----------------------------------------------------------------------------
\* add_full_session_metrics: setup + auth, or auth alone when setup is None.
WithSetup(setupTime, authTime) ==
    IF setupTime # {} /\ authTime # {} THEN setupTime \cup authTime ELSE authTime

\* parse_client_metrics: what a client prints of its session, if it succeeds.
ClientMetrics(s, ok) == IF ok THEN {s} ELSE {}

\* A client's row, with the metrics that it printed and its status.
ClientRow(s, ok) ==
    LET auth == ClientMetrics(s, ok)
    IN  [session |-> s, ok |-> ok,
         full |-> IF Zk THEN WithSetup(setup[s.client], auth) ELSE auth]

\* write_csv leaves the file as it is when there are no rows.
WriteCsv(test, rows) == csv' = IF rows = {} THEN csv ELSE [csv EXCEPT ![test] = rows]

\* execute_concurrent_batch starts every client ...
LaunchBatch ==
    /\ pc = "launch"
    /\ proc' = [c \in Client |-> "running"]
    /\ pc' = "wait"
    /\ UNCHANGED <<opt, todo, protocol, raised, machine, record, provisioning, position, results, faults>>

\* Faulty variant of FinishBatch: it waits until all have succeeded.
FinishSuccesses ==
    /\ pc = "wait"
    /\ \A c \in Client : proc[c] = "ok"
    /\ clientRows' = clientRows \cup {ClientRow(SessionOf(c, step, 1), TRUE) : c \in Client}
    /\ IF step = 1 THEN WriteCsv("1", {r \in clientRows' : r.session.step = 1})
                   ELSE UNCHANGED csv
    /\ proc' = NoProcesses
    /\ pc' = "collect"
    /\ UNCHANGED <<opt, todo, protocol, raised, machine, record, provisioning, position, serverRows, faults>>

\* ... and waits for one after the other; the rows of test 1 are written.
FinishBatch ==
    /\ pc = "wait"
    /\ \A c \in Client : proc[c] # "running"
    /\ clientRows' = clientRows \cup
           {ClientRow(SessionOf(c, step, 1), proc[c] = "ok") : c \in Client}
    /\ IF step = 1 THEN WriteCsv("1", {r \in clientRows' : r.session.step = 1})
                   ELSE UNCHANGED csv
    /\ proc' = NoProcesses
    /\ pc' = "collect"
    /\ UNCHANGED <<opt, todo, protocol, raised, machine, record, provisioning, position, serverRows, faults>>
-----------------------------------------------------------------------------
Repeats == Zk /\ opt.repeat

\* What the server may have to record of a session that fails for the client:
\* ZK-ARCHE's prints its line for failed sessions too.
MayRecord(s) == IF server THEN {{}, {s}} ELSE {{}}

\* The rows of test 2 are written when the last session is over.
SequentialRows(rows) ==
    /\ clientRows' = clientRows \cup rows
    /\ IF pc' = "collect" THEN WriteCsv("2", {r \in clientRows' : r.session.step = 2})
                          ELSE UNCHANGED csv

\* execute_sequential, one process for each session, which ends well ...
RunSession ==
    /\ pc = "sequential" /\ ~Repeats /\ server
    /\ LET s == SessionOf(1, 2, run) IN
        /\ pending' = pending \cup {s}
        /\ pc' = IF run < Iterations THEN pc ELSE "collect"
        /\ SequentialRows({ClientRow(s, TRUE)})
    /\ run' = run + 1
    /\ UNCHANGED <<opt, todo, protocol, raised, machine, log, provisioning, offset, start, step, proc,
                   serverRows, faults>>

\* ... or does not.
SessionFails ==
    /\ pc = "sequential" /\ ~Repeats
    /\ IF server THEN Fault ELSE UNCHANGED faults
    /\ LET s == SessionOf(1, 2, run) IN
        /\ \E S \in MayRecord(s) : pending' = pending \cup S
        /\ pc' = IF run < Iterations THEN pc ELSE "collect"
        /\ SequentialRows({ClientRow(s, FALSE)})
    /\ run' = run + 1
    /\ UNCHANGED <<opt, todo, protocol, raised, machine, log, provisioning, offset, start, step, proc, serverRows>>

\* With --repeat, one process for all: it stops at the first session that
\* fails, and its exit status is the status of every row.  A row has the
\* metrics that its session printed.
RunRepeat ==
    /\ pc = "sequential" /\ Repeats
    /\ pc' = "collect"
    /\ \E done \in 0 .. Iterations :
        LET ok == done = Iterations
            Row(n) == [ClientRow(SessionOf(1, 2, n), n <= done) EXCEPT !.ok = ok]
        IN  /\ IF server /\ ~ok THEN Fault ELSE UNCHANGED faults
            /\ ~server => done = 0
            /\ \E S \in IF ok THEN {{}} ELSE MayRecord(SessionOf(1, 2, done + 1)) :
                   pending' = pending \cup {SessionOf(1, 2, n) : n \in 1 .. done} \cup S
            /\ SequentialRows({Row(n) : n \in 1 .. Iterations})
    /\ UNCHANGED <<opt, todo, protocol, raised, machine, log, provisioning, position, proc, serverRows>>
-----------------------------------------------------------------------------
\* add_zkarche_server_full_session_fields: the setup of the client with the
\* row's address, if there is one.
ServerRow(i) ==
    LET s == SessionAt(i)
        owner == ByIp(PeerHost(s.client))
    IN  [line |-> i, session |-> s, step |-> step,
         full |-> WithSetup(IF Zk THEN UNION {serverSetup[c] : c \in owner} ELSE {}, {s})]

\* The next of the selected steps, if any, or else finally.
Continue ==
    LET later == {s \in Selected : s > step}
    IN  IF later = {} THEN pc' = "stop traffic" /\ step' = step
        ELSE Begin(CHOOSE s \in later : \A other \in later : s <= other)

\* Faulty variant of CollectServerMetrics: the offset is not moved.
CollectAgain ==
    /\ pc = "collect"
    /\ Cardinality(pending) <= MaxLate
    /\ serverRows' = serverRows \cup {ServerRow(i) : i \in Metrics(offset)}
    /\ csv' = csv
    /\ Continue
    /\ UNCHANGED <<opt, todo, protocol, raised, machine, record, provisioning, offset, start, run, proc,
                   clientRows, faults>>

\* Faulty variant of CollectServerMetrics: the rows of a round replace the ones
\* of the rounds before.
CollectRound ==
    /\ pc = "collect"
    /\ Cardinality(pending) <= MaxLate
    /\ serverRows' = serverRows \cup {ServerRow(i) : i \in Metrics(offset)}
    /\ offset' = Len(log)
    /\ IF step = 2 + Iterations THEN WriteCsv("3", {r \in clientRows : r.session.step = step})
                                ELSE UNCHANGED csv
    /\ Continue
    /\ UNCHANGED <<opt, todo, protocol, raised, machine, record, provisioning, start, run, proc, clientRows, faults>>

\* collect_server_metrics: after 0.2 s, the lines that are new in the log are
\* the rows of this step; after the last round, the rows of test 3 are written.
CollectServerMetrics ==
    /\ pc = "collect"
    /\ Cardinality(pending) <= MaxLate
    /\ serverRows' = serverRows \cup {ServerRow(i) : i \in Metrics(offset)}
    /\ offset' = Len(log)
    /\ IF step = 2 + Iterations THEN WriteCsv("3", {r \in clientRows : r.session.step > 2})
                                ELSE UNCHANGED csv
    /\ Continue
    /\ UNCHANGED <<opt, todo, protocol, raised, machine, record, provisioning, start, run, proc, clientRows, faults>>
-----------------------------------------------------------------------------
InTry == {"start", "server", "pin", "setup", "poll", "skip", "launch", "wait",
          "sequential", "collect"}

\* Control-C, an exception of the emulator, anywhere in the try, or a server
\* key that cannot be printed or pinned; files are then as they were.  Clients
\* that were started run on.
Interrupt ==
    /\ pc \in InTry /\ Fault
    /\ raised' = TRUE
    /\ pc' = "stop traffic"
    /\ UNCHANGED <<opt, todo, protocol, machine, record, provisioning, position, proc, results>>

\* Faulty variant of StopTraffic: in an except instead of the finally.
StopTrafficOnSuccess ==
    /\ pc = "stop traffic"
    /\ traffic' = IF bound /\ ~raised THEN 0 ELSE traffic
    /\ pc' = "stop server"
    /\ UNCHANGED <<opt, todo, protocol, raised, net, bound, server, record, provisioning, position, proc, results, faults>>

\* The finally: locals().get("bg_procs", []) is empty if the list is unbound.
StopTraffic ==
    /\ pc = "stop traffic"
    /\ traffic' = IF bound THEN 0 ELSE traffic
    /\ pc' = "stop server"
    /\ UNCHANGED <<opt, todo, protocol, raised, net, bound, server, record, provisioning, position, proc, results, faults>>

\* pkill: what the server has not printed is gone.
StopServer ==
    /\ pc = "stop server"
    /\ server' = FALSE
    /\ pending' = {}
    /\ pc' = "stop net"
    /\ UNCHANGED <<opt, todo, protocol, raised, net, traffic, bound, log, provisioning, position, proc, results, faults>>

\* net.stop; then the next protocol, or the exception ends main.
StopNet ==
    /\ pc = "stop net"
    /\ net' = "none"
    /\ pc' = IF raised THEN "failed" ELSE "next"
    /\ UNCHANGED <<opt, todo, protocol, raised, traffic, bound, server, record, provisioning, position, proc, results, faults>>
-----------------------------------------------------------------------------
\* A client process ends: the session was a success for it ...
ClientSucceeds(c) ==
    /\ proc[c] = "running" /\ server
    /\ proc' = [proc EXCEPT ![c] = "ok"]
    /\ pending' = pending \cup {SessionOf(c, step, 1)}
    /\ UNCHANGED <<opt, todo, protocol, pc, raised, machine, log, provisioning, position, results, faults>>

\* ... or not; without a server none is.
ClientFails(c) ==
    /\ proc[c] = "running"
    /\ IF server THEN Fault ELSE UNCHANGED faults
    /\ proc' = [proc EXCEPT ![c] = "failed"]
    /\ \E S \in MayRecord(SessionOf(c, step, 1)) : pending' = pending \cup S
    /\ UNCHANGED <<opt, todo, protocol, pc, raised, machine, log, provisioning, position, results>>

\* A thread of the server prints the line of its session.
PrintLine(s) ==
    /\ server /\ s \in pending
    /\ log' = Append(log, Line(s))
    /\ pending' = pending \ {s}
    /\ UNCHANGED <<opt, todo, protocol, pc, raised, machine, provisioning, position, proc, results, faults>>

\* The server dies by itself; nothing looks after it.
ServerDies ==
    /\ server /\ Fault
    /\ server' = FALSE
    /\ pending' = {}
    /\ UNCHANGED <<opt, todo, protocol, pc, raised, net, traffic, bound, log, provisioning, position, proc, results>>

\* The script's own steps.
Script ==
    \/ PrepareProject \/ PrepareRun \/ BuildNetwork \/ AllRun \/ StartNet \/ StartTraffic \/ StartServer
    \/ PinClient \/ SetupClient \/ SetupFails \/ PollSetupLog \/ SkipSetupLines
    \/ LaunchBatch \/ FinishBatch \/ RunSession \/ SessionFails \/ RunRepeat
    \/ CollectServerMetrics
    \/ StopTraffic \/ StopServer \/ StopNet

ClientEnds(c) == ClientSucceeds(c) \/ ClientFails(c)

Next ==
    \/ Script \/ PreparationFails \/ BuildInterrupted \/ TrafficRaises \/ Interrupt
    \/ \E c \in Client : ClientEnds(c)
    \/ \E s \in pending : PrintLine(s)
    \/ ServerDies

Spec == Init /\ [][Next]_vars

\* The script runs, client processes end (their reads have timeouts), and the
\* threads of the server print their lines.
FairSpec ==
    /\ Spec
    /\ WF_vars(Script)
    /\ \A c \in Client : WF_vars(ClientEnds(c))
    /\ WF_vars(\E s \in pending : PrintLine(s))
-----------------------------------------------------------------------------
\* A network, once it has been built, is sound (see SoundNetwork).
NetworkSound == net = "built" => SoundNetwork(opt.network)

\* The tests run with every client enrolled and its setup measured, or not at
\* all: whichever pin or setup fails ends the run (prepare_zkarche_state).
EnrolledBeforeTests ==
    Zk /\ pc \in {"launch", "wait", "sequential", "collect"} =>
        \A c \in Client : c \in enrolled /\ setup[c] = {SetupOf(c)}

\* Of the lines that the log had when it was last read, from the offset with
\* which the tests began, each one of a session is one server row and the
\* others are none, whatever came late and whichever step was running.
RowsAreTheLog ==
    /\ {r.line : r \in serverRows} = {i \in start + 1 .. offset : log[i].metrics # {}}
    /\ \A r, q \in serverRows : r.line = q.line => r = q
    /\ \A r \in serverRows : log[r.line] = Line(r.session)

\* Setup lines are kept out of the tests' rows (the comment before the offset
\* is set) when the poll found one for each client: after MaxPolls it goes on
\* without, and the ones that come later are taken for sessions of a test.
SetupsExcluded ==
    captured >= NumClients => \A r \in serverRows : r.session.step > 0

\* Each session is in the server rows at most once, never under a step before
\* its own, and stays there.
Ledger == INSTANCE SessionLedger WITH
    recorded <- pending \cup UNION {log[i].metrics : i \in 1 .. Len(log)},
    booked <- {[session |-> r.session, step |-> r.step] : r \in serverRows}

ImplementsLedger == Ledger!LedgerSpec

\* The full session of a successful row is the session and, for ZK-ARCHE, the
\* client's own setup (the docstring of add_full_session_metrics).
ClientSessionsWhole ==
    \A r \in clientRows :
        r.ok => r.full = IF Zk THEN {SetupOf(r.session.client), r.session} ELSE {r.session}

\* The server's full session has both parts as well, when the setup's line was
\* there (the docstring of prepare_zkarche_state).
ServerSessionsWhole ==
    Zk /\ captured >= NumClients =>
        \A r \in serverRows : r.full = {SetupOf(r.session.client), r.session}

\* When a protocol's run ends without an exception, the file of each selected
\* test has one row for each of its sessions and no other.
ResultsComplete ==
    pc = "stop net" /\ ~raised =>
        \A s \in Selected :
            /\ {r.session : r \in csv[TestOf(s)]} =
                   UNION {TestSessions(q) : q \in {x \in Selected : TestOf(x) = TestOf(s)}}
            /\ \A r, q \in csv[TestOf(s)] : r.session = q.session => r = q

\* Between protocols and at the end, network and server are down and the
\* background traffic has stopped, whatever was interrupted, with two
\* exceptions.  Traffic whose start was interrupted has nobody to stop it; and
\* what build_network leaves when it does not return has nobody to stop it
\* either, the call is before the try.  (The next protocol is not begun on top of
\* that: main is over.)
TornDown ==
    /\ pc \in {"next", "done", "failed"} => ~server /\ (bound => traffic = 0)
    /\ pc \in {"next", "done"} => net = "none"
    /\ pc = "failed" => net \in {"none", "partial"}
    /\ net = "partial" => pc = "failed"

\* Every run ends, torn down but for what build_network left, and its clients
\* have ended too.
Ended ==
    /\ pc \in {"done", "failed"} /\ net \in {"none", "partial"} /\ ~server
    /\ \A c \in Client : proc[c] # "running"

RunEnds == <>[]Ended
=============================================================================

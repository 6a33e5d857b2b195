--------------------------- MODULE MininetScripts ---------------------------
(***************************************************************************)
(* The single-protocol scripts zkarche_mininet_50_iot.py,                  *)
(* edhoc_mininet_50_iot.py and mtls_mininet_50_iot.py: one server, clients *)
(* that take turns, and one CSV file at the end.                           *)
(*                                                                         *)
(* They differ in what a failing client does.  ZK-ARCHE's script raises,   *)
(* and there is no file; the other two make a row of it and go on.         *)
(***************************************************************************)
EXTENDS Integers, Sequences, SequencesExt

CONSTANT ClientCounts       \* values of --clients

ASSUME ScriptsAssumption == ClientCounts \subseteq Nat

Script == {"zkarche", "edhoc", "mtls"}

\* The line "CLIENT METRICS -> ..." that the script's pattern expects, with or
\* without the field "Protocol", and the one that its client prints.
Patterns(script) == IF script = "mtls" THEN {"compact", "protocol"} ELSE {"compact"}
Printed(script) == IF script = "zkarche" THEN "compact" ELSE "protocol"
Understood(script) == Printed(script) \in Patterns(script)

VARIABLES
    script, clients,    \* the script, and args.clients
    pc, raised,         \* where it is; whether an exception is on its way up
    net, server,        \* the network; whether a server process runs
    certs,              \* the project's client certificate: 0 is none
    allowed, held,      \* the one of the allowlist, the clients' copies (mTLS)
    turn,               \* the client whose turn it is
    enrolled,           \* the server's registry (ZK-ARCHE)
    outcome,            \* history: how each client's session ended
    results,            \* the rows in memory
    csv                 \* the file: what was there before, or rows

world == <<net, server>>
credentials == <<certs, allowed, held>>
scriptVars == <<script, clients, pc, raised, world, credentials, turn, enrolled, outcome,
                results, csv>>

Before == [new |-> FALSE, rows |-> <<>>]
Rows(s) == [new |-> TRUE, rows |-> s]

ScriptInit ==
    /\ script \in Script /\ clients \in ClientCounts
    /\ pc = "project" /\ raised = FALSE
    /\ net = "none" /\ server = FALSE
    /\ certs \in {0, 1} /\ allowed = 0 /\ held = 0
    /\ turn = 1 /\ enrolled = {} /\ outcome = <<>>
    /\ results = <<>> /\ csv = Before

\* prepare_binaries, prepare_project: mTLS's certificates are made when one is
\* missing.
PrepareProject ==
    /\ pc = "project"
    /\ certs' = IF script = "mtls" /\ certs = 0 THEN 2 ELSE certs
    /\ pc' = "workdir"
    /\ UNCHANGED <<script, clients, raised, world, allowed, held, turn, enrolled, outcome, results, csv>>

\* copy_certs_if_needed, and prepare_mtls_authorized_clients.
CopyCerts == held' = IF script = "mtls" THEN certs ELSE held
AllowCertificate == allowed' = IF script = "mtls" THEN certs ELSE allowed

\* A working directory from nothing, mTLS's certificates and allowlist in it,
\* and the network; ZK-ARCHE's has the key that the server prints.
PrepareWorkdir ==
    /\ pc = "workdir"
    /\ CopyCerts /\ AllowCertificate
    /\ net' = "built"
    /\ pc' = "start"
    /\ UNCHANGED <<script, clients, raised, server, certs, turn, enrolled, outcome, results, csv>>

\* A build fails, a binary, a certificate or the server's key is missing, or
\* control-C: nothing is up yet, and nothing is taken down.
PreparationFails ==
    /\ pc \in {"project", "workdir"}
    /\ pc' = "failed"
    /\ UNCHANGED <<script, clients, raised, world, credentials, turn, enrolled, outcome, results, csv>>

StartNet ==
    /\ pc = "start"
    /\ net' = "up"
    /\ pc' = "server"
    /\ UNCHANGED <<script, clients, raised, server, credentials, turn, enrolled, outcome, results, csv>>

Serve(c) == IF c > clients THEN "open" ELSE IF script = "zkarche" THEN "pin" ELSE "run"

\* In the background and without a look at whether it came up.
StartServer ==
    /\ pc = "server"
    /\ server' \in BOOLEAN
    /\ pc' = Serve(1)
    /\ UNCHANGED <<script, clients, raised, net, credentials, turn, enrolled, outcome, results, csv>>

\* The server ends by itself; nothing looks after it.
ServerEnds ==
    /\ server
    /\ server' = FALSE
    /\ UNCHANGED <<script, clients, pc, raised, net, credentials, turn, enrolled, outcome, results, csv>>
-----------------------------------------------------------------------------
\* main of ZK-ARCHE's script: each client pins the server's key, ...
PinClient ==
    /\ pc = "pin"
    /\ pc' = "setup"
    /\ UNCHANGED <<script, clients, raised, world, credentials, turn, enrolled, outcome, results, csv>>

\* ... enrols, ...
SetupClient ==
    /\ pc = "setup" /\ server
    /\ enrolled' = enrolled \cup {turn}
    /\ pc' = "run"
    /\ UNCHANGED <<script, clients, raised, world, credentials, turn, outcome, results, csv>>

\* The client's turn is over, with this outcome and this row.
NextTurn(how, row) ==
    /\ outcome' = Append(outcome, how)
    /\ results' = Append(results, row)
    /\ turn' = turn + 1
    /\ pc' = Serve(turn + 1)
    /\ UNCHANGED <<script, clients, raised, world, credentials, enrolled, csv>>

\* The server admits who it has enrolled, or who has the certificate of the
\* allowlist; EDHOC's script gives its server no list.
Admitted ==
    CASE script = "zkarche" -> turn \in enrolled
      [] script = "mtls" -> held = allowed
      [] script = "edhoc" -> TRUE

\* A session that is a success for the client.  The row says so if the script
\* understands the client's line, and ZK-ARCHE's in any case.
SessionSucceeds ==
    /\ pc = "run" /\ server /\ Admitted
    /\ NextTurn("ok", [run |-> turn, ok |-> script = "zkarche" \/ Understood(script)])

\* One that is not, in EDHOC's and mTLS's scripts: a return code, or 999
\* when the output has no return code in it, as with a session that was none.
SessionFails ==
    /\ pc = "run" /\ script # "zkarche"
    /\ \E how \in {"failed", "no code"} : NextTurn(how, [run |-> turn, ok |-> FALSE])

\* Faulty variant of CommandFails: the loop ends and the file is written.
CommandFailsBreak ==
    /\ pc \in {"pin", "setup", "run"} /\ script = "zkarche"
    /\ pc' = "open"
    /\ UNCHANGED <<script, clients, raised, world, credentials, turn, enrolled, outcome, results, csv>>

\* host_cmd_checked in ZK-ARCHE's: no __EXIT_0__ in the output of pin, setup
\* or session raises.  The server may have enrolled the client.
CommandFails ==
    /\ pc \in {"pin", "setup", "run"} /\ script = "zkarche"
    /\ enrolled' \in {enrolled} \cup (IF pc = "setup" /\ server THEN {enrolled \cup {turn}} ELSE {})
    /\ raised' = TRUE
    /\ pc' = "stop server"
    /\ UNCHANGED <<script, clients, world, credentials, turn, outcome, results, csv>>
-----------------------------------------------------------------------------
\* open(..., "w") empties the file; results[0] raises when there are no rows.
OpenCsv ==
    /\ pc = "open"
    /\ csv' = Rows(<<>>)
    /\ IF results = <<>> THEN raised' = TRUE /\ pc' = "stop server"
                         ELSE raised' = raised /\ pc' = "write"
    /\ UNCHANGED <<script, clients, world, credentials, turn, enrolled, outcome, results>>

WriteCsv ==
    /\ pc = "write"
    /\ csv' = Rows(results)
    /\ pc' = "stop server"
    /\ UNCHANGED <<script, clients, raised, world, credentials, turn, enrolled, outcome, results>>

\* Control-C or a failed write anywhere in the try: of the rows, some first
\* ones are in the file.
Interrupt ==
    /\ pc \in {"start", "server", "pin", "setup", "run", "open", "write"}
    /\ IF pc = "write" THEN \E n \in 0 .. Len(results) : csv' = Rows(SubSeq(results, 1, n))
                       ELSE csv' = csv
    /\ raised' = TRUE
    /\ pc' = "stop server"
    /\ UNCHANGED <<script, clients, world, credentials, turn, enrolled, outcome, results>>

\* The finally: pkill, whose own failure is ignored, and net.stop.
StopServer ==
    /\ pc = "stop server"
    /\ server' = FALSE
    /\ pc' = "stop net"
    /\ UNCHANGED <<script, clients, raised, net, credentials, turn, enrolled, outcome, results, csv>>

\* Faulty variant of StopNet: not in the finally.
StopNetOnSuccess ==
    /\ pc = "stop net"
    /\ net' = IF raised THEN net ELSE "none"
    /\ pc' = IF raised THEN "failed" ELSE "done"
    /\ UNCHANGED <<script, clients, raised, server, credentials, turn, enrolled, outcome, results, csv>>

StopNet ==
    /\ pc = "stop net"
    /\ net' = "none"
    /\ pc' = IF raised THEN "failed" ELSE "done"
    /\ UNCHANGED <<script, clients, raised, server, credentials, turn, enrolled, outcome, results, csv>>

Proceed ==
    \/ PrepareProject \/ PrepareWorkdir \/ StartNet \/ StartServer
    \/ PinClient \/ SetupClient \/ SessionSucceeds \/ SessionFails \/ CommandFails
    \/ OpenCsv \/ WriteCsv \/ StopServer \/ StopNet

ScriptNext == Proceed \/ PreparationFails \/ ServerEnds \/ Interrupt

ScriptSpec == ScriptInit /\ [][ScriptNext]_scriptVars
-----------------------------------------------------------------------------
\* The file of an earlier run is replaced only after every client has had its
\* turn, by rows of this run in their order; with all of them if the script
\* ends well.  No row says AUTH_SUCCESS of a session that was none.
CsvWhole ==
    /\ csv.new => turn = clients + 1 /\ IsPrefix(csv.rows, results)
    /\ pc = "done" => csv.new /\ Len(csv.rows) = clients
    /\ \A i \in DOMAIN results : results[i].run = i /\ (results[i].ok => outcome[i] = "ok")

\* Whatever fails, the script ends, and neither server nor network outlives it
\* (the finally of main and run_protocol).
ScriptEnds == <>[](pc \in {"done", "failed"} /\ net = "none" /\ ~server)
=============================================================================

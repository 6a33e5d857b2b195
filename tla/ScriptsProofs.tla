--------------------------- MODULE ScriptsProofs ---------------------------
(***************************************************************************)
(* Proofs about the programs that run by themselves: what the hardware     *)
(* benchmark has measured is on disk, and the CSV file of a single-protocol*)
(* script has the rows of its run, for any number of runs and clients.     *)
(***************************************************************************)
EXTENDS MininetScripts, HardwareBenchmark, TLAPS

Outcome == [rc : {0, 1}, measured : BOOLEAN]
Usages == {<<>>} \cup {<<n>> : n \in Nat}
ResultRow == [run : Nat, rc : {0, 1}, usage : Usages]

UsageOf(n) == IF ended[n].measured THEN <<n>> ELSE <<>>

\* At each point of the loop: how many runs have ended and are on disk, and
\* what is known of the one at work.
BenchInv ==
    /\ runs \in Nat /\ i \in Nat \ {0} /\ i <= runs + 1
    /\ buffer = <<>>
    /\ disk \in Seq(ResultRow) /\ ended \in Seq(Outcome)
    /\ returned \in {0, 1}
    /\ Len(disk) = i - 1
    /\ at \in {"loop", "run", "done"} => Len(ended) = i - 1
    /\ at \in {"parse", "row"} => i <= runs /\ Len(ended) = i /\ ended[i].rc = returned
    /\ at = "run" => i <= runs /\ timeFile = "empty"
    /\ at = "parse" => (timeFile = "written" <=> ended[i].measured)
    /\ at = "row" => usage = UsageOf(i)
    /\ RowsOnDisk

\* A benchmark that has measured nothing.
LEMMA BenchStart == BenchInit => BenchInv
  BY BenchmarkAssumption DEF BenchInit, BenchInv, RowsOnDisk

\* A run that ends: the ones before it are as they were.
LEMMA RunKeeps == BenchInv /\ RunCommand => BenchInv'
<1>. SUFFICES ASSUME BenchInv, RunCommand PROVE BenchInv'
  OBVIOUS
<1>1. PICK e \in Outcome : /\ ended' = Append(ended, e) /\ e.rc = returned'
                           /\ timeFile' = "written" <=> e.measured
  <2>1. PICK rc \in {0, 1} : /\ returned' = rc
                             /\ \/ /\ timeFile' = "written"
                                   /\ ended' = Append(ended, [rc |-> rc, measured |-> TRUE])
                                \/ /\ timeFile' = timeFile
                                   /\ ended' = Append(ended, [rc |-> rc, measured |-> FALSE])
    BY DEF RunCommand
  <2>2. timeFile = "empty"
    BY DEF RunCommand, BenchInv
  <2>3. [rc |-> rc, measured |-> TRUE] \in Outcome /\ [rc |-> rc, measured |-> FALSE] \in Outcome
    BY DEF Outcome
  <2>. QED
    BY <2>1, <2>2, <2>3
<1>2. /\ Len(ended) = i - 1 /\ Len(ended') = i /\ ended'[i] = e
      /\ \A n \in 1 .. i - 1 : ended'[n] = ended[n]
      /\ ended' \in Seq(Outcome)
  BY <1>1 DEF RunCommand, BenchInv
<1>3. /\ at' = "parse" /\ returned' \in {0, 1} /\ i <= runs
      /\ UNCHANGED <<runs, i, usage, buffer, disk>>
  BY DEF RunCommand, BenchInv
<1>4. RowsOnDisk'
  BY <1>2, <1>3 DEF RowsOnDisk, BenchInv
<1>. QED
  BY <1>1, <1>2, <1>3, <1>4 DEF BenchInv

\* A row that is flushed is the one of the run that has just ended.
LEMMA WriteKeeps == BenchInv /\ WriteRow => BenchInv'
<1>. SUFFICES ASSUME BenchInv, WriteRow PROVE BenchInv'
  OBVIOUS
<1>1. /\ i \in Nat \ {0} /\ Len(disk) = i - 1 /\ Len(ended) = i /\ i <= runs
      /\ disk \in Seq(ResultRow)
  BY DEF WriteRow, BenchInv
<1>2. Row \in ResultRow /\ Row = [run |-> i, rc |-> ended[i].rc, usage |-> UsageOf(i)]
  BY <1>1 DEF WriteRow, BenchInv, Row, ResultRow, Usages, UsageOf
<1>3. disk' = Append(disk, Row)
  BY <1>1, <1>2 DEF WriteRow, BenchInv
<1>4. /\ disk' \in Seq(ResultRow) /\ Len(disk') = i /\ disk'[i] = Row
      /\ \A n \in 1 .. i - 1 : disk'[n] = disk[n]
  BY <1>1, <1>2, <1>3
<1>5. at' = "loop" /\ i' = i + 1 /\ buffer' = <<>> /\ UNCHANGED <<runs, returned, ended>>
  BY DEF WriteRow
<1>6. RowsOnDisk'
  BY <1>1, <1>2, <1>4, <1>5 DEF RowsOnDisk, BenchInv, UsageOf
<1>. QED
  BY <1>1, <1>4, <1>5, <1>6 DEF BenchInv

\* Closing the file adds nothing: there is nothing that was not flushed.
LEMMA CloseKeeps ==
    ASSUME BenchInv, NEW how \in {"done", "failed"}, Close(how),
           how = "done" => at = "loop" /\ i > runs
    PROVE  BenchInv'
<1>1. disk' = disk /\ buffer' = <<>> /\ at' = how /\ UNCHANGED <<runs, i, returned, usage, ended>>
  BY DEF Close, BenchInv
<1>2. how = "done" => Len(disk) = runs
  BY DEF BenchInv
<1>3. RowsOnDisk'
  BY <1>1, <1>2 DEF RowsOnDisk, BenchInv
<1>. QED
  BY <1>1, <1>3 DEF BenchInv

\* Every step keeps the rows on disk in line with the runs that ended.
LEMMA BenchStep == BenchInv /\ [BenchNext]_benchVars => BenchInv'
<1>. SUFFICES ASSUME BenchInv, [BenchNext]_benchVars PROVE BenchInv'
  OBVIOUS
<1>1. CASE MakeTimeFile
  BY <1>1 DEF MakeTimeFile, BenchInv, RowsOnDisk
<1>2. CASE ParseTimeFile
  BY <1>2 DEF ParseTimeFile, Usage, UsageOf, BenchInv, RowsOnDisk
<1>3. CASE PowerMissing \/ AllDone \/ Raises
  BY <1>3, CloseKeeps DEF PowerMissing, AllDone, Raises
<1>4. CASE Killed
  BY <1>4 DEF Killed, BenchInv, RowsOnDisk
<1>5. CASE UNCHANGED benchVars
  BY <1>5 DEF benchVars, BenchInv, RowsOnDisk, UsageOf
<1>. QED
  BY <1>1, <1>2, <1>3, <1>4, <1>5, RunKeeps, WriteKeeps DEF BenchNext

\* Whatever stops the benchmark, every run that ended before the one at work
\* has its own row in the file, for any number of runs.
THEOREM MeasuredIsOnDisk == BenchSpec => []RowsOnDisk
<1>1. BenchInv => RowsOnDisk
  BY DEF BenchInv
<1>. QED
  BY <1>1, BenchStart, BenchStep, PTL DEF BenchSpec
-----------------------------------------------------------------------------
ScriptRow == [run : Nat, ok : BOOLEAN]
How == {"ok", "failed", "no code"}

\* The rows up to now: one for each turn that is over, in order.
RowsInv ==
    /\ clients \in Nat
    /\ turn \in 1 .. clients + 1
    /\ results \in Seq(ScriptRow) /\ Len(results) = turn - 1
    /\ outcome \in Seq(How) /\ Len(outcome) = turn - 1
    /\ \A n \in 1 .. turn - 1 : results[n].run = n /\ (results[n].ok => outcome[n] = "ok")

\* The file has the first rows of this run.
Partial == \E n \in 0 .. clients : csv = Rows(SubSeq(results, 1, n))

\* What is in the file at each point of the script.
FileInv ==
    /\ raised \in BOOLEAN
    /\ pc \in {"project", "workdir", "start", "server"} => turn = 1
    /\ pc \in {"pin", "setup", "run"} => turn <= clients
    /\ pc \in {"open", "write"} => turn = clients + 1
    /\ pc \in {"project", "workdir", "start", "server", "pin", "setup", "run", "open"} => csv = Before
    /\ pc = "write" => csv = Rows(<<>>)
    /\ csv = Before \/ (turn = clients + 1 /\ Partial)
    /\ pc \in {"stop server", "stop net"} /\ ~raised => csv = Rows(results)
    /\ pc = "done" => csv = Rows(results)

CsvInv == RowsInv /\ FileInv

\* The rows that an interrupted write leaves are the first ones.
LEMMA FirstRows ==
    ASSUME RowsInv, turn = clients + 1, NEW n \in 0 .. clients
    PROVE  LET rows == SubSeq(results, 1, n)
           IN  rows \in Seq(ScriptRow) /\ Len(rows) = n /\ IsPrefix(rows, results)
<1>. DEFINE rows == SubSeq(results, 1, n)
<1>1. results \in Seq(ScriptRow) /\ Len(results) = clients /\ n \in Nat /\ n <= clients
  BY DEF RowsInv
<1>2. rows \in Seq(ScriptRow) /\ Len(rows) = n /\ \A m \in 1 .. n : rows[m] = results[m]
  BY <1>1
<1>3. SubSeq(rows, 1, Len(rows)) = SubSeq(results, 1, Len(rows))
  BY <1>1, <1>2
<1>. QED
  BY <1>1, <1>2, <1>3 DEF IsPrefix

\* All clients had their turn: the rows are those of the whole run.
LEMMA AllRows ==
    ASSUME RowsInv, turn = clients + 1
    PROVE  clients \in 0 .. clients /\ SubSeq(results, 1, clients) = results
           /\ 0 \in 0 .. clients /\ SubSeq(results, 1, 0) = <<>>
  BY DEF RowsInv

\* A script that has no rows yet.
LEMMA CsvStart == ScriptInit => CsvInv
<1>. SUFFICES ASSUME ScriptInit PROVE CsvInv
  OBVIOUS
<1>1. /\ clients \in Nat /\ turn = 1 /\ pc = "project" /\ raised = FALSE
      /\ outcome = <<>> /\ results = <<>> /\ csv = Before
  BY ScriptsAssumption DEF ScriptInit
<1>2. RowsInv
  BY <1>1 DEF RowsInv
<1>3. FileInv
  BY <1>1 DEF FileInv
<1>. QED
  BY <1>2, <1>3 DEF CsvInv

\* A turn that is over adds its row and its outcome.
LEMMA TurnKeeps ==
    ASSUME CsvInv, pc = "run", NEW how \in How, NEW ok \in BOOLEAN,
           ok => how = "ok", NextTurn(how, [run |-> turn, ok |-> ok])
    PROVE  CsvInv'
<1>. DEFINE row == [run |-> turn, ok |-> ok]
<1>1. /\ turn \in Nat \ {0} /\ turn <= clients /\ clients \in Nat
      /\ results \in Seq(ScriptRow) /\ Len(results) = turn - 1
      /\ outcome \in Seq(How) /\ Len(outcome) = turn - 1
      /\ csv = Before
  BY DEF CsvInv, RowsInv, FileInv
<1>2. /\ row \in ScriptRow /\ results' = Append(results, row) /\ outcome' = Append(outcome, how)
      /\ turn' = turn + 1 /\ pc' = Serve(turn + 1)
      /\ UNCHANGED <<script, clients, raised, csv>>
  BY <1>1 DEF NextTurn, ScriptRow
<1>3. /\ results' \in Seq(ScriptRow) /\ Len(results') = turn /\ results'[turn] = row
      /\ \A n \in 1 .. turn - 1 : results'[n] = results[n]
      /\ outcome' \in Seq(How) /\ Len(outcome') = turn /\ outcome'[turn] = how
      /\ \A n \in 1 .. turn - 1 : outcome'[n] = outcome[n]
  BY <1>1, <1>2
<1>4. RowsInv'
  <2>1. \A n \in 1 .. turn : results'[n].run = n /\ (results'[n].ok => outcome'[n] = "ok")
    <3>. SUFFICES ASSUME NEW n \in 1 .. turn
                  PROVE  results'[n].run = n /\ (results'[n].ok => outcome'[n] = "ok")
      OBVIOUS
    <3>1. CASE n = turn
      BY <1>3, <3>1
    <3>2. CASE n \in 1 .. turn - 1
      BY <1>3, <3>2 DEF CsvInv, RowsInv
    <3>. QED
      BY <1>1, <3>1, <3>2
  <2>. QED
    BY <1>1, <1>2, <1>3, <2>1 DEF RowsInv
<1>5. \/ turn + 1 > clients /\ pc' = "open"
      \/ turn + 1 <= clients /\ pc' \in {"pin", "run"}
  BY <1>1, <1>2 DEF Serve
<1>6. FileInv'
  <2>1. /\ turn' = turn + 1 /\ UNCHANGED <<clients, raised, csv>>
        /\ turn' > clients => turn' = clients + 1
    BY <1>1, <1>2
  <2>2. raised \in BOOLEAN
    BY DEF CsvInv, FileInv
  <2>. QED
    BY <1>1, <1>5, <2>1, <2>2 DEF FileInv
<1>. QED
  BY <1>4, <1>6 DEF CsvInv

\* Every step keeps rows and file.
LEMMA CsvStep == CsvInv /\ [ScriptNext]_scriptVars => CsvInv'
<1>. SUFFICES ASSUME CsvInv, [ScriptNext]_scriptVars PROVE CsvInv'
  OBVIOUS
<1>0. /\ RowsInv /\ FileInv /\ clients \in Nat
      /\ UNCHANGED <<clients, turn, results, outcome>> => RowsInv'
  BY DEF CsvInv, RowsInv
<1>1. CASE PrepareProject \/ PrepareWorkdir \/ PreparationFails \/ StartNet
  BY <1>0, <1>1 DEF PrepareProject, PrepareWorkdir, PreparationFails, StartNet, FileInv, Partial, CsvInv
<1>2. CASE StartServer
  BY <1>0, <1>2 DEF StartServer, Serve, FileInv, Partial, CsvInv
<1>3. CASE PinClient \/ SetupClient \/ CommandFails
  BY <1>0, <1>3 DEF PinClient, SetupClient, CommandFails, FileInv, Partial, CsvInv
<1>4. CASE SessionSucceeds
  BY <1>4, TurnKeeps DEF SessionSucceeds, Understood, How
<1>5. CASE SessionFails
  BY <1>5, TurnKeeps DEF SessionFails, How
<1>6. CASE OpenCsv
  <2>1. /\ pc = "open" /\ csv' = Rows(<<>>) /\ turn = clients + 1
        /\ UNCHANGED <<clients, turn, results, outcome>>
        /\ \/ raised' = TRUE /\ pc' = "stop server"
           \/ raised' = raised /\ pc' = "write"
    BY <1>0, <1>6 DEF OpenCsv, FileInv
  <2>. QED
    BY <1>0, <2>1, AllRows DEF FileInv, CsvInv, Partial
<1>7. CASE WriteCsv
  <2>1. /\ pc = "write" /\ csv' = Rows(results) /\ turn = clients + 1 /\ pc' = "stop server"
        /\ UNCHANGED <<clients, turn, results, outcome, raised>>
    BY <1>0, <1>7 DEF WriteCsv, FileInv
  <2>. QED
    BY <1>0, <2>1, AllRows DEF FileInv, CsvInv, Partial
<1>8. CASE Interrupt
  <2>1. /\ raised' = TRUE /\ pc' = "stop server" /\ UNCHANGED <<clients, turn, results, outcome>>
    BY <1>8 DEF Interrupt
  <2>2. CASE pc = "write"
    <3>1. turn = clients + 1 /\ Len(results) = clients
      BY <1>0, <2>2 DEF FileInv, RowsInv
    <3>2. \E n \in 0 .. clients : csv' = Rows(SubSeq(results, 1, n))
      BY <1>8, <2>2, <3>1 DEF Interrupt
    <3>3. Partial'
      BY <2>1, <3>2 DEF Partial
    <3>. QED
      BY <1>0, <2>1, <3>1, <3>3 DEF FileInv, CsvInv
  <2>3. CASE pc # "write"
    <3>1. csv' = csv
      BY <1>8, <2>3 DEF Interrupt
    <3>. QED
      BY <1>0, <2>1, <3>1 DEF FileInv, CsvInv, Partial
  <2>. QED
    BY <2>2, <2>3
<1>9. CASE ServerEnds \/ StopServer \/ StopNet \/ UNCHANGED scriptVars
  BY <1>0, <1>9 DEF ServerEnds, StopServer, StopNet, scriptVars, FileInv, Partial, CsvInv
<1>. QED
  BY <1>1, <1>2, <1>3, <1>4, <1>5, <1>6, <1>7, <1>8, <1>9 DEF ScriptNext, Proceed

\* The CSV file of an earlier run is replaced only when every client has had
\* its turn, by rows of this run in their order, all of them if the script ends
\* well, and no row claims a success that was none: for any number of clients
\* and whatever is interrupted.
THEOREM CsvFollowsTheRun == ScriptSpec => []CsvWhole
<1>1. CsvInv => CsvWhole
  <2>. SUFFICES ASSUME CsvInv PROVE CsvWhole
    OBVIOUS
  <2>1. RowsInv /\ FileInv /\ clients \in Nat
    BY DEF CsvInv, RowsInv
  <2>2. csv.new => turn = clients + 1 /\ IsPrefix(csv.rows, results)
    <3>. SUFFICES ASSUME csv.new PROVE turn = clients + 1 /\ IsPrefix(csv.rows, results)
      OBVIOUS
    <3>0. csv # Before
      BY DEF Before
    <3>1. turn = clients + 1 /\ Partial
      BY <2>1, <3>0 DEF FileInv
    <3>2. PICK n \in 0 .. clients : csv = Rows(SubSeq(results, 1, n))
      BY <3>1 DEF Partial
    <3>3. csv.rows = SubSeq(results, 1, n)
      BY <3>2 DEF Rows
    <3>. QED
      BY <2>1, <3>1, <3>3, FirstRows
  <2>3. pc = "done" => csv.new /\ Len(csv.rows) = clients
    <3>. SUFFICES ASSUME pc = "done" PROVE csv.new /\ Len(csv.rows) = clients
      OBVIOUS
    <3>1. csv = Rows(results) /\ csv.new /\ csv.rows = results
      BY <2>1 DEF FileInv, Rows
    <3>. QED
      BY <2>1, <2>2, <3>1 DEF RowsInv
  <2>4. \A n \in DOMAIN results : results[n].run = n /\ (results[n].ok => outcome[n] = "ok")
    BY <2>1 DEF RowsInv
  <2>. QED
    BY <2>2, <2>3, <2>4 DEF CsvWhole
<1>. QED
  BY <1>1, CsvStart, CsvStep, PTL DEF ScriptSpec
=============================================================================

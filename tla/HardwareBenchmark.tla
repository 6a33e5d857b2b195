------------------------- MODULE HardwareBenchmark -------------------------
(***************************************************************************)
(* hardware_resource_benchmark.py: a command is run some times under       *)
(* /usr/bin/time, and each run becomes a row of the CSV file.              *)
(*                                                                         *)
(* A row is its number and its return code; the text that time writes for  *)
(* a run is named by the run, and "" is no text, which is read as zeros.   *)
(***************************************************************************)
EXTENDS Integers, Sequences

CONSTANT RunCounts          \* values of --runs

ASSUME BenchmarkAssumption == RunCounts \subseteq Nat

VARIABLES
    runs, power,            \* --runs, and whether the power options are complete
    at,                     \* where the program is
    i,                      \* the run
    timeFile, left,         \* the run's time file, and runs whose file was left behind
    returned,               \* proc.returncode
    usage,                  \* what was read from the time file
    buffer, disk,           \* rows written and not flushed, rows in the file
    ended                   \* history: the runs that ended, with their return codes

benchVars == <<runs, power, at, i, timeFile, left, returned, usage, buffer, disk, ended>>

BenchInit ==
    /\ runs \in RunCounts /\ power \in BOOLEAN
    /\ at = "loop" /\ i = 1
    /\ timeFile = "none" /\ left = {}
    /\ returned = 0 /\ usage = <<>>
    /\ buffer = <<>> /\ disk = <<>> /\ ended = <<>>

\* Each run has a time file of its own, which is empty.
MakeTimeFile ==
    /\ at = "loop" /\ i <= runs
    /\ timeFile' = "empty"
    /\ at' = "run"
    /\ UNCHANGED <<runs, power, i, left, returned, usage, buffer, disk, ended>>

\* The command ends, and time has written its file, or was killed before.
RunCommand ==
    /\ at = "run"
    /\ \E rc \in {0, 1} :
        /\ returned' = rc
        /\ \/ timeFile' = "written" /\ ended' = Append(ended, [rc |-> rc, measured |-> TRUE])
           \/ /\ rc # 0 /\ timeFile' = timeFile
              /\ ended' = Append(ended, [rc |-> rc, measured |-> FALSE])
    /\ at' = "parse"
    /\ UNCHANGED <<runs, power, i, left, usage, buffer, disk>>

\* parse_time_file: of a file without the lines it looks for, zeros.
Usage == IF timeFile = "written" THEN <<i>> ELSE <<>>

\* The time file is read and removed; a failure to do so is ignored.
ParseTimeFile ==
    /\ at = "parse"
    /\ usage' = Usage
    /\ timeFile' = "none"
    /\ left' \in {left, left \cup {i}}
    /\ at' = "row"
    /\ UNCHANGED <<runs, power, i, returned, buffer, disk, ended>>

Row == [run |-> i, rc |-> returned, usage |-> usage]

\* Faulty variant of WriteRow: the row is not flushed.
WriteRowBuffered ==
    /\ at = "row" /\ power
    /\ buffer' = Append(buffer, Row)
    /\ i' = i + 1
    /\ at' = "loop"
    /\ UNCHANGED <<runs, power, timeFile, left, returned, usage, disk, ended>>

\* The row is written and flushed.
WriteRow ==
    /\ at = "row" /\ power
    /\ disk' = disk \o buffer \o <<Row>>
    /\ buffer' = <<>>
    /\ i' = i + 1
    /\ at' = "loop"
    /\ UNCHANGED <<runs, power, timeFile, left, returned, usage, ended>>

\* The file is closed, with what was not flushed.
Close(outcome) ==
    /\ at' = outcome
    /\ disk' = disk \o buffer /\ buffer' = <<>>
    /\ UNCHANGED <<runs, power, i, returned, usage, ended>>

\* --fixed-power-watts is missing, which is noticed after the first run.
PowerMissing ==
    /\ at = "row" /\ ~power
    /\ Close("failed")
    /\ UNCHANGED <<timeFile, left>>

AllDone ==
    /\ at = "loop" /\ i > runs
    /\ Close("done")
    /\ UNCHANGED <<timeFile, left>>

\* Control-C, or no /usr/bin/time: nobody removes the time file.
Raises ==
    /\ at \in {"loop", "run", "parse", "row"}
    /\ left' = IF timeFile = "none" THEN left ELSE left \cup {i}
    /\ timeFile' = "none"
    /\ Close("failed")

\* The program is killed, or the device loses its power.
Killed ==
    /\ at \in {"loop", "run", "parse", "row"}
    /\ at' = "killed"
    /\ buffer' = <<>>
    /\ left' = IF timeFile = "none" THEN left ELSE left \cup {i}
    /\ UNCHANGED <<runs, power, i, timeFile, returned, usage, disk, ended>>

BenchNext ==
    \/ MakeTimeFile \/ RunCommand \/ ParseTimeFile \/ WriteRow
    \/ PowerMissing \/ AllDone \/ Raises \/ Killed

BenchSpec == BenchInit /\ [][BenchNext]_benchVars
-----------------------------------------------------------------------------
\* Every run that is over but the one at work has its row in the file, in
\* order, with its own return code and its own usage, whatever stopped the
\* program; no other row is there.
RowsOnDisk ==
    /\ Len(ended) - Len(disk) \in {0, 1}
    /\ at = "done" => Len(disk) = runs
    /\ \A n \in DOMAIN disk :
        disk[n] = [run |-> n, rc |-> ended[n].rc,
                   usage |-> IF ended[n].measured THEN <<n>> ELSE <<>>]
=============================================================================

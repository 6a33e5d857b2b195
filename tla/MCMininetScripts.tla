--------------------------- MODULE MCMininetScripts ---------------------------
(* The programs that run by themselves and share nothing: one of them runs. *)
EXTENDS MininetScripts, HardwareBenchmark

VARIABLE program

MCInit == program \in {"script", "benchmark"} /\ ScriptInit /\ BenchInit

ScriptStep == program = "script" /\ ScriptNext /\ UNCHANGED <<program, benchVars>>
BenchStep == program = "benchmark" /\ BenchNext /\ UNCHANGED <<program, scriptVars>>

\* A script runs on; each wait of its own and of its clients has a timeout.
MCSpec ==
    /\ MCInit
    /\ [][ScriptStep \/ BenchStep]_<<program, scriptVars, benchVars>>
    /\ WF_<<program, scriptVars, benchVars>>(ScriptStep /\ Proceed)

\* What ScriptEnds says, of a behaviour in which a script runs.
ScriptRunEnds == program = "script" => ScriptEnds
=============================================================================

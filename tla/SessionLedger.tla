---------------------------- MODULE SessionLedger ----------------------------
(***************************************************************************)
(* What a measurement of sessions promises: each session that the server   *)
(* recorded is booked at most once, never under a step of the experiment   *)
(* that came before it, and what is booked stays booked.                   *)
(*                                                                         *)
(* It does not promise that every session is booked: a line that is late   *)
(* is booked under a later step, one that never comes not at all.          *)
(***************************************************************************)
EXTENDS Integers

CONSTANT Session          \* sessions; each has a field step
VARIABLES recorded,       \* the sessions that the server recorded
          booked          \* bookings: [session, step]

ledger == <<recorded, booked>>

Sessions(bookings) == {b.session : b \in bookings}

LedgerInit == recorded = {} /\ booked = {}

\* The server records more sessions.
Record ==
    /\ recorded \subseteq recorded' /\ recorded' \subseteq Session
    /\ UNCHANGED booked

\* Recorded sessions that were not booked before are booked, under one step.
Book ==
    LET new == booked' \ booked
    IN  /\ booked \subseteq booked'
        /\ \A b \in new : b.session \in recorded \ Sessions(booked) /\ b.session.step <= b.step
        /\ \A b, c \in new : b.step = c.step /\ (b.session = c.session => b = c)
        /\ UNCHANGED recorded

\* The server stops; sessions that nobody has booked are lost.
Lose ==
    /\ recorded' \subseteq recorded
    /\ Sessions(booked) \subseteq recorded'
    /\ UNCHANGED booked

\* The next experiment, with a ledger of its own.
NextExperiment == recorded' = {} /\ booked' = {}

LedgerNext == Record \/ Book \/ Lose \/ NextExperiment

LedgerSpec == LedgerInit /\ [][LedgerNext]_ledger
=============================================================================

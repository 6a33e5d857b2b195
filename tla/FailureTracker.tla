--------------------------- MODULE FailureTracker ---------------------------
(***************************************************************************)
(* FailureTracker of zkarche_server.rs: how many requests of each peer     *)
(* failed since the first failure of its window, and until when the peer   *)
(* is blocked.  One action per method, each a critical section under the   *)
(* tracker's mutex.  Connections says when handle_client calls them.       *)
(*                                                                         *)
(* Instants are kept as distances from now: the age of the first failure   *)
(* and the time a block has left.  Ticks make them grow and shrink, and    *)
(* any number of calls may fall within one tick.                           *)
(***************************************************************************)
EXTENDS Naturals, Sequences, FiniteSets

CONSTANTS
    Peer,         \* peer keys: the IP addresses of clients
    Window,       \* FAILURE_WINDOW, in ticks
    Ban,          \* FAILURE_BAN, in ticks
    MaxFailures   \* MAX_FAILURES_PER_WINDOW

ASSUME TrackerAssumption ==
    /\ Window \in Nat
    /\ Ban \in Nat
    /\ Window < Ban
    /\ MaxFailures \in Nat \ {0, 1}

VARIABLES
    peers,     \* the tracker's table
    recent,    \* history: ages of the failures noted since the last success
               \* of each peer, oldest first, those no older than Window
    sinceBan   \* history: time since note_failure last blocked each peer

trackerVars == <<peers, recent, sinceBan>>

\* The count matters only up to MaxFailures, and the age only up to Window + 1:
\* both stop there.  A failure count of 0 is a peer with no entry.
FailureState == [age : 0 .. Window + 1, failures : 0 .. MaxFailures, ban : 0 .. Ban]
NoEntry == [age |-> 0, failures |-> 0, ban |-> 0]

LongAgo == Ban
Burst == 2 * MaxFailures - 1
AtMost(n, bound) == IF n > bound THEN bound ELSE n

Blocked(p) == peers[p].ban > 0

\* Faulty variant of Pruned: only blocked peers are kept.
PrunedToBlocked(table) ==
    [p \in Peer |-> IF table[p].ban > 0 THEN table[p] ELSE NoEntry]

\* is_blocked forgets the peers whose window and block are over.
Pruned(table) ==
    [p \in Peer |->
        IF table[p].ban > 0 \/ table[p].age <= Window THEN table[p] ELSE NoEntry]

\* Faulty variants of AfterFailure: the window never ends, or it starts again
\* with each failure.
AfterFailureNoWindow(e) ==
    LET count == AtMost(e.failures + 1, MaxFailures)
    IN  [e EXCEPT !.failures = count, !.ban = IF count >= MaxFailures THEN Ban ELSE @]

AfterFailureSlides(e) ==
    LET fresh == e.failures = 0 \/ e.age > Window
        count == AtMost(IF fresh THEN 1 ELSE e.failures + 1, MaxFailures)
    IN  [age |-> 0,
         failures |-> count,
         ban |-> CASE count >= MaxFailures -> Ban
                   [] count < MaxFailures /\ fresh -> 0
                   [] OTHER -> e.ban]

\* note_failure on a peer's entry
AfterFailure(e) ==
    LET fresh == e.failures = 0 \/ e.age > Window
        count == AtMost(IF fresh THEN 1 ELSE e.failures + 1, MaxFailures)
    IN  [age |-> IF fresh THEN 0 ELSE e.age,
         failures |-> count,
         ban |-> CASE count >= MaxFailures -> Ban
                   [] count < MaxFailures /\ fresh -> 0
                   [] OTHER -> e.ban]

Older(e) ==
    IF e = NoEntry THEN e
    ELSE [e EXCEPT !.age = AtMost(@ + 1, Window + 1), !.ban = IF @ > 0 THEN @ - 1 ELSE 0]

\* The latest failures, at most Burst of them.
Noted(ages) == LET all == Append(ages, 0)
               IN  IF Len(all) > Burst THEN Tail(all) ELSE all

\* Ages grow; the oldest, which come first, are dropped when they exceed Window.
Aged(ages) == LET old == Cardinality({i \in DOMAIN ages : ages[i] >= Window})
              IN  [i \in 1 .. Len(ages) - old |-> ages[old + i] + 1]
-----------------------------------------------------------------------------
TrackerInit ==
    /\ peers = [p \in Peer |-> NoEntry]
    /\ recent = [p \in Peer |-> << >>]
    /\ sinceBan = [p \in Peer |-> LongAgo]

CheckBlocked ==
    /\ peers' = Pruned(peers)
    /\ UNCHANGED <<recent, sinceBan>>

NoteFailure(p) ==
    /\ peers' = [peers EXCEPT ![p] = AfterFailure(@)]
    /\ recent' = [recent EXCEPT ![p] = Noted(@)]
    /\ sinceBan' = [sinceBan EXCEPT ![p] =
                        IF peers'[p].failures >= MaxFailures THEN 0 ELSE @]

NoteSuccess(p) ==
    /\ peers' = [peers EXCEPT ![p] = NoEntry]
    /\ recent' = [recent EXCEPT ![p] = << >>]
    /\ sinceBan' = [sinceBan EXCEPT ![p] = LongAgo]

Tick ==
    /\ peers' = [p \in Peer |-> Older(peers[p])]
    /\ recent' = [p \in Peer |-> Aged(recent[p])]
    /\ sinceBan' = [p \in Peer |-> AtMost(sinceBan[p] + 1, LongAgo)]

TrackerNext ==
    \/ CheckBlocked
    \/ \E p \in Peer : NoteFailure(p) \/ NoteSuccess(p)
    \/ Tick

TrackerSpec == TrackerInit /\ [][TrackerNext]_trackerVars
-----------------------------------------------------------------------------
\* A peer is blocked, or blocked for longer, only when MAX_FAILURES_PER_WINDOW
\* of its requests failed within FAILURE_WINDOW with no success in between:
\* failures spread over more than one window never add up.
BanEarned ==
    [][\A p \in Peer : peers'[p].ban > peers[p].ban => Len(recent'[p]) >= MaxFailures]_trackerVars

\* The window is a tumbling one, so MAX_FAILURES_PER_WINDOW failures within a
\* window may go unpunished when they straddle two of them; twice that number
\* less one never do, whatever checks of other peers prune in between.
FloodBanned == \A p \in Peer : Len(recent[p]) = Burst => sinceBan[p] <= Window

\* Blocks are temporary, even for a peer that keeps failing.
BlocksEnd == \A p \in Peer : Blocked(p) ~> ~Blocked(p)
=============================================================================

---------------------------- MODULE Connections ----------------------------
(***************************************************************************)
(* The accept loop of zkarche_server and the threads running               *)
(* handle_client: the limit on active connections, kept by a counter that  *)
(* ActiveConnGuard raises with a compare-and-swap and lowers on drop, and  *)
(* the calls to the FailureTracker around each request.                    *)
(*                                                                         *)
(* What a request does is left open here (ReplayServer and Enrollment say  *)
(* it): it succeeds or fails.  ZKARCHE_BENCH_MODE, which turns the tracker *)
(* off, is not set.                                                        *)
(***************************************************************************)
EXTENDS FailureTracker

CONSTANTS
    Conn,       \* threads that may serve a connection
    MaxActive   \* MAX_ACTIVE_CONNECTIONS

ASSUME ConnectionsAssumption ==
    /\ IsFiniteSet(Conn)
    /\ MaxActive \in Nat \ {0}
    /\ "none" \notin Peer

VARIABLES
    acceptor,   \* where the main thread is
    incoming,   \* the peer it has accepted a stream from
    current,    \* the value it loaded from the counter
    active,     \* the counter
    pc, from,   \* where each connection thread is, and its peer
    failedSetups  \* history: ages, up to Window, of the failures noted of
                  \* setups that is_blocked had let through, per peer

mainVars == <<acceptor, incoming, current>>
connVars == <<pc, from>>
vars == <<trackerVars, mainVars, active, connVars, failedSetups>>

\* The threads holding an ActiveConnGuard.
Live == {c \in Conn : pc[c] # "idle"}
-----------------------------------------------------------------------------
Init ==
    /\ TrackerInit
    /\ acceptor = "accept"
    /\ incoming = "none"
    /\ current = 0
    /\ active = 0
    /\ pc = [c \in Conn |-> "idle"]
    /\ from = [c \in Conn |-> "none"]
    /\ failedSetups = [p \in Peer |-> << >>]

Accept(p) ==
    /\ acceptor = "accept"
    /\ acceptor' = "load"
    /\ incoming' = p
    /\ UNCHANGED <<trackerVars, current, active, connVars, failedSetups>>

\* accept returns an error: main returns it, and the process ends.
AcceptFails ==
    /\ acceptor = "accept"
    /\ acceptor' = "exited"
    /\ active' = 0
    /\ pc' = [c \in Conn |-> "idle"]
    /\ from' = [c \in Conn |-> "none"]
    /\ UNCHANGED <<trackerVars, incoming, current, failedSetups>>

\* try_acquire: load the counter and give up at the limit, ...
LoadFull ==
    /\ acceptor = "load"
    /\ active >= MaxActive
    /\ acceptor' = "accept"
    /\ current' = active
    /\ incoming' = "none"
    /\ UNCHANGED <<trackerVars, active, connVars, failedSetups>>

\* Faulty variant of LoadBelow: one connection too many.
LoadAtLimit ==
    /\ acceptor = "load"
    /\ active <= MaxActive
    /\ acceptor' = "swap"
    /\ current' = active
    /\ UNCHANGED <<trackerVars, incoming, active, connVars, failedSetups>>

LoadBelow ==
    /\ acceptor = "load"
    /\ active < MaxActive
    /\ acceptor' = "swap"
    /\ current' = active
    /\ UNCHANGED <<trackerVars, incoming, active, connVars, failedSetups>>

\* Faulty variant of Swap: stores without comparing.
SwapBlind(c) ==
    /\ acceptor = "swap"
    /\ pc[c] = "idle"
    /\ active' = current + 1
    /\ pc' = [pc EXCEPT ![c] = "read"]
    /\ from' = [from EXCEPT ![c] = incoming]
    /\ acceptor' = "accept"
    /\ incoming' = "none"
    /\ UNCHANGED <<trackerVars, current, failedSetups>>

\* ... raise it if it is still what was loaded, and spawn the thread, ...
Swap(c) ==
    /\ acceptor = "swap"
    /\ active = current
    /\ pc[c] = "idle"
    /\ active' = current + 1
    /\ pc' = [pc EXCEPT ![c] = "read"]
    /\ from' = [from EXCEPT ![c] = incoming]
    /\ acceptor' = "accept"
    /\ incoming' = "none"
    /\ UNCHANGED <<trackerVars, current, failedSetups>>

\* ... or start again: a thread has ended in between.
SwapFails ==
    /\ acceptor = "swap"
    /\ active # current
    /\ acceptor' = "load"
    /\ UNCHANGED <<trackerVars, incoming, current, active, connVars, failedSetups>>

GoTo(c, loc) == pc' = [pc EXCEPT ![c] = loc]

\* Setting a socket option or reading the message type fails, or the peer
\* sends nothing for IO_TIMEOUT: handle_client returns and notes nothing.
ReadFails(c) ==
    /\ pc[c] = "read"
    /\ GoTo(c, "drop")
    /\ UNCHANGED <<trackerVars, mainVars, active, from, failedSetups>>

\* Faulty variant of DispatchSetup: the block is not enforced.
DispatchSetupAnyway(c) ==
    /\ pc[c] = "read"
    /\ CheckBlocked
    /\ GoTo(c, "setup")
    /\ UNCHANGED <<mainVars, active, from, failedSetups>>

\* MSG_SETUP: handle_setup asks is_blocked before it does anything else.
DispatchSetup(c) ==
    /\ pc[c] = "read"
    /\ CheckBlocked
    /\ GoTo(c, IF peers'[from[c]].ban > 0 THEN "failed" ELSE "setup")
    /\ UNCHANGED <<mainVars, active, from, failedSetups>>

\* MSG_AUTH_V2 and MSG_AUTH_V3 are served whether or not the peer is blocked.
DispatchAuth(c) ==
    /\ pc[c] = "read"
    /\ GoTo(c, "auth")
    /\ UNCHANGED <<trackerVars, mainVars, active, from, failedSetups>>

DispatchUnknown(c) ==
    /\ pc[c] = "read"
    /\ GoTo(c, "failed")
    /\ UNCHANGED <<trackerVars, mainVars, active, from, failedSetups>>

\* The handler returns Ok, or an error: a refusal, or IO_TIMEOUT.
SetupReturns(c) ==
    /\ pc[c] = "setup"
    /\ \E result \in {"succeeded", "setupFailed"} : GoTo(c, result)
    /\ UNCHANGED <<trackerVars, mainVars, active, from, failedSetups>>

AuthReturns(c) ==
    /\ pc[c] = "auth"
    /\ \E result \in {"succeeded", "failed"} : GoTo(c, result)
    /\ UNCHANGED <<trackerVars, mainVars, active, from, failedSetups>>

Succeeded(c) ==
    /\ pc[c] = "succeeded"
    /\ NoteSuccess(from[c])
    /\ failedSetups' = [failedSetups EXCEPT ![from[c]] = << >>]
    /\ GoTo(c, "drop")
    /\ UNCHANGED <<mainVars, active, from>>

\* Faulty variant of Failed: the thread reads on, for the client to try again.
FailedReadsOn(c) ==
    /\ pc[c] \in {"failed", "setupFailed"}
    /\ NoteFailure(from[c])
    /\ failedSetups' = IF pc[c] = "setupFailed"
                       THEN [failedSetups EXCEPT ![from[c]] = Append(@, 0)]
                       ELSE failedSetups
    /\ GoTo(c, "read")
    /\ UNCHANGED <<mainVars, active, from>>

Failed(c) ==
    /\ pc[c] \in {"failed", "setupFailed"}
    /\ NoteFailure(from[c])
    /\ failedSetups' = IF pc[c] = "setupFailed"
                       THEN [failedSetups EXCEPT ![from[c]] = Append(@, 0)]
                       ELSE failedSetups
    /\ GoTo(c, "drop")
    /\ UNCHANGED <<mainVars, active, from>>

\* The guard is dropped when handle_client returns.
Drop(c) ==
    /\ pc[c] = "drop"
    /\ active' = active - 1
    /\ GoTo(c, "idle")
    /\ from' = [from EXCEPT ![c] = "none"]
    /\ UNCHANGED <<trackerVars, mainVars, failedSetups>>

Handle(c) ==
    \/ ReadFails(c) \/ DispatchSetup(c) \/ DispatchAuth(c) \/ DispatchUnknown(c)
    \/ SetupReturns(c) \/ AuthReturns(c) \/ Succeeded(c) \/ Failed(c) \/ Drop(c)

TryAcquire ==
    LoadFull \/ LoadBelow \/ SwapFails \/ \E c \in Conn : Swap(c)

TimePasses ==
    /\ Tick
    /\ failedSetups' = [p \in Peer |-> Aged(failedSetups[p])]
    /\ UNCHANGED <<mainVars, active, connVars>>

Next ==
    \/ \E p \in Peer : Accept(p)
    \/ AcceptFails
    \/ TryAcquire
    \/ \E c \in Conn : Handle(c)
    \/ TimePasses

Spec == Init /\ [][Next]_vars

\* The threads are scheduled, IO_TIMEOUT ends every wait for a client, and time
\* passes.
FairSpec ==
    /\ Spec
    /\ WF_vars(TryAcquire)
    /\ \A c \in Conn : WF_vars(Handle(c))
    /\ WF_vars(TimePasses)
-----------------------------------------------------------------------------
\* The limit holds for the connections themselves: never more than
\* MAX_ACTIVE_CONNECTIONS threads run, whatever races with the counter, ...
ActiveBounded == Cardinality(Live) <= MaxActive

\* ... and no slot leaks: the counter is the number of threads, on every way
\* out of handle_client.
NoSlotLeaks == active = Cardinality(Live)

\* What the limiter allows in the end.  is_blocked is asked when a setup
\* starts and the failure is noted when it is over, so setups served in
\* parallel all get through before the first of them counts; and failures in
\* any stretch of FAILURE_WINDOW may belong to two windows.  Still the failing
\* setups of a peer served in such a stretch are no more than what two windows
\* tolerate and what was in flight when each of them reached its limit.  That
\* FAILURE_BAN is longer than FAILURE_WINDOW is what makes it so.
FailedSetupsBounded ==
    \A p \in Peer :
        Len(failedSetups[p]) <= 2 * (MaxFailures - 1) + 2 * (MaxActive - 1)

\* Every connection ends, and its slot is given back.
ConnectionsEnd == \A c \in Conn : pc[c] # "idle" ~> pc[c] = "idle"
=============================================================================

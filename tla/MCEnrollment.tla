---------------------------- MODULE MCEnrollment ----------------------------
(***************************************************************************)
(* The instances of Enrollment that TLC checks.  The passing run looks at  *)
(* two kinds of behaviour: setups that overlap, of devices that share      *)
(* neither id nor key, and setups of colliding devices one at a time.      *)
(***************************************************************************)
EXTENDS Enrollment, FiniteSets, TLC

CONSTANTS i1, i2, p1, p2, r1, r2

\* Two devices, each with its own id and key; the first has lost its role
\* credential once and may ask with another commitment.
DistinctDevices ==
    {[id |-> i1, pk |-> p1, role |-> r1, token |-> TRUE],
     [id |-> i1, pk |-> p1, role |-> r2, token |-> TRUE],
     [id |-> i2, pk |-> p2, role |-> r1, token |-> TRUE]}

\* Two devices that were given the same id; a third has no pairing token.
CollidingDevices ==
    {[id |-> i1, pk |-> p1, role |-> r1, token |-> TRUE],
     [id |-> i1, pk |-> p2, role |-> r1, token |-> TRUE],
     [id |-> i2, pk |-> p2, role |-> r2, token |-> FALSE]}

AllDevices == DistinctDevices \cup CollidingDevices

VARIABLE alone   \* one setup at a time

mcVars == <<vars, alone>>

Busy == {t \in Thread : pc[t] # "idle"}
Allowed ==
    /\ alone => Cardinality(Busy) <= 1
    /\ \A t \in Busy : req[t] \in IF alone THEN CollidingDevices ELSE DistinctDevices

MCInit == Init /\ alone \in BOOLEAN
MCNext == UNCHANGED alone /\ Next /\ Allowed'

\* The fairness of FairSpec, which no step of another thread can disable.
MCSpec ==
    /\ MCInit /\ [][MCNext]_mcVars
    /\ \A t \in Thread :
        /\ WF_mcVars(Step(t) /\ UNCHANGED alone)
        /\ SF_mcVars((Commit(t) \/ LookupPasses(t) \/ LookupCollides(t)) /\ UNCHANGED alone)

\* Setups of colliding devices that overlap, for enrolled_rebind.
OverlapSpec == Init /\ alone = FALSE /\ [][Next /\ UNCHANGED alone]_mcVars

\* One setup at a time, a device id is never bound to another key while the
\* registry knows it, whatever fails in between (handle_setup's collision
\* check).  enrolled_rebind shows what overlapping setups do to that.
BindingStableAlone ==
    [][alone => \A i \in Id : Enrolled(reg, i) /\ Enrolled(reg', i)
                                  => reg'[i].pk = reg[i].pk]_mcVars
=============================================================================

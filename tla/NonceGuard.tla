----------------------------- MODULE NonceGuard -----------------------------
(***************************************************************************)
(* What a replay guard promises its callers, with no word about how it     *)
(* stores anything.  A caller presents a key (in ZK-ARCHE the pair (pid,   *)
(* nonce_c) of an authentication payload) and is told whether the key is   *)
(* admitted or refused:                                                    *)
(*   - a key is admitted only if at least Window other keys were admitted  *)
(*     since the last time it was;                                         *)
(*   - a key is refused only if it was admitted before, and fewer than     *)
(*     2 * Window admissions ago.                                          *)
(* A restart may take the guard back to an earlier point of its history:   *)
(* what was admitted after that point is forgotten.                        *)
(***************************************************************************)
EXTENDS Naturals

CONSTANTS
    Key,     \* the keys callers present
    Window   \* how many admissions an admitted key is remembered for

VARIABLES
    hist,    \* hist.count: admissions so far; hist.at[k]: number of k's last one, 0 if none
    verdict  \* the last answer given

guardVars == <<hist, verdict>>

History == [count : Nat, at : [Key -> Nat]]
NoHistory == [count |-> 0, at |-> [k \in Key |-> 0]]

\* Admissions since k was last admitted.
AdmitsSince(h, k) == h.count - h.at[k]

Admitted(h, k) == [count |-> h.count + 1, at |-> [h.at EXCEPT ![k] = h.count + 1]]

\* h1 is what is left of h2 when its latest admissions are forgotten.
Earlier(h1, h2) ==
    /\ h1.count <= h2.count
    /\ \A k \in Key : h1.at[k] <= h2.at[k] /\ h1.at[k] <= h1.count

GuardInit ==
    /\ hist = NoHistory
    /\ verdict = [key |-> "none", admitted |-> FALSE]

GuardAdmit(k) ==
    /\ hist.at[k] = 0 \/ AdmitsSince(hist, k) >= Window
    /\ hist' = Admitted(hist, k)
    /\ verdict' = [key |-> k, admitted |-> TRUE]

GuardRefuse(k) ==
    /\ hist.at[k] > 0 /\ AdmitsSince(hist, k) < 2 * Window
    /\ verdict' = [key |-> k, admitted |-> FALSE]
    /\ UNCHANGED hist

GuardRestart ==
    /\ hist' \in History
    /\ Earlier(hist', hist)
    /\ UNCHANGED verdict

GuardNext ==
    \/ \E k \in Key : GuardAdmit(k) \/ GuardRefuse(k)
    \/ GuardRestart

GuardSpec == GuardInit /\ [][GuardNext]_guardVars
=============================================================================

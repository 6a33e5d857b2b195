---------------------------- MODULE ReplayCache -----------------------------
(***************************************************************************)
(* ReplayCache of zkarche_server.rs: the keys (pid, nonce_c) the server    *)
(* has seen, in two generations of at most REPLAY_GEN_MAX keys each, and   *)
(* the bookkeeping that decides when a snapshot is due to be written.      *)
(*                                                                         *)
(* The cache is a record; each method is an operator on it.  The state     *)
(* machine at the end has one action per critical section the code runs    *)
(* under the cache's mutex, so it is the whole life of the object inside   *)
(* one server process, whatever the threads around it do.  Files, threads  *)
(* and restarts are in ReplayServer.                                       *)
(***************************************************************************)
EXTENDS Naturals, FiniteSets

CONSTANTS
    Key,           \* the values of pid || nonce_c
    GenMax,        \* REPLAY_GEN_MAX
    PersistEvery,  \* REPLAY_PERSIST_EVERY_INSERTS
    BenchMode,     \* ZKARCHE_BENCH_MODE is set: nothing is persisted
    MaxAdmits      \* bound of the model: admissions in one behaviour

ASSUME CacheAssumption ==
    /\ GenMax \in Nat \ {0}
    /\ PersistEvery \in Nat \ {0}
    /\ BenchMode \in BOOLEAN
    /\ MaxAdmits \in Nat

VARIABLES
    cache,    \* the ReplayCache value behind the mutex
    hist,     \* history: which keys were admitted, and when (see NonceGuard)
    saved,    \* history: hist.count when the last snapshot was taken
    verdict   \* history: the last answer of check_and_insert

cacheVars == <<cache, hist, saved, verdict>>

\* age of last_persist: None, under REPLAY_PERSIST_INTERVAL, or older
PersistAge == {"never", "recent", "elapsed"}

CacheRecord == [current : SUBSET Key, previous : SUBSET Key, dirty : BOOLEAN,
                pending : Nat, lastPersist : PersistAge]

Snapshot == [current : SUBSET Key, previous : SUBSET Key]

DefaultCache == [current |-> {}, previous |-> {}, dirty |-> FALSE,
                 pending |-> 0, lastPersist |-> "never"]

Serialize(c) == [current |-> c.current, previous |-> c.previous]

Loaded(s) == [current |-> s.current, previous |-> s.previous, dirty |-> FALSE,
              pending |-> 0, lastPersist |-> "recent"]

\* Faulty variant: the previous generation is not searched.
RememberedCurrentOnly(c) == c.current

Remembered(c) == c.current \cup c.previous

\* Faulty variant of Inserted: a generation is thrown away at the rotation.
InsertedForgets(c, k) ==
    LET full == Cardinality(c.current) >= GenMax
    IN  [c EXCEPT !.current = (IF full THEN {} ELSE @) \cup {k},
                  !.previous = IF full THEN {} ELSE @,
                  !.dirty = TRUE, !.pending = @ + 1]

\* check_and_insert, when it answers true
Inserted(c, k) ==
    LET full == Cardinality(c.current) >= GenMax
    IN  [current |-> (IF full THEN {} ELSE c.current) \cup {k},
         previous |-> IF full THEN c.current ELSE c.previous,
         dirty |-> TRUE,
         pending |-> c.pending + 1,
         lastPersist |-> c.lastPersist]

\* Faulty variants of Due: one insertion late, or deaf to force.
DueLate(c, force) ==
    /\ c.dirty
    /\ force \/ c.pending > PersistEvery \/ c.lastPersist # "recent"

DueDeaf(c, force) ==
    /\ c.dirty
    /\ c.pending >= PersistEvery \/ c.lastPersist # "recent"

\* take_persist_blob: whether it hands out a snapshot, and what it leaves behind
Due(c, force) ==
    /\ c.dirty
    /\ force \/ c.pending >= PersistEvery \/ c.lastPersist # "recent"

Taken(c) == [current |-> c.current, previous |-> c.previous, dirty |-> FALSE,
             pending |-> 0, lastPersist |-> "recent"]

\* The critical section of handle_auth_common: insert, then snapshot if one is due.
ClaimTakes(c, k) == ~BenchMode /\ Due(Inserted(c, k), FALSE)
Claimed(c, k) == IF ClaimTakes(c, k) THEN Taken(Inserted(c, k)) ELSE Inserted(c, k)
-----------------------------------------------------------------------------
Guard == INSTANCE NonceGuard WITH Window <- GenMax

CacheInit ==
    /\ cache = DefaultCache
    /\ saved = 0
    /\ Guard!GuardInit

Admit(k) ==
    /\ hist.count < MaxAdmits
    /\ k \notin Remembered(cache)
    /\ cache' = Claimed(cache, k)
    /\ hist' = Guard!Admitted(hist, k)
    /\ saved' = IF ClaimTakes(cache, k) THEN hist.count + 1 ELSE saved
    /\ verdict' = [key |-> k, admitted |-> TRUE]

Refuse(k) ==
    /\ k \in Remembered(cache)
    /\ verdict' = [key |-> k, admitted |-> FALSE]
    /\ UNCHANGED <<cache, hist, saved>>

\* take_persist_blob(true) at the end of a session
ForceTake ==
    /\ ~BenchMode
    /\ Due(cache, TRUE)
    /\ cache' = Taken(cache)
    /\ saved' = hist.count
    /\ UNCHANGED <<hist, verdict>>

\* REPLAY_PERSIST_INTERVAL passes since last_persist
IntervalElapses ==
    /\ cache.lastPersist = "recent"
    /\ cache' = [cache EXCEPT !.lastPersist = "elapsed"]
    /\ UNCHANGED <<hist, saved, verdict>>

CacheNext ==
    \/ \E k \in Key : Admit(k) \/ Refuse(k)
    \/ ForceTake
    \/ IntervalElapses

CacheSpec == CacheInit /\ [][CacheNext]_cacheVars
-----------------------------------------------------------------------------
\* Type invariant of the cache object and its history variables.
CacheTypeOK ==
    /\ cache \in CacheRecord
    /\ hist \in Guard!History
    /\ saved \in Nat
    /\ verdict \in [key : Key \cup {"none"}, admitted : BOOLEAN]

\* The memory the cache may take is bounded and no key is held twice:
\* check_and_insert starts a new generation before the old one exceeds
\* REPLAY_GEN_MAX, and drops at most the one before it.
GenerationsBounded ==
    /\ Cardinality(cache.current) <= GenMax
    /\ Cardinality(cache.previous) <= GenMax
    /\ cache.current \cap cache.previous = {}

\* Rotating generations never forgets a key too early: a key is remembered
\* while fewer than REPLAY_GEN_MAX others were admitted after it, wherever in
\* a generation it happened to fall.
RetentionWindow ==
    \A k \in Key :
        hist.at[k] > 0 /\ Guard!AdmitsSince(hist, k) < GenMax => k \in Remembered(cache)

\* ... nor too late: what is remembered is among the last 2 * REPLAY_GEN_MAX
\* admissions, so a key that aged out is admissible again.
OldKeysForgotten ==
    \A k \in Remembered(cache) :
        hist.at[k] > 0 /\ Guard!AdmitsSince(hist, k) < 2 * GenMax

\* The two sets hold nothing but age, which is why both of the above hold:
\* current is exactly the latest admissions, previous exactly the full
\* generation admitted before them, empty only until the first rotation.
GenerationsByAge ==
    LET recent == Cardinality(cache.current)
        older == Cardinality(cache.previous)
    IN  /\ older = 0 => recent = hist.count
        /\ older # 0 => older = GenMax
        /\ \A k \in Key :
               /\ k \in cache.current <=> Guard!AdmitsSince(hist, k) < recent
               /\ k \in cache.previous <=>
                      /\ recent <= Guard!AdmitsSince(hist, k)
                      /\ Guard!AdmitsSince(hist, k) < recent + older

\* Outside bench mode fewer than REPLAY_PERSIST_EVERY_INSERTS admissions are
\* in no snapshot, and the dirty flag is set exactly when there are some: no
\* admission is forgotten by the bookkeeping of take_persist_blob.
UnsavedBounded ==
    /\ hist.count - saved = cache.pending
    /\ cache.dirty <=> cache.pending > 0
    /\ ~BenchMode => cache.pending < PersistEvery

\* The object implements the abstract guard: in particular a key is never
\* admitted twice within REPLAY_GEN_MAX admissions.
ImplementsGuard == Guard!GuardSpec
=============================================================================

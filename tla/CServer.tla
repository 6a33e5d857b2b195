------------------------------ MODULE CServer -------------------------------
(***************************************************************************)
(* zkarche_server.c: one thread that serves one connection after another,  *)
(* with its registry and its replay cache and the files of both.  The      *)
(* cache is the one of ReplayCache, in C; what differs is when it is       *)
(* written, and how the registry is.                                       *)
(*                                                                         *)
(* A crash is any end of the process: it includes SIGPIPE, which is not    *)
(* ignored, when a client has left.  What went through a rename stays.     *)
(* Errors that only fflush or fclose would report are not looked at by the *)
(* code and not modelled.  The failure tracker decides only whether a      *)
(* connection is served at all and is left out.                            *)
(***************************************************************************)
EXTENDS ReplayCache

CONSTANTS
    Id, PubKey, Role,           \* device ids, public keys, role commitments
    SetupRequest,               \* what devices ask to be enrolled with
    MaxCrashes, MaxIoErrors     \* bounds of the model

Record == [id : Id, pub : PubKey, role : Role]

ASSUME CServerAssumption ==
    /\ SetupRequest \subseteq Record
    /\ {MaxCrashes, MaxIoErrors} \subseteq Nat
    /\ ~BenchMode

VARIABLES
    reg,                \* the registry, a set of records
    bin, bak,           \* registry.bin and registry.bak: {} if not there, or {r}
                        \* with the set r of records in it
    cacheBin,           \* replay_cache.bin, with the history it stands for
    pc, req,            \* where handle_client is, and for which request
    kept, acked,        \* history: records that were saved, and acknowledged
    orphaned,           \* history: a start found registry.bak without registry.bin
    crashes, ioErrors

registry == <<reg, bin, bak, kept, acked, orphaned>>
replay == <<cacheVars, cacheBin>>
bounds == <<crashes, ioErrors>>
vars == <<registry, replay, pc, req, bounds>>

Missing == {}
Holding(r) == {r}

NoRequest == [kind |-> "none"]
Setup(r) == [kind |-> "setup", rec |-> r]
Auth(c, k) == [kind |-> "auth", cred |-> c, key |-> k]
NoCredential == {}              \* of an authentication whose proofs are wrong
Credential == {{r} : r \in SetupRequest} \cup {NoCredential}
Request ==
    {Setup(r) : r \in SetupRequest}
        \cup {Auth(c, k) : c \in Credential, k \in Key}

IoFails == ioErrors < MaxIoErrors /\ ioErrors' = ioErrors + 1

\* replay_cache_load and load_registry; without a file both are empty.
LoadedRegistry(f) == UNION f
LoadedCache(f) == Loaded(f.snap)
-----------------------------------------------------------------------------
Init ==
    /\ cacheBin = [snap |-> Serialize(DefaultCache), hist |-> Guard!NoHistory]
    /\ cache = LoadedCache(cacheBin)
    /\ saved = 0
    /\ Guard!GuardInit
    /\ reg = {} /\ bin = Missing /\ bak = Missing
    /\ pc = "accept" /\ req = NoRequest
    /\ kept = {} /\ acked = {} /\ orphaned = FALSE
    /\ crashes = 0 /\ ioErrors = 0

\* handle_client returns and the loop of main accepts again.
Return == pc' = "accept" /\ req' = NoRequest

\* A connection, and its request as far as it has to be read before anything
\* happens; the pairing policy lets the setup through.
Accept ==
    /\ pc = "accept"
    /\ req' \in Request
    /\ req'.kind = "auth" => hist.count < MaxAdmits
    /\ pc' = IF req'.kind = "setup" THEN "proof" ELSE "claim"
    /\ UNCHANGED <<registry, replay, bounds>>

\* The client does not answer, or wrongly.
ClientFails ==
    /\ pc \in {"proof", "ack", "confirm"}
    /\ Return
    /\ UNCHANGED <<registry, replay, bounds>>

SameId == {x \in reg : x.id = req.rec.id}

\* Faulty variant: the record of an id is replaced.
AddsOver ==
    /\ pc = "proof"
    /\ req.rec \notin reg
    /\ reg' = (reg \ SameId) \cup {req.rec}
    /\ pc' = "backup"
    /\ UNCHANGED <<bin, bak, kept, acked, orphaned, replay, req, bounds>>

\* reg_upsert after the proof has verified: a new id is added in memory first.
Adds ==
    /\ pc = "proof"
    /\ SameId = {}
    /\ reg' = reg \cup {req.rec}
    /\ pc' = "backup"
    /\ UNCHANGED <<bin, bak, kept, acked, orphaned, replay, req, bounds>>

\* A known id with this key and role is acknowledged with nothing written.
FindsSame ==
    /\ pc = "proof"
    /\ req.rec \in reg
    /\ pc' = "ack"
    /\ UNCHANGED <<registry, replay, req, bounds>>

FindsOther ==
    /\ pc = "proof"
    /\ SameId # {} /\ req.rec \notin reg
    /\ Return
    /\ UNCHANGED <<registry, replay, bounds>>

\* Faulty variant: the old file is removed.
BackUpRemoves ==
    /\ pc = "backup"
    /\ bin' = Missing
    /\ pc' = "write"
    /\ UNCHANGED <<reg, bak, kept, acked, orphaned, replay, req, bounds>>

\* save_registry: registry.bin, if there, becomes registry.bak ...
BackUp ==
    /\ pc = "backup"
    /\ bin' = Missing
    /\ bak' = IF bin = Missing THEN bak ELSE bin
    /\ pc' = "write"
    /\ UNCHANGED <<reg, kept, acked, orphaned, replay, req, bounds>>

\* A rename that fails is not noticed.
BackUpFails ==
    /\ pc = "backup" /\ bin # Missing /\ IoFails
    /\ pc' = "write"
    /\ UNCHANGED <<registry, replay, req, crashes>>

\* ... and the new one is written and renamed into place, ...
Write ==
    /\ pc = "write"
    /\ bin' = Holding(reg)
    /\ kept' = kept \cup reg
    /\ pc' = "ack"
    /\ UNCHANGED <<reg, bak, acked, orphaned, replay, req, bounds>>

\* ... or is not; the record stays in memory.
WriteFails ==
    /\ pc = "write" /\ IoFails
    /\ Return
    /\ UNCHANGED <<registry, replay, crashes>>

Acknowledge ==
    /\ pc = "ack"
    /\ acked' = acked \cup {req.rec}
    /\ Return
    /\ UNCHANGED <<reg, bin, bak, kept, orphaned, replay, bounds>>
-----------------------------------------------------------------------------
\* replay_cache_check_and_insert refuses, ...
ClaimRefused ==
    /\ pc = "claim"
    /\ Refuse(req.key)
    /\ Return
    /\ UNCHANGED <<registry, cacheBin, bounds>>

\* ... or inserts the key; replay_cache_persist_if_due(replay, 0) follows.
ClaimAdmitted ==
    /\ pc = "claim"
    /\ req.key \notin Remembered(cache)
    /\ cache' = Inserted(cache, req.key)
    /\ hist' = Guard!Admitted(hist, req.key)
    /\ verdict' = [key |-> req.key, admitted |-> TRUE]
    /\ pc' = IF Due(cache', FALSE) THEN "persist" ELSE "verify"
    /\ UNCHANGED <<registry, saved, cacheBin, req, bounds>>

\* The file is replaced by a rename, and only then is the cache clean.
Persist ==
    /\ pc = "persist"
    /\ cacheBin' = [snap |-> Serialize(cache), hist |-> hist]
    /\ cache' = Taken(cache)
    /\ saved' = hist.count
    /\ pc' = "verify"
    /\ UNCHANGED <<registry, hist, verdict, req, bounds>>

\* Faulty variant: the cache is clean although nothing was written.
PersistFailsClean ==
    /\ pc = "persist" /\ IoFails
    /\ cache' = Taken(cache)
    /\ Return
    /\ UNCHANGED <<registry, hist, saved, verdict, cacheBin, crashes>>

PersistFails ==
    /\ pc = "persist" /\ IoFails
    /\ Return
    /\ UNCHANGED <<registry, replay, crashes>>

\* The device is looked up by pid or handle, its proofs verified.
Accepts(a) == a.cred # NoCredential /\ a.cred \subseteq reg

Verify ==
    /\ pc = "verify"
    /\ IF Accepts(req) THEN pc' = "confirm" /\ UNCHANGED req ELSE Return
    /\ UNCHANGED <<registry, replay, bounds>>

\* The client's tag matches.  Nothing is written at the end of a session.
Confirm ==
    /\ pc = "confirm"
    /\ Return
    /\ UNCHANGED <<registry, replay, bounds>>

TimePasses ==
    /\ IntervalElapses
    /\ UNCHANGED <<registry, cacheBin, pc, req, bounds>>
-----------------------------------------------------------------------------
\* Faulty variant: replay_cache.bin is not loaded.
RestartEmpty ==
    /\ crashes < MaxCrashes /\ crashes' = crashes + 1
    /\ Return
    /\ cache' = Loaded(Serialize(DefaultCache))
    /\ hist' = cacheBin.hist /\ saved' = cacheBin.hist.count
    /\ reg' = LoadedRegistry(bin)
    /\ orphaned' = (orphaned \/ (bin = Missing /\ bak # Missing))
    /\ UNCHANGED <<bin, bak, kept, acked, verdict, cacheBin, ioErrors>>

\* The process dies and is started again.
Restart ==
    /\ crashes < MaxCrashes /\ crashes' = crashes + 1
    /\ Return
    /\ cache' = LoadedCache(cacheBin)
    /\ hist' = cacheBin.hist /\ saved' = cacheBin.hist.count
    /\ reg' = LoadedRegistry(bin)
    /\ orphaned' = (orphaned \/ (bin = Missing /\ bak # Missing))
    /\ UNCHANGED <<bin, bak, kept, acked, verdict, cacheBin, ioErrors>>

Next ==
    \/ Accept \/ ClientFails
    \/ Adds \/ FindsSame \/ FindsOther
    \/ BackUp \/ BackUpFails \/ Write \/ WriteFails \/ Acknowledge
    \/ ClaimRefused \/ ClaimAdmitted \/ Persist \/ PersistFails
    \/ Verify \/ Confirm
    \/ TimePasses \/ Restart

Spec == Init /\ [][Next]_vars
-----------------------------------------------------------------------------
Registries == SUBSET Record

OneRecordEach(f) == \A r, s \in f : r.id = s.id => r = s

\* Type invariant; a request is in hand exactly while it is served, and an id
\* has one record, in memory and in both files.
CServerTypeOK ==
    /\ CacheTypeOK
    /\ reg \in Registries /\ kept \in Registries /\ acked \in Registries
    /\ {bin, bak} \subseteq {Missing} \cup {Holding(r) : r \in Registries}
    /\ \A f \in {reg, LoadedRegistry(bin), LoadedRegistry(bak)} : OneRecordEach(f)
    /\ cacheBin \in [snap : Snapshot, hist : Guard!History]
    /\ pc \in {"accept", "proof", "backup", "write", "ack",
               "claim", "persist", "verify", "confirm"}
    /\ req \in Request \cup {NoRequest}
    /\ pc = "accept" <=> req = NoRequest
    /\ orphaned \in BOOLEAN
    /\ crashes \in 0 .. MaxCrashes /\ ioErrors \in 0 .. MaxIoErrors

\* The C cache keeps the promise of the Rust one, over restarts that take it
\* back to what replay_cache.bin holds.
CServerImplementsGuard == Guard!GuardSpec

\* A restart forgets fewer than REPLAY_PERSIST_EVERY_INSERTS admissions, and
\* one more for each file operation that has failed so far: unlike the Rust
\* server, this one stays dirty until the write has succeeded.  What is not in
\* the file is counted.
LossCounted ==
    LET lost == hist.count - cacheBin.hist.count
    IN  /\ saved = cacheBin.hist.count
        /\ lost = cache.pending
        /\ lost < PersistEvery + ioErrors + (IF pc = "persist" THEN 1 ELSE 0)

\* An id keeps the key and the role it was enrolled with: memory gives no
\* record up while the process lives (reg_upsert refuses anything else), and
\* no start gives up one that was ever saved, whatever failed in between,
\* unless it found the registry's file gone.
BindingKept ==
    [][/\ reg \subseteq reg' \/ crashes' # crashes
       /\ kept \subseteq reg' \/ orphaned']_vars

\* save_registry moves the only good file away before it has a new one: at
\* each moment, every record it ever saved is in registry.bin or in
\* registry.bak, until a start has gone on without looking at the latter.
SavedSurvives ==
    ~orphaned => kept \subseteq LoadedRegistry(bin) \cup LoadedRegistry(bak)

\* As long as no write has failed, a device is acknowledged only when its
\* record has been saved, by this process or one before it.  (reg_upsert adds
\* in memory before it saves, so after a failed write a device that comes back
\* is acknowledged unsaved.)
AckedIsSaved ==
    ioErrors = 0 => acked \subseteq kept
=============================================================================

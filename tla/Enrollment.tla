----------------------------- MODULE Enrollment -----------------------------
(***************************************************************************)
(* Enrolment in zkarche_server: threads running handle_setup over the      *)
(* registry and the handle index, and the file registry.bin.               *)
(*                                                                         *)
(* A setup looks the device id up under the registry's read lock, runs the *)
(* proof exchange with no lock held, and inserts the record under the      *)
(* write lock, which it keeps while save_registry_atomic replaces the      *)
(* file.  (registry.bak, a copy of the file before, is never read back and *)
(* not modelled.)  The handle index has a lock of its own, released as     *)
(* soon as the entry is in.  A device's handle is a hash of its public     *)
(* key, so the index is modelled as a function of the key.                 *)
(***************************************************************************)
EXTENDS Naturals

CONSTANTS
    Id, PubKey, Role,   \* device ids, public keys, role commitments
    SetupRequest,       \* the enrolments devices ask for, see SetupRequestType
    Thread,             \* connection threads
    MaxCrashes, MaxSaveErrors   \* bounds of the model

SetupRequestType == [id : Id, pk : PubKey, role : Role, token : BOOLEAN]

ASSUME EnrollmentAssumption ==
    /\ SetupRequest \subseteq SetupRequestType
    /\ {MaxCrashes, MaxSaveErrors} \subseteq Nat
    /\ "none" \notin Id \cup PubKey \cup Role \cup Thread

VARIABLES
    reg,        \* the registry: device id -> record
    index,      \* handle_index: key -> the id and record it was enrolled with
    disk,       \* registry.bin
    pc, req,    \* where each thread is in handle_setup, and with what request
    writer,     \* the thread holding the registry's write lock, or "none"
    pairing,    \* the pairing window is open (--pairing, --pairing-seconds)
    acked,      \* history: requests whose client got the final 0x01
    saveFailed, \* history: the last save_registry_atomic failed
    crashes, saveErrors

tables == <<reg, index>>
threads == <<pc, req, writer>>
history == <<acked, saveFailed>>
bounds == <<crashes, saveErrors>>
vars == <<tables, disk, threads, pairing, history, bounds>>

Record == [pk : PubKey, role : Role]
NoRecord == [pk |-> "none", role |-> "none"]
IndexEntry == [id : Id, rec : Record]
NoEntry == [id |-> "none", rec |-> NoRecord]
NoRequest == [id |-> "none", pk |-> "none", role |-> "none", token |-> FALSE]

Registry == [Id -> Record \cup {NoRecord}]
EmptyRegistry == [i \in Id |-> NoRecord]
Enrolled(r, i) == r[i] # NoRecord

RecordOf(r) == [pk |-> r.pk, role |-> r.role]

\* build_handle_index: with several ids under one key, the map keeps
\* whichever the iteration reaches last.
HandleIndexOf(r) ==
    {x \in [PubKey -> IndexEntry \cup {NoEntry}] :
        \A p \in PubKey :
            LET owners == {i \in Id : r[i].pk = p}
            IN  IF owners = {} THEN x[p] = NoEntry
                ELSE \E i \in owners : x[p] = [id |-> i, rec |-> r[i]]}
-----------------------------------------------------------------------------
Init ==
    /\ reg = EmptyRegistry
    /\ index = [p \in PubKey |-> NoEntry]
    /\ disk = EmptyRegistry
    /\ pc = [t \in Thread |-> "idle"]
    /\ req = [t \in Thread |-> NoRequest]
    /\ writer = "none"
    /\ pairing = TRUE
    /\ acked = {}
    /\ saveFailed = FALSE
    /\ crashes = 0 /\ saveErrors = 0

GoTo(t, loc) == pc' = [pc EXCEPT ![t] = loc]
Return(t) == GoTo(t, "idle") /\ req' = [req EXCEPT ![t] = NoRequest]

\* handle_setup starts; is_blocked has let the peer through (FailureTracker).
Connect(t) ==
    /\ pc[t] = "idle"
    /\ \E r \in SetupRequest : req' = [req EXCEPT ![t] = r]
    /\ GoTo(t, "policy")
    /\ UNCHANGED <<tables, disk, writer, pairing, history, bounds>>

\* PairingPolicy::allows_ztp_setup
PolicyAllows(t) ==
    /\ pc[t] = "policy"
    /\ pairing /\ req[t].token
    /\ GoTo(t, "lookup")
    /\ UNCHANGED <<tables, disk, req, writer, pairing, history, bounds>>

PolicyRefuses(t) ==
    /\ pc[t] = "policy"
    /\ ~(pairing /\ req[t].token)
    /\ Return(t)
    /\ UNCHANGED <<tables, disk, writer, pairing, history, bounds>>

\* Faulty variant: the id is not checked.
CollidesNever(r) == FALSE

Collides(r) == Enrolled(reg, r.id) /\ reg[r.id].pk # r.pk

\* The id is looked up under the read lock.
LookupPasses(t) ==
    /\ pc[t] = "lookup" /\ writer = "none"
    /\ ~Collides(req[t])
    /\ GoTo(t, "proof")
    /\ UNCHANGED <<tables, disk, req, writer, pairing, history, bounds>>

LookupCollides(t) ==
    /\ pc[t] = "lookup" /\ writer = "none"
    /\ Collides(req[t])
    /\ Return(t)
    /\ UNCHANGED <<tables, disk, writer, pairing, history, bounds>>

\* Challenge, server proof and client proof, with no lock held.
ProofVerifies(t) ==
    /\ pc[t] = "proof"
    /\ GoTo(t, "commit")
    /\ UNCHANGED <<tables, disk, req, writer, pairing, history, bounds>>

\* The proof is wrong, does not parse, or does not arrive within IO_TIMEOUT.
ProofFails(t) ==
    /\ pc[t] = "proof"
    /\ Return(t)
    /\ UNCHANGED <<tables, disk, writer, pairing, history, bounds>>

\* Faulty variants of Commit: an existing index entry is kept, or the write
\* lock is released before the registry is saved.
CommitKeepsEntry(t) ==
    /\ pc[t] = "commit" /\ writer = "none"
    /\ writer' = t
    /\ reg' = [reg EXCEPT ![req[t].id] = RecordOf(req[t])]
    /\ index' = [index EXCEPT ![req[t].pk] =
                     IF @ = NoEntry THEN [id |-> req[t].id, rec |-> RecordOf(req[t])] ELSE @]
    /\ GoTo(t, "save")
    /\ UNCHANGED <<disk, req, pairing, history, bounds>>

CommitUnlocks(t) ==
    /\ pc[t] = "commit" /\ writer = "none"
    /\ reg' = [reg EXCEPT ![req[t].id] = RecordOf(req[t])]
    /\ index' = [index EXCEPT ![req[t].pk] = [id |-> req[t].id, rec |-> RecordOf(req[t])]]
    /\ GoTo(t, "save")
    /\ UNCHANGED <<disk, req, writer, pairing, history, bounds>>

\* Under the write lock: insert in the registry and in the handle index.
Commit(t) ==
    /\ pc[t] = "commit" /\ writer = "none"
    /\ writer' = t
    /\ reg' = [reg EXCEPT ![req[t].id] = RecordOf(req[t])]
    /\ index' = [index EXCEPT ![req[t].pk] = [id |-> req[t].id, rec |-> RecordOf(req[t])]]
    /\ GoTo(t, "save")
    /\ UNCHANGED <<disk, req, pairing, history, bounds>>

\* save_registry_atomic, still under the write lock: the table is written to a
\* temporary file, which is then renamed.
Save(t) ==
    /\ pc[t] = "save"
    /\ disk' = reg
    /\ writer' = "none"
    /\ saveFailed' = FALSE
    /\ GoTo(t, "ack")
    /\ UNCHANGED <<tables, req, pairing, acked, bounds>>

\* Faulty variants of SaveFails: the error is swallowed and the client
\* acknowledged, or the write lock is not released.
SaveFailsQuietly(t) ==
    /\ pc[t] = "save"
    /\ saveErrors < MaxSaveErrors
    /\ saveErrors' = saveErrors + 1
    /\ saveFailed' = TRUE
    /\ writer' = "none"
    /\ GoTo(t, "ack")
    /\ UNCHANGED <<tables, disk, req, pairing, acked, crashes>>

SaveFailsLocked(t) ==
    /\ pc[t] = "save"
    /\ saveErrors < MaxSaveErrors
    /\ saveErrors' = saveErrors + 1
    /\ saveFailed' = TRUE
    /\ Return(t)
    /\ UNCHANGED <<tables, disk, writer, pairing, acked, crashes>>

\* A file operation fails: the error is returned, the tables are not undone.
SaveFails(t) ==
    /\ pc[t] = "save"
    /\ saveErrors < MaxSaveErrors
    /\ saveErrors' = saveErrors + 1
    /\ saveFailed' = TRUE
    /\ writer' = "none"
    /\ Return(t)
    /\ UNCHANGED <<tables, disk, pairing, acked, crashes>>

AckDelivered(t) ==
    /\ pc[t] = "ack"
    /\ acked' = acked \cup {req[t]}
    /\ Return(t)
    /\ UNCHANGED <<tables, disk, writer, pairing, saveFailed, bounds>>

\* The client is gone; the device is enrolled and does not know it.
AckLost(t) ==
    /\ pc[t] = "ack"
    /\ Return(t)
    /\ UNCHANGED <<tables, disk, writer, pairing, history, bounds>>

Step(t) ==
    \/ PolicyAllows(t) \/ PolicyRefuses(t)
    \/ LookupPasses(t) \/ LookupCollides(t)
    \/ ProofVerifies(t) \/ ProofFails(t)
    \/ Commit(t) \/ Save(t) \/ SaveFails(t)
    \/ AckDelivered(t) \/ AckLost(t)

\* The deadline of --pairing-seconds passes.
PairingCloses ==
    /\ pairing
    /\ pairing' = FALSE
    /\ UNCHANGED <<tables, disk, threads, history, bounds>>

\* The process dies and main loads the registry and rebuilds the index.
Restart ==
    /\ crashes < MaxCrashes
    /\ crashes' = crashes + 1
    /\ reg' = disk
    /\ index' \in HandleIndexOf(disk)
    /\ pc' = [t \in Thread |-> "idle"]
    /\ req' = [t \in Thread |-> NoRequest]
    /\ writer' = "none"
    /\ pairing' = TRUE
    /\ saveFailed' = FALSE
    /\ UNCHANGED <<disk, acked, saveErrors>>

Next ==
    \/ \E t \in Thread : Connect(t) \/ Step(t)
    \/ PairingCloses
    \/ Restart

Spec == Init /\ [][Next]_vars

\* Threads are scheduled, file operations return, and IO_TIMEOUT ends every
\* wait for the client; the locks are held only across file operations, and
\* std::sync::RwLock serves a waiting thread once it stays free.
FairSpec == Spec /\ \A t \in Thread : WF_vars(Step(t)) /\ SF_vars(Commit(t) \/ LookupPasses(t) \/ LookupCollides(t))
-----------------------------------------------------------------------------
Location == {"idle", "policy", "lookup", "proof", "commit", "save", "ack"}

\* Type invariant of the tables, the file and the threads.
TypeOK ==
    /\ reg \in Registry /\ disk \in Registry
    /\ index \in [PubKey -> IndexEntry \cup {NoEntry}]
    /\ pc \in [Thread -> Location]
    /\ req \in [Thread -> SetupRequest \cup {NoRequest}]
    /\ writer \in Thread \cup {"none"}
    /\ pairing \in BOOLEAN /\ saveFailed \in BOOLEAN
    /\ acked \subseteq SetupRequest
    /\ crashes \in 0 .. MaxCrashes /\ saveErrors \in 0 .. MaxSaveErrors

\* An enrolment the client was told about is never lost: its key stays bound
\* to its id in registry.bin through later enrolments, failed saves and crashes.
AckedEnrolmentDurable ==
    \A r \in acked : Enrolled(disk, r.id) /\ disk[r.id].pk = r.pk

\* Both ways handle_auth_common finds a device lead to the same record: every
\* index entry is the record the registry has, every record is in the index.
IndexMatchesRegistry ==
    /\ \A p \in PubKey : index[p] # NoEntry => /\ reg[index[p].id] = index[p].rec
                                               /\ index[p].rec.pk = p
    /\ \A i \in Id : Enrolled(reg, i) => index[reg[i].pk] = [id |-> i, rec |-> reg[i]]

\* Registry and file differ only while a save is in progress, or if the last
\* one failed; the next successful save repairs what a failed one left out.
FileFollowsRegistry == writer = "none" /\ ~saveFailed => disk = reg

\* The collision check of handle_setup: a device id, once bound to a key, is
\* never bound to another while the registry knows it.
BindingStable ==
    [][\A i \in Id : Enrolled(reg, i) /\ Enrolled(reg', i) => reg'[i].pk = reg[i].pk]_vars

\* Every setup ends, with the write lock released.
SetupsEnd == \A t \in Thread : pc[t] # "idle" ~> pc[t] = "idle" /\ writer # t
=============================================================================

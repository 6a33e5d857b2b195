---------------------------- MODULE ReplayServer ----------------------------
(***************************************************************************)
(* The replay path of zkarche_server: connection threads running           *)
(* handle_auth_common over one ReplayCache behind a mutex, the file        *)
(* replay_cache.bin that write_private_file_atomic replaces, and crashes   *)
(* after which main loads the cache back from that file.                   *)
(*                                                                         *)
(* A session claims its key and takes a snapshot if one is due, all under  *)
(* the mutex; it writes that snapshot after releasing it.  The snapshot    *)
(* taken at the end of a session is written with the mutex still held: the *)
(* guard is a temporary of the `if let`, which edition 2021 keeps alive    *)
(* for the whole block.  Every writer uses the same path for its temporary *)
(* file.                                                                   *)
(***************************************************************************)
EXTENDS ReplayCache

CONSTANTS
    Thread,       \* connection threads
    MaxArrivals,  \* bounds of the model: authentication payloads received,
    MaxCrashes,   \* process crashes,
    MaxIoErrors   \* and failed file operations

ASSUME ServerAssumption == {MaxArrivals, MaxCrashes, MaxIoErrors} \subseteq Nat

VARIABLES
    pc,        \* where each thread is in handle_auth_common
    req,       \* the payload each thread works on
    blob,      \* the snapshot each thread has taken and not written yet
    fd,        \* what the file each thread has open is now: the temporary
               \* file, replay_cache.bin, or an unlinked file
    lock,      \* the thread that keeps the mutex while it writes, or "free"
    closing,   \* the threads writing the snapshot taken at the end of a session
    disk,      \* replay_cache.bin
    tmp,       \* replay_cache.bin.tmp
    completed, \* history: the keys whose latest session has completed
    arrivals, crashes, ioErrors

threadVars == <<pc, req, blob, fd, lock, closing>>
fileVars == <<disk, tmp>>
boundVars == <<arrivals, crashes, ioErrors>>
serverVars == <<cacheVars, threadVars, fileVars, completed, boundVars>>

Location == {"idle", "claim", "open", "write", "rename", "verify", "confirm", "finish"}
Request == [key : Key, valid : BOOLEAN]   \* valid: the proofs in the payload verify
NoRequest == [key |-> "none", valid |-> FALSE]

\* A file: its length in keys and, if it parses, the snapshot it holds with
\* the history at the time that was taken.
NoSnapshot == [current |-> {}, previous |-> {}]
MissingFile == [kind |-> "missing", size |-> 0, snap |-> NoSnapshot, hist |-> Guard!NoHistory]
Truncated == [MissingFile EXCEPT !.kind = "garbage"]
File == [kind : {"missing", "garbage", "good"}, size : Nat, snap : Snapshot, hist : Guard!History]

Blob(c, h) == [kind |-> "good", size |-> Cardinality(c.current) + Cardinality(c.previous),
               snap |-> Serialize(c), hist |-> h]

\* Writing content from the start of an open file leaves the tail of a longer
\* one in place, and then the length no longer matches the counts.
Torn(f) == [Truncated EXCEPT !.size = f.size]
Overwritten(old, new) == IF new.size >= old.size THEN new ELSE Torn(old)

\* ReplayCache::load(..).unwrap_or_default()
LoadedFrom(f) == IF f.kind = "good" THEN Loaded(f.snap) ELSE DefaultCache

-----------------------------------------------------------------------------
ServerInit ==
    /\ CacheInit
    /\ pc = [t \in Thread |-> "idle"]
    /\ req = [t \in Thread |-> NoRequest]
    /\ blob = [t \in Thread |-> MissingFile]
    /\ fd = [t \in Thread |-> "none"]
    /\ lock = "free"
    /\ closing = {}
    /\ disk = MissingFile
    /\ tmp = MissingFile
    /\ completed = {}
    /\ arrivals = 0 /\ crashes = 0 /\ ioErrors = 0

GoTo(t, loc) == pc' = [pc EXCEPT ![t] = loc]

\* Faulty variant of Leave: the mutex is not released.
LeaveLocked(t) ==
    /\ GoTo(t, "idle")
    /\ req' = [req EXCEPT ![t] = NoRequest]
    /\ blob' = [blob EXCEPT ![t] = MissingFile]
    /\ closing' = closing \ {t}
    /\ UNCHANGED lock

\* handle_auth_common returns, dropping what the thread holds.
Leave(t) ==
    /\ GoTo(t, "idle")
    /\ req' = [req EXCEPT ![t] = NoRequest]
    /\ blob' = [blob EXCEPT ![t] = MissingFile]
    /\ lock' = IF lock = t THEN "free" ELSE lock
    /\ closing' = closing \ {t}

Return(t) == Leave(t) /\ fd' = [fd EXCEPT ![t] = "none"]

\* A well-formed payload is read and parsed.
Arrive(t) ==
    /\ pc[t] = "idle"
    /\ arrivals < MaxArrivals
    /\ \E r \in Request : req' = [req EXCEPT ![t] = r]
    /\ arrivals' = arrivals + 1
    /\ GoTo(t, "claim")
    /\ UNCHANGED <<cacheVars, blob, fd, lock, closing, fileVars, completed, crashes, ioErrors>>

\* check_and_insert refuses: "replay detected".
ClaimRefused(t) ==
    /\ pc[t] = "claim" /\ lock = "free"
    /\ Refuse(req[t].key)
    /\ Return(t)
    /\ UNCHANGED <<fileVars, completed, boundVars>>

\* check_and_insert admits the key; a due snapshot is taken in the same critical
\* section.  If the key completed a session so long ago that it was forgotten,
\* that session is over: what counts from here is the new one.
ClaimAdmitted(t) ==
    /\ pc[t] = "claim" /\ lock = "free"
    /\ Admit(req[t].key)
    /\ completed' = completed \ {req[t].key}
    /\ IF ClaimTakes(cache, req[t].key)
       THEN blob' = [blob EXCEPT ![t] = Blob(cache', hist')] /\ GoTo(t, "open")
       ELSE GoTo(t, "verify") /\ UNCHANGED blob
    /\ UNCHANGED <<req, fd, lock, closing, fileVars, boundVars>>

\* Faulty variant of OpenTmp: replay_cache.bin is opened and rewritten in place.
OpenInPlace(t) ==
    /\ pc[t] = "open"
    /\ disk' = Truncated
    /\ fd' = [fd EXCEPT ![t] = "path"]
    /\ GoTo(t, "write")
    /\ UNCHANGED <<cacheVars, req, blob, lock, closing, tmp, completed, boundVars>>

\* write_private_file_atomic: create or truncate the temporary file, ...
OpenTmp(t) ==
    /\ pc[t] = "open"
    /\ tmp' = Truncated
    /\ fd' = [fd EXCEPT ![t] = "tmp"]
    /\ GoTo(t, "write")
    /\ UNCHANGED <<cacheVars, req, blob, lock, closing, disk, completed, boundVars>>

\* ... write the snapshot to the file that was opened, wherever it is by now, ...
WriteTmp(t) ==
    /\ pc[t] = "write"
    /\ tmp' = IF fd[t] = "tmp" THEN Overwritten(tmp, blob[t]) ELSE tmp
    /\ disk' = IF fd[t] = "path" THEN Overwritten(disk, blob[t]) ELSE disk
    /\ fd' = [fd EXCEPT ![t] = "none"]
    /\ GoTo(t, "rename")
    /\ UNCHANGED <<cacheVars, req, blob, lock, closing, completed, boundVars>>

\* ... and rename the temporary file, whoever wrote it, over replay_cache.bin.
\* The session goes on; at its end, it has completed.
RenameTmp(t) ==
    /\ pc[t] = "rename"
    /\ tmp.kind # "missing"
    /\ disk' = tmp
    /\ tmp' = MissingFile
    /\ fd' = [u \in Thread |-> CASE fd[u] = "tmp" -> "path"
                               [] fd[u] = "path" -> "gone"
                               [] OTHER -> fd[u]]
    /\ \/ /\ t \in closing
          /\ Leave(t)
          /\ completed' = completed \cup {req[t].key}
       \/ /\ t \notin closing
          /\ GoTo(t, "verify")
          /\ blob' = [blob EXCEPT ![t] = MissingFile]
          /\ UNCHANGED <<req, lock, closing, completed>>
    /\ UNCHANGED <<cacheVars, boundVars>>

\* The temporary file is gone: chmod or rename fails, and the session with it.
RenameFails(t) ==
    /\ pc[t] = "rename"
    /\ tmp.kind = "missing"
    /\ Return(t)
    /\ UNCHANGED <<cacheVars, fileVars, completed, boundVars>>

\* Opening, writing or renaming fails, for instance because the disk is full;
\* a write that fails may have replaced part of the file.
IoError(t) ==
    /\ pc[t] \in {"open", "write", "rename"}
    /\ ioErrors < MaxIoErrors
    /\ ioErrors' = ioErrors + 1
    /\ tmp' \in {tmp} \cup IF fd[t] = "tmp" THEN {Torn(tmp)} ELSE {}
    /\ disk' \in {disk} \cup IF fd[t] = "path" THEN {Torn(disk)} ELSE {}
    /\ Return(t)
    /\ UNCHANGED <<cacheVars, completed, arrivals, crashes>>

\* Registry lookup and the proofs; payload 2 is sent when they verify.
VerifyOk(t) ==
    /\ pc[t] = "verify"
    /\ req[t].valid
    /\ GoTo(t, "confirm")
    /\ UNCHANGED <<cacheVars, req, blob, fd, lock, closing, fileVars, completed, boundVars>>

VerifyFails(t) ==
    /\ pc[t] = "verify"
    /\ ~req[t].valid
    /\ Return(t)
    /\ UNCHANGED <<cacheVars, fileVars, completed, boundVars>>

\* tag_c arrives and matches ...
ConfirmOk(t) ==
    /\ pc[t] = "confirm"
    /\ GoTo(t, "finish")
    /\ UNCHANGED <<cacheVars, req, blob, fd, lock, closing, fileVars, completed, boundVars>>

\* ... or does not match, or IO_TIMEOUT passes without it.
ConfirmFails(t) ==
    /\ pc[t] = "confirm"
    /\ Return(t)
    /\ UNCHANGED <<cacheVars, fileVars, completed, boundVars>>

\* take_persist_blob(true): the mutex stays locked until the snapshot is written.
FinishWrites(t) ==
    /\ pc[t] = "finish" /\ lock = "free"
    /\ ForceTake
    /\ lock' = t
    /\ closing' = closing \cup {t}
    /\ blob' = [blob EXCEPT ![t] = Blob(cache, hist)]
    /\ GoTo(t, "open")
    /\ UNCHANGED <<req, fd, fileVars, completed, boundVars>>

\* There is nothing to write: no admission since a snapshot was last taken.
FinishClean(t) ==
    /\ pc[t] = "finish" /\ lock = "free"
    /\ BenchMode \/ ~Due(cache, TRUE)
    /\ completed' = completed \cup {req[t].key}
    /\ Return(t)
    /\ UNCHANGED <<cacheVars, fileVars, boundVars>>

Step(t) ==
    \/ ClaimRefused(t) \/ ClaimAdmitted(t)
    \/ OpenTmp(t) \/ WriteTmp(t) \/ RenameTmp(t) \/ RenameFails(t) \/ IoError(t)
    \/ VerifyOk(t) \/ VerifyFails(t)
    \/ ConfirmOk(t) \/ ConfirmFails(t)
    \/ FinishWrites(t) \/ FinishClean(t)

TimePasses ==
    /\ IntervalElapses
    /\ UNCHANGED <<threadVars, fileVars, completed, boundVars>>

\* Faulty variant of Restart: the file is not loaded.
RestartEmpty ==
    /\ crashes < MaxCrashes
    /\ crashes' = crashes + 1
    /\ cache' = DefaultCache
    /\ hist' = disk.hist
    /\ saved' = disk.hist.count
    /\ pc' = [t \in Thread |-> "idle"]
    /\ req' = [t \in Thread |-> NoRequest]
    /\ blob' = [t \in Thread |-> MissingFile]
    /\ fd' = [t \in Thread |-> "none"]
    /\ lock' = "free"
    /\ closing' = {}
    /\ UNCHANGED <<verdict, fileVars, completed, arrivals, ioErrors>>

\* The process dies and is started again; main loads the cache from the file.
Restart ==
    /\ crashes < MaxCrashes
    /\ crashes' = crashes + 1
    /\ cache' = LoadedFrom(disk)
    /\ hist' = disk.hist
    /\ saved' = disk.hist.count
    /\ pc' = [t \in Thread |-> "idle"]
    /\ req' = [t \in Thread |-> NoRequest]
    /\ blob' = [t \in Thread |-> MissingFile]
    /\ fd' = [t \in Thread |-> "none"]
    /\ lock' = "free"
    /\ closing' = {}
    /\ UNCHANGED <<verdict, fileVars, completed, arrivals, ioErrors>>

ServerNext ==
    \/ \E t \in Thread : Arrive(t) \/ Step(t)
    \/ TimePasses
    \/ Restart

ServerSpec == ServerInit /\ [][ServerNext]_serverVars

\* Threads are scheduled, file operations return, and a client that stops
\* talking is timed out: once a payload has arrived, its thread keeps going.
FairServerSpec == ServerSpec /\ \A t \in Thread : WF_serverVars(Step(t))
-----------------------------------------------------------------------------
\* Replay protection survives a crash at any moment: a key whose latest session
\* has completed, and that is not too old to matter, is in replay_cache.bin.
CompletedKeysDurable ==
    \A k \in Key :
        k \in completed /\ hist.at[k] > 0 /\ Guard!AdmitsSince(hist, k) < GenMax =>
            disk.kind = "good" /\ k \in Remembered(disk.snap)

\* replay_cache.bin is never left in a state that load rejects: it is absent
\* or a complete snapshot, whatever the moment of a crash.
FileAlwaysLoads == disk.kind # "garbage"

\* What a crash can forget: each failed file operation, and the snapshot being
\* written, cost at most REPLAY_PERSIST_EVERY_INSERTS admissions.
LossBounded == hist.count - disk.hist.count <= PersistEvery * (1 + ioErrors)

\* No session hangs, whoever holds the mutex and whichever write fails.
SessionsEnd == \A t \in Thread : pc[t] # "idle" ~> pc[t] = "idle"
=============================================================================

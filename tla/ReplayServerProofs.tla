------------------------- MODULE ReplayServerProofs -------------------------
(***************************************************************************)
(* Theorems about ReplayServer, for any number of threads, keys, payloads, *)
(* crashes and failed writes: whatever the threads do to the one temporary *)
(* file, callers see the abstract guard, restarts included; and with one   *)
(* session at a time the file always loads.                                *)
(***************************************************************************)
EXTENDS ReplayServer, ReplayCacheProofs

\* What a thread holds.
ThreadsInv ==
    /\ pc \in [Thread -> Location]
    /\ DOMAIN req = Thread /\ DOMAIN blob = Thread /\ DOMAIN fd = Thread
    /\ \A t \in Thread : pc[t] = "claim" => req[t].key \in Key
    /\ \A t \in Thread : fd[t] \in {"tmp", "path"} => pc[t] = "write"

\* Every step keeps what the threads hold.
LEMMA ThreadsStep == ThreadsInv /\ [ServerNext]_serverVars => ThreadsInv'
<1>. SUFFICES ASSUME ThreadsInv, [ServerNext]_serverVars PROVE ThreadsInv'
  OBVIOUS
<1>. USE DEF ThreadsInv, Location
<1>1. ASSUME NEW t \in Thread, Arrive(t)
      PROVE  ThreadsInv'
  BY <1>1 DEF Arrive, GoTo, Request
<1>2. ASSUME NEW t \in Thread, Return(t)
      PROVE  ThreadsInv'
  BY <1>2 DEF Return, Leave, GoTo
<1>3. ASSUME NEW t \in Thread, ClaimRefused(t) \/ RenameFails(t) \/ IoError(t) \/ VerifyFails(t)
                                 \/ ConfirmFails(t) \/ FinishClean(t)
      PROVE  ThreadsInv'
  BY <1>2, <1>3 DEF ClaimRefused, RenameFails, IoError, VerifyFails, ConfirmFails, FinishClean
<1>4. ASSUME NEW t \in Thread, ClaimAdmitted(t) \/ OpenTmp(t) \/ WriteTmp(t) \/ VerifyOk(t)
                                 \/ ConfirmOk(t) \/ FinishWrites(t)
      PROVE  ThreadsInv'
  BY <1>4 DEF ClaimAdmitted, OpenTmp, WriteTmp, VerifyOk, ConfirmOk, FinishWrites, GoTo
<1>5. ASSUME NEW t \in Thread, RenameTmp(t)
      PROVE  ThreadsInv'
  <2>1. /\ pc[t] = "rename" /\ pc' \in {[pc EXCEPT ![t] = "idle"], [pc EXCEPT ![t] = "verify"]}
        /\ req' \in {req, [req EXCEPT ![t] = NoRequest]} /\ blob' = [blob EXCEPT ![t] = MissingFile]
        /\ fd' = [u \in Thread |-> CASE fd[u] = "tmp" -> "path"
                                     [] fd[u] = "path" -> "gone"
                                     [] OTHER -> fd[u]]
    BY <1>5 DEF RenameTmp, Leave, GoTo
  <2>2. \A u \in Thread : fd'[u] \in {"tmp", "path"} => fd[u] \in {"tmp", "path"}
    BY <2>1
  <2>. QED
    BY <2>1, <2>2
<1>6. CASE Restart
  BY <1>6 DEF Restart
<1>7. CASE TimePasses \/ UNCHANGED serverVars
  BY <1>7 DEF TimePasses, serverVars, threadVars
<1>. QED
  BY <1>1, <1>3, <1>4, <1>5, <1>6, <1>7 DEF ServerNext, Step

\* All that the server does to its cache but a restart, it does in critical
\* sections of the cache.
LEMMA CacheMoves ==
    ThreadsInv /\ [ServerNext]_serverVars => [CacheNext]_cacheVars \/ Restart
<1>. SUFFICES ASSUME ThreadsInv, [ServerNext]_serverVars, ~Restart PROVE [CacheNext]_cacheVars
  OBVIOUS
<1>1. ASSUME NEW t \in Thread, ClaimRefused(t) \/ ClaimAdmitted(t)
      PROVE  \E k \in Key : Admit(k) \/ Refuse(k)
  BY <1>1 DEF ClaimRefused, ClaimAdmitted, ThreadsInv
<1>2. ASSUME NEW t \in Thread, FinishWrites(t)
      PROVE  ForceTake
  BY <1>2 DEF FinishWrites
<1>3. ASSUME NEW t \in Thread, Arrive(t) \/ OpenTmp(t) \/ WriteTmp(t) \/ RenameTmp(t) \/ RenameFails(t)
                                 \/ IoError(t) \/ VerifyOk(t) \/ VerifyFails(t) \/ ConfirmOk(t)
                                 \/ ConfirmFails(t) \/ FinishClean(t)
      PROVE  UNCHANGED cacheVars
  BY <1>3 DEF Arrive, OpenTmp, WriteTmp, RenameTmp, RenameFails, IoError, VerifyOk, VerifyFails,
              ConfirmOk, ConfirmFails, FinishClean
<1>4. CASE TimePasses
  BY <1>4 DEF TimePasses, CacheNext
<1>5. CASE UNCHANGED serverVars
  BY <1>5 DEF serverVars
<1>. QED
  BY <1>1, <1>2, <1>3, <1>4, <1>5 DEF ServerNext, Step, CacheNext
-----------------------------------------------------------------------------
\* A file that loads stands for a history, and one that does not for none.
Sound(f) ==
    /\ f.hist \in Guard!History
    /\ IF f.kind = "good" THEN f.snap \in Snapshot /\ SlicesOf(f.snap, f.hist)
                          ELSE f.hist = Guard!NoHistory

\* The history it stands for is an earlier moment of this one.
SoundNow(f, h) == Sound(f) /\ Guard!Earlier(f.hist, h)

\* The temporary file that a dead process left behind may be of any history;
\* a thread truncates it before it writes or renames it.
FilesInv ==
    /\ SoundNow(disk, hist)
    /\ \A t \in Thread : SoundNow(blob[t], hist)
    /\ \A t \in Thread : pc[t] \in {"write", "rename"} => SoundNow(tmp, hist)

\* A file that is missing or does not load stands for nothing.
LEMMA EmptyFiles ==
    ASSUME NEW h \in Guard!History
    PROVE  /\ SoundNow(MissingFile, h) /\ SoundNow(Truncated, h)
           /\ \A f : SoundNow(Torn(f), h)
  BY DEF SoundNow, Sound, MissingFile, Truncated, Torn, Guard!History, Guard!NoHistory, Guard!Earlier

\* What is sound stays so while the history goes on.
LEMMA SoundLater ==
    ASSUME NEW f, NEW h \in Guard!History, NEW k \in Key, SoundNow(f, h)
    PROVE  SoundNow(f, Guard!Admitted(h, k))
<1>1. f.hist \in Guard!History
  BY DEF SoundNow, Sound
<1>. QED
  BY <1>1 DEF SoundNow, Guard!Earlier, Guard!Admitted, Guard!History

\* Writing over a file, of whatever length, leaves one that is sound.
LEMMA SoundWritten ==
    ASSUME NEW f, NEW g, NEW h \in Guard!History, SoundNow(g, h)
    PROVE  SoundNow(Overwritten(f, g), h)
  BY EmptyFiles DEF Overwritten

\* A snapshot of the cache, with the history of the same moment.
LEMMA SoundBlob ==
    ASSUME NEW c, NEW h \in Guard!History, c.current \in SUBSET Key, c.previous \in SUBSET Key,
           SlicesOf(c, h)
    PROVE  SoundNow(Blob(c, h), h)
<1>1. Serialize(c) \in Snapshot /\ SlicesOf(Serialize(c), h)
  BY SlicesOfFile DEF Serialize, Snapshot
<1>2. Guard!Earlier(h, h)
  BY DEF Guard!Earlier, Guard!History, SlicesOf
<1>. QED
  BY <1>1, <1>2 DEF SoundNow, Sound, Blob

\* Every step keeps the files sound.
LEMMA FilesStep ==
    ThreadsInv /\ CacheInv /\ CacheInv' /\ FilesInv /\ [ServerNext]_serverVars => FilesInv'
<1>. SUFFICES ASSUME ThreadsInv, CacheInv, CacheInv', FilesInv, [ServerNext]_serverVars
              PROVE  FilesInv'
  OBVIOUS
<1>0. hist \in Guard!History /\ hist' \in Guard!History /\ DOMAIN blob = Thread /\ DOMAIN pc = Thread
  BY DEF CacheInv, CacheTypeOK, ThreadsInv
<1>1. /\ SoundNow(MissingFile, hist) /\ SoundNow(Truncated, hist)
      /\ \A f : SoundNow(Torn(f), hist)
  BY <1>0, EmptyFiles
<1>. USE DEF FilesInv
<1>2. ASSUME NEW t \in Thread, ClaimAdmitted(t)
      PROVE  FilesInv'
  <2>1. /\ req[t].key \in Key /\ hist' = Guard!Admitted(hist, req[t].key)
        /\ UNCHANGED <<disk, tmp>>
        /\ \/ blob' = blob
           \/ blob' = [blob EXCEPT ![t] = Blob(cache', hist')]
        /\ \A u \in Thread : pc'[u] \in {"write", "rename"} => pc[u] = pc'[u]
    BY <1>0, <1>2 DEF ClaimAdmitted, Admit, GoTo, ThreadsInv, fileVars
  <2>2. \A f : SoundNow(f, hist) => SoundNow(f, hist')
    BY <1>0, <2>1, SoundLater
  <2>3. SoundNow(Blob(cache', hist'), hist')
    <3>1. SlicesOf(cache', hist') /\ cache' \in CacheRecord
      BY CacheInvIsSlices DEF CacheTypeOK
    <3>. QED
      BY <1>0, <3>1, SoundBlob DEF CacheRecord
  <2>4. \A u \in Thread : SoundNow(blob'[u], hist')
    BY <1>0, <2>1, <2>2, <2>3
  <2>. QED
    BY <2>1, <2>2, <2>4
<1>3. ASSUME NEW t \in Thread, FinishWrites(t)
      PROVE  FilesInv'
  <2>1. /\ UNCHANGED <<hist, disk, tmp>> /\ blob' = [blob EXCEPT ![t] = Blob(cache, hist)]
        /\ \A u \in Thread : pc'[u] \in {"write", "rename"} => pc[u] = pc'[u]
    BY <1>0, <1>3 DEF FinishWrites, ForceTake, GoTo, fileVars
  <2>2. SoundNow(Blob(cache, hist), hist)
    <3>1. SlicesOf(cache, hist) /\ cache \in CacheRecord
      BY CacheInvIsSlices DEF CacheTypeOK
    <3>. QED
      BY <1>0, <3>1, SoundBlob DEF CacheRecord
  <2>3. \A u \in Thread : SoundNow(blob'[u], hist)
    BY <1>0, <2>1, <2>2
  <2>. QED
    BY <2>1, <2>3
<1>4. ASSUME NEW t \in Thread, OpenTmp(t)
      PROVE  FilesInv'
  BY <1>1, <1>4 DEF OpenTmp, cacheVars
<1>5. ASSUME NEW t \in Thread, WriteTmp(t)
      PROVE  FilesInv'
  <2>1. pc[t] = "write" /\ SoundNow(tmp, hist) /\ SoundNow(blob[t], hist)
    BY <1>5 DEF WriteTmp
  <2>2. \A f : SoundNow(Overwritten(f, blob[t]), hist)
    BY <1>0, <2>1, SoundWritten
  <2>. QED
    BY <1>5, <2>1, <2>2 DEF WriteTmp, cacheVars
<1>6. ASSUME NEW t \in Thread, RenameTmp(t)
      PROVE  FilesInv'
  <2>1. /\ pc[t] = "rename" /\ SoundNow(tmp, hist)
        /\ disk' = tmp /\ tmp' = MissingFile /\ hist' = hist
        /\ blob' = [blob EXCEPT ![t] = MissingFile]
    BY <1>6 DEF RenameTmp, Leave, cacheVars
  <2>2. \A u \in Thread : SoundNow(blob'[u], hist)
    BY <1>0, <1>1, <2>1
  <2>. QED
    BY <1>1, <2>1, <2>2
<1>7. ASSUME NEW t \in Thread, Return(t), hist' = hist,
             tmp' \in {tmp, Torn(tmp)}, disk' \in {disk, Torn(disk)}
      PROVE  FilesInv'
  <2>1. /\ blob' = [blob EXCEPT ![t] = MissingFile]
        /\ \A u \in Thread : pc'[u] \in {"write", "rename"} => pc[u] = pc'[u]
    BY <1>0, <1>7 DEF Return, Leave, GoTo
  <2>2. \A u \in Thread : SoundNow(blob'[u], hist)
    BY <1>0, <1>1, <2>1
  <2>. QED
    BY <1>1, <1>7, <2>1, <2>2
<1>8. ASSUME NEW t \in Thread, ClaimRefused(t) \/ RenameFails(t) \/ VerifyFails(t) \/ ConfirmFails(t)
                                  \/ FinishClean(t)
      PROVE  FilesInv'
  <2>1. Return(t) /\ UNCHANGED <<hist, disk, tmp>>
    BY <1>8 DEF ClaimRefused, Refuse, RenameFails, VerifyFails, ConfirmFails, FinishClean, fileVars, cacheVars
  <2>. QED
    BY <1>7, <2>1
<1>9. ASSUME NEW t \in Thread, IoError(t)
      PROVE  FilesInv'
  <2>1. /\ Return(t) /\ hist' = hist
        /\ tmp' \in {tmp, Torn(tmp)} /\ disk' \in {disk, Torn(disk)}
    BY <1>9 DEF IoError, cacheVars
  <2>. QED
    BY <1>7, <2>1
<1>10. ASSUME NEW t \in Thread, Arrive(t) \/ VerifyOk(t) \/ ConfirmOk(t)
       PROVE  FilesInv'
  <2>1. /\ UNCHANGED <<hist, disk, tmp, blob>>
        /\ \A u \in Thread : pc'[u] \in {"write", "rename"} => pc[u] = pc'[u]
    BY <1>0, <1>10 DEF Arrive, VerifyOk, ConfirmOk, GoTo, cacheVars, fileVars
  <2>. QED
    BY <2>1
<1>11. CASE Restart
  <2>1. /\ hist' = disk.hist /\ disk' = disk
        /\ blob' = [t \in Thread |-> MissingFile] /\ pc' = [t \in Thread |-> "idle"]
    BY <1>11 DEF Restart, fileVars
  <2>2. disk.hist \in Guard!History /\ Sound(disk)
    BY DEF SoundNow, Sound
  <2>3. Guard!Earlier(disk.hist, disk.hist)
    BY <2>2 DEF SoundNow, Guard!Earlier, Guard!History
  <2>4. SoundNow(MissingFile, hist')
    BY <1>0, EmptyFiles
  <2>. QED
    BY <2>1, <2>2, <2>3, <2>4 DEF SoundNow
<1>12. CASE TimePasses \/ UNCHANGED serverVars
  <2>1. UNCHANGED <<hist, disk, tmp, blob, pc>>
    BY <1>12 DEF TimePasses, IntervalElapses, serverVars, cacheVars, fileVars, threadVars
  <2>. QED
    BY <2>1
<1>. QED
  BY <1>2, <1>3, <1>4, <1>5, <1>6, <1>8, <1>9, <1>10, <1>11, <1>12 DEF ServerNext, Step

\* What a start loads is the cache of the history that the file stands for, or
\* an empty one.
LEMMA RestartKeeps == CacheInv /\ FilesInv /\ Restart => CacheInv' /\ Guard!GuardRestart
<1>. SUFFICES ASSUME CacheInv, FilesInv, Restart PROVE CacheInv' /\ Guard!GuardRestart
  OBVIOUS
<1>1. /\ cache' = LoadedFrom(disk) /\ hist' = disk.hist /\ saved' = disk.hist.count /\ verdict' = verdict
  BY DEF Restart
<1>2. /\ disk.hist \in Guard!History /\ Guard!Earlier(disk.hist, hist)
      /\ \/ disk.kind = "good" /\ disk.snap \in Snapshot /\ SlicesOf(disk.snap, disk.hist)
         \/ disk.kind # "good" /\ disk.hist = Guard!NoHistory
  BY DEF FilesInv, SoundNow, Sound
<1>3. cache' \in CacheRecord /\ SlicesOf(cache', hist')
  <2>1. CASE disk.kind = "good" /\ disk.snap \in Snapshot /\ SlicesOf(disk.snap, disk.hist)
    BY <1>1, <2>1, SlicesOfFile DEF LoadedFrom, Loaded, Snapshot, CacheRecord, PersistAge
  <2>2. CASE disk.kind # "good" /\ disk.hist = Guard!NoHistory
    <3>1. SlicesOf(DefaultCache, Guard!NoHistory)
      BY EmptySlices DEF DefaultCache
    <3>. QED
      BY <1>1, <2>2, <3>1 DEF LoadedFrom, DefaultCache, CacheRecord, PersistAge
  <2>. QED
    BY <1>2, <2>1, <2>2
<1>4. CacheTypeOK'
  BY <1>1, <1>2, <1>3 DEF CacheInv, CacheTypeOK, Guard!History
<1>. QED
  BY <1>1, <1>2, <1>3, <1>4, CacheInvIsSlices DEF Guard!GuardRestart

ServerInv == ThreadsInv /\ CacheInv /\ FilesInv

\* A server that starts with no file.
LEMMA ServerStart == ServerInit => ServerInv
<1>. SUFFICES ASSUME ServerInit PROVE ServerInv
  OBVIOUS
<1>1. ThreadsInv
  BY DEF ServerInit, ThreadsInv, Location
<1>2. CacheInv
  BY InitInv DEF ServerInit
<1>3. FilesInv
  <2>1. SoundNow(MissingFile, hist)
    BY <1>2, EmptyFiles DEF CacheInv, CacheTypeOK
  <2>. QED
    BY <2>1 DEF ServerInit, FilesInv
<1>. QED
  BY <1>1, <1>2, <1>3 DEF ServerInv

\* Every step keeps threads, cache and files.
LEMMA ServerMoves == ServerInv /\ [ServerNext]_serverVars => ServerInv'
<1>. SUFFICES ASSUME ServerInv, [ServerNext]_serverVars PROVE ServerInv'
  OBVIOUS
<1>1. CacheInv'
  BY CacheMoves, StepInv, RestartKeeps DEF ServerInv
<1>. QED
  BY <1>1, ThreadsStep, FilesStep DEF ServerInv

\* The invariant holds in every reachable state.
LEMMA ServerCorrect == ServerSpec => []ServerInv
  BY ServerStart, ServerMoves, PTL DEF ServerSpec

\* Callers see the abstract guard, with any number of threads that share one
\* temporary file, any failed writes and crashes at any step: what a torn or
\* an old file costs is the history that a restart goes back by, never a key
\* admitted twice in what is left of it.
THEOREM ServerImplements == ServerSpec => ImplementsGuard
<1>1. ServerInit => Guard!GuardInit
  BY DEF ServerInit, CacheInit
<1>2. ServerInv /\ [ServerNext]_serverVars => [Guard!GuardNext]_(Guard!guardVars)
  BY CacheMoves, GuardSteps, RestartKeeps DEF ServerInv, Guard!GuardNext
<1>. QED
  BY <1>1, <1>2, ServerCorrect, PTL DEF ServerSpec, ImplementsGuard, Guard!GuardSpec

\* Through restarts too, a key is remembered while fewer than REPLAY_GEN_MAX
\* others were admitted after it, of the admissions that were not lost.
THEOREM ServerRetains == ServerSpec => []RetentionWindow
<1>1. ServerInv => RetentionWindow
  BY Remembering DEF ServerInv, RetentionWindow
<1>. QED
  BY <1>1, ServerCorrect, PTL
-----------------------------------------------------------------------------
\* With one thread: what is renamed over the file is the snapshot that the
\* thread wrote to the temporary file, which it truncated first.
Whole(f) == f.kind = "good" /\ f.size \in Nat

AloneInv(u) ==
    /\ disk.kind # "garbage"
    /\ fd[u] # "path"
    /\ pc[u] = "open" => Whole(blob[u])
    /\ pc[u] = "write" => fd[u] = "tmp" /\ tmp.size = 0 /\ Whole(blob[u])
    /\ pc[u] = "rename" => tmp.kind = "good"

\* The length of a snapshot is a number.
LEMMA WholeBlobs ==
    CacheInv => Cardinality(cache.current) + Cardinality(cache.previous) \in Nat
  BY FS_CardinalityType DEF CacheInv

\* With one thread nobody else opens, writes or renames its temporary file.
LEMMA AloneStep ==
    ASSUME NEW u, Thread = {u}
    PROVE  ThreadsInv /\ CacheInv /\ CacheInv' /\ AloneInv(u) /\ [ServerNext]_serverVars => AloneInv(u)'
<1>. SUFFICES ASSUME ThreadsInv, CacheInv, CacheInv', AloneInv(u), [ServerNext]_serverVars
              PROVE  AloneInv(u)'
  OBVIOUS
<1>. USE DEF AloneInv
<1>0. u \in Thread /\ DOMAIN pc = Thread /\ DOMAIN blob = Thread /\ DOMAIN fd = Thread
  BY DEF ThreadsInv
<1>1. CASE ClaimAdmitted(u)
  <2>1. Cardinality(cache'.current) + Cardinality(cache'.previous) \in Nat
    BY FS_CardinalityType DEF CacheInv
  <2>2. Whole(Blob(cache', hist'))
    BY <2>1 DEF Whole, Blob
  <2>. QED
    BY <1>0, <1>1, <2>2 DEF ClaimAdmitted, GoTo, fileVars
<1>2. CASE FinishWrites(u)
  <2>1. Whole(Blob(cache, hist))
    BY WholeBlobs DEF Whole, Blob
  <2>. QED
    BY <1>0, <1>2, <2>1 DEF FinishWrites, GoTo, fileVars
<1>3. CASE OpenTmp(u)
  BY <1>0, <1>3 DEF OpenTmp, GoTo, Truncated, MissingFile
<1>4. CASE WriteTmp(u)
  <2>1. Overwritten(tmp, blob[u]).kind = "good"
    BY <1>4 DEF WriteTmp, Whole, Overwritten
  <2>. QED
    BY <1>0, <1>4, <2>1 DEF WriteTmp, GoTo
<1>5. CASE RenameTmp(u)
  <2>1. /\ pc[u] = "rename" /\ disk' = tmp /\ fd[u] # "tmp"
        /\ fd' = [v \in Thread |-> CASE fd[v] = "tmp" -> "path"
                                     [] fd[v] = "path" -> "gone"
                                     [] OTHER -> fd[v]]
        /\ pc'[u] \in {"idle", "verify"}
    BY <1>0, <1>5 DEF RenameTmp, Leave, GoTo, ThreadsInv
  <2>. QED
    BY <1>0, <2>1
<1>6. CASE Return(u) /\ disk' = disk
  BY <1>0, <1>6 DEF Return, Leave, GoTo
<1>7. CASE ClaimRefused(u) \/ RenameFails(u) \/ IoError(u) \/ VerifyFails(u) \/ ConfirmFails(u)
           \/ FinishClean(u)
  BY <1>6, <1>7 DEF ClaimRefused, RenameFails, IoError, VerifyFails, ConfirmFails, FinishClean, fileVars
<1>8. CASE Arrive(u) \/ VerifyOk(u) \/ ConfirmOk(u)
  BY <1>0, <1>8 DEF Arrive, VerifyOk, ConfirmOk, GoTo, fileVars
<1>9. CASE Restart
  BY <1>0, <1>9 DEF Restart, fileVars
<1>10. CASE TimePasses \/ UNCHANGED serverVars
  BY <1>10 DEF TimePasses, serverVars, threadVars, fileVars
<1>. QED
  BY <1>1, <1>2, <1>3, <1>4, <1>5, <1>7, <1>8, <1>9, <1>10 DEF ServerNext, Step

\* A server that handles one session at a time never leaves a file that load
\* rejects, whatever operation fails and whenever the process dies.
THEOREM AloneAlwaysLoads ==
    ASSUME NEW u, Thread = {u}
    PROVE  ServerSpec => []FileAlwaysLoads
<1>1. ServerInit => AloneInv(u)
  BY DEF ServerInit, AloneInv, MissingFile
<1>2. ServerInv /\ ServerInv' /\ AloneInv(u) /\ [ServerNext]_serverVars => AloneInv(u)'
  BY AloneStep DEF ServerInv
<1>3. AloneInv(u) => FileAlwaysLoads
  BY DEF AloneInv, FileAlwaysLoads
<1>. QED
  BY <1>1, <1>2, <1>3, ServerCorrect, PTL DEF ServerSpec
-----------------------------------------------------------------------------
\* With one thread, and outside bench mode, nothing is admitted between taking
\* a snapshot and renaming it: what is being written is the cache as it is, and
\* what the file lacks is what is pending and what failed operations cost.
InFlight(u) == pc[u] \in {"open", "write", "rename"}

Costs(u) == ioErrors + IF InFlight(u) THEN 1 ELSE 0

DurableInv(u) ==
    /\ UnsavedBounded
    /\ ioErrors \in Nat
    /\ InFlight(u) => saved = hist.count
    /\ pc[u] \in {"open", "write"} => blob[u].hist = hist
    /\ pc[u] = "rename" => tmp.hist = hist
    /\ saved - disk.hist.count <= PersistEvery * Costs(u)
    /\ pc[u] \in {"verify", "confirm", "finish"} => cache.dirty \/ disk.hist = hist
    /\ \A k \in completed \cap Key : disk.hist.at[k] = hist.at[k]

\* One more cost is one more batch.
LEMMA OneMoreBatch ==
    ASSUME NEW c \in Nat
    PROVE  PersistEvery * (c + 1) = PersistEvery * c + PersistEvery /\ PersistEvery * c \in Nat
<1>1. PersistEvery \in Nat
  BY CacheAssumption
<1>. QED
  BY <1>1

\* The numbers in the histories of the server and of its file.
LEMMA Counts ==
    ServerInv => /\ hist.count \in Nat /\ disk.hist.count \in Nat /\ disk.hist.count <= hist.count
                 /\ saved \in Nat /\ cache.pending \in Nat /\ cache.dirty \in BOOLEAN
                 /\ PersistEvery \in Nat \ {0}
  BY CacheAssumption DEF ServerInv, CacheInv, CacheTypeOK, CacheRecord, FilesInv, SoundNow, Sound,
                         Guard!History, Guard!Earlier

\* A thread that takes a snapshot has everything in it: the cost is a batch.
LEMMA SnapshotCosts ==
    ASSUME NEW u, Thread = {u}, ~BenchMode, ServerInv, ServerInv', DurableInv(u), UnsavedBounded',
           ~InFlight(u), InFlight(u)', ioErrors' = ioErrors, disk' = disk,
           hist'.count \in {hist.count, hist.count + 1},
           saved' = hist'.count
    PROVE  saved' - disk'.hist.count <= PersistEvery * Costs(u)'
<1>1. /\ saved - disk.hist.count <= PersistEvery * ioErrors
      /\ hist.count - saved < PersistEvery
      /\ ioErrors \in Nat
  BY DEF DurableInv, Costs, UnsavedBounded
<1>2. Costs(u)' = ioErrors + 1
  BY DEF Costs
<1>3. PersistEvery * (ioErrors + 1) = PersistEvery * ioErrors + PersistEvery /\ PersistEvery * ioErrors \in Nat
  BY <1>1, OneMoreBatch
<1>4. saved' <= hist.count + 1 /\ saved' \in Nat
  BY Counts
<1>5. saved' - disk.hist.count <= PersistEvery * ioErrors + PersistEvery
  BY <1>1, <1>3, <1>4, Counts
<1>. QED
  BY <1>2, <1>3, <1>5

\* Every step of the one thread, every crash and every failure keeps the account.
LEMMA DurableStep ==
    ASSUME NEW u, Thread = {u}, ~BenchMode
    PROVE  ServerInv /\ ServerInv' /\ AloneInv(u) /\ DurableInv(u) /\ [ServerNext]_serverVars => DurableInv(u)'
<1>. SUFFICES ASSUME ServerInv, ServerInv', AloneInv(u), DurableInv(u), [ServerNext]_serverVars
              PROVE  DurableInv(u)'
  OBVIOUS
<1>0. /\ u \in Thread /\ DOMAIN pc = Thread /\ DOMAIN blob = Thread /\ DOMAIN fd = Thread
      /\ pc[u] = "claim" => req[u].key \in Key
  BY DEF ServerInv, ThreadsInv
<1>a. /\ UnsavedBounded /\ ioErrors \in Nat
      /\ InFlight(u) => saved = hist.count
      /\ pc[u] \in {"open", "write"} => blob[u].hist = hist
      /\ pc[u] = "rename" => tmp.hist = hist
      /\ saved - disk.hist.count <= PersistEvery * Costs(u)
      /\ pc[u] \in {"verify", "confirm", "finish"} => cache.dirty \/ disk.hist = hist
      /\ \A k \in completed \cap Key : disk.hist.at[k] = hist.at[k]
  BY DEF DurableInv
<1>b. CacheTypeOK
  BY DEF ServerInv, CacheInv
<1>c. UnsavedBounded' \/ Restart
  BY <1>a, <1>b, CacheMoves, UnsavedStep DEF ServerInv
<1>1. CASE ClaimAdmitted(u)
  <2>. DEFINE key == req[u].key
  <2>1. /\ key \in Key /\ pc[u] = "claim" /\ UNCHANGED <<disk, tmp, ioErrors>>
        /\ hist' = Guard!Admitted(hist, key) /\ completed' = completed \ {key}
        /\ cache' = Claimed(cache, key)
        /\ saved' = IF ClaimTakes(cache, key) THEN hist.count + 1 ELSE saved
    BY <1>0, <1>1 DEF ClaimAdmitted, Admit, fileVars, boundVars
  <2>2. hist'.count = hist.count + 1 /\ UnsavedBounded' /\ ~InFlight(u)
    <3>1. ~Restart
      BY <2>1 DEF Restart, Guard!Admitted, ServerInv, FilesInv, SoundNow, Guard!Earlier, CacheInv, CacheTypeOK,
                  Guard!History, Sound
    <3>. QED
      BY <1>c, <2>1, <3>1 DEF Guard!Admitted, InFlight
  <2>3. \A k \in completed' \cap Key : disk'.hist.at[k] = hist'.at[k]
    <3>. SUFFICES ASSUME NEW k \in Key, k \in completed, k # key PROVE disk.hist.at[k] = hist'.at[k]
      BY <2>1
    <3>1. hist.at \in [Key -> Nat]
      BY <1>b DEF CacheTypeOK, Guard!History
    <3>. QED
      BY <1>a, <2>1, <3>1 DEF Guard!Admitted
  <2>4. CASE ClaimTakes(cache, key)
    <3>1. pc'[u] = "open" /\ blob'[u].hist = hist' /\ saved' = hist'.count
      BY <1>0, <1>1, <2>1, <2>2, <2>4 DEF ClaimAdmitted, GoTo, Blob
    <3>2. InFlight(u)'
      BY <3>1 DEF InFlight
    <3>3. saved' - disk'.hist.count <= PersistEvery * Costs(u)'
      BY <2>1, <2>2, <3>1, <3>2, SnapshotCosts
    <3>. QED
      BY <1>a, <2>1, <2>2, <2>3, <3>1, <3>3 DEF DurableInv
  <2>5. CASE ~ClaimTakes(cache, key)
    <3>1. pc'[u] = "verify" /\ saved' = saved
      BY <1>0, <1>1, <2>1, <2>5 DEF ClaimAdmitted, GoTo
    <3>2. cache'.dirty
      BY <2>1, <2>5 DEF Claimed, Inserted
    <3>3. ~InFlight(u)' /\ Costs(u)' = Costs(u)
      BY <2>1, <2>2, <3>1 DEF InFlight, Costs
    <3>. QED
      BY <1>a, <2>1, <2>2, <2>3, <3>1, <3>2, <3>3 DEF DurableInv
  <2>. QED
    BY <2>4, <2>5
<1>2. CASE FinishWrites(u)
  <2>1. /\ pc[u] = "finish" /\ pc'[u] = "open" /\ blob'[u].hist = hist'
        /\ UNCHANGED <<disk, tmp, ioErrors, hist, completed>> /\ saved' = hist.count
    BY <1>0, <1>2 DEF FinishWrites, ForceTake, GoTo, Blob, fileVars, boundVars
  <2>2. UnsavedBounded'
    BY <1>2, <1>a, <1>b, UnsavedStep DEF FinishWrites, CacheNext
  <2>3. ~InFlight(u) /\ InFlight(u)'
    BY <2>1 DEF InFlight
  <2>4. saved' - disk'.hist.count <= PersistEvery * Costs(u)'
    BY <2>1, <2>2, <2>3, SnapshotCosts
  <2>. QED
    BY <1>a, <2>1, <2>2, <2>4 DEF DurableInv
<1>3. CASE OpenTmp(u)
  <2>1. /\ pc[u] = "open" /\ pc'[u] = "write" /\ UNCHANGED <<cacheVars, blob, disk, ioErrors, completed>>
    BY <1>0, <1>3 DEF OpenTmp, GoTo, boundVars
  <2>2. InFlight(u) /\ InFlight(u)' /\ Costs(u)' = Costs(u)
    BY <2>1 DEF InFlight, Costs
  <2>. QED
    BY <1>a, <2>1, <2>2 DEF DurableInv, UnsavedBounded, cacheVars
<1>4. CASE WriteTmp(u)
  <2>1. /\ pc[u] = "write" /\ pc'[u] = "rename" /\ UNCHANGED <<cacheVars, blob, disk, ioErrors, completed>>
        /\ tmp' = Overwritten(tmp, blob[u])
    BY <1>0, <1>4 DEF WriteTmp, GoTo, boundVars, AloneInv
  <2>2. InFlight(u) /\ InFlight(u)' /\ Costs(u)' = Costs(u)
    BY <2>1 DEF InFlight, Costs
  <2>3. tmp' = blob[u]
    BY <2>1 DEF AloneInv, Overwritten, Whole
  <2>. QED
    BY <1>a, <2>1, <2>2, <2>3 DEF DurableInv, UnsavedBounded, cacheVars
<1>5. CASE RenameTmp(u)
  <2>1. /\ pc[u] = "rename" /\ pc'[u] \in {"idle", "verify"} /\ UNCHANGED <<cacheVars, ioErrors>>
        /\ disk' = tmp
    BY <1>0, <1>5 DEF RenameTmp, Leave, GoTo, boundVars
  <2>2. disk'.hist = hist /\ saved = hist.count /\ ~InFlight(u)' /\ Costs(u)' = ioErrors /\ hist' = hist
    BY <1>a, <2>1 DEF InFlight, Costs, cacheVars
  <2>3. saved' - disk'.hist.count <= PersistEvery * Costs(u)'
    <3>1. saved' - disk'.hist.count = 0
      BY <2>1, <2>2, Counts DEF cacheVars
    <3>. QED
      BY <1>a, <2>2, <3>1, OneMoreBatch
  <2>. QED
    BY <1>a, <2>1, <2>2, <2>3 DEF DurableInv, UnsavedBounded, cacheVars
<1>6. CASE IoError(u)
  <2>1. /\ InFlight(u) /\ pc'[u] = "idle" /\ UNCHANGED <<cacheVars, disk, completed>> /\ ioErrors' = ioErrors + 1
    BY <1>0, <1>6 DEF IoError, Return, Leave, GoTo, InFlight, AloneInv
  <2>2. ~InFlight(u)' /\ Costs(u)' = Costs(u)
    BY <1>a, <2>1 DEF InFlight, Costs
  <2>. QED
    BY <1>a, <2>1, <2>2 DEF DurableInv, UnsavedBounded, cacheVars
<1>7. CASE FinishClean(u)
  <2>1. /\ pc[u] = "finish" /\ pc'[u] = "idle" /\ UNCHANGED <<cacheVars, disk, ioErrors>>
        /\ ~cache.dirty
    BY <1>0, <1>7 DEF FinishClean, Due, Return, Leave, GoTo, fileVars, boundVars
  <2>2. disk.hist = hist /\ ~InFlight(u)' /\ Costs(u)' = Costs(u)
    BY <1>a, <2>1 DEF InFlight, Costs
  <2>. QED
    BY <1>a, <2>1, <2>2 DEF DurableInv, UnsavedBounded, cacheVars
<1>8. CASE ClaimRefused(u) \/ VerifyFails(u) \/ ConfirmFails(u)
  <2>1. /\ ~InFlight(u) /\ pc'[u] = "idle" /\ UNCHANGED <<cache, hist, saved, disk, completed, ioErrors>>
    BY <1>0, <1>8 DEF ClaimRefused, Refuse, VerifyFails, ConfirmFails, Return, Leave, GoTo, InFlight,
                      fileVars, boundVars, cacheVars
  <2>2. ~InFlight(u)' /\ Costs(u)' = Costs(u)
    BY <2>1 DEF InFlight, Costs
  <2>. QED
    BY <1>a, <2>1, <2>2 DEF DurableInv, UnsavedBounded
<1>9. CASE RenameFails(u)
  BY <1>9 DEF RenameFails, AloneInv
<1>10. CASE Arrive(u) \/ VerifyOk(u) \/ ConfirmOk(u)
  <2>1. /\ UNCHANGED <<cacheVars, disk, completed, ioErrors>>
        /\ \/ pc[u] = "idle" /\ pc'[u] = "claim"
           \/ pc[u] \in {"verify", "confirm"} /\ pc'[u] \in {"confirm", "finish"}
    BY <1>0, <1>10 DEF Arrive, VerifyOk, ConfirmOk, GoTo, fileVars, boundVars
  <2>2. ~InFlight(u) /\ ~InFlight(u)' /\ Costs(u)' = Costs(u)
    BY <2>1 DEF InFlight, Costs
  <2>. QED
    BY <1>a, <2>1, <2>2 DEF DurableInv, UnsavedBounded, cacheVars
<1>11. CASE Restart
  <2>1. /\ cache' = LoadedFrom(disk) /\ hist' = disk.hist /\ saved' = disk.hist.count
        /\ UNCHANGED <<disk, completed, ioErrors>> /\ pc' = [t \in Thread |-> "idle"]
    BY <1>11 DEF Restart, fileVars
  <2>2. cache'.pending = 0 /\ cache'.dirty = FALSE
    BY <2>1 DEF LoadedFrom, Loaded, DefaultCache
  <2>3. UnsavedBounded' /\ saved' - disk'.hist.count = 0
    BY <2>1, <2>2, Counts DEF UnsavedBounded
  <2>4. pc'[u] = "idle" /\ ~InFlight(u)' /\ Costs(u)' = ioErrors
    BY <1>0, <1>a, <2>1 DEF InFlight, Costs
  <2>5. saved' - disk'.hist.count <= PersistEvery * Costs(u)'
    BY <1>a, <2>3, <2>4, OneMoreBatch
  <2>. QED
    BY <1>a, <2>1, <2>3, <2>4, <2>5 DEF DurableInv
<1>12. CASE TimePasses
  <2>1. /\ UNCHANGED <<hist, saved, threadVars, disk, tmp, completed, ioErrors>>
        /\ cache' = [cache EXCEPT !.lastPersist = "elapsed"]
    BY <1>12 DEF TimePasses, IntervalElapses, fileVars, boundVars
  <2>2. cache'.pending = cache.pending /\ cache'.dirty = cache.dirty
    BY <1>b, <2>1 DEF CacheTypeOK, CacheRecord
  <2>3. InFlight(u)' = InFlight(u) /\ Costs(u)' = Costs(u)
    BY <2>1 DEF InFlight, Costs, threadVars
  <2>. QED
    BY <1>a, <2>1, <2>2, <2>3 DEF DurableInv, UnsavedBounded, threadVars
<1>13. CASE UNCHANGED serverVars
  <2>1. UNCHANGED <<cacheVars, threadVars, disk, tmp, completed, ioErrors>>
    BY <1>13 DEF serverVars, fileVars, boundVars
  <2>3. InFlight(u)' = InFlight(u) /\ Costs(u)' = Costs(u)
    BY <2>1 DEF InFlight, Costs, threadVars
  <2>. QED
    BY <1>a, <2>1, <2>3 DEF DurableInv, UnsavedBounded, threadVars, cacheVars
<1>. QED
  BY <1>1, <1>2, <1>3, <1>4, <1>5, <1>6, <1>7, <1>8, <1>9, <1>10, <1>11, <1>12, <1>13
     DEF ServerNext, Step

\* Nothing is lost and nothing completed before the first session.
LEMMA DurableStart ==
    ASSUME NEW u, Thread = {u}
    PROVE  ServerInit => DurableInv(u)
<1>. SUFFICES ASSUME ServerInit PROVE DurableInv(u)
  OBVIOUS
<1>1. /\ pc[u] = "idle" /\ ioErrors = 0 /\ completed = {} /\ saved = 0 /\ disk.hist.count = 0
      /\ hist.count = 0 /\ cache.pending = 0 /\ cache.dirty = FALSE
  BY DEF ServerInit, CacheInit, DefaultCache, Guard!GuardInit, Guard!NoHistory, MissingFile
<1>2. ~InFlight(u) /\ Costs(u) = 0
  BY <1>1 DEF InFlight, Costs
<1>3. saved - disk.hist.count <= PersistEvery * Costs(u)
  BY <1>1, <1>2, CacheAssumption
<1>4. UnsavedBounded
  BY <1>1, CacheAssumption DEF UnsavedBounded
<1>. QED
  BY <1>1, <1>2, <1>3, <1>4 DEF DurableInv

\* The account holds in every reachable state.
LEMMA DurableAlone ==
    ASSUME NEW u, Thread = {u}, ~BenchMode
    PROVE  ServerSpec => [](ServerInv /\ AloneInv(u) /\ DurableInv(u))
<1>1. ServerInit => AloneInv(u) /\ DurableInv(u)
  BY DurableStart DEF ServerInit, AloneInv, MissingFile
<1>2. /\ ServerInv /\ ServerInv' /\ AloneInv(u) /\ DurableInv(u) /\ [ServerNext]_serverVars
      => AloneInv(u)' /\ DurableInv(u)'
  BY AloneStep, DurableStep DEF ServerInv
<1>. QED
  BY <1>1, <1>2, ServerCorrect, PTL DEF ServerSpec

\* A server that handles one session at a time has every completed session in
\* its file, at any moment a crash may come: a key is not added to those
\* completed before the rename, and the file never goes back.
THEOREM AloneIsDurable ==
    ASSUME NEW u, Thread = {u}, ~BenchMode
    PROVE  ServerSpec => []CompletedKeysDurable
<1>1. ASSUME ServerInv, DurableInv(u) PROVE CompletedKeysDurable
  <2>. SUFFICES ASSUME NEW k \in Key, k \in completed, hist.at[k] > 0, Guard!AdmitsSince(hist, k) < GenMax
                PROVE  disk.kind = "good" /\ k \in Remembered(disk.snap)
    BY DEF CompletedKeysDurable
  <2>1. disk.hist.at[k] = hist.at[k]
    BY <1>1 DEF DurableInv
  <2>2. disk.hist \in Guard!History /\ hist \in Guard!History /\ disk.hist.count <= hist.count
    BY <1>1 DEF ServerInv, FilesInv, SoundNow, Sound, CacheInv, CacheTypeOK, Guard!Earlier
  <2>3. disk.hist # Guard!NoHistory
    BY <2>1, <2>2 DEF Guard!NoHistory, Guard!History
  <2>4. disk.kind = "good" /\ SlicesOf(disk.snap, disk.hist)
    BY <1>1, <2>3 DEF ServerInv, FilesInv, SoundNow, Sound
  <2>5. GenMax \in Nat
    BY CacheAssumption
  <2>6. disk.hist.at[k] > 0 /\ Guard!AdmitsSince(disk.hist, k) < GenMax
    BY <2>1, <2>2, <2>5 DEF Guard!AdmitsSince, Guard!History
  <2>. QED
    BY <2>2, <2>4, <2>6, SlicesRemember
<1>. QED
  BY <1>1, DurableAlone, PTL

\* What a crash makes such a server forget is one batch of
\* REPLAY_PERSIST_EVERY_INSERTS admissions, and one more for each file
\* operation that failed.
THEOREM AloneLosesLittle ==
    ASSUME NEW u, Thread = {u}, ~BenchMode
    PROVE  ServerSpec => []LossBounded
<1>1. ASSUME ServerInv, DurableInv(u) PROVE LossBounded
  <2>1. /\ saved - disk.hist.count <= PersistEvery * Costs(u)
        /\ hist.count - saved < PersistEvery /\ ioErrors \in Nat
        /\ InFlight(u) => saved = hist.count
    BY <1>1 DEF DurableInv, UnsavedBounded
  <2>2. PersistEvery * (ioErrors + 1) = PersistEvery * ioErrors + PersistEvery /\ PersistEvery * ioErrors \in Nat
    BY <2>1, OneMoreBatch
  <2>3. CASE InFlight(u)
    <3>1. hist.count - disk.hist.count <= PersistEvery * (ioErrors + 1)
      BY <2>1, <2>3 DEF Costs
    <3>. QED
      BY <2>1, <3>1 DEF LossBounded
  <2>4. CASE ~InFlight(u)
    <3>1. saved - disk.hist.count <= PersistEvery * ioErrors
      BY <2>1, <2>4 DEF Costs
    <3>2. hist.count - disk.hist.count <= PersistEvery * ioErrors + PersistEvery
      BY <1>1, <2>1, <2>2, <3>1, Counts
    <3>3. hist.count - disk.hist.count <= PersistEvery * (ioErrors + 1)
      BY <2>2, <3>2
    <3>. QED
      BY <2>1, <3>3 DEF LossBounded
  <2>. QED
    BY <2>3, <2>4
<1>. QED
  BY <1>1, DurableAlone, PTL
=============================================================================

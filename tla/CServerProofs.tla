--------------------------- MODULE CServerProofs ----------------------------
(***************************************************************************)
(* Theorems about CServer, for every set of devices and keys, all limits,  *)
(* and any number of stops and failed writes.  What is proved of the cache *)
(* in ReplayCacheProofs is used here for the cache in memory and for the   *)
(* one that the file stands for, which a restart makes the former.         *)
(***************************************************************************)
EXTENDS CServer, ReplayCacheProofs

\* The request in hand is of the kind that its stage is for.
Stage ==
    /\ pc \in {"proof", "backup", "write", "ack"} =>
           \E r \in SetupRequest : req = Setup(r)
    /\ pc \in {"claim", "persist", "verify", "confirm"} =>
           \E c \in Credential, k \in Key : req = Auth(c, k)

\* What CServerTypeOK says of everything but the cache object, and the
\* records that are where.
Records ==
    /\ reg \in Registries /\ kept \in Registries /\ acked \in Registries
    /\ bin \in {Missing} \cup {Holding(r) : r \in Registries}
    /\ bak \in {Missing} \cup {Holding(r) : r \in Registries}
    /\ OneRecordEach(reg)
    /\ OneRecordEach(UNION bin)
    /\ OneRecordEach(UNION bak)
    /\ orphaned \in BOOLEAN

Control ==
    /\ pc \in {"accept", "proof", "backup", "write", "ack",
               "claim", "persist", "verify", "confirm"}
    /\ req \in Request \cup {NoRequest}
    /\ pc = "accept" <=> req = NoRequest
    /\ crashes \in 0 .. MaxCrashes /\ ioErrors \in 0 .. MaxIoErrors
    /\ Stage

\* Nothing is in registry.bin but what was saved, and all that was saved is in
\* memory, and in registry.bin or else in registry.bak; while no write has
\* failed, memory is ahead by the record that is about to be saved only.
Unsaved == IF pc \in {"backup", "write"} THEN {req.rec} ELSE {}

Saved ==
    /\ UNION bin \subseteq kept
    /\ ~orphaned => kept \subseteq reg
    /\ ~orphaned => kept \subseteq (UNION bin) \cup (UNION bak)
    /\ ~orphaned /\ bin # Missing => kept \subseteq UNION bin
    /\ Unsaved \subseteq reg
    /\ ioErrors = 0 => reg \subseteq kept \cup Unsaved
    /\ ioErrors = 0 /\ pc = "ack" => req.rec \in kept
    /\ ioErrors = 0 => acked \subseteq kept

\* The steps that leave the registry alone.
OtherStep ==
    \/ Accept \/ ClientFails \/ FindsSame \/ FindsOther \/ BackUpFails \/ WriteFails
    \/ ClaimRefused \/ ClaimAdmitted \/ Persist \/ PersistFails \/ Verify \/ Confirm
    \/ TimePasses \/ UNCHANGED vars

\* The steps that touch neither registry nor its files.
LEMMA OtherSteps == OtherStep => UNCHANGED registry
BY DEF OtherStep, Accept, ClientFails, FindsSame, FindsOther, BackUpFails, WriteFails,
       ClaimRefused, ClaimAdmitted, Persist, PersistFails, Verify, Confirm, TimePasses, vars

\* What a request of each kind is made of.
LEMMA Requests ==
    /\ NoRequest \notin Request
    /\ \A q \in Request : q.kind = "setup" => q.rec \in SetupRequest /\ q = Setup(q.rec)
    /\ \A q \in Request : q.kind # "setup" =>
           \E c \in Credential, k \in Key : q = Auth(c, k)
<1>1. \A q \in Request : \/ \E r \in SetupRequest : q = Setup(r)
                         \/ \E c \in Credential, k \in Key : q = Auth(c, k)
  BY DEF Request
<1>2. NoRequest.kind = "none"
  BY DEF NoRequest
<1>3. \A r \in SetupRequest : Setup(r).kind = "setup" /\ Setup(r).rec = r
  BY DEF Setup
<1>4. \A c \in Credential, k \in Key : Auth(c, k).kind = "auth"
  BY DEF Auth
<1> QED
  BY <1>1, <1>2, <1>3, <1>4

\* Each step of handle_client keeps to the control flow.
LEMMA ControlStep == Control /\ [Next]_vars => Control'
<1> SUFFICES ASSUME Control, [Next]_vars PROVE Control'
  OBVIOUS
<1> USE CServerAssumption DEF Control, Stage, Return, IoFails, bounds
<1>1. CASE Accept
  BY <1>1, Requests DEF Accept, replay
<1>2. CASE ClientFails
  BY <1>2 DEF ClientFails, replay
<1>3. CASE Adds
  BY <1>3, Requests DEF Adds, replay
<1>4. CASE FindsSame
  BY <1>4, Requests DEF FindsSame, replay
<1>5. CASE FindsOther
  BY <1>5 DEF FindsOther, replay
<1>6. CASE BackUp
  BY <1>6, Requests DEF BackUp, replay
<1>7. CASE BackUpFails
  BY <1>7, Requests DEF BackUpFails, replay
<1>8. CASE Write
  BY <1>8, Requests DEF Write, replay
<1>9. CASE WriteFails
  BY <1>9 DEF WriteFails, replay
<1>10. CASE Acknowledge
  BY <1>10 DEF Acknowledge, replay
<1>11. CASE ClaimRefused
  BY <1>11 DEF ClaimRefused
<1>12. CASE ClaimAdmitted
  BY <1>12, Requests DEF ClaimAdmitted
<1>13. CASE Persist
  BY <1>13, Requests DEF Persist
<1>14. CASE PersistFails
  BY <1>14 DEF PersistFails, replay
<1>15. CASE Verify
  BY <1>15, Requests DEF Verify, replay
<1>16. CASE Confirm
  <2>1. req.key \in Key
    BY <1>16 DEF Confirm, Auth
  <2> QED
    BY <1>16, <2>1 DEF Confirm
<1>17. CASE TimePasses
  BY <1>17 DEF TimePasses
<1>18. CASE Restart
  BY <1>18 DEF Restart
<1>19. CASE UNCHANGED vars
  BY <1>19 DEF vars, replay
<1> QED
  BY <1>1, <1>2, <1>3, <1>4, <1>5, <1>6, <1>7, <1>8, <1>9, <1>10, <1>11, <1>12,
     <1>13, <1>14, <1>15, <1>16, <1>17, <1>18, <1>19 DEF Next

\* A record in hand is one of SetupRequest, which are records.
LEMMA InHand ==
    ASSUME Control, pc \in {"proof", "backup", "write", "ack"}
    PROVE  req.rec \in Record
BY CServerAssumption DEF Control, Stage, Setup

\* reg_upsert adds a record of an id that has none; files get what is in
\* memory, and memory what is in a file.
LEMMA RecordsStep == Control /\ Records /\ [Next]_vars => Records'
<1> SUFFICES ASSUME Control, Records, [Next]_vars PROVE Records'
  OBVIOUS
<1> USE DEF Records, Registries, Missing
<1>1. CASE OtherStep
  BY <1>1, OtherSteps DEF registry
<1>2. CASE Adds
  <2>1. req.rec \in Record
    BY <1>2, InHand DEF Adds
  <2>2. OneRecordEach(reg \cup {req.rec})
    BY <1>2 DEF Adds, SameId, OneRecordEach
  <2> QED
    BY <1>2, <2>1, <2>2 DEF Adds
<1>3. CASE BackUp
  <2>1. OneRecordEach(UNION {})
    BY DEF OneRecordEach
  <2> QED
    BY <1>3, <2>1 DEF BackUp
<1>4. CASE Write
  <2>1. UNION Holding(reg) = reg
    BY DEF Holding
  <2> QED
    BY <1>4, <2>1 DEF Write
<1>5. CASE Acknowledge
  <2>1. req.rec \in Record
    BY <1>5, InHand DEF Acknowledge
  <2> QED
    BY <1>5, <2>1 DEF Acknowledge
<1>6. CASE Restart
  <2>1. UNION bin \in SUBSET Record
    BY DEF Holding
  <2> QED
    BY <1>6, <2>1 DEF Restart, LoadedRegistry
<1> QED
  BY <1>1, <1>2, <1>3, <1>4, <1>5, <1>6 DEF Next, OtherStep

\* What is saved stays in a file through the two renames.
LEMMA SavedStep == Control /\ Records /\ Saved /\ [Next]_vars => Saved'
<1> SUFFICES ASSUME Control, Records, Saved, [Next]_vars PROVE Saved'
  OBVIOUS
<1> USE DEF Saved, Unsaved, Missing
<1>0. ioErrors \in Nat
  BY CServerAssumption DEF Control
<1>1. CASE \/ Accept \/ ClientFails \/ FindsOther \/ ClaimRefused \/ ClaimAdmitted
           \/ Persist \/ Verify \/ Confirm \/ TimePasses \/ UNCHANGED vars
  <2>1. UNCHANGED <<registry, ioErrors>>
    BY <1>1 DEF Accept, ClientFails, FindsOther, ClaimRefused, ClaimAdmitted, Persist,
                Verify, Confirm, TimePasses, vars, bounds
  <2>2. pc' # "ack" \/ (pc' = pc /\ req' = req)
    BY <1>1 DEF Accept, ClientFails, FindsOther, ClaimRefused, ClaimAdmitted, Persist,
                Verify, Confirm, TimePasses, Return, vars
  <2>3. pc \notin {"backup", "write"} \/ (pc' = pc /\ req' = req)
    BY <1>1 DEF Accept, ClientFails, FindsOther, ClaimRefused, ClaimAdmitted, Persist,
                Verify, Confirm, TimePasses, Return, vars
  <2>4. Unsaved' \subseteq Unsaved /\ Unsaved \subseteq Unsaved'
    BY <2>3, <1>1 DEF Accept, ClientFails, FindsOther, ClaimRefused, ClaimAdmitted, Persist,
                Verify, Confirm, TimePasses, Return, vars
  <2> HIDE DEF Unsaved
  <2> QED
    BY <2>1, <2>2, <2>4 DEF registry
<1>2. CASE BackUpFails \/ WriteFails \/ PersistFails
  <2>1. UNCHANGED registry /\ ioErrors' # 0
    BY <1>0, <1>2 DEF BackUpFails, WriteFails, PersistFails, IoFails
  <2>2. \/ pc = "backup" /\ pc' = "write" /\ req' = req
        \/ pc' = "accept"
    BY <1>2 DEF BackUpFails, WriteFails, PersistFails, Return
  <2>3. Unsaved' \subseteq Unsaved
    BY <2>2
  <2> QED
    BY <2>1, <2>3 DEF registry
<1>3. CASE Adds
  BY <1>3 DEF Adds, bounds
<1>4. CASE FindsSame
  BY <1>4 DEF FindsSame, bounds, registry
<1>5. CASE BackUp
  <2>1. /\ bin' = {} /\ bak' = IF bin = {} THEN bak ELSE bin
        /\ pc = "backup" /\ pc' = "write" /\ req' = req
        /\ UNCHANGED <<reg, kept, acked, orphaned, ioErrors>>
    BY <1>5 DEF BackUp, bounds
  <2>2. UNION {} = {} /\ UNION bin' = {}
    BY <2>1
  <2>3. Unsaved' = Unsaved
    BY <2>1
  <2>4. ~orphaned => kept \subseteq UNION bak'
    <3>1. CASE bin = {}
      <4>1. UNION bin = {} /\ bak' = bak
        BY <2>1, <2>2, <3>1, Zenon
      <4> QED
        BY <4>1
    <3>2. CASE bin # {}
      BY <2>1, <3>2
    <3> QED
      BY <3>1, <3>2
  <2>5. UNION bin' \subseteq kept'
    BY <2>2
  <2>6. ~orphaned' => kept' \subseteq (UNION bin') \cup (UNION bak')
    BY <2>1, <2>4, Zenon
  <2>7. bin' = {} /\ UNCHANGED <<reg, kept, acked, orphaned, ioErrors>> /\ pc' # "ack"
    BY <2>1
  <2> HIDE DEF Unsaved
  <2> QED
    BY <2>3, <2>5, <2>6, <2>7
<1>6. CASE Write
  <2>1. UNION bin' = reg /\ bin' # {} /\ reg' = reg /\ kept' = kept \cup reg
    BY <1>6 DEF Write, Holding
  <2>2. /\ pc' = "ack" /\ req' = req /\ pc = "write"
        /\ UNCHANGED <<bak, acked, orphaned, ioErrors>>
    BY <1>6 DEF Write, bounds
  <2> QED
    BY <2>1, <2>2
<1>7. CASE Acknowledge
  BY <1>7 DEF Acknowledge, Return, bounds
<1>8. CASE Restart
  <2>1. /\ reg' = UNION bin /\ pc' = "accept"
        /\ orphaned' = (orphaned \/ (bin = {} /\ bak # {}))
        /\ UNCHANGED <<bin, bak, kept, acked, ioErrors>>
    BY <1>8 DEF Restart, Return, LoadedRegistry
  <2> QED
    BY <2>1
<1> QED
  BY <1>1, <1>2, <1>3, <1>4, <1>5, <1>6, <1>7, <1>8 DEF Next
-----------------------------------------------------------------------------
\* The file holds the cache of an earlier moment of the history.
FileIsEarlier ==
    /\ cacheBin \in [snap : Snapshot, hist : Guard!History]
    /\ SlicesOf(cacheBin.snap, cacheBin.hist)
    /\ Guard!Earlier(cacheBin.hist, hist)

\* Steps that touch neither the generations nor the history nor the file.
CacheIdle ==
    /\ cache'.current = cache.current /\ cache'.previous = cache.previous
    /\ UNCHANGED <<hist, cacheBin>>
    /\ CacheTypeOK'

\* The cache, and the cache in the file, through claims, writes and restarts.
LEMMA CacheStep ==
    Control /\ CacheInv /\ FileIsEarlier /\ [Next]_vars => CacheInv' /\ FileIsEarlier'
<1> SUFFICES ASSUME Control, CacheInv, FileIsEarlier, [Next]_vars
             PROVE  CacheInv' /\ FileIsEarlier'
  OBVIOUS
<1>0. /\ cache \in CacheRecord /\ hist \in Guard!History /\ saved \in Nat
      /\ verdict \in [key : Key \cup {"none"}, admitted : BOOLEAN]
      /\ \A k \in Key : hist.at[k] <= hist.count
  BY DEF CacheInv, CacheTypeOK
<1>1. CASE CacheIdle
  <2>1. SlicesOf(cache', hist')
    BY <1>1, CacheInvIsSlices, SameSlices DEF CacheIdle
  <2> QED
    BY <1>1, <2>1, CacheInvIsSlices DEF CacheIdle, FileIsEarlier
<1>2. CASE \/ Accept \/ ClientFails \/ Adds \/ FindsSame \/ FindsOther \/ BackUp
           \/ BackUpFails \/ Write \/ WriteFails \/ Acknowledge \/ PersistFails
           \/ Verify \/ Confirm \/ UNCHANGED vars
  <2>1. UNCHANGED <<cache, hist, saved, verdict, cacheBin>>
    BY <1>2 DEF Accept, ClientFails, Adds, FindsSame, FindsOther, BackUp, BackUpFails, Write,
                WriteFails, Acknowledge, PersistFails, Verify, Confirm, vars, replay, cacheVars
  <2> QED
    BY <1>0, <1>1, <2>1 DEF CacheIdle, CacheTypeOK
<1>3. CASE ClaimRefused
  <2>1. req.key \in Key
    BY <1>3 DEF ClaimRefused, Control, Stage, Auth
  <2> QED
    BY <1>0, <1>1, <1>3, <2>1 DEF ClaimRefused, Refuse, CacheIdle, CacheTypeOK
<1>4. CASE ClaimAdmitted
  <2> DEFINE k == req.key
  <2>1. k \in Key
    BY <1>4 DEF ClaimAdmitted, Control, Stage, Auth
  <2>2. /\ k \notin Remembered(cache) /\ cache' = Inserted(cache, k)
        /\ hist' = Guard!Admitted(hist, k)
        /\ verdict' = [key |-> k, admitted |-> TRUE]
        /\ UNCHANGED <<saved, cacheBin>>
    BY <1>4 DEF ClaimAdmitted
  <2> HIDE DEF k
  <2>3. Inserted(cache, k) \in CacheRecord
    BY <1>0, <2>1 DEF Inserted, CacheRecord
  <2>4. CacheTypeOK'
    BY <1>0, <2>1, <2>2, <2>3 DEF CacheTypeOK, Guard!Admitted, Guard!History
  <2>5. CacheInv'
    BY <2>1, <2>2, <2>4, AdmissionKeeps
  <2>6. Guard!Earlier(cacheBin.hist, hist')
    BY <1>0, <2>1, <2>2 DEF FileIsEarlier, Guard!Earlier, Guard!Admitted, Guard!History
  <2> QED
    BY <2>2, <2>5, <2>6 DEF FileIsEarlier
<1>5. CASE Persist
  <2>1. /\ cacheBin' = [snap |-> Serialize(cache), hist |-> hist]
        /\ cache' = Taken(cache) /\ saved' = hist.count
        /\ UNCHANGED <<hist, verdict>>
    BY <1>5 DEF Persist
  <2>2. CacheTypeOK'
    BY <1>0, <2>1 DEF CacheTypeOK, Taken, CacheRecord, PersistAge, Guard!History
  <2>3. SlicesOf(cache, hist) /\ SlicesOf(Serialize(cache), hist)
    BY CacheInvIsSlices, SlicesOfFile
  <2>4. SlicesOf(cache', hist')
    <3>1. cache'.current = cache.current /\ cache'.previous = cache.previous
      BY <2>1 DEF Taken
    <3> QED
      BY <2>1, <2>3, <3>1, SameSlices
  <2>5. Guard!Earlier(hist, hist)
    BY <1>0 DEF Guard!Earlier, Guard!History
  <2>6. Serialize(cache) \in Snapshot
    BY <1>0 DEF Serialize, Snapshot, CacheRecord
  <2> QED
    BY <1>0, <2>1, <2>2, <2>3, <2>4, <2>5, <2>6, CacheInvIsSlices DEF FileIsEarlier
<1>6. CASE TimePasses
  <2>1. CacheTypeOK'
    BY <1>0, <1>6 DEF TimePasses, IntervalElapses, CacheTypeOK, CacheRecord, PersistAge
  <2>2. cache'.current = cache.current /\ cache'.previous = cache.previous
    BY <1>0, <1>6 DEF TimePasses, IntervalElapses, CacheRecord
  <2> QED
    BY <1>1, <1>6, <2>1, <2>2 DEF TimePasses, IntervalElapses, CacheIdle
<1>7. CASE Restart
  <2>1. /\ cache' = Loaded(cacheBin.snap) /\ hist' = cacheBin.hist
        /\ saved' = cacheBin.hist.count
        /\ UNCHANGED <<verdict, cacheBin>>
    BY <1>7 DEF Restart, LoadedCache
  <2>2. /\ cacheBin.snap \in Snapshot /\ cacheBin.hist \in Guard!History
        /\ SlicesOf(cacheBin.snap, cacheBin.hist)
    BY DEF FileIsEarlier
  <2>3. CacheTypeOK'
    BY <1>0, <2>1, <2>2 DEF CacheTypeOK, Loaded, CacheRecord, PersistAge, Snapshot, Guard!History
  <2>4. SlicesOf(cache', hist')
    BY <2>1, <2>2, SlicesOfFile
  <2>5. Guard!Earlier(cacheBin.hist, cacheBin.hist)
    BY <2>2 DEF Guard!Earlier, Guard!History, SlicesOf
  <2> QED
    BY <2>1, <2>2, <2>3, <2>4, <2>5, CacheInvIsSlices DEF FileIsEarlier
<1> QED
  BY <1>2, <1>3, <1>4, <1>5, <1>6, <1>7 DEF Next

\* dirty is cleared by a write that succeeded only, so pending counts all that
\* the file lacks, and a claim that finds a full batch of it asks for a write.
LEMMA LossStep ==
    Control /\ CacheInv /\ FileIsEarlier /\ LossCounted /\ [Next]_vars => LossCounted'
<1> SUFFICES ASSUME Control, CacheInv, FileIsEarlier, LossCounted, [Next]_vars
             PROVE  LossCounted'
  OBVIOUS
<1>0. /\ cache \in CacheRecord /\ cache.pending \in Nat /\ hist.count \in Nat
      /\ cacheBin.hist.count \in Nat /\ ioErrors \in Nat /\ PersistEvery \in Nat \ {0}
  BY CServerAssumption, CacheAssumption
     DEF CacheInv, CacheTypeOK, CacheRecord, Control, FileIsEarlier, Guard!History
<1> USE DEF LossCounted
<1>1. CASE \/ Accept \/ ClientFails \/ Adds \/ FindsSame \/ FindsOther \/ BackUp
           \/ Write \/ Acknowledge \/ ClaimRefused \/ Verify \/ Confirm \/ UNCHANGED vars
  <2>1. UNCHANGED <<cache, hist, saved, cacheBin, ioErrors>> /\ (pc = "persist" => pc' = "persist")
    BY <1>1 DEF Accept, ClientFails, Adds, FindsSame, FindsOther, BackUp, Write, Acknowledge,
                ClaimRefused, Refuse, Verify, Confirm, vars, replay, cacheVars, bounds
  <2> QED
    BY <1>0, <2>1
<1>2. CASE BackUpFails \/ WriteFails \/ PersistFails
  <2>1. UNCHANGED <<cache, hist, saved, cacheBin>> /\ ioErrors' = ioErrors + 1
    BY <1>2 DEF BackUpFails, WriteFails, PersistFails, IoFails, replay, cacheVars
  <2> QED
    BY <1>0, <2>1
<1>3. CASE ClaimAdmitted
  <2>1. /\ pc = "claim" /\ cache' = Inserted(cache, req.key)
        /\ pc' = IF Due(cache', FALSE) THEN "persist" ELSE "verify"
        /\ UNCHANGED <<saved, cacheBin, ioErrors>>
    BY <1>3 DEF ClaimAdmitted, bounds
  <2>2. cache'.pending = cache.pending + 1 /\ cache'.dirty
    BY <2>1 DEF Inserted
  <2>3. hist'.count = hist.count + 1
    BY <1>3 DEF ClaimAdmitted, Guard!Admitted
  <2>4. CASE Due(cache', FALSE)
    BY <1>0, <2>1, <2>2, <2>3, <2>4
  <2>5. CASE ~Due(cache', FALSE)
    <3>1. cache.pending + 1 < PersistEvery
      BY <1>0, <2>2, <2>5 DEF Due
    <3> QED
      BY <1>0, <2>1, <2>2, <2>3, <2>5, <3>1
  <2> QED
    BY <2>4, <2>5
<1>4. CASE Persist
  <2>1. /\ cacheBin'.hist = hist /\ hist' = hist /\ saved' = hist.count
        /\ cache'.pending = 0 /\ ioErrors' = ioErrors /\ pc' = "verify"
    BY <1>4 DEF Persist, Taken, bounds
  <2> QED
    BY <1>0, <2>1
<1>5. CASE TimePasses
  <2>1. /\ cache'.pending = cache.pending
        /\ UNCHANGED <<hist, saved, cacheBin, ioErrors, pc>>
    BY <1>0, <1>5 DEF TimePasses, IntervalElapses, CacheRecord, bounds
  <2> QED
    BY <1>0, <2>1
<1>6. CASE Restart
  <2>1. /\ hist' = cacheBin.hist /\ cacheBin' = cacheBin /\ saved' = cacheBin.hist.count
        /\ cache'.pending = 0 /\ ioErrors' = ioErrors /\ pc' = "accept"
    BY <1>6 DEF Restart, Return, LoadedCache, Loaded
  <2> QED
    BY <1>0, <2>1
<1> QED
  BY <1>1, <1>2, <1>3, <1>4, <1>5, <1>6 DEF Next
-----------------------------------------------------------------------------
\* The inductive invariant.
Inv == Control /\ Records /\ Saved /\ CacheInv /\ FileIsEarlier /\ LossCounted

\* A server that starts with empty files.
LEMMA InitialInv == Init => Inv
<1> SUFFICES ASSUME Init PROVE Inv
  OBVIOUS
<1> USE DEF Init, DefaultCache, Serialize, Loaded, LoadedCache, Guard!GuardInit, Guard!NoHistory
<1>1. Control
  BY CServerAssumption DEF Control, Stage
<1>2. Records
  BY DEF Records, Registries, OneRecordEach, Missing
<1>3. Saved
  BY DEF Saved, Unsaved, Missing
<1>4. SlicesOf([current |-> {}, previous |-> {}], Guard!NoHistory) /\ SlicesOf(cache, hist)
  BY EmptySlices
<1>5. CacheTypeOK
  BY DEF CacheTypeOK, CacheRecord, PersistAge, Guard!History
<1>6. CacheInv
  BY <1>4, <1>5, CacheInvIsSlices
<1>7. FileIsEarlier
  BY <1>4 DEF FileIsEarlier, Snapshot, Guard!History, Guard!Earlier
<1>8. LossCounted
  BY CServerAssumption, CacheAssumption DEF LossCounted
<1> QED
  BY <1>1, <1>2, <1>3, <1>6, <1>7, <1>8 DEF Inv

\* Every step keeps every part.
LEMMA NextInv == Inv /\ [Next]_vars => Inv'
BY ControlStep, RecordsStep, SavedStep, CacheStep, LossStep DEF Inv

\* The inductive invariant: where handle_client is, what the registry and the
\* cache hold, and what their files hold of it, in every reachable state.
THEOREM Invariant == Spec => []Inv
BY InitialInv, NextInv, PTL DEF Spec

\* Type correctness: what handle_client, the registry, the cache and the files
\* of both may be.
THEOREM CServerTypeCorrect == Spec => []CServerTypeOK
<1>1. Inv => CServerTypeOK
  BY DEF Inv, Control, Records, CacheInv, FileIsEarlier, CServerTypeOK, LoadedRegistry
<1> QED
  BY <1>1, Invariant, PTL

\* save_registry loses no saved record, wherever it is stopped or fails.
THEOREM NoSavedRecordLost == Spec => []SavedSurvives
<1>1. Inv => SavedSurvives
  BY DEF Inv, Saved, SavedSurvives, LoadedRegistry
<1> QED
  BY <1>1, Invariant, PTL

\* reg_upsert acknowledges what it has saved.
THEOREM AckedAfterSave == Spec => []AckedIsSaved
<1>1. Inv => AckedIsSaved
  BY DEF Inv, Saved, AckedIsSaved
<1> QED
  BY <1>1, Invariant, PTL

\* A stop forgets less than a batch and one admission for each failed write.
THEOREM LossIsCounted == Spec => []LossCounted
<1>1. Inv => LossCounted
  BY DEF Inv
<1> QED
  BY <1>1, Invariant, PTL

\* Records are given up by a restart only, saved ones by none that finds the
\* file there.
THEOREM BindingsHold == Spec => BindingKept
<1>1. Inv /\ Inv' /\ [Next]_vars =>
          [/\ reg \subseteq reg' \/ crashes' # crashes
           /\ kept \subseteq reg' \/ orphaned']_vars
  <2> SUFFICES ASSUME Inv, Inv', Next
               PROVE  /\ reg \subseteq reg' \/ crashes' # crashes
                      /\ kept \subseteq reg' \/ orphaned'
    OBVIOUS
  <2>1. kept' \subseteq reg' \/ orphaned'
    BY DEF Inv, Saved
  <2>2. CASE Restart
    <3>1. crashes \in Nat /\ crashes' = crashes + 1 /\ kept' = kept
      BY <2>2, CServerAssumption DEF Restart, Inv, Control
    <3> QED
      BY <2>1, <3>1
  <2>3. CASE OtherStep
    BY <2>1, <2>3, OtherSteps DEF registry
  <2>4. CASE Adds \/ BackUp \/ Write \/ Acknowledge
    BY <2>1, <2>4 DEF Adds, BackUp, Write, Acknowledge
  <2> QED
    BY <2>2, <2>3, <2>4 DEF Next, OtherStep
<1> QED
  BY <1>1, Invariant, PTL DEF Spec, BindingKept

\* The C cache, written when it is, and read back by a restart, implements the
\* abstract guard.
THEOREM CServerImplements == Spec => CServerImplementsGuard
<1>1. Init => Guard!GuardInit
  BY DEF Init
<1>2. Inv /\ [Next]_vars => [Guard!GuardNext]_(Guard!guardVars)
  <2> SUFFICES ASSUME Inv, [Next]_vars
               PROVE  [Guard!GuardNext]_(Guard!guardVars)
    OBVIOUS
  <2> USE DEF Inv
  <2>1. CASE ClaimAdmitted
    <3> DEFINE k == req.key
    <3>1. k \in Key
      BY <2>1 DEF ClaimAdmitted, Control, Stage, Auth
    <3>2. /\ k \notin Remembered(cache)
          /\ hist' = Guard!Admitted(hist, k)
          /\ verdict' = [key |-> k, admitted |-> TRUE]
      BY <2>1 DEF ClaimAdmitted
    <3> HIDE DEF k
    <3>3. hist.at[k] = 0 \/ Guard!AdmitsSince(hist, k) >= GenMax
      <4>1. ~(hist.at[k] > 0 /\ Guard!AdmitsSince(hist, k) < GenMax)
        BY <3>1, <3>2, Remembering
      <4>2. hist.at[k] \in Nat /\ hist.count \in Nat /\ GenMax \in Nat
        BY <3>1, CacheAssumption DEF CacheInv, CacheTypeOK, Guard!History
      <4> QED
        BY <4>1, <4>2 DEF Guard!AdmitsSince
    <3> QED
      BY <3>1, <3>2, <3>3 DEF Guard!GuardAdmit, Guard!GuardNext
  <2>2. CASE ClaimRefused
    <3>1. req.key \in Key
      BY <2>2 DEF ClaimRefused, Control, Stage, Auth
    <3> QED
      BY <2>2, <3>1, Remembering DEF ClaimRefused, Refuse, Guard!GuardRefuse, Guard!GuardNext
  <2>3. CASE Restart
    BY <2>3 DEF Restart, FileIsEarlier, Guard!GuardRestart, Guard!GuardNext
  <2>4. CASE \/ Accept \/ ClientFails \/ Adds \/ FindsSame \/ FindsOther \/ BackUp
             \/ BackUpFails \/ Write \/ WriteFails \/ Acknowledge \/ Persist
             \/ PersistFails \/ Verify \/ Confirm \/ TimePasses \/ UNCHANGED vars
    <3>1. UNCHANGED <<hist, verdict>>
      BY <2>4 DEF Accept, ClientFails, Adds, FindsSame, FindsOther, BackUp, BackUpFails,
                  Write, WriteFails, Acknowledge, Persist, PersistFails, Verify, Confirm,
                  TimePasses, IntervalElapses, vars, replay, cacheVars
    <3> QED
      BY <3>1 DEF Guard!guardVars
  <2> QED
    BY <2>1, <2>2, <2>3, <2>4 DEF Next
<1> QED
  BY <1>1, <1>2, Invariant, PTL DEF Spec, CServerImplementsGuard, Guard!GuardSpec
=============================================================================

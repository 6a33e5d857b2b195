-------------------------- MODULE EnrollmentProofs --------------------------
(***************************************************************************)
(* The registry, its file and the handle index, proved for any number of   *)
(* devices and threads, whatever saves fail and whenever the server        *)
(* crashes.                                                                *)
(*                                                                         *)
(* Two of the properties need devices that have an id and a key of their   *)
(* own, which is what deriving the id from device_root is for; without it  *)
(* the collision check alone would have to keep ids and keys apart, and it *)
(* does not (BindingStable).  Inv is inductive under that assumption.      *)
(***************************************************************************)
EXTENDS Enrollment, TLAPS

\* Requests with one id have one key, and the other way round.
OwnIdAndKey == \A q, r \in SetupRequest : q.id = r.id <=> q.pk = r.pk

\* A registry holds nothing but enrolments that were asked for.
Asked(r) ==
    \A i \in Id : Enrolled(r, i) => \E q \in SetupRequest : q.id = i /\ q.pk = r[i].pk

Inv ==
    /\ TypeOK
    /\ Asked(reg) /\ Asked(disk)
    /\ \A i \in Id : Enrolled(disk, i) => Enrolled(reg, i)
    /\ \A t \in Thread : pc[t] # "idle" => req[t] \in SetupRequest
    /\ \A t \in Thread : pc[t] = "save" => Enrolled(reg, req[t].id)
    /\ \A t \in Thread : pc[t] = "ack" => Enrolled(disk, req[t].id)
    /\ \A r \in acked : Enrolled(disk, r.id)
    /\ FileFollowsRegistry
    /\ IndexMatchesRegistry

\* What a request writes into the registry is a record, never the absent one.
LEMMA RecordExists ==
    \A r \in SetupRequest :
        /\ r.id \in Id /\ r.pk \in PubKey
        /\ RecordOf(r) \in Record /\ RecordOf(r).pk = r.pk /\ RecordOf(r) # NoRecord
BY EnrollmentAssumption
DEF EnrollmentAssumption, SetupRequestType, RecordOf, Record, NoRecord

\* A record of the registry is never the absent one, so its key is a key.
LEMMA KeysAreKeys ==
    \A r \in Registry, i \in Id : Enrolled(r, i) => r[i] \in Record /\ r[i].pk \in PubKey
BY DEF Registry, Enrolled, Record

\* An empty registry, and no request.
LEMMA InitInv == Init => Inv
<1> SUFFICES ASSUME Init PROVE Inv
  OBVIOUS
<1> USE DEF Init
<1>1. \A i \in Id : ~Enrolled(reg, i) /\ ~Enrolled(disk, i)
  BY DEF EmptyRegistry, Enrolled
<1>2. TypeOK
  <2>1. EmptyRegistry \in Registry
    BY DEF EmptyRegistry, Registry
  <2>2. index \in [PubKey -> IndexEntry \cup {NoEntry}]
    OBVIOUS
  <2>3. pc \in [Thread -> Location] /\ req \in [Thread -> SetupRequest \cup {NoRequest}]
    BY DEF Location
  <2>4. crashes \in 0 .. MaxCrashes /\ saveErrors \in 0 .. MaxSaveErrors
    BY EnrollmentAssumption DEF EnrollmentAssumption
  <2> QED
    BY <2>1, <2>2, <2>3, <2>4 DEF TypeOK
<1>3. IndexMatchesRegistry
  BY <1>1 DEF IndexMatchesRegistry
<1> QED
  BY <1>1, <1>2, <1>3 DEF Inv, Asked, FileFollowsRegistry

\* Commit keeps the index and the registry together: the new entry can meet no
\* other id under its key, and no other key under its id.
LEMMA CommitIndex ==
    ASSUME OwnIdAndKey, Inv, NEW t \in Thread, Commit(t)
    PROVE  IndexMatchesRegistry' /\ Asked(reg)'
<1> DEFINE q == req[t]
           rec == RecordOf(q)
<1>1. q \in SetupRequest
  BY DEF Commit, Inv
<1>2. /\ q.id \in Id /\ q.pk \in PubKey
      /\ rec.pk = q.pk /\ rec # NoRecord
  BY <1>1, RecordExists
<1>3. /\ reg \in Registry
      /\ reg' = [reg EXCEPT ![q.id] = rec]
      /\ index \in [PubKey -> IndexEntry \cup {NoEntry}]
      /\ index' = [index EXCEPT ![q.pk] = [id |-> q.id, rec |-> rec]]
  BY DEF Commit, Inv, TypeOK
<1>4. \A i \in Id : reg'[i] = IF i = q.id THEN rec ELSE reg[i]
  BY <1>2, <1>3 DEF Registry
<1>5. \A p \in PubKey : index'[p] = IF p = q.pk THEN [id |-> q.id, rec |-> rec] ELSE index[p]
  BY <1>2, <1>3
<1>6. \A i \in Id : Enrolled(reg, i) => (i = q.id <=> reg[i].pk = q.pk)
  BY <1>1 DEF Inv, Asked, OwnIdAndKey
<1>7. ASSUME NEW p \in PubKey, index'[p] # NoEntry
      PROVE  reg'[index'[p].id] = index'[p].rec /\ index'[p].rec.pk = p
  <2>1. CASE p = q.pk
    BY <1>2, <1>4, <1>5, <2>1
  <2>2. CASE p # q.pk
    <3>1. index'[p] = index[p]
      BY <1>5, <2>2
    <3>2. /\ index[p].id \in Id /\ reg[index[p].id] = index[p].rec
          /\ index[p].rec.pk = p /\ index[p].rec \in Record
      BY <1>3, <1>7, <3>1 DEF Inv, IndexMatchesRegistry, IndexEntry
    <3>3. Enrolled(reg, index[p].id)
      BY <3>2, EnrollmentAssumption DEF Enrolled, NoRecord, Record, EnrollmentAssumption
    <3>4. index[p].id # q.id
      BY <1>6, <2>2, <3>2, <3>3
    <3> QED
      BY <1>4, <3>1, <3>2, <3>4
  <2> QED
    BY <2>1, <2>2
<1>8. ASSUME NEW i \in Id, Enrolled(reg', i)
      PROVE  index'[reg'[i].pk] = [id |-> i, rec |-> reg'[i]]
  <2>1. CASE i = q.id
    BY <1>2, <1>4, <1>5, <2>1
  <2>2. CASE i # q.id
    <3>1. reg'[i] = reg[i] /\ Enrolled(reg, i)
      BY <1>4, <1>8, <2>2 DEF Enrolled
    <3>2. reg[i].pk # q.pk /\ reg[i].pk \in PubKey
      BY <1>3, <1>6, <2>2, <3>1, KeysAreKeys
    <3> QED
      BY <1>5, <3>1, <3>2 DEF Inv, IndexMatchesRegistry
  <2> QED
    BY <2>1, <2>2
<1>9. Asked(reg)'
  <2> SUFFICES ASSUME NEW i \in Id, Enrolled(reg', i)
               PROVE  \E r \in SetupRequest : r.id = i /\ r.pk = reg'[i].pk
    BY DEF Asked
  <2>1. CASE i = q.id
    BY <1>1, <1>2, <1>4, <2>1
  <2>2. CASE i # q.id
    BY <1>4, <2>2 DEF Inv, Asked, Enrolled
  <2> QED
    BY <2>1, <2>2
<1> QED
  BY <1>7, <1>8, <1>9 DEF IndexMatchesRegistry

\* Rebuilding the index from the file: an index over one owner per key is exact.
LEMMA RebuiltIndex ==
    ASSUME OwnIdAndKey, NEW r \in Registry, Asked(r), NEW x \in HandleIndexOf(r)
    PROVE  /\ \A p \in PubKey :
                  x[p] # NoEntry => r[x[p].id] = x[p].rec /\ x[p].rec.pk = p
           /\ \A i \in Id : Enrolled(r, i) => x[r[i].pk] = [id |-> i, rec |-> r[i]]
<1>1. ASSUME NEW p \in PubKey, x[p] # NoEntry
      PROVE  r[x[p].id] = x[p].rec /\ x[p].rec.pk = p
  BY <1>1 DEF HandleIndexOf
<1>2. ASSUME NEW i \in Id, Enrolled(r, i)
      PROVE  x[r[i].pk] = [id |-> i, rec |-> r[i]]
  <2>1. r[i].pk \in PubKey
    BY <1>2, KeysAreKeys
  <2>2. PICK j \in Id : r[j].pk = r[i].pk /\ x[r[i].pk] = [id |-> j, rec |-> r[j]]
    BY <2>1 DEF HandleIndexOf
  <2>3. Enrolled(r, j)
    BY <2>1, <2>2, EnrollmentAssumption DEF Enrolled, NoRecord, EnrollmentAssumption
  <2>4. i = j
    BY <1>2, <2>2, <2>3 DEF Asked, OwnIdAndKey
  <2> QED
    BY <2>2, <2>4
<1> QED
  BY <1>1, <1>2

\* A step that leaves the registry, its file and the index alone, and at most
\* moves one thread on or ends its setup.
LEMMA QuietStep ==
    ASSUME Inv, TypeOK', UNCHANGED <<tables, disk, writer, saveFailed>>,
           \A t \in Thread : pc'[t] # "idle" => req'[t] \in SetupRequest,
           \A t \in Thread : pc'[t] \in {"save", "ack"} =>
                                  pc[t] = pc'[t] /\ req'[t] = req[t],
           \A r \in acked' : r \in acked \/ Enrolled(disk, r.id)
    PROVE  Inv'
BY DEF Inv, tables, FileFollowsRegistry, IndexMatchesRegistry, Asked, Enrolled

\* Every step keeps registry, handle index and file in line.
LEMMA StepInv == OwnIdAndKey /\ Inv /\ [Next]_vars => Inv'
<1> SUFFICES ASSUME OwnIdAndKey, Inv, [Next]_vars PROVE Inv'
  OBVIOUS
<1> USE DEF TypeOK, Location, GoTo, Return
<1>1. ASSUME NEW t \in Thread, Connect(t) PROVE Inv'
  <2>1. TypeOK' /\ UNCHANGED <<tables, disk, writer, saveFailed, acked>>
    BY <1>1 DEF Inv, Connect, tables, history, bounds
  <2>2. \A u \in Thread : pc'[u] # "idle" => req'[u] \in SetupRequest
    BY <1>1 DEF Inv, Connect
  <2>3. \A u \in Thread : pc'[u] \in {"save", "ack"} =>
                             pc[u] = pc'[u] /\ req'[u] = req[u]
    BY <1>1 DEF Inv, Connect
  <2> QED
    BY <2>1, <2>2, <2>3, QuietStep DEF Inv
<1>2. ASSUME NEW t \in Thread,
             \/ PolicyAllows(t) \/ PolicyRefuses(t) \/ LookupPasses(t) \/ LookupCollides(t)
             \/ ProofVerifies(t) \/ ProofFails(t) \/ AckLost(t)
      PROVE  Inv'
  <2>1. TypeOK' /\ UNCHANGED <<tables, disk, writer, saveFailed, acked>>
    BY <1>2 DEF Inv, PolicyAllows, PolicyRefuses, LookupPasses, LookupCollides,
                ProofVerifies, ProofFails, AckLost, tables, history, bounds
  <2>2. \A u \in Thread : pc'[u] # "idle" => req'[u] \in SetupRequest
    BY <1>2 DEF Inv, PolicyAllows, PolicyRefuses, LookupPasses, LookupCollides,
                ProofVerifies, ProofFails, AckLost
  <2>3. \A u \in Thread : pc'[u] \in {"save", "ack"} =>
                             pc[u] = pc'[u] /\ req'[u] = req[u]
    BY <1>2 DEF Inv, PolicyAllows, PolicyRefuses, LookupPasses, LookupCollides,
                ProofVerifies, ProofFails, AckLost
  <2> QED
    BY <2>1, <2>2, <2>3, QuietStep DEF Inv
<1>3. ASSUME NEW t \in Thread, Commit(t) PROVE Inv'
  <2>1. req[t] \in SetupRequest /\ RecordOf(req[t]) \in Record /\ RecordOf(req[t]) # NoRecord
        /\ req[t].id \in Id /\ req[t].pk \in PubKey
    BY <1>3, RecordExists DEF Commit, Inv
  <2>2. reg' \in Registry /\ index' \in [PubKey -> IndexEntry \cup {NoEntry}]
    BY <1>3, <2>1 DEF Commit, Inv, Registry, IndexEntry
  <2>3. TypeOK'
    BY <1>3, <2>2 DEF Commit, Inv, history, bounds
  <2>4. \A i \in Id : reg'[i] = IF i = req[t].id THEN RecordOf(req[t]) ELSE reg[i]
    BY <1>3, <2>1 DEF Commit, Inv, Registry
  <2>5. \A i \in Id : Enrolled(reg, i) => Enrolled(reg', i)
    BY <2>1, <2>4 DEF Enrolled
  <2>6. Enrolled(reg', req[t].id)
    BY <2>1, <2>4 DEF Enrolled
  <2>7. UNCHANGED <<disk, req, acked, saveFailed>> /\ writer' = t /\ pc' = [pc EXCEPT ![t] = "save"]
    BY <1>3 DEF Commit, history
  <2>8. FileFollowsRegistry'
    BY <2>7, EnrollmentAssumption DEF FileFollowsRegistry, EnrollmentAssumption
  <2>9. \A u \in Thread : /\ pc'[u] # "idle" => req'[u] \in SetupRequest
                          /\ pc'[u] = "save" => Enrolled(reg', req'[u].id)
                          /\ pc'[u] = "ack" => Enrolled(disk', req'[u].id)
    <3>1. \A u \in Thread : req[u] \in SetupRequest => req[u].id \in Id
      BY RecordExists
    <3> QED
      BY <2>1, <2>5, <2>6, <2>7, <3>1 DEF Inv
  <2>10. IndexMatchesRegistry' /\ Asked(reg)'
    BY <1>3, CommitIndex
  <2>11. Asked(disk)' /\ \A i \in Id : Enrolled(disk', i) => Enrolled(reg', i)
    BY <2>5, <2>7 DEF Inv, Asked
  <2>12. \A r \in acked' : Enrolled(disk', r.id)
    BY <2>7 DEF Inv
  <2> QED
    BY <2>3, <2>8, <2>9, <2>10, <2>11, <2>12 DEF Inv
<1>4. ASSUME NEW t \in Thread, Save(t) PROVE Inv'
  <2>1. TypeOK'
    BY <1>4 DEF Inv, Save, tables, bounds
  <2>2. /\ UNCHANGED <<reg, index, req, acked>> /\ disk' = reg
        /\ pc[t] = "save" /\ pc' = [pc EXCEPT ![t] = "ack"]
    BY <1>4 DEF Save, tables
  <2>3. \A r \in acked : r.id \in Id
    BY RecordExists DEF Inv
  <2>4. \A u \in Thread : req[u] \in SetupRequest => req[u].id \in Id
    BY RecordExists
  <2>5. FileFollowsRegistry' /\ IndexMatchesRegistry'
    BY <2>2 DEF Inv, FileFollowsRegistry, IndexMatchesRegistry
  <2> QED
    BY <2>1, <2>2, <2>3, <2>4, <2>5 DEF Inv, Asked
<1>5. ASSUME NEW t \in Thread, SaveFails(t) PROVE Inv'
  <2>1. TypeOK'
    BY <1>5, EnrollmentAssumption DEF Inv, SaveFails, tables, EnrollmentAssumption
  <2>2. FileFollowsRegistry'
    BY <1>5 DEF SaveFails, FileFollowsRegistry
  <2> QED
    BY <1>5, <2>1, <2>2 DEF Inv, SaveFails, tables, IndexMatchesRegistry, Asked
<1>6. ASSUME NEW t \in Thread, AckDelivered(t) PROVE Inv'
  <2>1. TypeOK' /\ UNCHANGED <<tables, disk, writer, saveFailed>>
    BY <1>6 DEF Inv, AckDelivered, tables, bounds
  <2>2. \A u \in Thread : pc'[u] # "idle" => req'[u] \in SetupRequest
    BY <1>6 DEF Inv, AckDelivered
  <2>3. \A u \in Thread : pc'[u] \in {"save", "ack"} =>
                             pc[u] = pc'[u] /\ req'[u] = req[u]
    BY <1>6 DEF Inv, AckDelivered
  <2>4. \A r \in acked' : r \in acked \/ Enrolled(disk, r.id)
    BY <1>6 DEF Inv, AckDelivered
  <2> QED
    BY <2>1, <2>2, <2>3, <2>4, QuietStep
<1>7. CASE PairingCloses
  <2>1. TypeOK'
    BY <1>7 DEF Inv, PairingCloses, tables, threads, history, bounds
  <2> QED
    BY <1>7, <2>1, QuietStep DEF Inv, PairingCloses, tables, threads, history
<1>8. CASE Restart
  <2>1. index' \in HandleIndexOf(disk) /\ reg' = disk /\ UNCHANGED <<disk, acked>>
    BY <1>8 DEF Restart
  <2>2. TypeOK'
    <3>1. index' \in [PubKey -> IndexEntry \cup {NoEntry}]
      BY <2>1 DEF HandleIndexOf
    <3>2. crashes' \in 0 .. MaxCrashes /\ saveErrors' = saveErrors
      BY <1>8, EnrollmentAssumption DEF Inv, Restart, EnrollmentAssumption
    <3> QED
      BY <1>8, <2>1, <3>1, <3>2 DEF Inv, Restart
  <2>3. IndexMatchesRegistry'
    BY <2>1, RebuiltIndex DEF Inv, IndexMatchesRegistry
  <2>4. FileFollowsRegistry'
    BY <2>1 DEF FileFollowsRegistry
  <2>5. \A t \in Thread : pc'[t] = "idle"
    BY <1>8 DEF Restart
  <2>6. Asked(reg)' /\ Asked(disk)' /\ \A i \in Id : Enrolled(disk', i) => Enrolled(reg', i)
    BY <2>1 DEF Inv, Asked
  <2>7. \A r \in acked' : Enrolled(disk', r.id)
    BY <2>1 DEF Inv
  <2> QED
    BY <2>2, <2>3, <2>4, <2>5, <2>6, <2>7 DEF Inv
<1>9. CASE UNCHANGED vars
  BY <1>9, QuietStep DEF Inv, vars, tables, threads, history, bounds
<1> QED
  BY <1>1, <1>2, <1>3, <1>4, <1>5, <1>6, <1>7, <1>8, <1>9 DEF Next, Step

\* Inv holds throughout, for devices with an id and a key of their own.
THEOREM EnrollmentInvariant ==
    ASSUME OwnIdAndKey
    PROVE  Spec => []Inv
<1>1. Inv /\ [Next]_vars => Inv'
  BY StepInv
<1> QED
  BY <1>1, InitInv, PTL DEF Spec

\* An enrolment acknowledged to its device is in registry.bin from then on,
\* under its own key: handle_setup answers only after save_registry_atomic,
\* and no later setup, failed save or crash takes it out.
THEOREM AckedStaysEnrolled ==
    ASSUME OwnIdAndKey
    PROVE  Spec => []AckedEnrolmentDurable
<1>1. Inv => AckedEnrolmentDurable
  <2> SUFFICES ASSUME Inv, NEW r \in acked
               PROVE  Enrolled(disk, r.id) /\ disk[r.id].pk = r.pk
    BY DEF AckedEnrolmentDurable
  <2>1. r \in SetupRequest /\ r.id \in Id /\ Enrolled(disk, r.id)
    BY RecordExists DEF Inv, TypeOK
  <2>2. PICK q \in SetupRequest : q.id = r.id /\ q.pk = disk[r.id].pk
    BY <2>1 DEF Inv, Asked
  <2> QED
    BY <2>1, <2>2 DEF OwnIdAndKey
<1> QED
  BY <1>1, EnrollmentInvariant, PTL

\* Lookup by handle and lookup by scanning the registry agree, at every moment
\* a thread can hold either lock, and after every restart.
THEOREM IndexIsExact ==
    ASSUME OwnIdAndKey
    PROVE  Spec => []IndexMatchesRegistry
<1>1. Inv => IndexMatchesRegistry
  BY DEF Inv
<1> QED
  BY <1>1, EnrollmentInvariant, PTL
-----------------------------------------------------------------------------
\* Registry and file agree whenever no thread holds the write lock, unless the
\* last save failed: needs no assumption about the devices.
THEOREM FileFollows == Spec => []FileFollowsRegistry
<1>1. Init => FileFollowsRegistry
  BY DEF Init, FileFollowsRegistry
<1>2. FileFollowsRegistry /\ [Next]_vars => FileFollowsRegistry'
  <2> SUFFICES ASSUME FileFollowsRegistry, [Next]_vars PROVE FileFollowsRegistry'
    OBVIOUS
  <2> USE DEF FileFollowsRegistry
  <2>1. ASSUME NEW t \in Thread, Commit(t) PROVE FileFollowsRegistry'
    BY <2>1, EnrollmentAssumption DEF Commit
  <2>2. ASSUME NEW t \in Thread, Save(t) \/ SaveFails(t) PROVE FileFollowsRegistry'
    BY <2>2 DEF Save, SaveFails, tables
  <2>3. CASE Restart
    BY <2>3 DEF Restart
  <2>4. CASE UNCHANGED <<reg, disk, writer, saveFailed>>
    BY <2>4
  <2> QED
    BY <2>1, <2>2, <2>3, <2>4
    DEF Next, Step, Connect, PolicyAllows, PolicyRefuses, LookupPasses, LookupCollides, ProofVerifies,
        ProofFails, AckDelivered, AckLost, PairingCloses, vars, tables, threads, history
<1> QED
  BY <1>1, <1>2, PTL DEF Spec
-----------------------------------------------------------------------------
\* The collision check, for devices that may share ids and keys: what it found
\* at the lookup is still so at the commit if no other setup runs meanwhile.
OneAtATime == \A t, u \in Thread : pc[t] # "idle" /\ pc[u] # "idle" => t = u

\* A restart goes back to bindings that the registry still has.
BindInv ==
    /\ reg \in Registry /\ disk \in Registry
    /\ DOMAIN pc = Thread /\ DOMAIN req = Thread
    /\ \A t \in Thread : pc[t] # "idle" => req[t] \in SetupRequest
    /\ \A t \in Thread : pc[t] \in {"proof", "commit"} => ~Collides(req[t])
    /\ \A i \in Id : Enrolled(disk, i) => Enrolled(reg, i) /\ reg[i].pk = disk[i].pk

SameBindings == \A i \in Id : Enrolled(reg, i) /\ Enrolled(reg', i) => reg'[i].pk = reg[i].pk

\* With one setup between its check and its end, what was checked still holds
\* when it is committed.
LEMMA BindStep == OneAtATime /\ BindInv /\ [Next]_vars => BindInv' /\ SameBindings
<1> SUFFICES ASSUME OneAtATime, BindInv, [Next]_vars PROVE BindInv' /\ SameBindings
  OBVIOUS
<1> USE DEF BindInv, GoTo, Return
<1>1. ASSUME NEW t \in Thread, Commit(t) PROVE BindInv' /\ SameBindings
  <2>1. req[t] \in SetupRequest /\ req[t].id \in Id /\ RecordOf(req[t]) \in Record
        /\ RecordOf(req[t]).pk = req[t].pk /\ RecordOf(req[t]) # NoRecord
    BY <1>1, RecordExists DEF Commit
  <2>2. /\ reg' = [reg EXCEPT ![req[t].id] = RecordOf(req[t])] /\ ~Collides(req[t])
        /\ UNCHANGED <<req, disk>> /\ pc[t] = "commit" /\ pc' = [pc EXCEPT ![t] = "save"]
    BY <1>1 DEF Commit
  <2>3. reg' \in Registry
    BY <2>1, <2>2 DEF Registry
  <2>4. \A i \in Id : reg'[i] = IF i = req[t].id THEN RecordOf(req[t]) ELSE reg[i]
    BY <2>1, <2>2 DEF Registry
  <2>5. SameBindings /\ \A i \in Id : Enrolled(reg, i) => Enrolled(reg', i)
    BY <2>1, <2>2, <2>4 DEF SameBindings, Collides, Enrolled
  <2>6. \A u \in Thread : pc'[u] # "idle" => u = t
    BY <2>2 DEF OneAtATime
  <2>7. \A i \in Id : Enrolled(disk', i) => Enrolled(reg', i) /\ reg'[i].pk = disk'[i].pk
    BY <2>2, <2>5 DEF SameBindings, Enrolled
  <2> QED
    BY <2>1, <2>2, <2>3, <2>5, <2>6, <2>7
<1>2. ASSUME NEW t \in Thread, Save(t) PROVE BindInv' /\ SameBindings
  BY <1>2 DEF Save, tables, SameBindings, Collides, Enrolled
<1>3. ASSUME NEW t \in Thread, LookupPasses(t) PROVE BindInv' /\ SameBindings
  BY <1>3 DEF LookupPasses, tables, SameBindings, Collides, Enrolled
<1>4. ASSUME NEW t \in Thread, Connect(t) PROVE BindInv' /\ SameBindings
  BY <1>4 DEF Connect, tables, SameBindings, Collides, Enrolled
<1>5. ASSUME NEW t \in Thread,
             \/ PolicyAllows(t) \/ PolicyRefuses(t) \/ LookupCollides(t) \/ ProofVerifies(t)
             \/ ProofFails(t) \/ SaveFails(t) \/ AckDelivered(t) \/ AckLost(t)
      PROVE  BindInv' /\ SameBindings
  <2>1. /\ UNCHANGED <<reg, disk>> /\ DOMAIN pc' = Thread /\ DOMAIN req' = Thread
        /\ \A u \in Thread : pc'[u] # "idle" => pc[u] # "idle" /\ req'[u] = req[u]
        /\ \A u \in Thread : pc'[u] \in {"proof", "commit"} => pc[u] \in {"proof", "commit"}
    BY <1>5 DEF PolicyAllows, PolicyRefuses, LookupCollides, ProofVerifies, ProofFails, SaveFails,
                AckDelivered, AckLost, tables
  <2> QED
    BY <2>1 DEF SameBindings, Collides, Enrolled
<1>6. CASE Restart
  <2>1. /\ reg' = disk /\ disk' = disk /\ pc' = [t \in Thread |-> "idle"] /\ req' = [t \in Thread |-> NoRequest]
    BY <1>6 DEF Restart
  <2> QED
    BY <2>1 DEF SameBindings
<1>7. CASE PairingCloses \/ UNCHANGED vars
  <2>1. UNCHANGED <<reg, disk, pc, req>>
    BY <1>7 DEF PairingCloses, vars, tables, threads
  <2> QED
    BY <2>1 DEF SameBindings, Collides, Enrolled
<1> QED
  BY <1>1, <1>2, <1>3, <1>4, <1>5, <1>6, <1>7 DEF Next, Step

\* One setup at a time, a device id is never bound to another key while the
\* registry knows it, whatever fails or crashes in between and whoever asks.
THEOREM BindingStableOneAtATime == Spec /\ []OneAtATime => BindingStable
<1>1. Init => BindInv
  BY DEF Init, BindInv, Registry, EmptyRegistry, Enrolled
<1>2. BindInv /\ OneAtATime /\ [Next]_vars => BindInv' /\ [SameBindings]_vars
  BY BindStep
<1> QED
  BY <1>1, <1>2, PTL DEF Spec, BindingStable, SameBindings

\* Setups of devices with an id and a key of their own may overlap.
THEOREM BindingStableOfDevices ==
    ASSUME OwnIdAndKey
    PROVE  Spec => BindingStable
<1>1. Inv /\ Inv' => [SameBindings]_vars
  <2> SUFFICES ASSUME Inv, Inv', NEW i \in Id, Enrolled(reg, i), Enrolled(reg', i)
               PROVE  reg'[i].pk = reg[i].pk
    BY DEF SameBindings
  <2>1. PICK q \in SetupRequest : q.id = i /\ q.pk = reg[i].pk
    BY DEF Inv, Asked
  <2>2. PICK r \in SetupRequest : r.id = i /\ r.pk = reg'[i].pk
    BY DEF Inv, Asked
  <2> QED
    BY <2>1, <2>2 DEF OwnIdAndKey
<1> QED
  BY <1>1, EnrollmentInvariant, PTL DEF BindingStable, SameBindings
=============================================================================

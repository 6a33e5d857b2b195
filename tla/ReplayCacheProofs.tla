------------------------- MODULE ReplayCacheProofs --------------------------
(***************************************************************************)
(* Theorems about ReplayCache, for every set of keys and every generation  *)
(* size.  The inductive invariant says that the two generations are slices *)
(* of the history by age; retention, the memory bound and the refinement   *)
(* of NonceGuard all follow from it.                                       *)
(***************************************************************************)
EXTENDS ReplayCache, FiniteSetTheorems, TLAPS

\* The inductive invariant of the generations.
CacheInv ==
    /\ CacheTypeOK
    /\ IsFiniteSet(cache.current)
    /\ IsFiniteSet(cache.previous)
    /\ Cardinality(cache.current) <= GenMax
    /\ Cardinality(cache.current) + Cardinality(cache.previous) <= hist.count
    /\ \A k \in Key : hist.at[k] <= hist.count
    /\ GenerationsByAge

\* Inserting a key the cache does not hold: the new generation has at most
\* GenMax keys, and is either the old one and the key, or the key alone.
LEMMA InsertedGenerations ==
    ASSUME NEW c \in CacheRecord, NEW k \in Key,
           IsFiniteSet(c.current), IsFiniteSet(c.previous),
           Cardinality(c.current) <= GenMax,
           k \notin Remembered(c)
    PROVE  LET d == Inserted(c, k)
               n == Cardinality(c.current)
           IN  /\ d \in CacheRecord
               /\ IsFiniteSet(d.current) /\ IsFiniteSet(d.previous)
               /\ \/ /\ n < GenMax
                     /\ d.current = c.current \cup {k} /\ Cardinality(d.current) = n + 1
                     /\ d.previous = c.previous
                  \/ /\ n = GenMax
                     /\ d.current = {k} /\ Cardinality(d.current) = 1
                     /\ d.previous = c.current
<1> DEFINE d == Inserted(c, k)
           n == Cardinality(c.current)
<1>1. n \in Nat /\ GenMax \in Nat \ {0}
  BY FS_CardinalityType, CacheAssumption
<1>2. k \notin c.current
  BY DEF Remembered
<1>3. d \in CacheRecord
  BY DEF Inserted, CacheRecord
<1>4. CASE n < GenMax
  <2>1. d.current = c.current \cup {k} /\ d.previous = c.previous
    BY <1>1, <1>4 DEF Inserted, CacheRecord
  <2>2. IsFiniteSet(c.current \cup {k}) /\ Cardinality(c.current \cup {k}) = n + 1
    BY <1>2, FS_AddElement
  <2> QED
    BY <1>3, <1>4, <2>1, <2>2
<1>5. CASE n = GenMax
  <2>1. d.current = {k} /\ d.previous = c.current
    BY <1>1, <1>5 DEF Inserted, CacheRecord
  <2>2. IsFiniteSet({k}) /\ Cardinality({k}) = 1
    BY FS_Singleton
  <2> QED
    BY <1>3, <1>5, <2>1, <2>2
<1> QED
  BY <1>1, <1>4, <1>5

\* What Claimed does to the generations is what Inserted does.
LEMMA ClaimedGenerations ==
    ASSUME NEW c \in CacheRecord, NEW k \in Key
    PROVE  /\ Claimed(c, k).current = Inserted(c, k).current
           /\ Claimed(c, k).previous = Inserted(c, k).previous
           /\ Inserted(c, k) \in CacheRecord => Claimed(c, k) \in CacheRecord
BY DEF Claimed, Taken, Inserted, CacheRecord, PersistAge

\* The initial cache is empty and nothing was admitted.
LEMMA InitInv == CacheInit => CacheInv
<1> SUFFICES ASSUME CacheInit PROVE CacheInv
  OBVIOUS
<1> USE DEF CacheInit, DefaultCache, Guard!GuardInit, Guard!NoHistory
<1>1. IsFiniteSet({}) /\ Cardinality({}) = 0
  BY FS_EmptySet
<1>2. CacheTypeOK
  BY DEF CacheTypeOK, CacheRecord, PersistAge, Guard!History
<1>3. GenerationsByAge
  BY <1>1 DEF GenerationsByAge, Guard!AdmitsSince
<1> QED
  BY <1>1, <1>2, <1>3, CacheAssumption DEF CacheInv

\* An admission preserves the invariant, whatever becomes of the bookkeeping.
LEMMA AdmissionKeeps ==
    ASSUME CacheInv, NEW k \in Key, k \notin Remembered(cache),
           cache'.current = Inserted(cache, k).current,
           cache'.previous = Inserted(cache, k).previous,
           hist' = Guard!Admitted(hist, k),
           CacheTypeOK'
    PROVE  CacheInv'
<1> USE DEF CacheInv
<1> DEFINE recent == Cardinality(cache.current)
           older == Cardinality(cache.previous)
<1>1. /\ recent \in Nat /\ older \in Nat /\ GenMax \in Nat \ {0}
      /\ hist.count \in Nat /\ hist.at \in [Key -> Nat] /\ cache \in CacheRecord
  BY FS_CardinalityType, CacheAssumption DEF CacheTypeOK, Guard!History
<1>2. /\ hist'.count = hist.count + 1
      /\ hist'.at = [hist.at EXCEPT ![k] = hist.count + 1]
      /\ hist' \in Guard!History
  BY <1>1 DEF Guard!Admitted, Guard!History
<1>3. /\ IsFiniteSet(cache'.current) /\ IsFiniteSet(cache'.previous)
      /\ \/ /\ recent < GenMax
            /\ cache'.current = cache.current \cup {k}
            /\ Cardinality(cache'.current) = recent + 1
            /\ cache'.previous = cache.previous
         \/ /\ recent = GenMax
            /\ cache'.current = {k}
            /\ Cardinality(cache'.current) = 1
            /\ cache'.previous = cache.current
  BY <1>1, InsertedGenerations
<1>4. \A j \in Key : hist'.at[j] <= hist'.count
  BY <1>1, <1>2
<1>5. /\ Cardinality(cache'.current) <= GenMax
      /\ Cardinality(cache'.current) + Cardinality(cache'.previous) <= hist'.count
  BY <1>1, <1>2, <1>3 DEF GenerationsByAge
<1>6. \A j \in Key :
         /\ j \in cache.current <=> hist.count - hist.at[j] < recent
         /\ j \in cache.previous <=> /\ recent <= hist.count - hist.at[j]
                                    /\ hist.count - hist.at[j] < recent + older
  BY DEF GenerationsByAge, Guard!AdmitsSince
<1>7. /\ hist'.count - hist'.at[k] = 0
      /\ \A j \in Key \ {k} : hist'.count - hist'.at[j] = hist.count - hist.at[j] + 1
  BY <1>1, <1>2
<1>8. /\ k \notin cache.current /\ k \notin cache.previous
      /\ \A j \in Key : hist.at[j] \in Nat /\ hist.count - hist.at[j] >= 0
  BY <1>1 DEF Remembered
<1>9. GenerationsByAge'
  <2>1. CASE /\ recent < GenMax
             /\ cache'.current = cache.current \cup {k}
             /\ Cardinality(cache'.current) = recent + 1
             /\ cache'.previous = cache.previous
    <3>1. ASSUME NEW j \in Key
          PROVE  /\ j \in cache'.current <=> hist'.count - hist'.at[j] < recent + 1
                 /\ j \in cache'.previous <=> /\ recent + 1 <= hist'.count - hist'.at[j]
                                             /\ hist'.count - hist'.at[j] < recent + 1 + older
      <4>1. CASE j = k
        BY <1>1, <1>7, <1>8, <2>1, <4>1
      <4>2. CASE j # k
        BY <1>1, <1>6, <1>7, <1>8, <2>1, <4>2
      <4> QED
        BY <4>1, <4>2
    <3> QED
      BY <1>1, <1>2, <2>1, <3>1 DEF GenerationsByAge, Guard!AdmitsSince
  <2>2. CASE /\ recent = GenMax
             /\ cache'.current = {k}
             /\ Cardinality(cache'.current) = 1
             /\ cache'.previous = cache.current
    <3>1. ASSUME NEW j \in Key
          PROVE  /\ j \in cache'.current <=> hist'.count - hist'.at[j] < 1
                 /\ j \in cache'.previous <=> /\ 1 <= hist'.count - hist'.at[j]
                                             /\ hist'.count - hist'.at[j] < 1 + recent
      <4>1. CASE j = k
        BY <1>1, <1>7, <1>8, <2>2, <4>1
      <4>2. CASE j # k
        BY <1>1, <1>6, <1>7, <1>8, <2>2, <4>2
      <4> QED
        BY <4>1, <4>2
    <3> QED
      BY <1>1, <1>2, <2>2, <3>1 DEF GenerationsByAge, Guard!AdmitsSince
  <2> QED
    BY <1>3, <2>1, <2>2
<1> QED
  BY <1>3, <1>4, <1>5, <1>9

\* Every critical section preserves the invariant; only Admit touches the
\* generations or the history.
LEMMA StepInv == CacheInv /\ [CacheNext]_cacheVars => CacheInv'
<1> SUFFICES ASSUME CacheInv, [CacheNext]_cacheVars
             PROVE  CacheInv'
  OBVIOUS
<1> USE DEF CacheInv
<1>1. ASSUME NEW k \in Key, Admit(k)
      PROVE  CacheInv'
  <2>1. cache \in CacheRecord /\ hist \in Guard!History /\ saved \in Nat
    BY DEF CacheTypeOK
  <2>2. Inserted(cache, k) \in CacheRecord
    BY <1>1, <2>1, InsertedGenerations DEF Admit
  <2>3. CacheTypeOK'
    BY <1>1, <2>1, <2>2, ClaimedGenerations DEF Admit, CacheTypeOK, Guard!Admitted, Guard!History
  <2> QED
    BY <1>1, <2>1, <2>3, ClaimedGenerations, AdmissionKeeps DEF Admit
<1>2. ASSUME /\ hist' = hist
             /\ cache'.current = cache.current
             /\ cache'.previous = cache.previous
             /\ CacheTypeOK'
      PROVE  CacheInv'
  BY <1>2 DEF GenerationsByAge, Guard!AdmitsSince
<1>3. ASSUME NEW k \in Key, Refuse(k)
      PROVE  CacheInv'
  BY <1>2, <1>3 DEF Refuse, CacheTypeOK
<1>4. CASE ForceTake
  BY <1>2, <1>4 DEF ForceTake, CacheTypeOK, Taken, CacheRecord, PersistAge, Guard!History
<1>5. CASE IntervalElapses
  BY <1>2, <1>5 DEF IntervalElapses, CacheTypeOK, CacheRecord, PersistAge
<1>6. CASE UNCHANGED cacheVars
  BY <1>2, <1>6 DEF cacheVars, CacheTypeOK
<1> QED
  BY <1>1, <1>3, <1>4, <1>5, <1>6 DEF CacheNext

\* The inductive invariant holds in every reachable state.
THEOREM CacheInvariant == CacheSpec => []CacheInv
BY InitInv, StepInv, PTL DEF CacheSpec

\* The type invariant of the cache object.
THEOREM TypeCorrect == CacheSpec => []CacheTypeOK
<1>1. CacheInv => CacheTypeOK
  BY DEF CacheInv
<1> QED
  BY <1>1, CacheInvariant, PTL

\* The two sets are slices of the history by age, in every reachable state.
THEOREM GenerationsAreSlices == CacheSpec => []GenerationsByAge
<1>1. CacheInv => GenerationsByAge
  BY DEF CacheInv
<1> QED
  BY <1>1, CacheInvariant, PTL

\* Memory is bounded: two disjoint generations of at most REPLAY_GEN_MAX keys.
THEOREM MemoryBounded == CacheSpec => []GenerationsBounded
<1>1. ASSUME CacheInv PROVE GenerationsBounded
  <2>1. /\ Cardinality(cache.current) \in Nat /\ Cardinality(cache.previous) \in Nat
        /\ GenMax \in Nat /\ cache \in CacheRecord
    BY <1>1, FS_CardinalityType, CacheAssumption DEF CacheInv, CacheTypeOK
  <2>2. Cardinality(cache.previous) <= GenMax
    BY <1>1, <2>1 DEF CacheInv, GenerationsByAge
  <2>3. cache.current \subseteq Key
    BY <2>1 DEF CacheRecord
  <2>4. ASSUME NEW k \in cache.current, k \in cache.previous PROVE FALSE
    <3>1. /\ hist.count - hist.at[k] < Cardinality(cache.current)
          /\ Cardinality(cache.current) <= hist.count - hist.at[k]
      BY <1>1, <2>3, <2>4 DEF CacheInv, GenerationsByAge, Guard!AdmitsSince
    <3>2. hist.count \in Nat /\ hist.at[k] \in Nat
      BY <1>1, <2>3, <2>4 DEF CacheInv, CacheTypeOK, Guard!History
    <3> QED
      BY <2>1, <3>1, <3>2
  <2>5. cache.current \cap cache.previous = {}
    BY <2>4
  <2> QED
    BY <1>1, <2>2, <2>5 DEF CacheInv, GenerationsBounded
<1> QED
  BY <1>1, CacheInvariant, PTL

\* What CacheInv says of the generations of the cache and the history, said of
\* any two generations and the history they stand for.
SlicesOf(s, h) ==
    LET recent == Cardinality(s.current)
        older == Cardinality(s.previous)
    IN  /\ IsFiniteSet(s.current) /\ IsFiniteSet(s.previous)
        /\ recent <= GenMax
        /\ recent + older <= h.count
        /\ \A k \in Key : h.at[k] <= h.count
        /\ older = 0 => recent = h.count
        /\ older # 0 => older = GenMax
        /\ \A k \in Key :
               /\ k \in s.current <=> Guard!AdmitsSince(h, k) < recent
               /\ k \in s.previous <=>
                      /\ recent <= Guard!AdmitsSince(h, k)
                      /\ Guard!AdmitsSince(h, k) < recent + older

\* The invariant of the cache is the types and these slices.
LEMMA CacheInvIsSlices ==
    /\ CacheInv <=> CacheTypeOK /\ SlicesOf(cache, hist)
    /\ CacheInv' <=> CacheTypeOK' /\ SlicesOf(cache', hist')
BY DEF CacheInv, GenerationsByAge, SlicesOf

\* What the slices mean for one key: remembered while it is young, and only
\* while it is not too old.
LEMMA SlicesRemember ==
    ASSUME NEW s, NEW h \in Guard!History, SlicesOf(s, h), NEW k \in Key
    PROVE  /\ h.at[k] > 0 /\ Guard!AdmitsSince(h, k) < GenMax => k \in Remembered(s)
           /\ k \in Remembered(s) => h.at[k] > 0 /\ Guard!AdmitsSince(h, k) < 2 * GenMax
<1> DEFINE recent == Cardinality(s.current)
           older == Cardinality(s.previous)
           since == h.count - h.at[k]
<1>1. /\ recent \in Nat /\ older \in Nat /\ GenMax \in Nat \ {0}
      /\ h.count \in Nat /\ h.at[k] \in Nat /\ h.at[k] <= h.count
  BY FS_CardinalityType, CacheAssumption DEF SlicesOf, Guard!History
<1>2. /\ recent <= GenMax /\ recent + older <= h.count
      /\ older = 0 => recent = h.count
      /\ older # 0 => older = GenMax
      /\ k \in s.current <=> since < recent
      /\ k \in s.previous <=> recent <= since /\ since < recent + older
  BY DEF SlicesOf, Guard!AdmitsSince
<1> HIDE DEF recent, older
<1>3. h.at[k] > 0 /\ since < GenMax => k \in Remembered(s)
  BY <1>1, <1>2 DEF Remembered
<1>4. k \in Remembered(s) => h.at[k] > 0 /\ since < 2 * GenMax
  BY <1>1, <1>2 DEF Remembered
<1> QED
  BY <1>3, <1>4 DEF Guard!AdmitsSince

\* The same of the cache and the history as they are.
LEMMA Remembering ==
    ASSUME CacheInv, NEW k \in Key
    PROVE  /\ hist.at[k] > 0 /\ Guard!AdmitsSince(hist, k) < GenMax => k \in Remembered(cache)
           /\ k \in Remembered(cache) => hist.at[k] > 0 /\ Guard!AdmitsSince(hist, k) < 2 * GenMax
<1>1. hist \in Guard!History /\ SlicesOf(cache, hist)
  BY CacheInvIsSlices DEF CacheTypeOK
<1> QED
  BY <1>1, SlicesRemember

\* No key is forgotten while fewer than REPLAY_GEN_MAX others followed it.
THEOREM RetainsRecentKeys == CacheSpec => []RetentionWindow
<1>1. CacheInv => RetentionWindow
  BY Remembering DEF RetentionWindow
<1> QED
  BY <1>1, CacheInvariant, PTL

\* No key is remembered beyond 2 * REPLAY_GEN_MAX admissions.
THEOREM ForgetsOldKeys == CacheSpec => []OldKeysForgotten
<1>1. ASSUME CacheInv PROVE OldKeysForgotten
  <2>1. Remembered(cache) \subseteq Key
    BY <1>1 DEF CacheInv, CacheTypeOK, CacheRecord, Remembered
  <2> QED
    BY <1>1, <2>1, Remembering DEF OldKeysForgotten
<1> QED
  BY <1>1, CacheInvariant, PTL

\* An admission that is in no snapshot is pending, and taking a snapshot
\* leaves none: every critical section keeps the count.
LEMMA UnsavedStep == CacheTypeOK /\ UnsavedBounded /\ [CacheNext]_cacheVars => UnsavedBounded'
<1> SUFFICES ASSUME CacheTypeOK, UnsavedBounded, [CacheNext]_cacheVars
             PROVE  UnsavedBounded'
  OBVIOUS
<1>1. /\ cache.pending \in Nat /\ hist.count \in Nat /\ saved \in Nat
      /\ cache.dirty \in BOOLEAN /\ PersistEvery \in Nat \ {0}
  BY CacheAssumption DEF CacheTypeOK, CacheRecord, Guard!History
<1>2. ASSUME NEW k \in Key, Admit(k)
      PROVE  UnsavedBounded'
  <2>1. hist'.count = hist.count + 1
    BY <1>2 DEF Admit, Guard!Admitted
  <2>2. CASE ClaimTakes(cache, k)
    <3>1. cache'.pending = 0 /\ cache'.dirty = FALSE /\ saved' = hist.count + 1
      BY <1>2, <2>2 DEF Admit, Claimed, Taken
    <3> QED
      BY <1>1, <2>1, <3>1 DEF UnsavedBounded
  <2>3. CASE ~ClaimTakes(cache, k)
    <3>1. cache'.pending = cache.pending + 1 /\ cache'.dirty = TRUE /\ saved' = saved
      BY <1>2, <2>3 DEF Admit, Claimed, Inserted
    <3>2. ~BenchMode => cache.pending + 1 < PersistEvery
      BY <1>1, <2>3 DEF ClaimTakes, Due, Inserted
    <3> QED
      BY <1>1, <2>1, <3>1, <3>2 DEF UnsavedBounded
  <2> QED
    BY <2>2, <2>3
<1>3. CASE \/ \E k \in Key : Refuse(k)
           \/ UNCHANGED cacheVars
  BY <1>3 DEF Refuse, cacheVars, UnsavedBounded
<1>4. CASE ForceTake
  BY <1>1, <1>4 DEF ForceTake, Taken, UnsavedBounded
<1>5. CASE IntervalElapses
  BY <1>5 DEF IntervalElapses, CacheTypeOK, CacheRecord, UnsavedBounded
<1> QED
  BY <1>2, <1>3, <1>4, <1>5 DEF CacheNext

\* The persistence bookkeeping loses track of no admission: those in no
\* snapshot are counted by pending, and fewer than
\* REPLAY_PERSIST_EVERY_INSERTS.
THEOREM UnsavedAreCounted == CacheSpec => []UnsavedBounded
<1>1. CacheInit => UnsavedBounded
  BY CacheAssumption DEF CacheInit, UnsavedBounded, DefaultCache, Guard!GuardInit, Guard!NoHistory
<1> QED
  BY <1>1, UnsavedStep, TypeCorrect, PTL DEF CacheSpec

\* Each critical section of the cache is a step of the guard or a stutter.
LEMMA GuardSteps ==
    CacheInv /\ [CacheNext]_cacheVars => [Guard!GuardNext]_(Guard!guardVars)
<1> SUFFICES ASSUME CacheInv, [CacheNext]_cacheVars
             PROVE  [Guard!GuardNext]_(Guard!guardVars)
  OBVIOUS
<1>1. ASSUME NEW k \in Key, Admit(k)
      PROVE  Guard!GuardAdmit(k)
  <2>1. hist.at[k] = 0 \/ Guard!AdmitsSince(hist, k) >= GenMax
    <3>1. ~(hist.at[k] > 0 /\ Guard!AdmitsSince(hist, k) < GenMax)
      BY <1>1, Remembering DEF Admit
    <3>2. hist.at[k] \in Nat /\ hist.count \in Nat /\ GenMax \in Nat
      BY CacheAssumption DEF CacheInv, CacheTypeOK, Guard!History
    <3> QED
      BY <3>1, <3>2 DEF Guard!AdmitsSince
  <2> QED
    BY <1>1, <2>1 DEF Admit, Guard!GuardAdmit
<1>2. ASSUME NEW k \in Key, Refuse(k)
      PROVE  Guard!GuardRefuse(k)
  BY <1>2, Remembering DEF Refuse, Guard!GuardRefuse
<1>3. CASE ForceTake \/ IntervalElapses \/ UNCHANGED cacheVars
  BY <1>3 DEF ForceTake, IntervalElapses, cacheVars, Guard!guardVars
<1> QED
  BY <1>1, <1>2, <1>3 DEF CacheNext, Guard!GuardNext

\* The cache implements the abstract guard with a window of REPLAY_GEN_MAX:
\* what it admits was not admitted within the window, and what it refuses
\* was admitted less than two windows ago.
THEOREM Implements == CacheSpec => ImplementsGuard
<1>1. CacheInit => Guard!GuardInit
  BY DEF CacheInit
<1> QED
  BY <1>1, GuardSteps, CacheInvariant, PTL DEF CacheSpec, ImplementsGuard, Guard!GuardSpec
-----------------------------------------------------------------------------
\* Only the generations count, and serializing and loading keep them.
LEMMA SameSlices ==
    ASSUME NEW s, NEW t, NEW h, SlicesOf(s, h),
           t.current = s.current, t.previous = s.previous
    PROVE  SlicesOf(t, h)
BY DEF SlicesOf

\* Writing a snapshot and loading it keep the slices.
LEMMA SlicesOfFile ==
    ASSUME NEW s, NEW h, SlicesOf(s, h)
    PROVE  SlicesOf(Serialize(s), h) /\ SlicesOf(Loaded(s), h)
<1>1. /\ Serialize(s).current = s.current /\ Serialize(s).previous = s.previous
      /\ Loaded(s).current = s.current /\ Loaded(s).previous = s.previous
  BY DEF Serialize, Loaded
<1> QED
  BY <1>1, SameSlices

\* Two empty generations stand for no history.
LEMMA EmptySlices ==
    ASSUME NEW s, s.current = {}, s.previous = {}
    PROVE  SlicesOf(s, Guard!NoHistory)
<1>1. IsFiniteSet({}) /\ Cardinality({}) = 0
  BY FS_EmptySet
<1> QED
  BY <1>1, CacheAssumption DEF SlicesOf, Guard!AdmitsSince, Guard!NoHistory
=============================================================================

------------------------- MODULE ConnectionsProofs -------------------------
(***************************************************************************)
(* The limit on active connections and the failure tracker, proved for     *)
(* every number of threads and peers, every limit, window and block.       *)
(*                                                                         *)
(* Inv is inductive.  Beside the limit and the counter it only needs what  *)
(* the accept loop knows between loading the counter and swapping it:      *)
(* that the value it loaded was below the limit.  That the counter may     *)
(* have fallen since does not matter, and only this loop raises it.        *)
(*                                                                         *)
(* TrackInv says what the failures noted of a peer tell of its entry: the  *)
(* last of them are those the open window has counted, and since the last  *)
(* block there are fewer than MaxFailures of the window before it.         *)
(* LimitInv says the same of the failed setups, together with those in     *)
(* flight: once a peer is blocked only those may still fail, and what led  *)
(* to the block is older than FAILURE_WINDOW when it ends.                 *)
(***************************************************************************)
EXTENDS Connections, FiniteSetTheorems, TLAPS

Location == {"idle", "read", "setup", "auth", "succeeded", "failed", "setupFailed", "drop"}

Inv ==
    /\ pc \in [Conn -> Location]
    /\ active \in Nat /\ current \in Nat
    /\ NoSlotLeaks
    /\ ActiveBounded
    /\ acceptor = "swap" => current < MaxActive

\* The threads in handle_client are finitely many, and none is counted twice.
LEMMA LiveFinite ==
    /\ IsFiniteSet(Live)
    /\ Cardinality(Live) \in Nat
<1>1. Live \subseteq Conn
  BY DEF Live
<1>2. IsFiniteSet(Live)
  BY <1>1, ConnectionsAssumption, FS_Subset DEF ConnectionsAssumption
<1> QED
  BY <1>2, FS_CardinalityType

\* The accept loop starts with no thread and a counter of zero.
LEMMA InitInv == Init => Inv
<1> SUFFICES ASSUME Init PROVE Inv
  OBVIOUS
<1>1. Live = {}
  BY DEF Init, Live
<1>2. Cardinality(Live) = 0
  BY <1>1, FS_EmptySet
<1> QED
  BY <1>2, ConnectionsAssumption
  DEF Init, Inv, NoSlotLeaks, ActiveBounded, Location, ConnectionsAssumption

\* A step of handle_client that neither starts nor ends a thread.
LEMMA Inside ==
    ASSUME Inv, NEW c \in Conn, NEW loc \in Location \ {"idle"},
           pc[c] # "idle", GoTo(c, loc), UNCHANGED <<acceptor, current, active>>
    PROVE  Inv'
<1>1. Live' = Live
  BY DEF Live, GoTo, Inv
<1>2. pc' \in [Conn -> Location]
  BY DEF GoTo, Inv
<1> QED
  BY <1>1, <1>2 DEF Inv, NoSlotLeaks, ActiveBounded

\* try_acquire: a successful swap adds the thread the counter now counts.
LEMMA SwapInv ==
    ASSUME Inv, NEW c \in Conn, Swap(c)
    PROVE  Inv'
<1>1. Live' = Live \cup {c}
  BY DEF Live, Swap, Inv
<1>2. c \notin Live
  BY DEF Live, Swap
<1>3. Cardinality(Live') = Cardinality(Live) + 1
  BY <1>1, <1>2, LiveFinite, FS_AddElement
<1>4. pc' \in [Conn -> Location]
  BY DEF Swap, Inv, Location
<1>5. active' \in Nat /\ current' \in Nat /\ active' = active + 1 /\ acceptor' # "swap"
  BY DEF Swap, Inv
<1>6. Cardinality(Live) < MaxActive
  BY DEF Swap, Inv, NoSlotLeaks
<1>7. Cardinality(Live') <= MaxActive
  BY <1>3, <1>6, LiveFinite, ConnectionsAssumption DEF ConnectionsAssumption
<1> QED
  BY <1>3, <1>4, <1>5, <1>7 DEF Inv, NoSlotLeaks, ActiveBounded

\* ActiveConnGuard::drop: the counter falls with the thread that ends.
LEMMA DropInv ==
    ASSUME Inv, NEW c \in Conn, Drop(c)
    PROVE  Inv'
<1>1. Live' = Live \ {c}
  BY DEF Live, Drop, GoTo, Inv
<1>2. c \in Live
  BY DEF Live, Drop
<1>3. Cardinality(Live') = Cardinality(Live) - 1
  BY <1>1, <1>2, LiveFinite, FS_RemoveElement
<1>4. Cardinality(Live) > 0
  BY <1>2, LiveFinite, FS_EmptySet
<1>5. pc' \in [Conn -> Location]
  BY DEF Drop, GoTo, Inv, Location
<1>6. active' = active - 1 /\ UNCHANGED <<acceptor, current>>
  BY DEF Drop, mainVars
<1>7. active' \in Nat
  BY <1>4, <1>6, LiveFinite DEF Inv, NoSlotLeaks
<1>8. Cardinality(Live') <= MaxActive
  BY <1>3, LiveFinite, ConnectionsAssumption DEF Inv, ActiveBounded, ConnectionsAssumption
<1> QED
  BY <1>3, <1>5, <1>6, <1>7, <1>8 DEF Inv, NoSlotLeaks, ActiveBounded

\* Every step of the accept loop and of the threads keeps the count of slots.
LEMMA StepInv == Inv /\ [Next]_vars => Inv'
<1> SUFFICES ASSUME Inv, [Next]_vars PROVE Inv'
  OBVIOUS
<1>1. CASE UNCHANGED <<pc, acceptor, current, active>>
  <2>1. Live' = Live
    BY <1>1 DEF Live
  <2> QED
    BY <1>1, <2>1 DEF Inv, NoSlotLeaks, ActiveBounded
<1>2. ASSUME NEW p \in Peer, Accept(p) PROVE Inv'
  <2>1. Live' = Live
    BY <1>2 DEF Accept, Live, connVars
  <2> QED
    BY <1>2, <2>1 DEF Accept, connVars, Inv, NoSlotLeaks, ActiveBounded
<1>3. CASE AcceptFails
  <2>1. Live' = {}
    BY <1>3 DEF AcceptFails, Live
  <2>2. Cardinality(Live') = 0
    BY <2>1, FS_EmptySet
  <2>3. pc' \in [Conn -> Location]
    BY <1>3 DEF AcceptFails, Location
  <2> QED
    BY <1>3, <2>2, <2>3, ConnectionsAssumption
    DEF AcceptFails, Inv, NoSlotLeaks, ActiveBounded, ConnectionsAssumption
<1>4. CASE TryAcquire
  <2>1. CASE LoadFull \/ LoadBelow \/ SwapFails
    <3>1. Live' = Live
      BY <2>1 DEF LoadFull, LoadBelow, SwapFails, Live, connVars
    <3> QED
      BY <2>1, <3>1
      DEF LoadFull, LoadBelow, SwapFails, connVars, Inv, NoSlotLeaks, ActiveBounded
  <2>2. CASE \E c \in Conn : Swap(c)
    BY <2>2, SwapInv
  <2> QED
    BY <1>4, <2>1, <2>2 DEF TryAcquire
<1>5. ASSUME NEW c \in Conn, Handle(c) PROVE Inv'
  <2>1. CASE Drop(c)
    BY <2>1, DropInv
  <2>2. CASE ~Drop(c)
    <3>1. PICK loc \in Location \ {"idle"} : GoTo(c, loc)
      BY <1>5, <2>2
      DEF Handle, ReadFails, DispatchSetup, DispatchAuth, DispatchUnknown,
          SetupReturns, AuthReturns, Succeeded, Failed, Location
    <3>2. pc[c] # "idle" /\ UNCHANGED <<acceptor, current, active>>
      BY <1>5, <2>2
      DEF Handle, ReadFails, DispatchSetup, DispatchAuth, DispatchUnknown,
          SetupReturns, AuthReturns, Succeeded, Failed, mainVars
    <3> QED
      BY <3>1, <3>2, Inside
  <2> QED
    BY <2>1, <2>2
<1>6. CASE TimePasses
  BY <1>1, <1>6 DEF TimePasses, mainVars, connVars
<1>7. CASE UNCHANGED vars
  BY <1>1, <1>7 DEF vars, mainVars, connVars
<1> QED
  BY <1>2, <1>3, <1>4, <1>5, <1>6, <1>7 DEF Next

\* The counter of the accept loop is the number of live connections, whoever
\* reads it between two steps of another.
THEOREM ConnectionsInvariant == Spec => []Inv
BY InitInv, StepInv, PTL DEF Spec

\* ActiveConnGuard keeps at most MAX_ACTIVE_CONNECTIONS threads in
\* handle_client, for every limit and whatever races with the swap.
THEOREM LimitHolds == Spec => []ActiveBounded
<1>1. Inv => ActiveBounded
  BY DEF Inv
<1> QED
  BY <1>1, ConnectionsInvariant, PTL

\* The counter equals the number of threads in handle_client: every return of
\* handle_client, early or late, drops its guard exactly once.
THEOREM CounterIsExact == Spec => []NoSlotLeaks
<1>1. Inv => NoSlotLeaks
  BY DEF Inv
<1> QED
  BY <1>1, ConnectionsInvariant, PTL
-----------------------------------------------------------------------------
\* Ages of failures, oldest first.
Sorted(ages) == \A i, j \in DOMAIN ages : i <= j => ages[i] >= ages[j]
Ages == {ages \in Seq(0 .. Window) : Sorted(ages)}

\* A set of positions that has all before each of its own is a first part.
LEMMA FirstPart ==
    ASSUME NEW n \in Nat, NEW S \in SUBSET (1 .. n), \A i \in S : 1 .. i \subseteq S
    PROVE  Cardinality(S) \in 0 .. n /\ S = 1 .. Cardinality(S)
<1>1. IsFiniteSet(1 .. n) /\ Cardinality(1 .. n) = n
  BY FS_Interval
<1>2. IsFiniteSet(S) /\ Cardinality(S) \in Nat /\ Cardinality(S) <= n
  BY <1>1, FS_Subset, FS_CardinalityType
<1>. DEFINE m == Cardinality(S)
<1>3. ASSUME NEW i \in S PROVE i <= m
  <2>1. IsFiniteSet(1 .. i) /\ Cardinality(1 .. i) = i
    BY FS_Interval
  <2>2. Cardinality(1 .. i) <= m
    BY <1>2, FS_Subset
  <2>. QED
    BY <2>1, <2>2
<1>. HIDE DEF m
<1>4. ASSUME NEW i \in 1 .. m, i \notin S PROVE FALSE
  <2>. DEFINE k == i - 1
  <2>0. i \in Nat /\ k \in Int /\ k >= 0 /\ m \in Nat /\ i <= m
    BY <1>2 DEF m
  <2>1. S \subseteq 1 .. k
    <3>1. \A j \in S : j \in Nat /\ j >= 1 /\ ~(i <= j)
      BY <1>4, <2>0
    <3>. QED
      BY <2>0, <3>1
  <2>. HIDE DEF k
  <2>2. IsFiniteSet(1 .. k) /\ Cardinality(1 .. k) = k
    BY <2>0, FS_Interval
  <2>3. Cardinality(S) <= Cardinality(1 .. k)
    BY <2>1, <2>2, FS_Subset
  <2>4. m <= k
    BY <2>2, <2>3 DEF m
  <2>. QED
    BY <2>0, <2>4 DEF k
<1>5. m \in 0 .. n
  BY <1>2 DEF m
<1>6. \A i \in S : i \in Nat /\ 1 <= i /\ i <= m
  BY <1>3
<1>7. S = 1 .. m
  <2>1. \A i \in 1 .. m : i \in S
    BY <1>4
  <2>2. \A i \in S : i \in 1 .. m
    BY <1>5, <1>6
  <2>. QED
    BY <2>1, <2>2
<1>. QED
  BY <1>5, <1>7 DEF m

\* The ages of a peer's failures as a sequence, oldest first.
LEMMA AgesOf ==
    ASSUME NEW s \in Ages
    PROVE  /\ Len(s) \in Nat /\ DOMAIN s = 1 .. Len(s)
           /\ \A i \in 1 .. Len(s) : s[i] \in 0 .. Window
           /\ \A i, j \in 1 .. Len(s) : i <= j => s[i] >= s[j]
<1>1. \A N : \A x \in Seq(N) : Len(x) \in Nat /\ DOMAIN x = 1 .. Len(x) /\ \A i \in 1 .. Len(x) : x[i] \in N
  OBVIOUS
<1>2. s \in Seq(0 .. Window) /\ Sorted(s)
  BY DEF Ages
<1>. QED
  BY <1>1, <1>2 DEF Sorted

\* A tick drops the failures that are too old, and keeps the others in order.
LEMMA AgedAges ==
    ASSUME NEW s \in Ages
    PROVE  /\ Aged(s) \in Ages
           /\ \E n \in 0 .. Len(s) :
                /\ Len(Aged(s)) = Len(s) - n
                /\ \A i \in 1 .. n : s[i] >= Window
                /\ \A i \in 1 .. Len(s) - n : s[n + i] < Window /\ Aged(s)[i] = s[n + i] + 1
<1>. DEFINE S == {i \in DOMAIN s : s[i] >= Window}
            n == Cardinality(S)
<1>1. /\ Len(s) \in Nat /\ DOMAIN s = 1 .. Len(s)
      /\ \A i \in 1 .. Len(s) : s[i] \in 0 .. Window
      /\ \A i, j \in 1 .. Len(s) : i <= j => s[i] >= s[j]
  BY AgesOf
<1>2. \A i \in S : 1 .. i \subseteq S
  <2>. SUFFICES ASSUME NEW i \in S, NEW j \in 1 .. i PROVE j \in S
    OBVIOUS
  <2>1. i \in 1 .. Len(s) /\ j \in 1 .. Len(s) /\ j <= i
    BY <1>1
  <2>. QED
    BY <1>1, <2>1, TrackerAssumption
<1>3. n \in 0 .. Len(s) /\ S = 1 .. n
  BY <1>1, <1>2, FirstPart
<1>4. Aged(s) = [i \in 1 .. Len(s) - n |-> s[n + i] + 1]
  BY DEF Aged
<1>. HIDE DEF n
<1>5. \A i \in 1 .. n : s[i] >= Window
  BY <1>3
<1>6. \A i \in 1 .. Len(s) - n : n + i \in 1 .. Len(s) /\ s[n + i] \in 0 .. Window /\ ~(s[n + i] >= Window)
  <2>. SUFFICES ASSUME NEW i \in 1 .. Len(s) - n
                PROVE  n + i \in 1 .. Len(s) /\ s[n + i] \in 0 .. Window /\ ~(s[n + i] >= Window)
    OBVIOUS
  <2>1. n + i \in 1 .. Len(s) /\ n + i \notin 1 .. n
    BY <1>1, <1>3
  <2>. QED
    BY <1>1, <1>3, <2>1
<1>7. \A i \in 1 .. Len(s) - n : s[n + i] + 1 \in 0 .. Window
  BY <1>6, TrackerAssumption
<1>8. Aged(s) \in Seq(0 .. Window) /\ Len(Aged(s)) = Len(s) - n
  BY <1>1, <1>3, <1>4, <1>7
<1>9. Sorted(Aged(s))
  <2>. SUFFICES ASSUME NEW i \in 1 .. Len(s) - n, NEW j \in 1 .. Len(s) - n, i <= j
                PROVE  s[n + i] + 1 >= s[n + j] + 1
    BY <1>4, <1>8 DEF Sorted
  <2>1. s[n + i] >= s[n + j] /\ s[n + i] \in 0 .. Window /\ s[n + j] \in 0 .. Window
    BY <1>1, <1>3, <1>6
  <2>. QED
    BY <2>1, TrackerAssumption
<1>10. \A i \in 1 .. Len(s) - n : s[n + i] < Window /\ Aged(s)[i] = s[n + i] + 1
  BY <1>4, <1>6, TrackerAssumption
<1>. QED
  BY <1>3, <1>5, <1>8, <1>9, <1>10 DEF Ages

\* A failure comes last, with age 0.
LEMMA AppendedAges ==
    ASSUME NEW s \in Ages
    PROVE  /\ Append(s, 0) \in Ages /\ Len(Append(s, 0)) = Len(s) + 1
           /\ \A i \in 1 .. Len(s) : Append(s, 0)[i] = s[i]
           /\ Append(s, 0)[Len(s) + 1] = 0
<1>1. s \in Seq(0 .. Window) /\ Sorted(s) /\ Len(s) \in Nat /\ 0 \in 0 .. Window
  BY TrackerAssumption DEF Ages
<1>. DEFINE N == 0 .. Window
<1>. HIDE DEF N
<1>2. /\ Append(s, 0) \in Seq(N) /\ Len(Append(s, 0)) = Len(s) + 1
      /\ \A i \in 1 .. Len(s) : Append(s, 0)[i] = s[i] /\ s[i] \in N
      /\ Append(s, 0)[Len(s) + 1] = 0
  <2>1. s \in Seq(N) /\ 0 \in N
    BY <1>1 DEF N
  <2>. QED
    BY <2>1
<1>. USE DEF N
<1>3. Sorted(Append(s, 0))
  <2>. SUFFICES ASSUME NEW i \in 1 .. Len(s) + 1, NEW j \in 1 .. Len(s) + 1, i <= j
                PROVE  Append(s, 0)[i] >= Append(s, 0)[j]
    BY <1>1, <1>2 DEF Sorted
  <2>1. CASE j = Len(s) + 1
    BY <1>1, <1>2, <2>1, TrackerAssumption
  <2>2. CASE j # Len(s) + 1
    BY <1>1, <1>2, <2>2 DEF Sorted
  <2>. QED
    BY <2>1, <2>2
<1>. QED
  BY <1>2, <1>3 DEF Ages

\* Of the failures noted, the latest Burst ones are kept.
LEMMA NotedAges ==
    ASSUME NEW s \in Ages, Len(s) <= Burst
    PROVE  /\ Noted(s) \in Ages /\ Len(Noted(s)) <= Burst
           /\ \E n \in {0, 1} :
                /\ Len(Noted(s)) = Len(s) + 1 - n
                /\ n = 1 => Len(s) = Burst
                /\ Noted(s)[Len(Noted(s))] = 0
                /\ \A i \in 1 .. Len(s) - n : Noted(s)[i] = s[n + i]
<1>. DEFINE all == Append(s, 0)
<1>1. /\ all \in Ages /\ Len(all) = Len(s) + 1
      /\ \A i \in 1 .. Len(s) : all[i] = s[i]
      /\ all[Len(s) + 1] = 0
  BY AppendedAges
<1>2. Burst \in Nat \ {0} /\ Len(s) \in Nat
  BY TrackerAssumption DEF Burst, Ages
<1>. HIDE DEF all
<1>3. CASE Len(all) > Burst
  <2>1. Noted(s) = Tail(all)
    BY <1>3 DEF Noted, all
  <2>2. all \in Seq(0 .. Window) /\ Sorted(all) /\ Len(all) > 1
    BY <1>1, <1>2, <1>3 DEF Ages
  <2>3. /\ Tail(all) \in Seq(0 .. Window) /\ Len(Tail(all)) = Len(s)
        /\ \A i \in 1 .. Len(s) : Tail(all)[i] = all[i + 1]
    BY <1>1, <1>2, <2>2
  <2>4. Sorted(Tail(all))
    <3>. SUFFICES ASSUME NEW i \in 1 .. Len(s), NEW j \in 1 .. Len(s), i <= j
                  PROVE  all[i + 1] >= all[j + 1]
      BY <2>3 DEF Sorted
    <3>1. i + 1 \in DOMAIN all /\ j + 1 \in DOMAIN all
      BY <1>1, <1>2, <2>2
    <3>. QED
      BY <2>2, <3>1 DEF Sorted
  <2>5. Len(s) = Burst
    BY <1>1, <1>2, <1>3
  <2>6. \A i \in 1 .. Len(s) - 1 : Tail(all)[i] = s[1 + i]
    BY <1>1, <1>2, <2>3
  <2>. QED
    BY <1>1, <1>2, <2>1, <2>2, <2>3, <2>4, <2>5, <2>6 DEF Ages
<1>4. CASE ~(Len(all) > Burst)
  <2>1. Noted(s) = all
    BY <1>4 DEF Noted, all
  <2>. QED
    BY <1>1, <1>2, <1>4, <2>1
<1>. QED
  BY <1>3, <1>4
-----------------------------------------------------------------------------
\* What the failures noted of a peer, their ages s, say of its entry e and of
\* the time b since note_failure last blocked it.  In a window that goes on,
\* the last failures are the ones it has counted.  Since the last block, there
\* are those and less than MaxFailures of the window before it: what came
\* earlier is older than Window by now.
Open(e) == e.failures > 0 /\ e.age <= Window
SinceBlock(s, b, n) == \A i \in DOMAIN s : s[i] < b => Len(s) - i < n

Tracked(e, s, b) ==
    /\ e \in FailureState /\ s \in Ages /\ Len(s) <= Burst /\ b \in 0 .. Ban
    /\ Open(e) =>
        /\ e.failures <= Len(s)
        /\ \A i \in DOMAIN s : Len(s) - i < e.failures => s[i] <= e.age
        /\ e.failures < MaxFailures =>
            /\ \A i \in DOMAIN s : i <= Len(s) - e.failures => s[i] >= e.age
            /\ SinceBlock(s, b, e.failures + MaxFailures - 1)
        /\ e.failures = MaxFailures => b <= e.age /\ SinceBlock(s, b, 0)
    /\ ~Open(e) => SinceBlock(s, b, MaxFailures - 1)

\* note_failure on an entry, in numbers.
LEMMA Counts ==
    ASSUME NEW e \in FailureState
    PROVE  /\ AfterFailure(e) \in FailureState /\ Open(AfterFailure(e))
           /\ e.failures \in Nat /\ e.age \in Nat /\ e.ban \in Nat /\ e.failures <= MaxFailures
           /\ ~Open(e) => AfterFailure(e) = [age |-> 0, failures |-> 1, ban |-> 0]
           /\ Open(e) /\ e.failures + 1 < MaxFailures =>
                 AfterFailure(e) = [age |-> e.age, failures |-> e.failures + 1, ban |-> e.ban]
           /\ Open(e) /\ e.failures + 1 >= MaxFailures =>
                 AfterFailure(e) = [age |-> e.age, failures |-> MaxFailures, ban |-> Ban]
<1>1. /\ e.failures \in 0 .. MaxFailures /\ e.age \in 0 .. Window + 1 /\ e.ban \in 0 .. Ban
  BY DEF FailureState
<1>2. CASE ~Open(e)
  <2>1. AfterFailure(e) = [age |-> 0, failures |-> 1, ban |-> 0]
    BY <1>1, <1>2, TrackerAssumption DEF AfterFailure, Open, AtMost
  <2>. QED
    BY <1>1, <1>2, <2>1, TrackerAssumption DEF FailureState, Open
<1>3. CASE Open(e) /\ e.failures + 1 < MaxFailures
  <2>1. AfterFailure(e) = [age |-> e.age, failures |-> e.failures + 1, ban |-> e.ban]
    BY <1>1, <1>3, TrackerAssumption DEF AfterFailure, Open, AtMost
  <2>. QED
    BY <1>1, <1>3, <2>1, TrackerAssumption DEF FailureState, Open
<1>4. CASE Open(e) /\ e.failures + 1 >= MaxFailures
  <2>1. AfterFailure(e) = [age |-> e.age, failures |-> MaxFailures, ban |-> Ban]
    BY <1>1, <1>4, TrackerAssumption DEF AfterFailure, Open, AtMost
  <2>. QED
    BY <1>1, <1>4, <2>1, TrackerAssumption DEF FailureState, Open
<1>. QED
  BY <1>1, <1>2, <1>3, <1>4, TrackerAssumption

\* note_failure: the entry still counts what happened, and a block that starts
\* here has MaxFailures failures behind it.
LEMMA TrackedFails ==
    ASSUME NEW e, NEW s, NEW b, Tracked(e, s, b)
    PROVE  LET f == AfterFailure(e) IN
           /\ Tracked(f, Noted(s), IF f.failures >= MaxFailures THEN 0 ELSE b)
           /\ f.ban > e.ban => Len(Noted(s)) >= MaxFailures
<1>. DEFINE f == AfterFailure(e)
            r == Noted(s)
            l == Len(s)
            c == IF f.failures >= MaxFailures THEN 0 ELSE b
<1>. SUFFICES Tracked(f, r, c) /\ (f.ban > e.ban => Len(r) >= MaxFailures)
  OBVIOUS
<1>1. e \in FailureState /\ s \in Ages /\ Len(s) <= Burst /\ b \in 0 .. Ban
  BY DEF Tracked
<1>2. PICK n \in {0, 1} : /\ Len(r) = l + 1 - n
                          /\ n = 1 => l = Burst
                          /\ r[Len(r)] = 0
                          /\ \A i \in 1 .. l - n : r[i] = s[n + i]
  BY <1>1, NotedAges
<1>3. /\ r \in Ages /\ Len(r) <= Burst
      /\ l \in Nat /\ DOMAIN s = 1 .. l /\ DOMAIN r = 1 .. Len(r)
      /\ \A i \in 1 .. l : s[i] \in 0 .. Window
      /\ \A i \in 1 .. Len(r) : r[i] \in 0 .. Window
  BY <1>1, NotedAges, AgesOf
<1>4. Burst = 2 * MaxFailures - 1 /\ MaxFailures \in Nat /\ MaxFailures >= 2 /\ Ban \in Nat
  BY TrackerAssumption DEF Burst
<1>5. /\ f \in FailureState /\ Open(f)
      /\ e.failures \in Nat /\ e.age \in Nat /\ e.ban \in Nat /\ e.failures <= MaxFailures
  BY <1>1, Counts
<1>. HIDE DEF f, r, l
\* The failures of r: those of s, and the new one.
<1>6. \A i \in 1 .. Len(r) : \/ i = Len(r) /\ r[i] = 0
                             \/ n + i \in 1 .. l /\ r[i] = s[n + i] /\ l - (n + i) = Len(r) - i - 1
  BY <1>2, <1>3
<1>10. \A k \in Nat : SinceBlock(s, b, k) => SinceBlock(r, b, k + 1)
  <2>. SUFFICES ASSUME NEW k \in Nat, SinceBlock(s, b, k), NEW i \in 1 .. Len(r), r[i] < b
                PROVE  Len(r) - i < k + 1
    BY <1>3 DEF SinceBlock
  <2>1. CASE i = Len(r)
    BY <1>2, <1>3, <2>1
  <2>2. CASE n + i \in 1 .. l /\ r[i] = s[n + i] /\ l - (n + i) = Len(r) - i - 1
    <3>1. l - (n + i) < k
      BY <1>3, <2>2 DEF SinceBlock, l
    <3>. QED
      BY <1>2, <1>3, <2>2, <3>1
  <2>. QED
    BY <1>6, <2>1, <2>2
<1>11. \A k, x \in Nat : (\A i \in 1 .. l : l - i < k => s[i] <= x)
                             => \A i \in 1 .. Len(r) : Len(r) - i < k + 1 => r[i] <= x
  <2>. SUFFICES ASSUME NEW k \in Nat, NEW x \in Nat, \A i \in 1 .. l : l - i < k => s[i] <= x,
                       NEW i \in 1 .. Len(r), Len(r) - i < k + 1
                PROVE  r[i] <= x
    OBVIOUS
  <2>1. CASE n + i \in 1 .. l /\ r[i] = s[n + i] /\ l - (n + i) = Len(r) - i - 1
    BY <1>2, <1>3, <2>1
  <2>. QED
    BY <1>6, <2>1
<1>12. \A k, x \in Nat : (\A i \in 1 .. l : i <= l - k => s[i] >= x)
                             => \A i \in 1 .. Len(r) : i <= Len(r) - (k + 1) => r[i] >= x
  <2>. SUFFICES ASSUME NEW k \in Nat, NEW x \in Nat, \A i \in 1 .. l : i <= l - k => s[i] >= x,
                       NEW i \in 1 .. Len(r), i <= Len(r) - (k + 1)
                PROVE  r[i] >= x
    OBVIOUS
  <2>1. CASE n + i \in 1 .. l /\ r[i] = s[n + i] /\ l - (n + i) = Len(r) - i - 1
    BY <1>2, <1>3, <2>1
  <2>2. CASE i = Len(r)
    BY <1>2, <1>3, <2>2
  <2>. QED
    BY <1>6, <2>1, <2>2
<1>7. CASE ~Open(e)
  <2>1. f = [age |-> 0, failures |-> 1, ban |-> 0]
    BY <1>1, <1>7, Counts DEF f
  <2>2. c = b
    BY <1>4, <2>1
  <2>3. SinceBlock(s, b, MaxFailures - 1)
    BY <1>7 DEF Tracked
  <2>4. SinceBlock(r, b, f.failures + MaxFailures - 1)
    BY <1>4, <1>10, <2>1, <2>3
  <2>5. 1 <= Len(r)
    BY <1>2, <1>3, <1>4
  <2>6. /\ \A i \in DOMAIN r : Len(r) - i < 1 => r[i] <= 0
        /\ \A i \in DOMAIN r : i <= Len(r) - 1 => r[i] >= 0
    BY <1>2, <1>3
  <2>. QED
    BY <1>1, <1>3, <1>4, <1>5, <2>1, <2>2, <2>4, <2>5, <2>6 DEF Tracked
<1>8. CASE Open(e) /\ e.failures + 1 < MaxFailures
  <2>1. f = [age |-> e.age, failures |-> e.failures + 1, ban |-> e.ban]
    BY <1>1, <1>8, Counts DEF f
  <2>2. c = b
    BY <1>4, <1>5, <1>8, <2>1
  <2>3. /\ e.failures <= l /\ SinceBlock(s, b, e.failures + MaxFailures - 1)
        /\ \A i \in 1 .. l : l - i < e.failures => s[i] <= e.age
        /\ \A i \in 1 .. l : i <= l - e.failures => s[i] >= e.age
    <3>1. e.failures < MaxFailures
      BY <1>4, <1>5, <1>8
    <3>. QED
      BY <1>3, <1>8, <3>1 DEF Tracked, l
  <2>4. SinceBlock(r, b, f.failures + MaxFailures - 1)
    BY <1>4, <1>5, <1>10, <2>1, <2>3
  <2>5. f.failures <= Len(r)
    BY <1>2, <1>3, <1>4, <1>5, <1>8, <2>1, <2>3
  <2>6. \A i \in DOMAIN r : Len(r) - i < f.failures => r[i] <= f.age
    BY <1>3, <1>5, <1>11, <2>1, <2>3
  <2>7. \A i \in DOMAIN r : i <= Len(r) - f.failures => r[i] >= f.age
    BY <1>3, <1>5, <1>12, <2>1, <2>3
  <2>. QED
    BY <1>1, <1>3, <1>4, <1>5, <1>8, <2>1, <2>2, <2>4, <2>5, <2>6, <2>7 DEF Tracked
<1>9. CASE Open(e) /\ e.failures + 1 >= MaxFailures
  <2>1. f = [age |-> e.age, failures |-> MaxFailures, ban |-> Ban] /\ c = 0
    BY <1>1, <1>4, <1>9, Counts DEF f
  <2>2. /\ e.failures <= l
        /\ \A i \in 1 .. l : l - i < e.failures => s[i] <= e.age
    BY <1>3, <1>9 DEF Tracked, l
  <2>3. MaxFailures <= Len(r)
    BY <1>2, <1>3, <1>4, <1>5, <1>9, <2>2
  <2>4. \A i \in DOMAIN r : Len(r) - i < MaxFailures => r[i] <= e.age
    <3>1. \A i \in 1 .. Len(r) : Len(r) - i < e.failures + 1 => r[i] <= e.age
      BY <1>5, <1>11, <2>2
    <3>. QED
      BY <1>3, <1>4, <1>5, <1>9, <3>1
  <2>5. SinceBlock(r, 0, 0)
    BY <1>3 DEF SinceBlock
  <2>. QED
    BY <1>1, <1>3, <1>4, <1>5, <2>1, <2>3, <2>4, <2>5 DEF Tracked
<1>. QED
  BY <1>4, <1>5, <1>7, <1>8, <1>9

\* A tick on an entry: its window goes on or is over.
LEMMA Ticks ==
    ASSUME NEW e \in FailureState
    PROVE  /\ Older(e) \in FailureState
           /\ ~Open(e) => ~Open(Older(e))
           /\ Open(Older(e)) => /\ Open(e) /\ e.age < Window
                                /\ Older(e).age = e.age + 1 /\ Older(e).failures = e.failures
           /\ Open(e) /\ ~Open(Older(e)) => e.age = Window
           /\ Older(e).ban = IF e.ban > 0 THEN e.ban - 1 ELSE 0
<1>1. /\ e.failures \in 0 .. MaxFailures /\ e.age \in 0 .. Window + 1 /\ e.ban \in 0 .. Ban
      /\ e = [age |-> e.age, failures |-> e.failures, ban |-> e.ban]
  BY DEF FailureState
<1>2. CASE e = NoEntry
  <2>1. e.failures = 0 /\ e.ban = 0 /\ Older(e) = e
    BY <1>2 DEF NoEntry, Older
  <2>. QED
    BY <2>1 DEF Open
<1>3. CASE e # NoEntry
  <2>1. Older(e) = [age |-> AtMost(e.age + 1, Window + 1), failures |-> e.failures,
                    ban |-> IF e.ban > 0 THEN e.ban - 1 ELSE 0]
    BY <1>1, <1>3 DEF Older
  <2>2. AtMost(e.age + 1, Window + 1) = IF e.age = Window + 1 THEN Window + 1 ELSE e.age + 1
    BY <1>1, TrackerAssumption DEF AtMost
  <2>3. Older(e) \in FailureState
    <3>1. AtMost(e.age + 1, Window + 1) \in 0 .. Window + 1
      BY <1>1, <2>2, TrackerAssumption
    <3>2. (IF e.ban > 0 THEN e.ban - 1 ELSE 0) \in 0 .. Ban
      BY <1>1, TrackerAssumption
    <3>. QED
      BY <1>1, <2>1, <3>1, <3>2 DEF FailureState
  <2>4. Older(e).age = (IF e.age = Window + 1 THEN Window + 1 ELSE e.age + 1)
        /\ Older(e).failures = e.failures /\ Older(e).ban = (IF e.ban > 0 THEN e.ban - 1 ELSE 0)
    BY <2>1, <2>2
  <2>. QED
    BY <1>1, <2>3, <2>4, TrackerAssumption DEF Open
<1>. QED
  BY <1>2, <1>3

\* Time passes: window, block and ages grow by one together.
LEMMA TrackedTicks ==
    ASSUME NEW e, NEW s, NEW b, Tracked(e, s, b)
    PROVE  Tracked(Older(e), Aged(s), AtMost(b + 1, LongAgo))
<1>. DEFINE f == Older(e)
            r == Aged(s)
            l == Len(s)
            c == AtMost(b + 1, LongAgo)
<1>. SUFFICES Tracked(f, r, c)
  OBVIOUS
<1>1. e \in FailureState /\ s \in Ages /\ Len(s) <= Burst /\ b \in 0 .. Ban
  BY DEF Tracked
<1>2. PICK n \in 0 .. l : /\ Len(r) = l - n
                          /\ \A i \in 1 .. n : s[i] >= Window
                          /\ \A i \in 1 .. l - n : s[n + i] < Window /\ r[i] = s[n + i] + 1
  BY <1>1, AgedAges
<1>3. /\ r \in Ages
      /\ l \in Nat /\ DOMAIN s = 1 .. l /\ DOMAIN r = 1 .. Len(r)
      /\ \A i \in 1 .. l : s[i] \in 0 .. Window
  BY <1>1, AgedAges, AgesOf
<1>4. Burst = 2 * MaxFailures - 1 /\ MaxFailures \in Nat /\ MaxFailures >= 2 /\ Ban \in Nat /\ Window \in Nat
  BY TrackerAssumption DEF Burst
<1>5. c \in 0 .. Ban /\ c <= b + 1
  BY <1>1, <1>4 DEF AtMost, LongAgo
<1>6. /\ f \in FailureState /\ (~Open(e) => ~Open(f))
      /\ Open(f) => Open(e) /\ e.age < Window /\ f.age = e.age + 1 /\ f.failures = e.failures
      /\ Open(e) /\ ~Open(f) => e.age = Window
  BY <1>1, Ticks
<1>7. e.failures \in 0 .. MaxFailures /\ e.age \in Nat
  BY <1>1, <1>4 DEF FailureState
<1>8. l <= Burst
  BY <1>1
<1>. HIDE DEF f, r, c, l
\* The failures of r are those of s but the first n.
<1>9. \A i \in 1 .. Len(r) : /\ n + i \in 1 .. l /\ r[i] = s[n + i] + 1 /\ s[n + i] \in Nat
                             /\ l - (n + i) = Len(r) - i
  BY <1>2, <1>3, <1>4
<1>10. \A k \in Nat : SinceBlock(s, b, k) => SinceBlock(r, c, k)
  <2>. SUFFICES ASSUME NEW k \in Nat, SinceBlock(s, b, k), NEW i \in 1 .. Len(r), r[i] < c
                PROVE  Len(r) - i < k
    BY <1>3 DEF SinceBlock
  <2>1. n + i \in 1 .. l /\ s[n + i] < b
    BY <1>1, <1>5, <1>9
  <2>2. l - (n + i) < k
    BY <1>3, <2>1 DEF SinceBlock, l
  <2>. QED
    BY <1>9, <2>2
<1>11. Len(r) <= Burst
  BY <1>2, <1>3, <1>4, <1>8
<1>. n \in Nat /\ e.failures \in Nat /\ l \in Nat /\ Len(r) \in Nat /\ Len(r) = l - n
  BY <1>2, <1>3, <1>7
<1>12. CASE ~Open(e)
  <2>1. SinceBlock(s, b, MaxFailures - 1)
    BY <1>12 DEF Tracked
  <2>2. SinceBlock(r, c, MaxFailures - 1)
    BY <1>4, <1>10, <2>1
  <2>. QED
    BY <1>3, <1>5, <1>6, <1>11, <1>12, <2>2 DEF Tracked
<1>13. CASE Open(e) /\ Open(f)
  <2>1. /\ e.failures <= l /\ f.age = e.age + 1 /\ f.failures = e.failures /\ e.age < Window
        /\ \A i \in 1 .. l : l - i < e.failures => s[i] <= e.age
    BY <1>3, <1>6, <1>13 DEF Tracked, l
  <2>2. f.failures <= Len(r)
    <3>1. CASE n = 0
      BY <1>2, <1>3, <1>7, <2>1, <3>1
    <3>2. CASE n > 0
      <4>1. n \in 1 .. l /\ s[n] >= Window /\ s[n] \in Nat
        BY <1>2, <1>3, <1>4, <3>2
      <4>2. ~(l - n < e.failures)
        BY <1>4, <1>7, <2>1, <4>1
      <4>. QED
        BY <1>2, <1>3, <1>7, <2>1, <4>2
    <3>. QED
      BY <1>2, <3>1, <3>2
  <2>3. \A i \in DOMAIN r : Len(r) - i < f.failures => r[i] <= f.age
    <3>. SUFFICES ASSUME NEW i \in 1 .. Len(r), Len(r) - i < e.failures PROVE r[i] <= e.age + 1
      BY <1>3, <2>1
    <3>1. n + i \in 1 .. l /\ l - (n + i) < e.failures /\ r[i] = s[n + i] + 1 /\ s[n + i] \in Nat
      BY <1>9
    <3>2. s[n + i] <= e.age
      BY <2>1, <3>1
    <3>. QED
      BY <1>7, <3>1, <3>2
  <2>4. CASE e.failures < MaxFailures
    <3>1. /\ \A i \in 1 .. l : i <= l - e.failures => s[i] >= e.age
          /\ SinceBlock(s, b, e.failures + MaxFailures - 1)
      BY <1>3, <1>13, <2>4 DEF Tracked, l
    <3>2. \A i \in DOMAIN r : i <= Len(r) - f.failures => r[i] >= f.age
      <4>. SUFFICES ASSUME NEW i \in 1 .. Len(r), i <= Len(r) - e.failures PROVE r[i] >= e.age + 1
        BY <1>3, <2>1
      <4>1. n + i \in 1 .. l /\ r[i] = s[n + i] + 1 /\ s[n + i] \in Nat /\ l - (n + i) = Len(r) - i
        BY <1>9
      <4>3. n + i <= l - e.failures
        BY <4>1
      <4>2. s[n + i] >= e.age
        BY <3>1, <4>1, <4>3
      <4>. QED
        BY <1>7, <4>1, <4>2
    <3>3. SinceBlock(r, c, f.failures + MaxFailures - 1)
      BY <1>4, <1>7, <1>10, <2>1, <3>1
    <3>. QED
      BY <1>3, <1>4, <1>5, <1>6, <1>7, <1>11, <1>13, <2>1, <2>2, <2>3, <2>4, <3>2, <3>3 DEF Tracked
  <2>5. CASE e.failures = MaxFailures
    <3>1. b <= e.age /\ SinceBlock(s, b, 0)
      BY <1>13, <2>5 DEF Tracked
    <3>2. c <= f.age /\ SinceBlock(r, c, 0)
      BY <1>1, <1>5, <1>7, <1>10, <2>1, <3>1
    <3>. QED
      BY <1>3, <1>4, <1>5, <1>6, <1>11, <1>13, <2>1, <2>2, <2>3, <2>5, <3>2 DEF Tracked
  <2>. QED
    BY <1>4, <1>7, <2>4, <2>5
\* The window is over, and what came before it is dropped with its beginning.
<1>14. CASE Open(e) /\ ~Open(f)
  <2>1. e.age = Window
    BY <1>6, <1>14
  <2>2. SinceBlock(r, c, MaxFailures - 1)
    <3>1. CASE e.failures < MaxFailures
      <4>1. /\ e.failures <= l
            /\ \A i \in 1 .. l : i <= l - e.failures => s[i] >= Window
        BY <1>3, <1>14, <2>1, <3>1 DEF Tracked, l
      <4>2. ASSUME NEW i \in 1 .. Len(r) PROVE Len(r) - i < MaxFailures - 1
        <5>1. n + i \in 1 .. l /\ s[n + i] < Window /\ s[n + i] \in Nat /\ l - (n + i) = Len(r) - i
          BY <1>2, <1>9
        <5>2. ~(n + i <= l - e.failures)
          BY <1>4, <4>1, <5>1
        <5>3. l - (n + i) < e.failures
          BY <5>1, <5>2
        <5>. QED
          BY <1>4, <3>1, <5>1, <5>3
      <4>. QED
        BY <1>3, <4>2 DEF SinceBlock
    <3>2. CASE e.failures = MaxFailures
      <4>1. SinceBlock(r, c, 0)
        BY <1>10, <1>14, <3>2 DEF Tracked
      <4>2. \A i \in 1 .. Len(r) : Len(r) - i < 0 => Len(r) - i < MaxFailures - 1
        BY <1>2, <1>3, <1>4
      <4>. QED
        BY <1>3, <4>1, <4>2 DEF SinceBlock
    <3>. QED
      BY <1>4, <1>7, <3>1, <3>2
  <2>. QED
    BY <1>3, <1>5, <1>6, <1>11, <1>14, <2>2 DEF Tracked
<1>. QED
  BY <1>6, <1>12, <1>13, <1>14

TrackInv ==
    /\ DOMAIN peers = Peer /\ DOMAIN recent = Peer /\ DOMAIN sinceBan = Peer
    /\ \A p \in Peer : Tracked(peers[p], recent[p], sinceBan[p])

\* A peer without an entry, and without a failure in the last window.
LEMMA TrackedNothing == Tracked(NoEntry, << >>, LongAgo) /\ NoEntry \in FailureState
<1>1. NoEntry \in FailureState /\ ~Open(NoEntry)
  BY TrackerAssumption DEF NoEntry, FailureState, Open
<1>2. << >> \in Ages
  BY DEF Ages, Sorted
<1>. QED
  BY <1>1, <1>2, TrackerAssumption DEF Tracked, SinceBlock, LongAgo, Burst

\* Every method of the tracker keeps its entries true, and blocks only who has
\* failed MaxFailures times.
LEMMA TrackStep ==
    TrackInv /\ [TrackerNext]_trackerVars =>
        /\ TrackInv'
        /\ \A p \in Peer : peers'[p].ban > peers[p].ban => Len(recent'[p]) >= MaxFailures
<1>. DEFINE Earned == \A p \in Peer : peers'[p].ban > peers[p].ban => Len(recent'[p]) >= MaxFailures
<1>. SUFFICES ASSUME TrackInv, [TrackerNext]_trackerVars PROVE TrackInv' /\ Earned
  OBVIOUS
<1>0. \A p \in Peer : peers[p] \in FailureState /\ peers[p].ban \in Nat
  BY TrackerAssumption DEF TrackInv, Tracked, FailureState
<1>1. CASE CheckBlocked
  <2>1. /\ UNCHANGED <<recent, sinceBan>> /\ DOMAIN peers' = Peer
        /\ \A p \in Peer : \/ peers'[p] = peers[p]
                           \/ peers'[p] = NoEntry /\ peers[p].age > Window
    BY <1>0, <1>1, TrackerAssumption DEF CheckBlocked, Pruned, FailureState
  <2>2. ASSUME NEW p \in Peer, peers'[p] = NoEntry, peers[p].age > Window
        PROVE  Tracked(NoEntry, recent[p], sinceBan[p])
    <3>1. ~Open(peers[p]) /\ ~Open(NoEntry)
      BY <1>0, <2>2, TrackerAssumption DEF Open, NoEntry, FailureState
    <3>. QED
      BY <3>1, TrackedNothing DEF TrackInv, Tracked
  <2>3. \A p \in Peer : ~(NoEntry.ban > peers[p].ban)
    BY <1>0 DEF NoEntry
  <2>. QED
    BY <1>0, <2>1, <2>2, <2>3 DEF TrackInv
<1>2. ASSUME NEW p \in Peer, NoteFailure(p) PROVE TrackInv' /\ Earned
  <2>. DEFINE f == AfterFailure(peers[p])
              b == IF f.failures >= MaxFailures THEN 0 ELSE sinceBan[p]
  <2>1. /\ peers' = [peers EXCEPT ![p] = f] /\ recent' = [recent EXCEPT ![p] = Noted(recent[p])]
        /\ sinceBan' = [sinceBan EXCEPT ![p] = b]
    BY <1>2 DEF NoteFailure, TrackInv
  <2>2. Tracked(f, Noted(recent[p]), b) /\ (f.ban > peers[p].ban => Len(Noted(recent[p])) >= MaxFailures)
    BY TrackedFails DEF TrackInv
  <2>. HIDE DEF f, b
  <2>3. ASSUME NEW q \in Peer
        PROVE  /\ Tracked(peers'[q], recent'[q], sinceBan'[q])
               /\ peers'[q].ban > peers[q].ban => Len(recent'[q]) >= MaxFailures
    <3>1. CASE q = p
      BY <2>1, <2>2, <3>1 DEF TrackInv
    <3>2. CASE q # p
      <4>1. peers'[q] = peers[q] /\ recent'[q] = recent[q] /\ sinceBan'[q] = sinceBan[q]
        BY <2>1, <3>2 DEF TrackInv
      <4>. QED
        BY <1>0, <4>1 DEF TrackInv
    <3>. QED
      BY <3>1, <3>2
  <2>. QED
    BY <2>1, <2>3 DEF TrackInv
<1>3. ASSUME NEW p \in Peer, NoteSuccess(p) PROVE TrackInv' /\ Earned
  <2>1. /\ peers' = [peers EXCEPT ![p] = NoEntry] /\ recent' = [recent EXCEPT ![p] = << >>]
        /\ sinceBan' = [sinceBan EXCEPT ![p] = LongAgo]
    BY <1>3 DEF NoteSuccess
  <2>2. ASSUME NEW q \in Peer
        PROVE  Tracked(peers'[q], recent'[q], sinceBan'[q]) /\ ~(peers'[q].ban > peers[q].ban)
    <3>1. CASE q = p
      BY <1>0, <2>1, <3>1, TrackedNothing DEF TrackInv, NoEntry
    <3>2. CASE q # p
      BY <1>0, <2>1, <3>2 DEF TrackInv
    <3>. QED
      BY <3>1, <3>2
  <2>. QED
    BY <2>1, <2>2 DEF TrackInv
<1>4. CASE Tick
  <2>1. /\ peers' = [p \in Peer |-> Older(peers[p])] /\ recent' = [p \in Peer |-> Aged(recent[p])]
        /\ sinceBan' = [p \in Peer |-> AtMost(sinceBan[p] + 1, LongAgo)]
    BY <1>4 DEF Tick
  <2>2. ASSUME NEW q \in Peer
        PROVE  Tracked(peers'[q], recent'[q], sinceBan'[q]) /\ ~(peers'[q].ban > peers[q].ban)
    <3>1. Tracked(Older(peers[q]), Aged(recent[q]), AtMost(sinceBan[q] + 1, LongAgo))
      BY TrackedTicks DEF TrackInv
    <3>2. ~(Older(peers[q]).ban > peers[q].ban)
      BY <1>0, Ticks
    <3>. QED
      BY <2>1, <3>1, <3>2
  <2>. QED
    BY <2>1, <2>2 DEF TrackInv
<1>5. CASE UNCHANGED trackerVars
  BY <1>0, <1>5 DEF trackerVars, TrackInv
<1>. QED
  BY <1>1, <1>2, <1>3, <1>4, <1>5 DEF TrackerNext

\* A tracker that has seen nobody.
LEMMA TrackStart == TrackerInit => TrackInv
  BY TrackedNothing DEF TrackerInit, TrackInv

\* What handle_client does to the tracker are calls of its methods, for a peer
\* that the accept loop has seen.
FromInv ==
    /\ DOMAIN from = Conn /\ DOMAIN pc = Conn
    /\ \A c \in Conn : pc[c] # "idle" => from[c] \in Peer
    /\ acceptor \in {"load", "swap"} => incoming \in Peer

\* Every step of the server is one of the tracker's, or none.
LEMMA FromStep == FromInv /\ [Next]_vars => FromInv' /\ [TrackerNext]_trackerVars
<1>. SUFFICES ASSUME FromInv, [Next]_vars PROVE FromInv' /\ [TrackerNext]_trackerVars
  OBVIOUS
<1>. USE DEF FromInv, TrackerNext, GoTo, mainVars, connVars
<1>1. ASSUME NEW p \in Peer, Accept(p) PROVE FromInv' /\ [TrackerNext]_trackerVars
  BY <1>1 DEF Accept
<1>2. CASE AcceptFails
  BY <1>2 DEF AcceptFails
<1>3. CASE TryAcquire
  BY <1>3 DEF TryAcquire, LoadFull, LoadBelow, SwapFails, Swap
<1>4. ASSUME NEW c \in Conn, Succeeded(c) PROVE FromInv' /\ [TrackerNext]_trackerVars
  BY <1>4 DEF Succeeded
<1>5. ASSUME NEW c \in Conn, Failed(c) PROVE FromInv' /\ [TrackerNext]_trackerVars
  BY <1>5 DEF Failed
<1>6. ASSUME NEW c \in Conn, DispatchSetup(c) PROVE FromInv' /\ [TrackerNext]_trackerVars
  BY <1>6 DEF DispatchSetup
<1>7. ASSUME NEW c \in Conn, \/ ReadFails(c) \/ DispatchAuth(c) \/ DispatchUnknown(c)
                             \/ SetupReturns(c) \/ AuthReturns(c) \/ Drop(c)
      PROVE  FromInv' /\ [TrackerNext]_trackerVars
  BY <1>7 DEF ReadFails, DispatchAuth, DispatchUnknown, SetupReturns, AuthReturns, Drop
<1>8. CASE TimePasses
  BY <1>8 DEF TimePasses
<1>9. CASE UNCHANGED vars
  BY <1>9 DEF vars
<1>. QED
  BY <1>1, <1>2, <1>3, <1>4, <1>5, <1>6, <1>7, <1>8, <1>9 DEF Next, Handle

\* So the tracker's own specification holds of the tracker in the server ...
LEMMA TrackerRuns == Spec => []FromInv /\ [][TrackerNext]_trackerVars
<1>1. Init => FromInv
  BY DEF Init, FromInv
<1>. QED
  BY <1>1, FromStep, PTL DEF Spec

\* ... and with it what its entries say.
LEMMA TrackedAlways == Spec => []TrackInv
<1>1. Init => TrackInv
  BY TrackStart DEF Init
<1>2. TrackInv /\ [TrackerNext]_trackerVars => TrackInv'
  BY TrackStep
<1>. QED
  BY <1>1, <1>2, TrackerRuns, PTL DEF Spec

\* The tracker inside the server, with every interleaving of the threads that
\* call it and of the accept loop that asks it, is FailureTracker: every step of
\* the server is one of its methods, the passing of time, or a stutter.
THEOREM TrackerInside == Spec => TrackerSpec
<1>1. Init => TrackerInit
  BY DEF Init
<1>. QED
  BY <1>1, TrackerRuns, PTL DEF Spec, TrackerSpec

\* A peer is blocked only for MAX_FAILURES_PER_WINDOW failures of its own
\* within FAILURE_WINDOW and no success in between, whatever the threads of
\* handle_client do.
THEOREM BlocksAreEarned == Spec => BanEarned
<1>1. TrackInv /\ [TrackerNext]_trackerVars
        => [\A p \in Peer : peers'[p].ban > peers[p].ban => Len(recent'[p]) >= MaxFailures]_trackerVars
  BY TrackStep
<1>. QED
  BY <1>1, TrackedAlways, TrackerRuns, PTL DEF BanEarned

\* Twice that number less one of failures within FAILURE_WINDOW never go
\* without a block.
THEOREM FloodsAreBanned == Spec => []FloodBanned
<1>1. TrackInv => FloodBanned
  <2>. SUFFICES ASSUME TrackInv, NEW p \in Peer, Len(recent[p]) = Burst PROVE sinceBan[p] <= Window
    BY DEF FloodBanned
  <2>. DEFINE e == peers[p]
              s == recent[p]
              b == sinceBan[p]
  <2>1. Tracked(e, s, b)
    BY DEF TrackInv
  <2>2. /\ Burst = 2 * MaxFailures - 1 /\ MaxFailures \in Nat /\ MaxFailures >= 2
        /\ Window \in Nat /\ Ban \in Nat
    BY TrackerAssumption DEF Burst
  <2>3. /\ 1 \in DOMAIN s /\ s[1] \in Nat /\ s[1] <= Window /\ Len(s) = Burst
        /\ e.failures \in 0 .. MaxFailures /\ b \in Nat
    <3>1. s \in Ages /\ e \in FailureState /\ b \in 0 .. Ban
      BY <2>1 DEF Tracked
    <3>. QED
      BY <2>2, <3>1, AgesOf DEF FailureState
  <2>. HIDE DEF e, s, b
  <2>4. \A k \in Nat : SinceBlock(s, b, k) => ~(s[1] < b) \/ Burst - 1 < k
    BY <2>3 DEF SinceBlock
  <2>5. \/ SinceBlock(s, b, 0) \/ SinceBlock(s, b, MaxFailures - 1)
        \/ e.failures < MaxFailures /\ SinceBlock(s, b, e.failures + MaxFailures - 1)
    BY <2>1, <2>2, <2>3 DEF Tracked
  <2>6. ~(s[1] < b)
    <3>1. CASE SinceBlock(s, b, 0)
      BY <2>2, <2>4, <3>1
    <3>2. CASE SinceBlock(s, b, MaxFailures - 1)
      BY <2>2, <2>4, <3>2
    <3>3. CASE e.failures < MaxFailures /\ SinceBlock(s, b, e.failures + MaxFailures - 1)
      BY <2>2, <2>3, <2>4, <3>3
    <3>. QED
      BY <2>5, <3>1, <3>2, <3>3
  <2>. QED
    BY <2>2, <2>3, <2>6 DEF b
<1>. QED
  BY <1>1, TrackedAlways, PTL
-----------------------------------------------------------------------------
\* What the ages s of the failed setups of a peer say of its entry e, of the
\* time b since its last block and of k, the number of its setups in flight.
\* In a window that goes on, n of them came before it, and the window has
\* counted the others.  Once it has reached the limit nothing new is let
\* through, so only the setups in flight may still fail; none of them is
\* younger than the block, but these.  When the window is over its failures are
\* the last but m of the stretch, and they are gone before the block is.
Counted(e, s, b, k, n) ==
    /\ n <= MaxFailures - 2 + MaxActive
    /\ \A i \in 1 .. n : s[i] >= e.age
    /\ e.failures < MaxFailures => Len(s) - n <= e.failures - 1 /\ e.ban = 0
    /\ e.failures = MaxFailures =>
        /\ Len(s) - n + k <= MaxFailures - 2 + MaxActive
        /\ k <= MaxActive - 1
        /\ \A i \in 1 .. Len(s) : s[i] >= b
        /\ e.ban = Ban - b /\ b <= e.age

Limited(e, s, b, k) ==
    /\ s \in Ages
    /\ Open(e) => \E n \in 0 .. Len(s) : Counted(e, s, b, k, n)
    /\ ~Open(e) /\ e.ban = 0 => Len(s) <= MaxFailures - 2 \/ Len(s) <= MaxActive - 1
    /\ ~Open(e) /\ e.ban > 0 =>
        /\ Len(s) + k <= MaxFailures - 2 + MaxActive
        /\ e.ban = Ban - b
        /\ \E m \in 0 .. Len(s) : /\ m + k <= MaxActive - 1
                                  /\ \A i \in 1 .. Len(s) - m : s[i] >= b

\* A failure is noted: of a setup, which is then no longer in flight, or of
\* something else, when there is a thread beside those of the setups.
LEMMA LimitedFails ==
    ASSUME NEW e \in FailureState, NEW s, NEW b \in 0 .. Ban, NEW k \in Nat,
           Limited(e, s, b, k),
           NEW r \in Ages, NEW j \in Nat, j <= MaxActive - 1,
           Len(r) = Len(s) \/ Len(r) = Len(s) + 1, Len(r) + j = Len(s) + k,
           \A i \in 1 .. Len(s) : r[i] = s[i]
    PROVE  Limited(AfterFailure(e), r, IF AfterFailure(e).failures >= MaxFailures THEN 0 ELSE b, j)
<1>. DEFINE f == AfterFailure(e)
            c == IF f.failures >= MaxFailures THEN 0 ELSE b
<1>. SUFFICES Limited(f, r, c, j)
  OBVIOUS
<1>1. /\ MaxFailures \in Nat /\ MaxFailures >= 2 /\ MaxActive \in Nat /\ MaxActive >= 1
      /\ Ban \in Nat /\ Window \in Nat
  BY TrackerAssumption, ConnectionsAssumption
<1>2. /\ Len(s) \in Nat /\ Len(r) \in Nat
      /\ \A i \in 1 .. Len(r) : r[i] \in Nat /\ r[i] >= 0
  BY AgesOf, <1>1 DEF Limited
<1>3. /\ Open(f) /\ e.failures \in Nat /\ e.age \in Nat /\ e.failures <= MaxFailures
  BY Counts
<1>. HIDE DEF f, c
<1>4. CASE ~Open(e)
  <2>1. f = [age |-> 0, failures |-> 1, ban |-> 0]
    BY <1>4, Counts DEF f
  <2>2. Len(r) <= MaxFailures - 2 + MaxActive
    <3>1. CASE e.ban = 0
      BY <1>1, <1>2, <1>4, <3>1 DEF Limited
    <3>2. CASE e.ban > 0
      BY <1>1, <1>2, <1>4, <3>2 DEF Limited
    <3>. QED
      BY <3>1, <3>2 DEF FailureState
  <2>3. Counted(f, r, c, j, Len(r))
    BY <1>1, <1>2, <2>1, <2>2 DEF Counted
  <2>. QED
    BY <1>2, <1>3, <2>3 DEF Limited
<1>5. CASE Open(e)
  <2>1. PICK n \in 0 .. Len(s) : Counted(e, s, b, k, n)
    BY <1>5 DEF Limited
  <2>2. n \in 0 .. Len(r) /\ \A i \in 1 .. n : r[i] >= e.age
    BY <1>2, <2>1 DEF Counted
  <2>3. CASE e.failures + 1 < MaxFailures
    <3>1. f = [age |-> e.age, failures |-> e.failures + 1, ban |-> e.ban]
      BY <1>5, <2>3, Counts DEF f
    <3>2. Len(r) - n <= (e.failures + 1) - 1 /\ e.ban = 0
      <4>1. e.failures < MaxFailures
        BY <1>1, <1>3, <2>3
      <4>2. Len(s) - n <= e.failures - 1 /\ e.ban = 0
        BY <2>1, <4>1 DEF Counted
      <4>. QED
        BY <1>2, <1>3, <4>2
    <3>3. Counted(f, r, c, j, n)
      BY <1>1, <1>3, <2>1, <2>2, <2>3, <3>1, <3>2 DEF Counted
    <3>. QED
      BY <1>3, <2>2, <3>3 DEF Limited
  <2>4. CASE e.failures + 1 >= MaxFailures
    <3>1. f = [age |-> e.age, failures |-> MaxFailures, ban |-> Ban] /\ c = 0
      BY <1>1, <1>5, <2>4, Counts DEF f, c
    <3>2. Len(r) - n + j <= MaxFailures - 2 + MaxActive
      <4>1. CASE e.failures = MaxFailures
        BY <1>1, <1>2, <2>1, <4>1 DEF Counted
      <4>2. CASE e.failures < MaxFailures
        <5>1. Len(r) - n <= MaxFailures - 1
          BY <1>1, <1>2, <1>3, <2>1, <4>2 DEF Counted
        <5>. QED
          BY <1>1, <1>2, <2>1, <5>1
      <4>. QED
        BY <1>1, <1>3, <4>1, <4>2
    <3>3. Counted(f, r, c, j, n)
      BY <1>1, <1>2, <1>3, <2>1, <2>2, <3>1, <3>2 DEF Counted
    <3>. QED
      BY <1>3, <2>2, <3>3 DEF Limited
  <2>. QED
    BY <1>1, <1>3, <2>3, <2>4
<1>. QED
  BY <1>4, <1>5

\* Setups in flight may end, and more may start while the peer is not blocked.
LEMMA LimitedFlight ==
    ASSUME NEW e \in FailureState, NEW s, NEW b \in 0 .. Ban, NEW k \in Nat, NEW j \in Nat,
           Limited(e, s, b, k), j <= k \/ e.ban = 0
    PROVE  Limited(e, s, b, j)
<1>1. /\ MaxFailures \in Nat /\ MaxActive \in Nat /\ Ban \in Nat /\ Window \in Nat
      /\ Window < Ban /\ Len(s) \in Nat
      /\ e.failures \in 0 .. MaxFailures /\ e.age \in Nat /\ e.ban \in Nat
  BY TrackerAssumption, ConnectionsAssumption, AgesOf DEF Limited, FailureState
<1>2. CASE j <= k
  <2>1. ASSUME NEW n \in 0 .. Len(s), Counted(e, s, b, k, n) PROVE Counted(e, s, b, j, n)
    BY <1>1, <1>2, <2>1 DEF Counted
  <2>2. ASSUME ~Open(e), e.ban > 0
        PROVE  /\ Len(s) + j <= MaxFailures - 2 + MaxActive
               /\ e.ban = Ban - b
               /\ \E m \in 0 .. Len(s) : /\ m + j <= MaxActive - 1
                                         /\ \A i \in 1 .. Len(s) - m : s[i] >= b
    BY <1>1, <1>2, <2>2 DEF Limited
  <2>. QED
    BY <2>1, <2>2 DEF Limited
<1>3. CASE e.ban = 0
  <2>1. ASSUME NEW n \in 0 .. Len(s), Counted(e, s, b, k, n), Open(e) PROVE Counted(e, s, b, j, n)
    <3>1. e.age <= Window
      BY <2>1 DEF Open
    <3>2. ~(e.failures = MaxFailures)
      BY <1>1, <1>3, <2>1, <3>1 DEF Counted
    <3>. QED
      BY <2>1, <3>2 DEF Counted
  <2>. QED
    BY <1>1, <1>3, <2>1 DEF Limited
<1>. QED
  BY <1>2, <1>3

\* A tick.  FAILURE_BAN is longer than FAILURE_WINDOW, so the failures that led
\* to a block are gone when it ends.
LEMMA LimitedTicks ==
    ASSUME NEW e \in FailureState, NEW s, NEW b \in 0 .. Ban, NEW k \in Nat, Limited(e, s, b, k)
    PROVE  Limited(Older(e), Aged(s), AtMost(b + 1, LongAgo), k)
<1>. DEFINE f == Older(e)
            r == Aged(s)
            l == Len(s)
            c == AtMost(b + 1, LongAgo)
<1>. SUFFICES Limited(f, r, c, k)
  OBVIOUS
<1>1. s \in Ages
  BY DEF Limited
<1>2. PICK d \in 0 .. l : /\ Len(r) = l - d
                          /\ \A i \in 1 .. d : s[i] >= Window
                          /\ \A i \in 1 .. l - d : s[d + i] < Window /\ r[i] = s[d + i] + 1
  BY <1>1, AgedAges
<1>3. r \in Ages /\ l \in Nat /\ \A i \in 1 .. l : s[i] \in Nat
  <2>1. r \in Ages /\ l \in Nat /\ \A i \in 1 .. l : s[i] \in 0 .. Window
    BY <1>1, AgedAges, AgesOf
  <2>. QED
    BY <2>1
<1>4. /\ MaxFailures \in Nat /\ MaxFailures >= 2 /\ MaxActive \in Nat /\ MaxActive >= 1
      /\ Ban \in Nat /\ Window \in Nat /\ Window < Ban
  BY TrackerAssumption, ConnectionsAssumption
<1>5. c \in 0 .. Ban /\ c <= b + 1 /\ (b < Ban => c = b + 1)
  BY <1>4 DEF AtMost, LongAgo
<1>6. /\ f \in FailureState /\ (~Open(e) => ~Open(f))
      /\ Open(f) => Open(e) /\ e.age < Window /\ f.age = e.age + 1 /\ f.failures = e.failures
      /\ Open(e) /\ ~Open(f) => e.age = Window
      /\ f.ban = IF e.ban > 0 THEN e.ban - 1 ELSE 0
  BY Ticks
<1>7. e.failures \in 0 .. MaxFailures /\ e.age \in Nat /\ e.ban \in 0 .. Ban
  BY <1>4 DEF FailureState
<1>. HIDE DEF f, r, c, l
<1>. d \in Nat /\ l \in Nat /\ Len(r) \in Nat /\ Len(r) = l - d
  BY <1>2, <1>3
<1>8. \A i \in 1 .. Len(r) : d + i \in 1 .. l /\ r[i] = s[d + i] + 1 /\ s[d + i] \in Nat
  BY <1>2, <1>3
\* The failures before a position are no younger than x, so all of them are
\* dropped if that is Window.
<1>9. ASSUME NEW n \in 0 .. l, NEW x \in Nat, \A i \in 1 .. n : s[i] >= x
      PROVE  /\ \A i \in 1 .. Len(r) : d + i <= n => r[i] >= x + 1
             /\ x >= Window => d >= n
  <2>1. ASSUME NEW i \in 1 .. Len(r), d + i <= n PROVE r[i] >= x + 1
    <3>1. d + i \in 1 .. n
      BY <2>1
    <3>. QED
      BY <1>8, <1>9, <3>1
  <2>2. ASSUME x >= Window, d < n PROVE FALSE
    <3>1. 1 \in 1 .. l - d /\ d + 1 \in 1 .. n /\ d + 1 \in 1 .. l
      BY <2>2
    <3>2. s[d + 1] < Window /\ s[d + 1] >= x /\ s[d + 1] \in Nat
      BY <1>2, <1>3, <1>9, <3>1
    <3>. QED
      BY <1>4, <2>2, <3>2
  <2>. QED
    BY <2>1, <2>2
<1>10. CASE ~Open(e) /\ e.ban = 0
  BY <1>2, <1>3, <1>4, <1>6, <1>10 DEF Limited, l
<1>11. CASE ~Open(e) /\ e.ban > 0
  <2>1. l + k <= MaxFailures - 2 + MaxActive /\ e.ban = Ban - b
    BY <1>11 DEF Limited, l
  <2>2. PICK m \in 0 .. l : m + k <= MaxActive - 1 /\ \A i \in 1 .. l - m : s[i] >= b
    BY <1>11 DEF Limited, l
  <2>3. c = b + 1 /\ f.ban = Ban - c
    BY <1>4, <1>5, <1>6, <1>7, <1>11, <2>1
  <2>4. l - m \in 0 .. l /\ b \in Nat
    BY <1>4
  <2>5. /\ \A i \in 1 .. Len(r) : d + i <= l - m => r[i] >= c
        /\ b >= Window => d >= l - m
    BY <1>9, <2>2, <2>3, <2>4
  <2>6. CASE f.ban = 0
    <3>1. Len(r) <= MaxActive - 1
      BY <1>4, <2>2, <2>3, <2>5, <2>6
    <3>. QED
      BY <1>3, <1>6, <1>11, <2>6, <3>1 DEF Limited
  <2>7. CASE f.ban > 0
    <3>1. PICK n \in 0 .. Len(r) : n + k <= MaxActive - 1 /\ \A i \in 1 .. Len(r) - n : r[i] >= c
      <4>1. CASE m <= Len(r)
        <5>1. \A i \in 1 .. Len(r) - m : i \in 1 .. Len(r) /\ d + i <= l - m
          BY <4>1
        <5>2. m \in 0 .. Len(r)
          BY <4>1
        <5>. QED
          BY <2>2, <2>5, <5>1, <5>2
      <4>2. CASE m > Len(r)
        <5>1. Len(r) + k <= MaxActive - 1 /\ 1 .. Len(r) - Len(r) = {} /\ Len(r) \in 0 .. Len(r)
          BY <1>4, <2>2, <4>2
        <5>. QED
          BY <5>1
      <4>. QED
        BY <4>1, <4>2
    <3>2. Len(r) + k <= MaxFailures - 2 + MaxActive
      BY <1>4, <2>1
    <3>3. f.ban # 0 /\ ~Open(f)
      BY <1>4, <1>5, <1>6, <1>11, <2>3, <2>7
    <3>. QED
      BY <1>3, <2>3, <3>1, <3>2, <3>3 DEF Limited
  <2>. QED
    BY <1>4, <1>5, <2>3, <2>6, <2>7
<1>12. CASE Open(e)
  <2>1. PICK n \in 0 .. l : Counted(e, s, b, k, n)
    BY <1>12 DEF Limited, l
  <2>2. /\ \A i \in 1 .. Len(r) : d + i <= n => r[i] >= e.age + 1
        /\ e.age >= Window => d >= n
    BY <1>7, <1>9, <2>1 DEF Counted
  <2>3. ASSUME e.failures = MaxFailures
        PROVE  /\ c = b + 1 /\ f.ban = Ban - c /\ b <= e.age
               /\ Len(r) + k <= l + k - d /\ l - n + k <= MaxFailures - 2 + MaxActive
               /\ k <= MaxActive - 1
               /\ \A i \in 1 .. Len(r) : r[i] >= c
               /\ b >= Window => Len(r) = 0
    <3>1. /\ l - n + k <= MaxFailures - 2 + MaxActive /\ k <= MaxActive - 1
          /\ \A i \in 1 .. l : s[i] >= b
          /\ e.ban = Ban - b /\ b <= e.age
      BY <2>1, <2>3 DEF Counted, l
    <3>2. e.age <= Window
      BY <1>12 DEF Open
    <3>3. c = b + 1 /\ f.ban = Ban - c
      BY <1>4, <1>5, <1>6, <1>7, <3>1, <3>2
    <3>4. b \in Nat /\ l \in 0 .. l /\ \A i \in 1 .. Len(r) : d + i <= l
      BY <1>4, <1>8
    <3>5. /\ \A i \in 1 .. Len(r) : r[i] >= b + 1
          /\ b >= Window => d >= l
      BY <1>9, <3>1, <3>4
    <3>. QED
      BY <3>1, <3>3, <3>5
  <2>4. ASSUME e.failures < MaxFailures PROVE l - n <= e.failures - 1 /\ e.ban = 0 /\ f.ban = 0
    BY <1>6, <2>1, <2>4 DEF Counted, l
  <2>5. CASE Open(f)
    <3>1. f.age = e.age + 1 /\ f.failures = e.failures
      BY <1>6, <2>5
    <3>2. PICK m \in 0 .. Len(r) : m <= n /\ Len(r) - m <= l - n /\ (m > 0 => d + m <= n)
      <4>1. CASE d <= n
        <5>1. n - d \in 0 .. Len(r) /\ n - d <= n /\ Len(r) - (n - d) <= l - n /\ d + (n - d) <= n
          BY <4>1
        <5>. QED
          BY <5>1
      <4>2. CASE d > n
        <5>1. 0 \in 0 .. Len(r) /\ 0 <= n /\ Len(r) - 0 <= l - n
          BY <4>2
        <5>. QED
          BY <5>1
      <4>. QED
        BY <4>1, <4>2
    <3>3. \A i \in 1 .. m : r[i] >= f.age
      <4>. SUFFICES ASSUME NEW i \in 1 .. m PROVE r[i] >= e.age + 1
        BY <3>1
      <4>1. i \in 1 .. Len(r) /\ d + i <= n
        BY <3>2
      <4>. QED
        BY <2>2, <4>1
    <3>4. m <= MaxFailures - 2 + MaxActive
      BY <1>4, <2>1, <3>2 DEF Counted
    <3>5. CASE e.failures < MaxFailures
      <4>1. Counted(f, r, c, k, m)
        BY <1>4, <1>7, <2>4, <3>1, <3>2, <3>3, <3>4, <3>5 DEF Counted
      <4>. QED
        BY <1>3, <2>5, <4>1 DEF Limited
    <3>6. CASE e.failures = MaxFailures
      <4>1. Len(r) - m + k <= MaxFailures - 2 + MaxActive /\ c <= f.age
        BY <1>4, <1>7, <2>3, <3>1, <3>2, <3>6
      <4>2. Counted(f, r, c, k, m)
        BY <1>4, <1>7, <2>3, <3>1, <3>3, <3>4, <3>6, <4>1 DEF Counted
      <4>. QED
        BY <1>3, <2>5, <4>2 DEF Limited
    <3>. QED
      BY <1>4, <1>7, <3>5, <3>6
  <2>6. CASE ~Open(f)
    <3>1. e.age = Window /\ d >= n /\ Len(r) <= l - n
      BY <1>4, <1>6, <1>12, <2>2, <2>6
    <3>2. CASE e.failures < MaxFailures
      <4>1. Len(r) <= MaxFailures - 2 /\ f.ban = 0
        BY <1>4, <1>7, <2>4, <3>1, <3>2
      <4>. QED
        BY <1>3, <2>6, <4>1 DEF Limited
    <3>3. CASE e.failures = MaxFailures
      <4>1. Len(r) + k <= MaxFailures - 2 + MaxActive
        BY <1>4, <2>3, <3>1, <3>3
      <4>2. 0 \in 0 .. Len(r) /\ 0 + k <= MaxActive - 1 /\ \A i \in 1 .. Len(r) - 0 : r[i] >= c
        BY <2>3, <3>3
      <4>3. f.ban = 0 => Len(r) <= MaxActive - 1
        BY <1>4, <2>3, <3>3
      <4>. QED
        BY <1>3, <2>3, <2>6, <3>3, <4>1, <4>2, <4>3 DEF Limited
    <3>. QED
      BY <1>4, <1>7, <3>2, <3>3
  <2>. QED
    BY <2>5, <2>6
<1>. QED
  BY <1>7, <1>10, <1>11, <1>12

\* The threads in a setup of a peer.
InFlight(p) == {c \in Conn : from[c] = p /\ pc[c] \in {"setup", "setupFailed"}}

LimitInv ==
    /\ DOMAIN failedSetups = Peer
    /\ \A p \in Peer : Limited(peers[p], failedSetups[p], sinceBan[p], Cardinality(InFlight(p)))

\* They are among the threads the limit counts, and a thread doing something
\* else leaves one less for them.
LEMMA FlightCard ==
    ASSUME Inv
    PROVE  \A p : /\ IsFiniteSet(InFlight(p)) /\ Cardinality(InFlight(p)) \in Nat
                  /\ Cardinality(InFlight(p)) <= MaxActive
                  /\ \A c \in Live \ InFlight(p) : Cardinality(InFlight(p)) <= MaxActive - 1
<1>. SUFFICES ASSUME NEW p
              PROVE  /\ IsFiniteSet(InFlight(p)) /\ Cardinality(InFlight(p)) \in Nat
                     /\ Cardinality(InFlight(p)) <= MaxActive
                     /\ \A c \in Live \ InFlight(p) : Cardinality(InFlight(p)) <= MaxActive - 1
  OBVIOUS
<1>1. InFlight(p) \subseteq Live
  BY DEF InFlight, Live
<1>2. IsFiniteSet(Live) /\ Cardinality(Live) \in Nat /\ Cardinality(Live) <= MaxActive /\ MaxActive \in Nat
  BY LiveFinite, ConnectionsAssumption DEF Inv, ActiveBounded
<1>3. /\ IsFiniteSet(InFlight(p)) /\ Cardinality(InFlight(p)) \in Nat
      /\ Cardinality(InFlight(p)) <= Cardinality(Live)
  BY <1>1, <1>2, FS_Subset, FS_CardinalityType
<1>4. ASSUME NEW c \in Live \ InFlight(p) PROVE Cardinality(InFlight(p)) <= MaxActive - 1
  <2>1. Cardinality(Live) = Cardinality(InFlight(p)) => InFlight(p) = Live
    BY <1>1, <1>2, FS_Subset
  <2>. QED
    BY <1>2, <1>3, <1>4, <2>1
<1>. QED
  BY <1>2, <1>3, <1>4

\* What does not touch the tracker starts no setup.
LEMMA FlightShrinks ==
    ASSUME Inv, TrackInv, LimitInv, UNCHANGED <<peers, failedSetups, sinceBan>>,
           \A p \in Peer : InFlight(p)' \subseteq InFlight(p)
    PROVE  LimitInv'
<1>. SUFFICES ASSUME NEW p \in Peer
              PROVE  Limited(peers[p], failedSetups[p], sinceBan[p], Cardinality(InFlight(p)'))
  BY DEF LimitInv
<1>1. IsFiniteSet(InFlight(p)) /\ Cardinality(InFlight(p)) \in Nat
  BY FlightCard
<1>2. /\ Cardinality(InFlight(p)') \in Nat
      /\ Cardinality(InFlight(p)') <= Cardinality(InFlight(p))
  <2>1. InFlight(p)' \subseteq InFlight(p)
    OBVIOUS
  <2>. QED
    BY <1>1, <2>1, FS_Subset, FS_CardinalityType
<1>. QED
  BY <1>1, <1>2, LimitedFlight DEF TrackInv, Tracked, LimitInv

\* handle_setup asks is_blocked, and goes on if the peer is not.
LEMMA FlightDispatch ==
    ASSUME Inv, FromInv, TrackInv, LimitInv, NEW c \in Conn, DispatchSetup(c)
    PROVE  LimitInv'
<1>1. /\ peers' = Pruned(peers) /\ UNCHANGED <<failedSetups, sinceBan, from>>
      /\ pc[c] = "read"
      /\ pc' = [pc EXCEPT ![c] = IF peers'[from[c]].ban > 0 THEN "failed" ELSE "setup"]
  BY DEF DispatchSetup, CheckBlocked, GoTo
<1>. SUFFICES ASSUME NEW p \in Peer
              PROVE  Limited(peers'[p], failedSetups[p], sinceBan[p], Cardinality(InFlight(p)'))
  BY <1>1 DEF LimitInv
<1>. DEFINE e == peers[p]
            s == failedSetups[p]
            b == sinceBan[p]
            k == Cardinality(InFlight(p))
            j == Cardinality(InFlight(p)')
<1>2. e \in FailureState /\ b \in 0 .. Ban /\ Limited(e, s, b, k) /\ k \in Nat
  BY FlightCard DEF TrackInv, Tracked, LimitInv
<1>3. peers'[p] = IF e.ban > 0 \/ e.age <= Window THEN e ELSE NoEntry
  BY <1>1 DEF Pruned
<1>4. j \in Nat /\ (j = k \/ peers'[p].ban = 0)
  <2>1. IsFiniteSet(InFlight(p)) /\ IsFiniteSet(InFlight(p) \cup {c})
    BY FlightCard, FS_AddElement
  <2>2. InFlight(p)' \subseteq InFlight(p) \cup {c}
    BY <1>1 DEF InFlight, FromInv
  <2>3. j \in Nat
    BY <2>1, <2>2, FS_Subset, FS_CardinalityType
  <2>4. InFlight(p)' = InFlight(p) \/ (from[c] = p /\ ~(peers'[p].ban > 0))
    BY <1>1 DEF InFlight, FromInv
  <2>5. peers'[p].ban \in 0 .. Ban
    BY <1>2, <1>3, TrackedNothing DEF FailureState
  <2>. QED
    BY <2>3, <2>4, <2>5, TrackerAssumption
<1>. HIDE DEF e, s, b, k, j
<1>5. Limited(peers'[p], s, b, k)
  <2>1. CASE e.ban > 0 \/ e.age <= Window
    BY <1>2, <1>3, <2>1
  <2>2. CASE ~(e.ban > 0) /\ ~(e.age <= Window)
    <3>1. ~Open(e) /\ e.ban = 0 /\ ~Open(NoEntry) /\ NoEntry.ban = 0
      BY <1>2, <2>2, TrackerAssumption DEF Open, NoEntry, FailureState
    <3>2. s \in Ages /\ (Len(s) <= MaxFailures - 2 \/ Len(s) <= MaxActive - 1)
      BY <1>2, <3>1 DEF Limited
    <3>3. ~(NoEntry.ban > 0)
      BY <3>1
    <3>. QED
      BY <1>3, <2>2, <3>1, <3>2, <3>3 DEF Limited
  <2>. QED
    BY <2>1, <2>2
<1>6. peers'[p] \in FailureState
  BY <1>2, <1>3, TrackedNothing
<1>. QED
  BY <1>2, <1>4, <1>5, <1>6, LimitedFlight DEF s, b, j

\* A request has failed.
LEMMA FlightFails ==
    ASSUME Inv, FromInv, TrackInv, LimitInv, NEW c \in Conn, Failed(c)
    PROVE  LimitInv'
<1>0. PICK p \in Peer : p = from[c]
  BY DEF Failed, FromInv
<1>. DEFINE f == AfterFailure(peers[p])
            k == Cardinality(InFlight(p))
            j == Cardinality(InFlight(p)')
            r == IF pc[c] = "setupFailed" THEN Append(failedSetups[p], 0) ELSE failedSetups[p]
            b == IF f.failures >= MaxFailures THEN 0 ELSE sinceBan[p]
<1>1. /\ pc[c] \in {"failed", "setupFailed"}
      /\ peers' = [peers EXCEPT ![p] = f] /\ sinceBan' = [sinceBan EXCEPT ![p] = b]
      /\ DOMAIN failedSetups' = Peer /\ failedSetups'[p] = r
      /\ \A q \in Peer : q # p => failedSetups'[q] = failedSetups[q]
      /\ pc' = [pc EXCEPT ![c] = "drop"] /\ from' = from
  <2>1. peers' = [peers EXCEPT ![p] = f] /\ sinceBan' = [sinceBan EXCEPT ![p] = b]
    BY <1>0 DEF Failed, NoteFailure, TrackInv
  <2>2. /\ DOMAIN failedSetups' = Peer /\ failedSetups'[p] = r
        /\ \A q \in Peer : q # p => failedSetups'[q] = failedSetups[q]
    BY <1>0 DEF Failed, LimitInv
  <2>. QED
    BY <1>0, <2>1, <2>2 DEF Failed, GoTo
<1>2. /\ peers[p] \in FailureState /\ sinceBan[p] \in 0 .. Ban
      /\ Limited(peers[p], failedSetups[p], sinceBan[p], k)
      /\ k \in Nat /\ k <= MaxActive /\ failedSetups[p] \in Ages
  BY FlightCard DEF TrackInv, Tracked, LimitInv, Limited
<1>3. /\ r \in Ages /\ j \in Nat /\ j <= MaxActive - 1
      /\ Len(r) = Len(failedSetups[p]) \/ Len(r) = Len(failedSetups[p]) + 1
      /\ Len(r) + j = Len(failedSetups[p]) + k
      /\ \A i \in 1 .. Len(failedSetups[p]) : r[i] = failedSetups[p][i]
  <2>1. Len(failedSetups[p]) \in Nat /\ MaxActive \in Nat
    BY <1>2, AgesOf, ConnectionsAssumption
  <2>2. CASE pc[c] = "setupFailed"
    <3>1. c \in InFlight(p) /\ InFlight(p)' = InFlight(p) \ {c}
      BY <1>0, <1>1, <2>2 DEF InFlight, FromInv
    <3>2. j = k - 1 /\ j \in Nat
      <4>1. IsFiniteSet(InFlight(p)) /\ IsFiniteSet(InFlight(p) \ {c})
        BY FlightCard, FS_RemoveElement
      <4>. QED
        BY <3>1, <4>1, FS_RemoveElement, FS_CardinalityType
    <3>. QED
      BY <1>2, <2>1, <2>2, <3>2, AppendedAges
  <2>3. CASE pc[c] = "failed"
    <3>1. c \in Live \ InFlight(p) /\ InFlight(p)' = InFlight(p)
      BY <1>0, <1>1, <2>3 DEF InFlight, Live, FromInv
    <3>2. j = k /\ j <= MaxActive - 1
      BY <3>1, FlightCard
    <3>. QED
      BY <1>2, <2>1, <2>3, <3>2
  <2>. QED
    BY <1>1, <2>2, <2>3
<1>4. Limited(f, r, b, j)
  <2>. HIDE DEF j, k, r
  <2>. QED
    BY <1>2, <1>3, LimitedFails
<1>5. ASSUME NEW q \in Peer
      PROVE  Limited(peers'[q], failedSetups'[q], sinceBan'[q], Cardinality(InFlight(q)'))
  <2>1. CASE q = p
    <3>1. peers'[p] = f /\ failedSetups'[p] = r /\ sinceBan'[p] = b
      <4>. HIDE DEF f, r, b
      <4>. QED
        BY <1>1 DEF TrackInv, LimitInv
    <3>. QED
      BY <1>4, <2>1, <3>1
  <2>2. CASE q # p
    <3>1. InFlight(q)' = InFlight(q)
      BY <1>0, <1>1, <2>2 DEF InFlight, FromInv
    <3>2. peers'[q] = peers[q] /\ failedSetups'[q] = failedSetups[q] /\ sinceBan'[q] = sinceBan[q]
      <4>. HIDE DEF f, r, b
      <4>. QED
        BY <1>1, <2>2 DEF TrackInv, LimitInv
    <3>. QED
      BY <3>1, <3>2 DEF LimitInv
  <2>. QED
    BY <2>1, <2>2
<1>. QED
  BY <1>1, <1>5 DEF LimitInv

\* A request has succeeded: the peer's failures are forgotten.
LEMMA LimitedNothing == ASSUME NEW k PROVE Limited(NoEntry, << >>, LongAgo, k)
<1>1. ~Open(NoEntry) /\ NoEntry.ban = 0 /\ ~(NoEntry.ban > 0)
  BY DEF NoEntry, Open
<1>2. << >> \in Ages
  BY DEF Ages, Sorted
<1>. QED
  BY <1>1, <1>2, TrackerAssumption DEF Limited

\* A session that succeeds clears the entry and the failures of its peer.
LEMMA FlightSucceeds ==
    ASSUME Inv, FromInv, TrackInv, LimitInv, NEW c \in Conn, Succeeded(c)
    PROVE  LimitInv'
<1>1. /\ from[c] \in Peer /\ pc[c] = "succeeded"
      /\ peers' = [peers EXCEPT ![from[c]] = NoEntry]
      /\ sinceBan' = [sinceBan EXCEPT ![from[c]] = LongAgo]
      /\ failedSetups' = [failedSetups EXCEPT ![from[c]] = << >>]
      /\ pc' = [pc EXCEPT ![c] = "drop"] /\ from' = from
  BY DEF Succeeded, NoteSuccess, GoTo, FromInv
<1>2. ASSUME NEW q \in Peer
      PROVE  Limited(peers'[q], failedSetups'[q], sinceBan'[q], Cardinality(InFlight(q)'))
  <2>1. CASE q = from[c]
    BY <1>1, <2>1, LimitedNothing DEF TrackInv, LimitInv
  <2>2. CASE q # from[c]
    <3>1. InFlight(q)' = InFlight(q)
      BY <1>1 DEF InFlight, FromInv
    <3>. QED
      BY <1>1, <2>2, <3>1 DEF TrackInv, LimitInv
  <2>. QED
    BY <2>1, <2>2
<1>. QED
  BY <1>1, <1>2 DEF LimitInv

\* Every step keeps the failed setups of a peer within what its entry admits.
LEMMA FlightStep ==
    Inv /\ FromInv /\ TrackInv /\ LimitInv /\ [Next]_vars => LimitInv'
<1>. SUFFICES ASSUME Inv, FromInv, TrackInv, LimitInv, [Next]_vars PROVE LimitInv'
  OBVIOUS
<1>. USE DEF mainVars, connVars, trackerVars, GoTo
<1>1. ASSUME NEW p \in Peer, Accept(p) PROVE LimitInv'
  BY <1>1, FlightShrinks DEF Accept, InFlight
<1>2. CASE AcceptFails
  <2>1. \A p \in Peer : InFlight(p)' \subseteq InFlight(p)
    BY <1>2 DEF AcceptFails, InFlight
  <2>. QED
    BY <1>2, <2>1, FlightShrinks DEF AcceptFails
<1>3. CASE LoadFull \/ LoadBelow \/ SwapFails
  BY <1>3, FlightShrinks DEF LoadFull, LoadBelow, SwapFails, InFlight
<1>4. ASSUME NEW c \in Conn, Swap(c) PROVE LimitInv'
  <2>1. \A p \in Peer : InFlight(p)' \subseteq InFlight(p)
    BY <1>4 DEF Swap, InFlight, FromInv
  <2>. QED
    BY <1>4, <2>1, FlightShrinks DEF Swap
<1>5. ASSUME NEW c \in Conn, \/ ReadFails(c) \/ DispatchAuth(c) \/ DispatchUnknown(c)
                             \/ SetupReturns(c) \/ AuthReturns(c) \/ Drop(c)
      PROVE  LimitInv'
  <2>1. \A p \in Peer : InFlight(p)' \subseteq InFlight(p)
    BY <1>5
    DEF ReadFails, DispatchAuth, DispatchUnknown, SetupReturns, AuthReturns, Drop, InFlight, FromInv
  <2>2. UNCHANGED <<peers, failedSetups, sinceBan>>
    BY <1>5 DEF ReadFails, DispatchAuth, DispatchUnknown, SetupReturns, AuthReturns, Drop
  <2>. QED
    BY <2>1, <2>2, FlightShrinks
<1>6. ASSUME NEW c \in Conn, DispatchSetup(c) \/ Failed(c) \/ Succeeded(c) PROVE LimitInv'
  BY <1>6, FlightDispatch, FlightFails, FlightSucceeds
<1>7. CASE TimePasses
  <2>1. /\ peers' = [p \in Peer |-> Older(peers[p])]
        /\ sinceBan' = [p \in Peer |-> AtMost(sinceBan[p] + 1, LongAgo)]
        /\ failedSetups' = [p \in Peer |-> Aged(failedSetups[p])]
        /\ UNCHANGED <<pc, from>>
    BY <1>7 DEF TimePasses, Tick
  <2>2. ASSUME NEW p \in Peer
        PROVE  Limited(peers'[p], failedSetups'[p], sinceBan'[p], Cardinality(InFlight(p)'))
    <3>1. InFlight(p)' = InFlight(p)
      BY <2>1 DEF InFlight
    <3>2. Limited(Older(peers[p]), Aged(failedSetups[p]), AtMost(sinceBan[p] + 1, LongAgo),
                  Cardinality(InFlight(p)))
      BY LimitedTicks, FlightCard DEF LimitInv, TrackInv, Tracked
    <3>. QED
      BY <2>1, <3>1, <3>2
  <2>. QED
    BY <2>1, <2>2 DEF LimitInv
<1>8. CASE UNCHANGED vars
  BY <1>8, FlightShrinks DEF vars, InFlight
<1>. QED
  BY <1>1, <1>2, <1>3, <1>4, <1>5, <1>6, <1>7, <1>8 DEF Next, TryAcquire, Handle

\* The failing setups of a peer that is_blocked lets through within
\* FAILURE_WINDOW are at most what two windows tolerate and what was in flight
\* when each of them reached its limit.
THEOREM SetupsAreLimited == Spec => []FailedSetupsBounded
<1>1. Init => LimitInv
  BY LimitedNothing DEF Init, TrackerInit, LimitInv
<1>2. TrackInv /\ LimitInv /\ Inv => FailedSetupsBounded
  <2>. SUFFICES ASSUME TrackInv, LimitInv, Inv, NEW p \in Peer
                PROVE  Len(failedSetups[p]) <= 2 * (MaxFailures - 1) + 2 * (MaxActive - 1)
    BY DEF FailedSetupsBounded
  <2>. DEFINE e == peers[p]
              s == failedSetups[p]
              b == sinceBan[p]
              k == Cardinality(InFlight(p))
  <2>1. e \in FailureState /\ Limited(e, s, b, k) /\ k \in Nat
    BY FlightCard DEF TrackInv, Tracked, LimitInv
  <2>2. /\ MaxFailures \in Nat /\ MaxFailures >= 2 /\ MaxActive \in Nat /\ MaxActive >= 1 /\ Ban \in Nat
        /\ Len(s) \in Nat
    BY <2>1, TrackerAssumption, ConnectionsAssumption, AgesOf DEF Limited
  <2>3. e.failures \in 0 .. MaxFailures /\ e.ban \in 0 .. Ban
    BY <2>1 DEF FailureState
  <2>. HIDE DEF e, s, b, k
  <2>4. CASE Open(e)
    <3>1. PICK n \in 0 .. Len(s) : Counted(e, s, b, k, n)
      BY <2>1, <2>4 DEF Limited
    <3>2. n <= MaxFailures - 2 + MaxActive
      BY <3>1 DEF Counted
    <3>3. Len(s) - n <= MaxFailures - 2 + MaxActive
      <4>1. CASE e.failures < MaxFailures
        BY <2>2, <2>3, <3>1, <4>1 DEF Counted
      <4>2. CASE e.failures = MaxFailures
        BY <2>1, <2>2, <3>1, <4>2 DEF Counted
      <4>. QED
        BY <2>2, <2>3, <4>1, <4>2
    <3>. QED
      BY <2>2, <3>2, <3>3 DEF s
  <2>5. CASE ~Open(e)
    <3>1. Len(s) <= MaxFailures - 2 \/ Len(s) <= MaxActive - 1 \/ Len(s) + k <= MaxFailures - 2 + MaxActive
      BY <2>1, <2>2, <2>3, <2>5 DEF Limited
    <3>. QED
      BY <2>1, <2>2, <3>1 DEF s
  <2>. QED
    BY <2>4, <2>5
<1>. QED
  BY <1>1, <1>2, FlightStep, ConnectionsInvariant, TrackerRuns, TrackedAlways, PTL DEF Spec
=============================================================================

--------------------------- MODULE DriveQuotaProofs ---------------------------
(***************************************************************************)
(* Proofs about DriveQuota: its types, that the counter follows the stored *)
(* objects, that the caps hold, and that a failed put cancels out.         *)
(*                                                                         *)
(* The bytes stored are the number of cells of a set of pairs, so sums     *)
(* over paths need no recursion: a sum over two sets apart is the sum of   *)
(* the sums (WeightOfBoth).  The invariant says what the counter holds on  *)
(* top of what is stored at each step of the handler (Held, Balance).      *)
(***************************************************************************)
EXTENDS DriveQuota, FiniteSetTheorems, TLAPS

-----------------------------------------------------------------------------
(* Sums *)

\* The bytes of the objects at S, for any table z of sizes.
Cells(z, S) == UNION {{k} \X (1..z[k]) : k \in S}

Weight(z, S) == [bytes |-> Cardinality(Cells(z, S)), files |-> Cardinality(S)]

LEMMA SumsAre ==
  ASSUME NEW S
  PROVE  Sums(S) = Weight(size, S)
  BY DEF Sums, Bytes, Weight, Cells

LEMMA CellsFinite ==
  ASSUME NEW S, IsFiniteSet(S), NEW z, \A k \in S : z[k] \in Nat
  PROVE  IsFiniteSet(Cells(z, S))
  <1> DEFINE Column(k) == {k} \X (1..z[k])
             Columns == {Column(k) : k \in S}
             f == [k \in S |-> Column(k)]
  <1>1. \A k \in S : IsFiniteSet(Column(k))
    <2> TAKE k \in S
    <2>1. IsFiniteSet({k})
      BY FS_Singleton
    <2>2. 1 \in Int /\ z[k] \in Int
      OBVIOUS
    <2>3. IsFiniteSet(1..z[k])
      BY <2>2, FS_Interval
    <2> QED BY <2>1, <2>3, FS_Product
  <1>2. f \in Surjection(S, Columns)
    BY DEF Surjection
  <1>3. IsFiniteSet(Columns)
    <2> HIDE DEF f, Columns
    <2> QED BY <1>2, FS_Surjection
  <1>4. IsFiniteSet(UNION Columns)
    <2>1. \A T \in Columns : IsFiniteSet(T)
      BY <1>1
    <2> HIDE DEF Columns
    <2> QED BY <1>3, <2>1, FS_UNION
  <1> QED BY <1>4 DEF Cells

LEMMA WeightTyped ==
  ASSUME NEW S, IsFiniteSet(S), NEW z, \A k \in S : z[k] \in Nat
  PROVE  Weight(z, S) \in [bytes : Nat, files : Nat]
  BY CellsFinite, FS_CardinalityType DEF Weight

LEMMA WeightOfOne ==
  ASSUME NEW k, NEW z, z[k] \in Nat
  PROVE  Weight(z, {k}) = [bytes |-> z[k], files |-> 1]
  <1>1. Cells(z, {k}) = {k} \X (1..z[k])
    BY DEF Cells
  <1>2. IsFiniteSet({k}) /\ Cardinality({k}) = 1
    BY FS_Singleton
  <1>3. IsFiniteSet(1..z[k]) /\ Cardinality(1..z[k]) = z[k]
    <2>1. 1 \in Int /\ z[k] \in Int
      OBVIOUS
    <2>2. /\ IsFiniteSet(1..z[k])
          /\ Cardinality(1..z[k]) = IF 1 > z[k] THEN 0 ELSE z[k] - 1 + 1
      BY <2>1, FS_Interval
    <2>3. (IF 1 > z[k] THEN 0 ELSE z[k] - 1 + 1) = z[k]
      OBVIOUS
    <2> QED BY <2>2, <2>3
  <1>4. Cardinality({k} \X (1..z[k])) = Cardinality({k}) * Cardinality(1..z[k])
    BY <1>2, <1>3, FS_Product
  <1>5. Cardinality(Cells(z, {k})) = z[k]
    <2>1. Cardinality({k} \X (1..z[k])) = 1 * z[k]
      BY <1>2, <1>3, <1>4, Zenon
    <2>2. \A n \in Nat : 1 * n = n
      OBVIOUS
    <2> QED BY <1>1, <2>1, <2>2, Zenon
  <1> QED BY <1>2, <1>5 DEF Weight

LEMMA WeightOfBoth ==
  ASSUME NEW S, IsFiniteSet(S), NEW T, IsFiniteSet(T), S \cap T = {},
         NEW z, \A k \in S \cup T : z[k] \in Nat
  PROVE  Weight(z, S \cup T) = Plus(Weight(z, S), Weight(z, T))
  <1>1. Cells(z, S \cup T) = Cells(z, S) \cup Cells(z, T)
    BY DEF Cells
  <1>2. Cells(z, S) \cap Cells(z, T) = {}
    BY DEF Cells
  <1>3. IsFiniteSet(Cells(z, S)) /\ IsFiniteSet(Cells(z, T))
    BY CellsFinite
  <1>4. ASSUME NEW U, IsFiniteSet(U), NEW V, IsFiniteSet(V), U \cap V = {}
        PROVE  Cardinality(U \cup V) = Cardinality(U) + Cardinality(V)
    <2>1. Cardinality(U \cup V) = Cardinality(U) + Cardinality(V) - Cardinality(U \cap V)
      BY <1>4, FS_Union
    <2>2. Cardinality(U \cap V) = 0
      BY <1>4, FS_EmptySet
    <2>3. Cardinality(U) \in Nat /\ Cardinality(V) \in Nat
      BY <1>4, FS_CardinalityType
    <2> QED BY <2>1, <2>2, <2>3
  <1>5. Cardinality(Cells(z, S \cup T)) = Cardinality(Cells(z, S)) + Cardinality(Cells(z, T))
    BY <1>1, <1>2, <1>3, <1>4
  <1>6. Cardinality(S \cup T) = Cardinality(S) + Cardinality(T)
    BY <1>4
  <1> QED BY <1>5, <1>6 DEF Weight, Plus

LEMMA WeightSame ==
  ASSUME NEW S, NEW y, NEW z, \A k \in S : y[k] = z[k]
  PROVE  Weight(y, S) = Weight(z, S)
  <1>1. Cells(y, S) = Cells(z, S)
    BY DEF Cells
  <1> QED BY <1>1 DEF Weight

LEMMA WeightOfNone ==
  ASSUME NEW z
  PROVE  Weight(z, {}) = None
  <1>1. Cells(z, {}) = {}
    BY DEF Cells
  <1> QED BY <1>1, FS_EmptySet DEF Weight, None

LEMMA MaxZero ==
  ASSUME NEW n \in Int
  PROVE  Max({0, n}) = IF n >= 0 THEN n ELSE 0
  BY DEF Max

-----------------------------------------------------------------------------
(* The bucket *)

Sum == [bytes : Nat, files : Nat]

BucketOK == objects \in [Paths -> Kinds] /\ size \in [Paths -> Sizes \cup {0}]

Present == {p \in Paths : objects[p] # "absent"}

\* What is not there takes no room.
Zero == \A p \in Paths : objects[p] = "absent" => size[p] = 0

LEMMA Bounds ==
  /\ \A n \in Sizes \cup {0} : n \in Nat
  /\ MaxBytes \in Nat /\ MaxFiles \in Nat /\ MaxUnits \in Nat
  /\ Destinations \subseteq Paths /\ IsFiniteSet(Paths) /\ Root \in Paths
  BY BoundsAssumption, PathsAssumption

LEMMA Sized ==
  ASSUME BucketOK, NEW S \in SUBSET Paths
  PROVE  IsFiniteSet(S) /\ \A k \in S : size[k] \in Nat
  <1>1. IsFiniteSet(S)
    BY Bounds, FS_Subset
  <1>2. \A k \in S : size[k] \in Sizes \cup {0}
    BY DEF BucketOK
  <1> QED BY <1>1, <1>2, Bounds

LEMMA SumsTyped ==
  ASSUME BucketOK, NEW S \in SUBSET Paths
  PROVE  Sums(S) \in Sum
  BY Sized, SumsAre, WeightTyped DEF Sum

LEMMA StoredIs == Stored = Sums(Present)
  BY DEF Stored, Present

LEMMA SumsSplit ==
  ASSUME BucketOK, NEW S \in SUBSET Paths, NEW T \in SUBSET S
  PROVE  Sums(S) = Plus(Sums(S \ T), Sums(T))
  <1>1. S = (S \ T) \cup T /\ (S \ T) \cap T = {}
    OBVIOUS
  <1>2. IsFiniteSet(S \ T) /\ IsFiniteSet(T) /\ \A k \in (S \ T) \cup T : size[k] \in Nat
    BY Sized
  <1>3. Weight(size, (S \ T) \cup T) = Plus(Weight(size, S \ T), Weight(size, T))
    BY <1>1, <1>2, WeightOfBoth
  <1> QED BY <1>1, <1>3, SumsAre

LEMMA SumOfOne ==
  ASSUME BucketOK, NEW p \in Paths
  PROVE  Sums({p}) = [bytes |-> size[p], files |-> 1]
  <1>1. size[p] \in Nat
    BY Sized
  <1> QED BY <1>1, SumsAre, WeightOfOne

LEMMA StoredTyped ==
  ASSUME BucketOK
  PROVE  Stored \in Sum
  BY StoredIs, SumsTyped DEF Present

LEMMA StoredTypedNext ==
  ASSUME BucketOK'
  PROVE  Stored' \in Sum
  <1>1. Stored' = Weight(size', Present')
    BY DEF Stored, Present, Sums, Bytes, Weight, Cells
  <1>2. Present' \subseteq Paths /\ IsFiniteSet(Present')
    <2>1. Present' \subseteq Paths
      BY DEF Present
    <2> QED BY <2>1, Bounds, FS_Subset
  <1>3. \A k \in Present' : size'[k] \in Nat
    <2>1. \A k \in Paths : size'[k] \in Sizes \cup {0}
      BY DEF BucketOK
    <2> QED BY <1>2, <2>1, Bounds
  <1> QED BY <1>1, <1>2, <1>3, WeightTyped DEF Sum

\* The bucket holds at least what it holds at T.
LEMMA StoredAtLeast ==
  ASSUME BucketOK, NEW T \in SUBSET Present
  PROVE  Stored.bytes >= Sums(T).bytes /\ Stored.files >= Sums(T).files
  <1>1. Present \in SUBSET Paths /\ T \in SUBSET Paths /\ Present \ T \in SUBSET Paths
    BY DEF Present
  <1>2. Sums(T) \in Sum /\ Sums(Present \ T) \in Sum
    BY <1>1, SumsTyped
  <1>3. Stored = Plus(Sums(Present \ T), Sums(T))
    BY <1>1, StoredIs, SumsSplit
  <1> QED BY <1>2, <1>3 DEF Plus, Sum

LEMMA StoredWrote ==
  ASSUME BucketOK, Zero, NEW p \in Paths, NEW b, b.kind \in Kinds \ {"absent"},
         b.bytes \in Sizes \cup {0}, Wrote(p, b)
  PROVE  /\ Stored' = Plus(Stored, [bytes |-> b.bytes - size[p],
                                    files |-> IF objects[p] = "absent" THEN 1 ELSE 0])
         /\ Stored' \in Sum
  <1> DEFINE rest == Present \ {p}
  <1>1. /\ Present \in SUBSET Paths /\ rest \in SUBSET Paths
        /\ Present' = rest \cup {p} /\ rest \cap {p} = {}
    BY DEF Present, Wrote, BucketOK
  <1>2. BucketOK'
    BY DEF BucketOK, Wrote
  <1>3. IsFiniteSet(rest) /\ IsFiniteSet({p}) /\ \A k \in rest \cup {p} : size'[k] \in Nat
    <2>1. \A k \in Paths : size'[k] \in Sizes \cup {0}
      BY <1>2 DEF BucketOK
    <2>2. \A k \in Paths : size'[k] \in Nat
      BY <2>1, Bounds
    <2> QED BY <1>1, <2>2, Sized, FS_Singleton
  <1>4. Stored' = Plus(Weight(size', rest), Weight(size', {p}))
    <2>1. Stored' = Weight(size', Present')
      BY DEF Stored, Present, Sums, Bytes, Weight, Cells
    <2> HIDE DEF rest
    <2> QED BY <1>1, <1>3, <2>1, WeightOfBoth
  <1>5. Weight(size', rest) = Sums(rest) /\ Weight(size', {p}) = [bytes |-> b.bytes, files |-> 1]
    <2>1. \A k \in rest : size'[k] = size[k]
      BY <1>1 DEF Wrote, BucketOK
    <2>2. Weight(size', rest) = Weight(size, rest)
      <3> HIDE DEF rest
      <3> QED BY <2>1, WeightSame
    <2>3. size'[p] = b.bytes /\ size'[p] \in Nat
      BY <1>3 DEF Wrote, BucketOK
    <2>4. Weight(size', {p}) = [bytes |-> size'[p], files |-> 1]
      BY <2>3, WeightOfOne
    <2> QED BY <2>2, <2>3, <2>4, SumsAre
  <1>6. Sums(rest) \in Sum /\ size[p] \in Nat /\ b.bytes \in Nat
    BY <1>1, SumsTyped, Sized, Bounds
  <1>7. CASE objects[p] # "absent"
    <2>1. {p} \in SUBSET Present
      BY <1>7 DEF Present
    <2>2. Stored = Plus(Sums(rest), Sums({p}))
      BY <1>1, <2>1, StoredIs, SumsSplit
    <2>3. Sums({p}) = [bytes |-> size[p], files |-> 1]
      BY SumOfOne
    <2> HIDE DEF rest
    <2> QED BY <1>4, <1>5, <1>6, <1>7, <2>2, <2>3 DEF Plus, Sum
  <1>8. CASE objects[p] = "absent"
    <2>1. rest = Present /\ size[p] = 0
      BY <1>8 DEF Present, Zero
    <2>2. Stored = Sums(rest)
      BY <2>1, StoredIs
    <2> HIDE DEF rest
    <2> QED BY <1>4, <1>5, <1>6, <1>8, <2>1, <2>2 DEF Plus, Sum
  <1> QED BY <1>7, <1>8

LEMMA StoredRemoved ==
  ASSUME BucketOK, NEW keys \in SUBSET Paths, Removed(keys)
  PROVE  /\ Stored' = Plus(Stored, Minus(Sums(keys \cap Present)))
         /\ Stored' \in Sum /\ Sums(keys \cap Present) \in Sum
  <1> DEFINE rest == Present \ (keys \cap Present)
  <1>1. /\ Present \in SUBSET Paths /\ rest \in SUBSET Paths /\ keys \cap Present \in SUBSET Present
        /\ keys \cap Present \in SUBSET Paths /\ Present' = rest
    BY DEF Present, Removed, BucketOK
  <1>2. \A k \in rest : size'[k] = size[k]
    BY DEF Removed, Present
  <1>3. Stored' = Weight(size', Present')
    BY DEF Stored, Present, Sums, Bytes, Weight, Cells
  <1> HIDE DEF rest
  <1>4. Stored' = Sums(rest)
    BY <1>1, <1>2, <1>3, WeightSame, SumsAre
  <1>5. Stored = Plus(Sums(rest), Sums(keys \cap Present))
    BY <1>1, StoredIs, SumsSplit DEF rest
  <1>6. Sums(rest) \in Sum /\ Sums(keys \cap Present) \in Sum
    BY <1>1, SumsTyped
  <1> QED BY <1>4, <1>5, <1>6 DEF Plus, Minus, Sum

-----------------------------------------------------------------------------
(* Paths *)

LEMMA Rooted ==
  ASSUME NEW p \in Paths
  PROVE  IsPrefix(p, p) /\ IsPrefix(Root, p) /\ (IsPrefix(p, Root) => p = Root)
  <1> DEFINE Names == UNION {Range(q) : q \in Paths}
  <1>1. p \in Seq(Names)
    BY PathsAssumption
  <1> HIDE DEF Names
  <1>2. IsPrefix(p, p)
    BY <1>1 DEF IsPrefix
  <1>3. IsPrefix(Root, p)
    BY <1>1 DEF IsPrefix, Root
  <1>4. IsPrefix(p, Root) => p = Root
    BY <1>1 DEF IsPrefix, Root
  <1> QED BY <1>2, <1>3, <1>4

\* Two prefixes of one path lie on one line.
LEMMA OnOneLine ==
  ASSUME NEW a \in Paths, NEW b \in Paths, NEW k \in Paths, IsPrefix(a, k), IsPrefix(b, k)
  PROVE  IsPrefix(a, b) \/ IsPrefix(b, a)
  <1> DEFINE Names == UNION {Range(q) : q \in Paths}
  <1>1. a \in Seq(Names) /\ b \in Seq(Names) /\ k \in Seq(Names)
    BY PathsAssumption
  <1> HIDE DEF Names
  <1>2. /\ Len(a) <= Len(k) /\ SubSeq(a, 1, Len(a)) = SubSeq(k, 1, Len(a))
        /\ Len(b) <= Len(k) /\ SubSeq(b, 1, Len(b)) = SubSeq(k, 1, Len(b))
    BY DEF IsPrefix
  <1>3. a = SubSeq(k, 1, Len(a)) /\ b = SubSeq(k, 1, Len(b))
    BY <1>1, <1>2
  <1>4. CASE Len(a) <= Len(b)
    <2>1. SubSeq(b, 1, Len(a)) = SubSeq(k, 1, Len(a))
      BY <1>1, <1>2, <1>3, <1>4
    <2> QED BY <1>2, <1>4, <2>1 DEF IsPrefix
  <1>5. CASE Len(b) <= Len(a)
    <2>1. SubSeq(a, 1, Len(b)) = SubSeq(k, 1, Len(b))
      BY <1>1, <1>2, <1>3, <1>5
    <2> QED BY <1>2, <1>5, <2>1 DEF IsPrefix
  <1>6. Len(a) \in Nat /\ Len(b) \in Nat
    BY <1>1
  <1> QED BY <1>4, <1>5, <1>6

LEMMA TargetBelow ==
  ASSUME NEW s \in Paths, NEW d \in Paths, NEW k \in Paths
  PROVE  IsPrefix(d, Target(k, s, d)) /\ Target(s, s, Root) = Root
  <1> DEFINE Names == UNION {Range(q) : q \in Paths}
             rest == SubSeq(k, Len(s) + 1, Len(k))
  <1>1. d \in Seq(Names) /\ k \in Seq(Names) /\ s \in Seq(Names)
    BY PathsAssumption
  <1> HIDE DEF Names
  <1>2. rest \in Seq(Names)
    BY <1>1
  <1>3. Target(k, s, d) = d \o rest
    BY Zenon DEF Target
  <1> HIDE DEF rest
  <1>4. /\ Len(d) <= Len(d \o rest)
        /\ SubSeq(d \o rest, 1, Len(d)) = d /\ SubSeq(d, 1, Len(d)) = d
    BY <1>1, <1>2
  <1>5. Target(s, s, Root) = Root
    <2>1. SubSeq(s, Len(s) + 1, Len(s)) = << >>
      BY <1>1
    <2>2. << >> \o << >> = << >>
      OBVIOUS
    <2> QED BY <2>1, <2>2, Zenon DEF Target, Root
  <1> QED BY <1>3, <1>4, <1>5 DEF IsPrefix

-----------------------------------------------------------------------------
(* The inductive invariant *)

Moving == work.method \in {"copy", "move"}

Holding == work.step \in {"reserve", "store", "audit", "undo", "restore", "drop"}

Vector == [bytes : Int, files : Int]

\* The steps each method goes through.
Stepping ==
  /\ work.method = "none" \/ work.step = "idle" => work = Idle
  /\ work.method = "put" =>
       /\ work.step \in {"reserve", "store", "audit", "undo", "restore"}
       /\ work.jobs = {} /\ work.key # Root /\ work.body.kind # "absent"
  /\ work.method = "delete" => work.step \in {"count", "delete"} /\ work.jobs = {}
  /\ work.step = "charge" => work.jobs # {}
  /\ work.step = "drop" => work.method = "move"

\* A transfer stays inside the name space.
TargetsIn ==
  Moving /\ work.destination # Root =>
    \A j \in work.jobs : Target(j, work.source, work.destination) \in Paths

BodiesFit ==
  /\ work.body.kind = "absent" => work.body.bytes = 0
  /\ work.prior.kind = "absent" => work.prior.bytes = 0
  /\ work.step \in {"store", "audit", "undo", "restore"} /\ work.key = Root =>
       work.prior.kind = "absent"

\* What the handler knows of the object it writes.
Priced ==
  /\ work.step \in {"store", "audit", "undo", "restore", "drop"} =>
       work.delta = Delta(work.body, work.prior, Credit(work))
  /\ work.step = "store" => work.prior = Object(work.key)
  /\ work.step \in {"audit", "undo"} =>
       objects[work.key] = work.body.kind /\ size[work.key] = work.body.bytes
  /\ work.step = "restore" =>
       work.prior.kind # "absent" /\ objects[work.key] = "absent" /\ size[work.key] = 0

\* A put can still be undone.
Kept ==
  /\ work.step = "charge" => work.start = Snapshot
  /\ work.method = "put" =>
       LET found == work.start IN
         /\ found.quota \in Counter
         /\ work.step = "reserve" => found = Snapshot
         /\ work.step # "reserve" => quota = Plus(found.quota, Positive(work.delta))
         /\ work.step = "store" => found.objects = objects /\ found.size = size
         /\ work.step \in {"audit", "undo"} =>
              /\ objects = [found.objects EXCEPT ![work.key] = work.body.kind]
              /\ size = [found.size EXCEPT ![work.key] = work.body.bytes]
         /\ work.step = "restore" =>
              /\ objects = [found.objects EXCEPT ![work.key] = "absent"]
              /\ size = [found.size EXCEPT ![work.key] = 0]
         /\ work.step \in {"audit", "undo", "restore"} =>
              work.prior = [kind |-> found.objects[work.key], bytes |-> found.size[work.key]]

\* A transfer reads on one side and writes on the other; onto the drive itself it
\* writes one object, which no source lies beneath.
Apart ==
  Moving =>
    /\ work.source # Root
    /\ ~ IsPrefix(work.source, work.destination)
    /\ work.destination = Root \/ ~ IsPrefix(work.destination, work.source)
    /\ \A j \in work.jobs : IsPrefix(work.source, j) /\ objects[j] # "absent"
    /\ work.step \in {"count", "delete"} =>
         work.destination # Root /\ \A k \in work.keys : IsPrefix(work.destination, k)
    /\ Holding =>
         /\ work.job \notin work.jobs /\ IsPrefix(work.source, work.job)
         /\ IsPrefix(work.destination, work.key)
         /\ work.destination = Root => work.key = Root
         /\ work.body = [kind |-> objects[work.job], bytes |-> size[work.job]]
         /\ work.body.kind # "absent"

Handling == work \in Work /\ Stepping /\ TargetsIn /\ BodiesFit /\ Priced /\ Kept /\ Apart

\* The drive itself is no object, unless one was copied there.
RootFree == flaw = "none" => objects[Root] = "absent"

\* What the handler has written, against what was there.
Change ==
  [bytes |-> work.body.bytes - work.prior.bytes,
   files |-> IF work.prior.kind = "absent" THEN 1 ELSE 0]

\* What the counter holds on top of what is stored while the handler runs.
Held ==
  CASE work.step = "store" -> Positive(work.delta)
    [] work.step \in {"audit", "undo"} -> Plus(Positive(work.delta), Minus(Change))
    [] work.step = "restore" ->
         Plus(Positive(work.delta), [bytes |-> work.prior.bytes, files |-> 1])
    [] work.step = "drop" -> Minus(Credit(work))
    [] work.step = "delete" -> Minus(work.gone)
    [] OTHER -> None

\* An object of the drive itself is overwritten and deleted without being counted
\* as going away: the counter is then too high, and never too low.
Balance ==
  flaw # "uncounted" =>
    /\ quota.bytes >= Stored.bytes + Held.bytes
    /\ quota.files >= Stored.files + Held.files
    /\ flaw = "none" => quota = Plus(Stored, Held)

\* A counted deletion can be taken back.
Returnable ==
  work.step = "delete" => Plus(quota, work.gone) \in Counter /\ work.gone = Counted(work.keys)

Inner == TypeOK /\ Zero /\ Handling /\ Balance /\ Returnable

IInv == Inner /\ RootFree

-----------------------------------------------------------------------------
(* Steps of every kind *)

LEMMA AppliedTyped ==
  ASSUME NEW q \in Counter, NEW d \in Vector
  PROVE  Applied(q, d) \in Counter
  BY DEF Applied, Fits, Plus, Counter, Vector

LEMMA CounterIsSum == Counter \subseteq Sum /\ Sum \subseteq Vector /\ None \in Counter
  BY Bounds DEF Counter, Sum, Vector, None

LEMMA PositiveTyped ==
  ASSUME NEW d \in Vector
  PROVE  /\ Positive(d) = [bytes |-> IF d.bytes >= 0 THEN d.bytes ELSE 0,
                           files |-> IF d.files >= 0 THEN d.files ELSE 0]
         /\ Positive(d) \in Sum /\ Minus(d) \in Vector /\ Minus(Positive(d)) \in Vector
  <1>1. d.bytes \in Int /\ d.files \in Int
    BY DEF Vector
  <1>2. Positive(d) = [bytes |-> IF d.bytes >= 0 THEN d.bytes ELSE 0,
                       files |-> IF d.files >= 0 THEN d.files ELSE 0]
    BY <1>1, MaxZero DEF Positive
  <1> QED BY <1>1, <1>2 DEF Vector, Sum, Minus

Handed ==
  /\ tail' \in Seq(Requests)
  /\ request' \in [Requests -> [phase : {"away", "reading", "queued", "reporting"},
                                before : Counter]]
  /\ outcome' \in {"none", "done", "refused", "no units", "partial", "failed"}
  /\ flaw' \in {"none", "leak", "uncounted"}

LEMMA TailTyped ==
  ASSUME NEW S, NEW s \in Seq(S), s # << >>
  PROVE  Tail(s) \in Seq(S)
  OBVIOUS

LEMMA AnsweredTyped ==
  ASSUME TypeOK, NEW r \in Requests, NEW q \in Counter, Answered(r, q)
  PROVE  request' \in [Requests -> [phase : {"away", "reading", "queued", "reporting"},
                                    before : Counter]]
  BY CounterIsSum DEF TypeOK, Answered

LEMMA Finished ==
  ASSUME TypeOK, NEW r \in Requests, NEW step, Runs(r, step), quota' \in Counter,
         NEW how \in {"none", "done", "refused", "no units", "partial", "failed"},
         Finish(r, how)
  PROVE  Handed /\ work' = Idle /\ flaw' = flaw
  <1>1. tail' \in Seq(Requests)
    <2>1. tail \in Seq(Requests) /\ tail # << >> /\ tail' = Tail(tail)
      BY Zenon DEF TypeOK, Runs, Finish
    <2> QED BY <2>1, TailTyped
  <1>2. Answered(r, quota')
    BY DEF Finish
  <1> QED BY <1>1, <1>2, AnsweredTyped DEF Handed, Finish, TypeOK

LEMMA Thrown ==
  ASSUME TypeOK, NEW r \in Requests, NEW step, Runs(r, step),
         NEW left \in {"none", "leak", "uncounted"}, Throw(r, left)
  PROVE  Handed /\ work' = Idle /\ flaw' = left
  <1>1. tail' \in Seq(Requests)
    <2>1. tail \in Seq(Requests) /\ tail # << >> /\ tail' = Tail(tail)
      BY Zenon DEF TypeOK, Runs, Throw
    <2> QED BY <2>1, TailTyped
  <1>2. request' \in [Requests -> [phase : {"away", "reading", "queued", "reporting"},
                                   before : Counter]]
    BY CounterIsSum DEF TypeOK, Throw
  <1> QED BY <1>1, <1>2 DEF Handed, Throw

LEMMA Continued ==
  ASSUME TypeOK, NEW w, Continue(w)
  PROVE  Handed /\ work' = w /\ flaw' = flaw
  BY DEF TypeOK, Handed, Continue

\* The types of the next state, gathered.
LEMMA TypesKept ==
  ASSUME Handed, BucketOK', quota' \in Counter, usage' \in Counter, units' \in 0..MaxUnits,
         work' \in Work
  PROVE  TypeOK'
  BY DEF TypeOK, Handed, BucketOK

LEMMA IdleTyped == Idle \in Work
  <1>1. None \in [bytes : Nat, files : Nat] /\ None \in [bytes : Int, files : Int]
    BY DEF None
  <1>2. Untouched \in [objects : [Paths -> Kinds], size : [Paths -> Sizes \cup {0}],
                       quota : [bytes : Nat, files : Nat]]
    BY <1>1 DEF Untouched, Kinds
  <1>3. [kind |-> "absent", bytes |-> 0] \in Body
    BY DEF Body, Kinds
  <1> QED BY <1>1, <1>2, <1>3, Bounds DEF Idle, Work

LEMMA IdleHandled ==
  ASSUME work' = Idle
  PROVE  Handling' /\ Held' = None /\ Returnable'
  <1>1. work'.step = "idle" /\ work'.method = "none" /\ work'.body.bytes = 0 /\ work'.prior.bytes = 0
    BY DEF Idle
  <1>2. Stepping' /\ TargetsIn' /\ BodiesFit' /\ Priced' /\ Kept' /\ Apart'
    BY <1>1 DEF Stepping, TargetsIn, BodiesFit, Priced, Kept, Apart, Moving, Holding
  <1>3. Held' = None
    BY <1>1 DEF Held
  <1>4. Returnable'
    BY <1>1 DEF Returnable
  <1> QED BY <1>2, <1>3, <1>4, IdleTyped DEF Handling

LEMMA BucketSame ==
  ASSUME BucketOK, Zero, UNCHANGED <<objects, size>>
  PROVE  BucketOK' /\ Zero' /\ Stored' = Stored
  BY DEF BucketOK, Zero, Stored, Sums, Bytes

LEMMA BucketRemoved ==
  ASSUME BucketOK, Zero, NEW keys, Removed(keys)
  PROVE  BucketOK' /\ Zero'
  BY Bounds DEF BucketOK, Zero, Removed, Kinds

LEMMA BucketWrote ==
  ASSUME BucketOK, Zero, NEW p \in Paths, NEW b \in Body, Wrote(p, b),
         b.kind = "absent" => b.bytes = 0
  PROVE  BucketOK' /\ Zero'
  BY DEF BucketOK, Zero, Wrote, Body

\* The counter may run ahead of what is stored and held, but only with a flaw.
LEMMA BalanceLoosens ==
  ASSUME Balance, quota \in Counter, quota' \in Counter, Stored \in Sum, Stored' \in Sum,
         Held \in Vector, Held' \in Vector, flaw' = "none" => flaw = "none",
         flaw' # "uncounted" =>
           /\ flaw # "uncounted"
           /\ quota'.bytes - quota.bytes >= Stored'.bytes - Stored.bytes + Held'.bytes - Held.bytes
           /\ quota'.files - quota.files >= Stored'.files - Stored.files + Held'.files - Held.files,
         flaw' = "none" =>
           /\ quota'.bytes - quota.bytes = Stored'.bytes - Stored.bytes + Held'.bytes - Held.bytes
           /\ quota'.files - quota.files = Stored'.files - Stored.files + Held'.files - Held.files
  PROVE  Balance'
  <1> SUFFICES ASSUME flaw' # "uncounted"
               PROVE  /\ quota'.bytes >= Stored'.bytes + Held'.bytes
                      /\ quota'.files >= Stored'.files + Held'.files
                      /\ flaw' = "none" => quota' = Plus(Stored', Held')
    BY DEF Balance
  <1>1. /\ quota.bytes >= Stored.bytes + Held.bytes
        /\ quota.files >= Stored.files + Held.files
        /\ flaw = "none" => quota = Plus(Stored, Held)
    BY DEF Balance
  <1>2. /\ quota'.bytes >= Stored'.bytes + Held'.bytes
        /\ quota'.files >= Stored'.files + Held'.files
    BY <1>1 DEF Counter, Sum, Vector
  <1>3. ASSUME flaw' = "none"
        PROVE  quota' = Plus(Stored', Held')
    <2>1. quota.bytes = Stored.bytes + Held.bytes /\ quota.files = Stored.files + Held.files
      BY <1>1, <1>3 DEF Plus
    <2>2. /\ quota'.bytes - quota.bytes = Stored'.bytes - Stored.bytes + Held'.bytes - Held.bytes
          /\ quota'.files - quota.files = Stored'.files - Stored.files + Held'.files - Held.files
      BY <1>3
    <2>3. /\ quota.bytes \in Int /\ quota.files \in Int /\ quota'.bytes \in Int
          /\ quota'.files \in Int /\ Stored.bytes \in Int /\ Stored.files \in Int
          /\ Stored'.bytes \in Int /\ Stored'.files \in Int /\ Held.bytes \in Int
          /\ Held.files \in Int /\ Held'.bytes \in Int /\ Held'.files \in Int
      BY DEF Counter, Sum, Vector
    <2>4. /\ quota'.bytes = Stored'.bytes + Held'.bytes
          /\ quota'.files = Stored'.files + Held'.files
      BY <2>1, <2>2, <2>3
    <2>5. quota' = [bytes |-> quota'.bytes, files |-> quota'.files]
      BY DEF Counter
    <2> QED BY <2>4, <2>5 DEF Plus
  <1> QED BY <1>2, <1>3

\* What is stored, held and counted moves together.
LEMMA BalanceKept ==
  ASSUME Balance, quota \in Counter, quota' \in Counter, Stored \in Sum, Stored' \in Sum,
         Held \in Vector, Held' \in Vector, flaw' = flaw,
         flaw # "uncounted" =>
           /\ quota'.bytes - quota.bytes = Stored'.bytes - Stored.bytes + Held'.bytes - Held.bytes
           /\ quota'.files - quota.files = Stored'.files - Stored.files + Held'.files - Held.files
  PROVE  Balance'
  <1>1. flaw # "uncounted" =>
          /\ quota'.bytes - quota.bytes >= Stored'.bytes - Stored.bytes + Held'.bytes - Held.bytes
          /\ quota'.files - quota.files >= Stored'.files - Stored.files + Held'.files - Held.files
    BY DEF Counter, Sum, Vector
  <1> QED BY <1>1, BalanceLoosens

-----------------------------------------------------------------------------
(* Requests outside the mutex *)

LEMMA Known ==
  ASSUME IInv
  PROVE  /\ BucketOK /\ quota \in Counter /\ quota \in Sum /\ Stored \in Sum /\ work \in Work
         /\ Held \in Vector /\ work.delta \in Vector /\ Positive(work.delta) \in Sum
         /\ Minus(Positive(work.delta)) \in Vector /\ Change \in Vector /\ Credit(work) \in Sum
         /\ work.body \in Body /\ work.prior \in Body /\ work.gone \in Sum
         /\ work.body.bytes \in Nat /\ work.prior.bytes \in Nat
  <1>1. BucketOK /\ quota \in Counter /\ work \in Work
    BY DEF IInv, Inner, TypeOK, BucketOK
  <1>2. quota \in Sum /\ Stored \in Sum
    BY <1>1, CounterIsSum, StoredTyped
  <1>3. work.delta \in Vector /\ work.body \in Body /\ work.prior \in Body /\ work.gone \in Sum
    BY <1>1 DEF Work, Vector, Sum
  <1>4. Positive(work.delta) \in Sum /\ Minus(Positive(work.delta)) \in Vector
    BY <1>3, PositiveTyped
  <1>5. work.body.bytes \in Nat /\ work.prior.bytes \in Nat
    BY <1>3, Bounds DEF Body
  <1>6. Change \in Vector
    BY <1>5 DEF Change, Vector
  <1>7. Credit(work) \in Sum
    BY <1>5 DEF Credit, Sum, None
  <1>8. Held \in Vector
    <2>1. /\ Plus(Positive(work.delta), Minus(Change)) \in Vector
          /\ Plus(Positive(work.delta), [bytes |-> work.prior.bytes, files |-> 1]) \in Vector
          /\ Minus(Credit(work)) \in Vector /\ Minus(work.gone) \in Vector
          /\ None \in Vector /\ Positive(work.delta) \in Vector
      BY <1>3, <1>4, <1>5, <1>6, <1>7 DEF Plus, Minus, Vector, Sum, None
    <2> QED BY <2>1 DEF Held
  <1> QED BY <1>1, <1>2, <1>3, <1>4, <1>5, <1>6, <1>7, <1>8

LEMMA HandlerSame ==
  ASSUME IInv, UNCHANGED <<objects, size, quota, work, flaw>>, Handed,
         usage' \in Counter, units' \in 0..MaxUnits
  PROVE  Inner'
  <1>1. BucketOK' /\ Zero' /\ Stored' = Stored
    BY Known, BucketSame DEF IInv, Inner
  <1>2. quota' \in Counter /\ work' \in Work
    BY Known
  <1>3. TypeOK'
    BY <1>1, <1>2, TypesKept
  <1>4. Stepping' /\ TargetsIn' /\ BodiesFit'
    BY DEF IInv, Inner, Handling, Stepping, TargetsIn, BodiesFit, Moving
  <1>5. Priced'
    <2>1. Priced
      BY DEF IInv, Inner, Handling
    <2>2. Object(work.key)' = Object(work.key)
      BY DEF Object, head
    <2>3. Credit(work)' = Credit(work)
      BY DEF Credit
    <2>4. Delta(work.body, work.prior, Credit(work))' = Delta(work.body, work.prior, Credit(work))
      BY <2>3 DEF Delta
    <2> QED BY <2>1, <2>2, <2>4 DEF Priced
  <1>6. Kept'
    <2>1. Kept
      BY DEF IInv, Inner, Handling
    <2>2. Snapshot' = Snapshot
      BY DEF Snapshot
    <2> QED BY <2>1, <2>2 DEF Kept
  <1>7. Apart'
    BY DEF IInv, Inner, Handling, Apart, Moving, Holding
  <1>8. Held' = Held
    BY DEF Held, Change, Credit
  <1>9. Balance'
    BY <1>1, <1>8 DEF IInv, Inner, Balance
  <1>10. Returnable'
    <2>1. Returnable
      BY DEF IInv, Inner
    <2>2. Counted(work.keys)' = Counted(work.keys)
      BY DEF Counted, Sums, Bytes, head
    <2> QED BY <2>1, <2>2 DEF Returnable
  <1> QED BY <1>1, <1>2, <1>3, <1>4, <1>5, <1>6, <1>7, <1>9, <1>10 DEF IInv, Inner, Handling

LEMMA EnterKeeps ==
  ASSUME IInv, NEW r \in Requests, Mutate(r) \/ Read(r)
  PROVE  Inner'
  <1>1. PICK phase \in {"queued", "reading"} : Enter(r, phase)
    BY DEF Mutate, Read
  <1>2. tail' \in Seq(Requests)
    <2>1. tail \in Seq(Requests)
      BY DEF IInv, Inner, TypeOK
    <2>2. tail' = tail \/ tail' = Append(tail, r)
      BY DEF Mutate, Read
    <2> QED BY <2>1, <2>2
  <1>3. Handed
    BY <1>1, <1>2, Known DEF IInv, Inner, TypeOK, Handed, Enter
  <1>4. units' \in 0..MaxUnits /\ usage' \in Counter
    <2>1. units \in 0..MaxUnits /\ usage \in Counter
      BY DEF IInv, Inner, TypeOK
    <2>2. units < MaxUnits /\ units' = units + 1 /\ usage' = usage
      BY <1>1 DEF Enter
    <2> QED BY <2>1, <2>2, Bounds
  <1> QED BY <1>1, <1>3, <1>4, HandlerSame DEF Enter

LEMMA ReadDoneKeeps ==
  ASSUME IInv, NEW r \in Requests, ReadDone(r)
  PROVE  Inner'
  <1>1. request' \in [Requests -> [phase : {"away", "reading", "queued", "reporting"},
                                   before : Counter]]
    BY Known, AnsweredTyped DEF ReadDone, IInv, Inner
  <1>2. Handed /\ units' \in 0..MaxUnits /\ usage' \in Counter
    BY <1>1 DEF IInv, Inner, TypeOK, Handed, ReadDone
  <1> QED BY <1>2, HandlerSame DEF ReadDone

LEMMA ReportKeeps ==
  ASSUME IInv, NEW r \in Requests, Report(r)
  PROVE  Inner'
  <1>1. request[r].before \in Counter
    BY DEF IInv, Inner, TypeOK
  <1>2. Handed
    BY CounterIsSum DEF IInv, Inner, TypeOK, Handed, Report
  <1>3. units' \in 0..MaxUnits /\ usage' \in Counter
    BY <1>1 DEF IInv, Inner, TypeOK, Report
  <1> QED BY <1>2, <1>3, HandlerSame DEF Report

-----------------------------------------------------------------------------
(* Handlers that end *)

LEMMA Ends ==
  ASSUME IInv, work' = Idle, Handed, BucketOK', Zero', quota' \in Counter,
         usage' = usage, units' \in 0..MaxUnits, Balance'
  PROVE  Inner'
  <1>1. usage' \in Counter
    BY DEF IInv, Inner, TypeOK
  <1>2. Handling' /\ Returnable'
    BY IdleHandled
  <1>3. work' \in Work
    BY IdleTyped
  <1> QED BY <1>1, <1>2, <1>3, TypesKept DEF IInv, Inner

LEMMA HeldNone ==
  ASSUME work.step \notin {"store", "audit", "undo", "restore", "drop", "delete"}
  PROVE  Held = None
  BY DEF Held

LEMMA NoneHeld == None \in Vector /\ None.bytes = 0 /\ None.files = 0
  BY DEF None, Vector

\* A handler that gives up before it has taken anything.
LEMMA GivesUp ==
  ASSUME IInv, work.step \in {"idle", "charge", "count", "next", "reserve"},
         work' = Idle, Handed, flaw' = flaw, UNCHANGED <<objects, size, quota, usage>>,
         units' \in 0..MaxUnits
  PROVE  Inner'
  <1>1. BucketOK' /\ Zero' /\ Stored' = Stored
    BY Known, BucketSame DEF IInv, Inner
  <1>2. Held = None /\ Held' = None
    BY HeldNone, IdleHandled
  <1>3. Balance'
    BY <1>1, <1>2 DEF IInv, Inner, Balance
  <1>4. quota' \in Counter
    BY Known
  <1> QED BY <1>1, <1>3, <1>4, Ends

LEMMA UnitsSame ==
  ASSUME IInv
  PROVE  units \in 0..MaxUnits
  BY DEF IInv, Inner, TypeOK

LEMMA RefuseKeeps ==
  ASSUME IInv, NEW r \in Requests, Runs(r, "idle"), Refuse(r)
  PROVE  Inner'
  <1>1. /\ UNCHANGED <<objects, size, quota, usage, units>> /\ Finish(r, "refused")
        /\ work.step = "idle"
    BY DEF Refuse, Runs
  <1>2. Handed /\ work' = Idle /\ flaw' = flaw
    BY <1>1, Known, Finished DEF IInv, Inner
  <1> QED BY <1>1, <1>2, UnitsSame, GivesUp

LEMMA RefuseContentKeeps ==
  ASSUME IInv, NEW r \in Requests, RefuseContent(r)
  PROVE  Inner'
  <1>1. /\ UNCHANGED <<objects, size, quota, usage, units>> /\ Finish(r, Ended(work))
        /\ work.step = "reserve" /\ Runs(r, "reserve")
    BY DEF RefuseContent, Runs
  <1>2. Ended(work) \in {"none", "done", "refused", "no units", "partial", "failed"}
    BY DEF Ended
  <1>3. Handed /\ work' = Idle /\ flaw' = flaw
    BY <1>1, <1>2, Known, Finished DEF IInv, Inner
  <1> QED BY <1>1, <1>3, UnitsSame, GivesUp

LEMMA ReleaseFits ==
  ASSUME NEW q \in Counter, NEW d \in Sum, q.bytes >= d.bytes, q.files >= d.files
  PROVE  Applied(q, Minus(d)) = Plus(q, Minus(d)) /\ Applied(q, Minus(d)) \in Counter
  <1>1. Fits(q, Minus(d))
    BY Bounds DEF Fits, Minus, Counter, Sum
  <1>2. Plus(q, Minus(d)) \in Counter
    BY <1>1 DEF Fits, Plus, Minus, Counter, Sum
  <1> QED BY <1>1, <1>2 DEF Applied

LEMMA ReleaseTyped ==
  ASSUME IInv, Release
  PROVE  quota' \in Counter
  BY Known, AppliedTyped DEF Release

\* A put never writes the drive itself, and a transfer never writes beneath its source.
LEMMA KeyFree ==
  ASSUME IInv, Holding
  PROVE  /\ work.key \in Paths /\ work.job \in Paths
         /\ work.method = "put" => work.key # Root
         /\ Moving => ~ IsPrefix(work.source, work.key)
  <1>1. work.key \in Paths /\ work.job \in Paths /\ work.destination \in Paths /\ work.source \in Paths
    BY Known DEF Work
  <1>2. work.method = "put" => work.key # Root
    BY DEF IInv, Inner, Handling, Stepping
  <1>3. ASSUME Moving
        PROVE  ~ IsPrefix(work.source, work.key)
    <2>1. /\ work.source # Root /\ ~ IsPrefix(work.source, work.destination)
          /\ work.destination = Root \/ ~ IsPrefix(work.destination, work.source)
          /\ IsPrefix(work.destination, work.key)
          /\ work.destination = Root => work.key = Root
      BY <1>3 DEF IInv, Inner, Handling, Apart
    <2>2. CASE work.destination = Root
      BY <1>1, <2>1, <2>2, Rooted
    <2>3. CASE work.destination # Root
      BY <1>1, <2>1, <2>3, OnOneLine
    <2> QED BY <2>2, <2>3
  <1> QED BY <1>1, <1>2, <1>3

\* The object at k is part of what is stored.
LEMMA StoredHas ==
  ASSUME BucketOK, NEW k \in Paths, objects[k] # "absent"
  PROVE  Stored.bytes >= size[k] /\ Stored.files >= 1
  <1>1. {k} \in SUBSET Present
    BY DEF Present
  <1>2. Sums({k}) = [bytes |-> size[k], files |-> 1]
    BY SumOfOne
  <1>3. Stored.bytes >= Sums({k}).bytes /\ Stored.files >= Sums({k}).files
    BY <1>1, StoredAtLeast
  <1> QED BY <1>2, <1>3

-----------------------------------------------------------------------------
(* What a put has taken, and what it gives back *)

\* What is reserved, less what was written, is what the put frees less the credit.
LEMMA Surplus ==
  ASSUME IInv, work.step \in {"store", "audit", "undo", "restore", "drop"}
  PROVE  LET taken == Positive(work.delta)
             freed == Positive(Minus(work.delta))
             credit == Credit(work)
         IN  /\ taken \in Sum /\ freed \in Sum
             /\ taken.bytes - Change.bytes = freed.bytes - credit.bytes
             /\ taken.files - Change.files = freed.files - credit.files
             /\ credit.bytes >= 0 /\ credit.files >= 0
             /\ work.method = "move" => credit = [bytes |-> work.body.bytes, files |-> 1]
             /\ work.method # "move" => credit.bytes = 0 /\ credit.files = 0
  <1> DEFINE credit == Credit(work)
  <1>1. work.delta = Delta(work.body, work.prior, credit)
    BY DEF IInv, Inner, Handling, Priced
  <1>2. /\ work.delta \in Vector /\ credit \in Sum /\ Change \in Vector
        /\ work.body.bytes \in Nat /\ work.prior.bytes \in Nat
    BY Known
  <1>3. /\ work.delta.bytes = Change.bytes - credit.bytes
        /\ work.delta.files = Change.files - credit.files
    <2> HIDE DEF credit
    <2> QED BY <1>1 DEF Delta, Change
  <1>4. Minus(work.delta) \in Vector
    BY <1>2, PositiveTyped
  <1>5. /\ Positive(work.delta) = [bytes |-> IF work.delta.bytes >= 0 THEN work.delta.bytes ELSE 0,
                                   files |-> IF work.delta.files >= 0 THEN work.delta.files ELSE 0]
        /\ Positive(work.delta) \in Sum
    BY <1>2, PositiveTyped
  <1>6. /\ Positive(Minus(work.delta)) =
             [bytes |-> IF Minus(work.delta).bytes >= 0 THEN Minus(work.delta).bytes ELSE 0,
              files |-> IF Minus(work.delta).files >= 0 THEN Minus(work.delta).files ELSE 0]
        /\ Positive(Minus(work.delta)) \in Sum
    BY <1>4, PositiveTyped
  <1>7. Minus(work.delta).bytes = - work.delta.bytes /\ Minus(work.delta).files = - work.delta.files
    BY DEF Minus
  <1>8. /\ work.method = "move" => credit = [bytes |-> work.body.bytes, files |-> 1]
        /\ work.method # "move" => credit.bytes = 0 /\ credit.files = 0
    BY DEF Credit, None
  <1> HIDE DEF credit
  <1>9. credit.bytes >= 0 /\ credit.files >= 0
    BY <1>2 DEF Sum
  <1>10. /\ Positive(work.delta).bytes - Change.bytes = Positive(Minus(work.delta)).bytes - credit.bytes
         /\ Positive(work.delta).files - Change.files = Positive(Minus(work.delta)).files - credit.files
    <2>1. /\ work.delta.bytes \in Int /\ work.delta.files \in Int
          /\ Change.bytes \in Int /\ Change.files \in Int
          /\ credit.bytes \in Int /\ credit.files \in Int
      BY <1>2 DEF Vector, Sum
    <2> QED BY <1>3, <1>5, <1>6, <1>7, <2>1
  <1> QED BY <1>5, <1>6, <1>8, <1>9, <1>10 DEF credit

\* Neither a put nor a transfer that reserved something holds less than that.
LEMMA Backed ==
  ASSUME IInv, flaw # "uncounted"
  PROVE  /\ work.step \in {"store", "undo", "restore"} =>
              /\ quota.bytes >= Positive(work.delta).bytes
              /\ quota.files >= Positive(work.delta).files
         /\ work.step = "audit" =>
              /\ quota.bytes >= Positive(Minus(work.delta)).bytes
              /\ quota.files >= Positive(Minus(work.delta)).files
  <1>1. /\ quota.bytes >= Stored.bytes + Held.bytes
        /\ quota.files >= Stored.files + Held.files
    BY DEF IInv, Inner, Balance
  <1>2. /\ quota.bytes \in Int /\ quota.files \in Int /\ Stored.bytes \in Nat /\ Stored.files \in Nat
        /\ Positive(work.delta).bytes \in Nat /\ Positive(work.delta).files \in Nat
        /\ Change.bytes \in Int /\ Change.files \in Int
        /\ work.body.bytes \in Nat /\ work.prior.bytes \in Nat
    BY Known DEF Sum, Vector
  <1>3. CASE work.step = "store"
    BY <1>1, <1>2, <1>3 DEF Held
  <1>4. CASE work.step = "restore"
    <2>1. Held = Plus(Positive(work.delta), [bytes |-> work.prior.bytes, files |-> 1])
      BY <1>4 DEF Held
    <2> QED BY <1>1, <1>2, <1>4, <2>1 DEF Plus
  <1>5. CASE work.step \in {"audit", "undo"}
    <2>1. Held = Plus(Positive(work.delta), Minus(Change))
      BY <1>5 DEF Held
    <2>2. /\ Held.bytes = Positive(work.delta).bytes - Change.bytes
          /\ Held.files = Positive(work.delta).files - Change.files
      BY <1>2, <2>1 DEF Plus, Minus
    <2>3. /\ work.key \in Paths /\ work.job \in Paths /\ BucketOK
      BY <1>5, KeyFree, Known DEF Holding
    <2>4. objects[work.key] = work.body.kind /\ size[work.key] = work.body.bytes
      BY <1>5 DEF IInv, Inner, Handling, Priced
    <2>5. work.body.kind # "absent"
      <3>1. work.method = "put" \/ Moving
        BY <1>5, Known DEF IInv, Inner, Handling, Stepping, Moving, Work, Idle
      <3> QED BY <1>5, <3>1 DEF IInv, Inner, Handling, Stepping, Apart, Holding
    <2>6. Stored.bytes >= work.body.bytes /\ Stored.files >= 1
      BY <2>3, <2>4, <2>5, StoredHas
    <2>7. CASE work.step = "undo"
      <3>1. Change.bytes <= work.body.bytes /\ Change.files <= 1
        BY <1>2 DEF Change
      <3> QED BY <1>1, <1>2, <2>2, <2>6, <2>7, <3>1
    <2>8. CASE work.step = "audit"
      <3> DEFINE freed == Positive(Minus(work.delta))
                 credit == Credit(work)
      <3>1. /\ freed \in Sum /\ Held.bytes = freed.bytes - credit.bytes
            /\ Held.files = freed.files - credit.files
            /\ work.method = "move" => credit = [bytes |-> work.body.bytes, files |-> 1]
            /\ work.method # "move" => credit.bytes = 0 /\ credit.files = 0
        BY <2>2, <2>8, Surplus
      <3>2. credit.bytes <= Stored.bytes /\ credit.files <= Stored.files
            /\ credit.bytes \in Int /\ credit.files \in Int
        BY <1>2, <2>6, <3>1
      <3>3. freed.bytes \in Int /\ freed.files \in Int
        BY <3>1 DEF Sum
      <3> HIDE DEF freed, credit
      <3>4. quota.bytes >= freed.bytes /\ quota.files >= freed.files
        BY <1>1, <1>2, <3>1, <3>2, <3>3
      <3> QED BY <2>8, <3>4 DEF freed
    <2> QED BY <1>5, <2>7, <2>8
  <1> QED BY <1>3, <1>4, <1>5

-----------------------------------------------------------------------------
(* The put that fails *)

\* A release gives back what the put took, as long as nothing was lost.
LEMMA Released ==
  ASSUME IInv, Release, work.step \in {"store", "undo", "restore"}
  PROVE  /\ quota' \in Counter
         /\ flaw # "uncounted" =>
              /\ quota'.bytes - quota.bytes = - Positive(work.delta).bytes
              /\ quota'.files - quota.files = - Positive(work.delta).files
  <1>1. quota' \in Counter
    BY ReleaseTyped
  <1>2. ASSUME flaw # "uncounted"
        PROVE  /\ quota'.bytes - quota.bytes = - Positive(work.delta).bytes
               /\ quota'.files - quota.files = - Positive(work.delta).files
    <2>1. quota.bytes >= Positive(work.delta).bytes /\ quota.files >= Positive(work.delta).files
      BY <1>2, Backed
    <2>2. quota \in Counter /\ Positive(work.delta) \in Sum
      BY Known
    <2>3. quota' = Plus(quota, Minus(Positive(work.delta)))
      BY <2>1, <2>2, ReleaseFits DEF Release
    <2>4. /\ quota'.bytes = quota.bytes + - Positive(work.delta).bytes
          /\ quota'.files = quota.files + - Positive(work.delta).files
      BY <2>3 DEF Plus, Minus
    <2>5. /\ quota.bytes \in Int /\ quota.files \in Int
          /\ Positive(work.delta).bytes \in Int /\ Positive(work.delta).files \in Int
      BY <2>2 DEF Counter, Sum
    <2> QED BY <2>4, <2>5
  <1> QED BY <1>1, <1>2

LEMMA StoreFreed ==
  ASSUME IInv, Release, work.step = "store", work' = Idle, flaw' = flaw,
         UNCHANGED <<objects, size>>
  PROVE  quota' \in Counter /\ BucketOK' /\ Zero' /\ Balance'
  <1>1. BucketOK' /\ Zero' /\ Stored' = Stored
    BY Known, BucketSame DEF IInv, Inner
  <1>2. Held = Positive(work.delta) /\ Held' = None
    BY IdleHandled DEF Held
  <1>3. /\ quota' \in Counter
        /\ flaw # "uncounted" =>
             /\ quota'.bytes - quota.bytes = - Positive(work.delta).bytes
             /\ quota'.files - quota.files = - Positive(work.delta).files
    BY Released
  <1>4. /\ quota \in Counter /\ Stored \in Sum /\ Held \in Vector /\ Positive(work.delta) \in Sum
    BY Known
  <1>5. ASSUME flaw # "uncounted"
        PROVE  /\ quota'.bytes - quota.bytes = Stored'.bytes - Stored.bytes + Held'.bytes - Held.bytes
               /\ quota'.files - quota.files = Stored'.files - Stored.files + Held'.files - Held.files
    <2>1. Positive(work.delta).bytes \in Int /\ Positive(work.delta).files \in Int
      BY <1>4 DEF Sum
    <2>2. Stored.bytes \in Int /\ Stored.files \in Int
      BY <1>4 DEF Sum
    <2> QED BY <1>1, <1>2, <1>3, <1>5, <2>1, <2>2, NoneHeld
  <1>6. Balance'
    BY <1>1, <1>2, <1>3, <1>4, <1>5, NoneHeld, BalanceKept DEF IInv, Inner
  <1> QED BY <1>1, <1>3, <1>6

LEMMA StoreRefusedKeeps ==
  ASSUME IInv, NEW r \in Requests, StoreRefused(r)
  PROVE  Inner'
  <1>1. /\ UNCHANGED <<objects, size, usage, units>> /\ Finish(r, "refused") /\ Release
        /\ work.step = "store" /\ Runs(r, "store")
    BY DEF StoreRefused, Runs
  <1>2. quota' \in Counter
    BY <1>1, ReleaseTyped
  <1>3. Handed /\ work' = Idle /\ flaw' = flaw
    BY <1>1, <1>2, Finished DEF IInv, Inner
  <1> QED BY <1>1, <1>3, StoreFreed, UnitsSame, Ends

LEMMA StoreFailsKeeps ==
  ASSUME IInv, NEW r \in Requests, StoreFails(r)
  PROVE  Inner'
  <1>1. /\ UNCHANGED <<objects, size, usage, units>> /\ Throw(r, flaw) /\ Release
        /\ work.step = "store" /\ Runs(r, "store")
    BY DEF StoreFails, Runs
  <1>2. flaw \in {"none", "leak", "uncounted"}
    BY DEF IInv, Inner, TypeOK
  <1>3. Handed /\ work' = Idle /\ flaw' = flaw
    BY <1>1, <1>2, Thrown DEF IInv, Inner
  <1> QED BY <1>1, <1>3, StoreFreed, UnitsSame, Ends

\* An undo that has nothing to restore, and a restore, end the handler.
LEMMA UndoEndsKeeps ==
  ASSUME IInv, NEW r \in Requests, Undo(r), work.prior.kind = "absent"
  PROVE  Inner'
  <1>1. /\ UNCHANGED <<usage, units>> /\ Throw(r, flaw) /\ Release /\ Removed({work.key})
        /\ work.step = "undo" /\ Runs(r, "undo")
    BY DEF Undo, Runs
  <1>2. flaw \in {"none", "leak", "uncounted"}
    BY DEF IInv, Inner, TypeOK
  <1>3. Handed /\ work' = Idle /\ flaw' = flaw
    BY <1>1, <1>2, Thrown DEF IInv, Inner
  <1>4. BucketOK' /\ Zero'
    BY <1>1, Known, BucketRemoved DEF IInv, Inner
  <1>5. /\ quota' \in Counter
        /\ flaw # "uncounted" =>
             /\ quota'.bytes - quota.bytes = - Positive(work.delta).bytes
             /\ quota'.files - quota.files = - Positive(work.delta).files
    BY <1>1, Released
  <1>6. /\ work.key \in Paths /\ objects[work.key] = work.body.kind
        /\ size[work.key] = work.body.bytes /\ work.body.bytes \in Nat
    BY <1>1, KeyFree, Known DEF IInv, Inner, Handling, Priced, Holding
  <1>7. /\ quota \in Counter /\ Stored \in Sum /\ Held \in Vector /\ Positive(work.delta) \in Sum
        /\ Change \in Vector /\ BucketOK
    BY Known
  <1>8. Stored' \in Sum
    BY <1>1, <1>6, <1>7, StoredRemoved
  <1>9. Held' = None /\ Held = Plus(Positive(work.delta), Minus(Change))
    BY <1>1, <1>3, IdleHandled DEF Held
  <1>10. ASSUME flaw # "uncounted"
         PROVE  /\ quota'.bytes - quota.bytes = Stored'.bytes - Stored.bytes + Held'.bytes - Held.bytes
                /\ quota'.files - quota.files = Stored'.files - Stored.files + Held'.files - Held.files
    <2>1. work.body.kind # "absent"
      <3>1. work.method = "put" \/ Moving
        BY <1>1, Known DEF IInv, Inner, Handling, Stepping, Moving, Work, Idle
      <3> QED BY <1>1, <1>10, <3>1 DEF IInv, Inner, Handling, Stepping, Apart, Holding
    <2>2. {work.key} \cap Present = {work.key}
      BY <1>6, <2>1 DEF Present
    <2>3. Stored' = Plus(Stored, Minus(Sums({work.key})))
      BY <1>1, <1>6, <1>7, <2>2, StoredRemoved
    <2>4. Sums({work.key}) = [bytes |-> size[work.key], files |-> 1]
      BY <1>6, <1>7, SumOfOne
    <2>5. Stored'.bytes = Stored.bytes - work.body.bytes /\ Stored'.files = Stored.files - 1
      BY <1>6, <1>7, <2>3, <2>4 DEF Plus, Minus, Sum
    <2>6. Change.bytes = work.body.bytes /\ Change.files = 1
      <3>1. work.prior.bytes = 0
        BY DEF IInv, Inner, Handling, BodiesFit
      <3> QED BY <1>6, <3>1 DEF Change
    <2>7. /\ Held.bytes = Positive(work.delta).bytes - Change.bytes
          /\ Held.files = Positive(work.delta).files - Change.files
      BY <1>7, <1>9 DEF Plus, Minus, Sum, Vector
    <2>8. /\ Positive(work.delta).bytes \in Int /\ Positive(work.delta).files \in Int
          /\ Stored.bytes \in Int /\ Stored.files \in Int
      BY <1>7 DEF Sum
    <2> QED BY <1>5, <1>6, <1>9, <1>10, <2>5, <2>6, <2>7, <2>8, NoneHeld
  <1>11. Balance'
    BY <1>3, <1>5, <1>7, <1>8, <1>9, <1>10, NoneHeld, BalanceKept DEF IInv, Inner
  <1> QED BY <1>1, <1>3, <1>4, <1>5, <1>11, UnitsSame, Ends

LEMMA RestoreKeeps ==
  ASSUME IInv, NEW r \in Requests, Restore(r)
  PROVE  Inner'
  <1>1. /\ UNCHANGED <<usage, units>> /\ Throw(r, flaw) /\ Release /\ Wrote(work.key, work.prior)
        /\ work.step = "restore" /\ Runs(r, "restore")
    BY DEF Restore, Runs
  <1>2. flaw \in {"none", "leak", "uncounted"}
    BY DEF IInv, Inner, TypeOK
  <1>3. Handed /\ work' = Idle /\ flaw' = flaw
    BY <1>1, <1>2, Thrown DEF IInv, Inner
  <1>4. /\ work.key \in Paths
        /\ work.prior.kind # "absent" /\ objects[work.key] = "absent" /\ size[work.key] = 0
        /\ work.prior \in Body /\ work.prior.bytes \in Nat
    BY <1>1, KeyFree, Known DEF IInv, Inner, Handling, Priced, Holding
  <1>5. BucketOK' /\ Zero'
    BY <1>1, <1>4, Known, BucketWrote DEF IInv, Inner
  <1>6. /\ quota' \in Counter
        /\ flaw # "uncounted" =>
             /\ quota'.bytes - quota.bytes = - Positive(work.delta).bytes
             /\ quota'.files - quota.files = - Positive(work.delta).files
    BY <1>1, Released
  <1>7. /\ quota \in Counter /\ Stored \in Sum /\ Held \in Vector /\ Positive(work.delta) \in Sum
        /\ BucketOK
    BY Known
  <1>8. /\ Stored' = Plus(Stored, [bytes |-> work.prior.bytes - size[work.key],
                                   files |-> IF objects[work.key] = "absent" THEN 1 ELSE 0])
        /\ Stored' \in Sum
    <2>1. work.prior.kind \in Kinds \ {"absent"} /\ work.prior.bytes \in Sizes \cup {0}
      BY <1>4 DEF Body
    <2> QED BY <1>1, <1>4, <1>7, <2>1, StoredWrote DEF IInv, Inner
  <1>9. Stored'.bytes = Stored.bytes + work.prior.bytes /\ Stored'.files = Stored.files + 1
    BY <1>4, <1>8 DEF Plus
  <1>10. Held' = None
    BY <1>3, IdleHandled
  <1>11. Held.bytes = Positive(work.delta).bytes + work.prior.bytes
         /\ Held.files = Positive(work.delta).files + 1
    <2>1. Held = Plus(Positive(work.delta), [bytes |-> work.prior.bytes, files |-> 1])
      BY <1>1 DEF Held
    <2> QED BY <2>1 DEF Plus
  <1>12. /\ Positive(work.delta).bytes \in Int /\ Positive(work.delta).files \in Int
         /\ Stored.bytes \in Int /\ Stored.files \in Int
    BY <1>7 DEF Sum
  <1>13. ASSUME flaw # "uncounted"
         PROVE  /\ quota'.bytes - quota.bytes = Stored'.bytes - Stored.bytes + Held'.bytes - Held.bytes
                /\ quota'.files - quota.files = Stored'.files - Stored.files + Held'.files - Held.files
    BY <1>4, <1>6, <1>9, <1>10, <1>11, <1>12, <1>13, NoneHeld
  <1>14. Balance'
    BY <1>3, <1>6, <1>7, <1>8, <1>10, <1>13, NoneHeld, BalanceKept DEF IInv, Inner
  <1> QED BY <1>1, <1>3, <1>5, <1>6, <1>14, UnitsSame, Ends

\* Only a MOVE and a deletion are ever counted ahead of what they do.
LEMMA HeldBack ==
  ASSUME IInv,
         \/ work.step \in {"store", "restore"}
         \/ work.step \in {"audit", "undo"} /\ work.method # "move"
  PROVE  Held.bytes \in Nat /\ Held.files \in Nat
  <1>1. /\ Positive(work.delta) \in Sum /\ Change \in Vector /\ work.prior.bytes \in Nat
    BY Known
  <1>2. CASE work.step = "store"
    BY <1>1, <1>2 DEF Held, Sum
  <1>3. CASE work.step = "restore"
    <2>1. Held = Plus(Positive(work.delta), [bytes |-> work.prior.bytes, files |-> 1])
      BY <1>3 DEF Held
    <2> QED BY <1>1, <2>1 DEF Plus, Sum
  <1>4. CASE work.step \in {"audit", "undo"} /\ work.method # "move"
    <2> DEFINE freed == Positive(Minus(work.delta))
               credit == Credit(work)
    <2>1. Held = Plus(Positive(work.delta), Minus(Change))
      BY <1>4 DEF Held
    <2>2. /\ Held.bytes = Positive(work.delta).bytes - Change.bytes
          /\ Held.files = Positive(work.delta).files - Change.files
      BY <1>1, <2>1 DEF Plus, Minus, Sum, Vector
    <2>3. /\ freed \in Sum /\ Held.bytes = freed.bytes - credit.bytes
          /\ Held.files = freed.files - credit.files /\ credit.bytes = 0 /\ credit.files = 0
      BY <1>4, <2>2, Surplus
    <2> HIDE DEF freed, credit
    <2> QED BY <2>3 DEF Sum
  <1> QED BY <1>2, <1>3, <1>4

\* A handler that stops where it stands leaves the counter at least as high as
\* what is stored, unless something was counted ahead.
LEMMA AbandonedKeeps ==
  ASSUME IInv, UNCHANGED <<objects, size, quota, units, usage>>, work' = Idle,
         flaw' = Abandoned, Handed
  PROVE  Inner'
  <1>1. BucketOK' /\ Zero' /\ Stored' = Stored
    BY Known, BucketSame DEF IInv, Inner
  <1>2. quota \in Counter /\ Stored \in Sum /\ flaw \in {"none", "leak", "uncounted"}
    BY Known DEF IInv, Inner, TypeOK
  <1>3. /\ quota.bytes \in Int /\ quota.files \in Int
        /\ Stored.bytes \in Int /\ Stored.files \in Int
    BY <1>2 DEF Counter, Sum
  <1>4. Held' = None
    BY IdleHandled
  <1>5. ASSUME flaw' = "uncounted"
        PROVE  Balance'
    BY <1>5 DEF Balance
  <1>6. ASSUME flaw' # "uncounted"
        PROVE  Balance'
    <2>1. /\ flaw # "uncounted" /\ work.step \notin {"delete", "drop"}
          /\ ~ (work.step \in {"audit", "undo"} /\ work.method = "move")
          /\ flaw' = "none" => flaw = "none" /\ work.step \notin {"store", "audit", "undo", "restore"}
      <3>1. Abandoned # "uncounted"
        BY <1>6
      <3>2. /\ flaw # "uncounted" /\ work.step \notin {"delete", "drop"}
            /\ ~ (work.step \in {"audit", "undo"} /\ work.method = "move")
        BY <3>1 DEF Abandoned
      <3>3. Abandoned = "none" => flaw # "leak" /\ work.step \notin {"store", "audit", "undo", "restore"}
        BY <3>2 DEF Abandoned
      <3> QED BY <1>2, <3>2, <3>3
    <2>2. /\ quota.bytes >= Stored.bytes + Held.bytes /\ quota.files >= Stored.files + Held.files
          /\ flaw = "none" => quota = Plus(Stored, Held)
      BY <2>1 DEF IInv, Inner, Balance
    <2>3. CASE work.step \in {"store", "audit", "undo", "restore"}
      <3>1. Held.bytes \in Nat /\ Held.files \in Nat
        BY <2>1, <2>3, HeldBack
      <3>2. quota.bytes >= Stored.bytes /\ quota.files >= Stored.files
        BY <1>3, <2>2, <3>1
      <3> QED BY <1>1, <1>3, <1>4, <2>1, <2>3, <3>2, NoneHeld DEF Balance
    <2>4. CASE work.step \notin {"store", "audit", "undo", "restore"}
      <3>1. Held = None
        BY <2>1, <2>4, HeldNone
      <3> QED BY <1>1, <1>4, <2>1, <2>2, <3>1 DEF Balance
    <2> QED BY <2>3, <2>4
  <1>7. Balance'
    BY <1>5, <1>6
  <1> QED BY <1>1, <1>2, <1>7, UnitsSame, Ends

LEMMA CompensationFailsKeeps ==
  ASSUME IInv, NEW r \in Requests, CompensationFails(r) \/ DropFails(r)
  PROVE  Inner'
  <1>1. /\ UNCHANGED <<objects, size, quota, units, usage>> /\ Throw(r, Abandoned)
        /\ Runs(r, work.step)
    BY DEF CompensationFails, DropFails, Runs
  <1>2. Abandoned \in {"none", "leak", "uncounted"}
    BY DEF Abandoned, IInv, Inner, TypeOK
  <1>3. Handed /\ work' = Idle /\ flaw' = Abandoned
    BY <1>1, <1>2, Thrown DEF IInv, Inner
  <1> QED BY <1>1, <1>3, AbandonedKeeps

LEMMA CrashKeeps ==
  ASSUME IInv, Crash
  PROVE  Inner'
  <1>1. Handed
    <2>1. << >> \in Seq(Requests)
      OBVIOUS
    <2>2. request' \in [Requests -> [phase : {"away", "reading", "queued", "reporting"},
                                     before : Counter]]
      BY CounterIsSum DEF Crash
    <2> QED BY <2>1, <2>2 DEF Crash, Handed, Abandoned, IInv, Inner, TypeOK
  <1> QED BY <1>1, AbandonedKeeps DEF Crash

LEMMA DeleteFailsKeeps ==
  ASSUME IInv, NEW r \in Requests, DeleteFails(r)
  PROVE  Inner'
  <1>1. /\ UNCHANGED <<objects, size, usage, units>> /\ Throw(r, flaw)
        /\ quota' = Applied(quota, work.gone)
        /\ work.step = "delete" /\ Runs(r, "delete")
    BY DEF DeleteFails, Runs
  <1>2. flaw \in {"none", "leak", "uncounted"}
    BY DEF IInv, Inner, TypeOK
  <1>3. Handed /\ work' = Idle /\ flaw' = flaw
    BY <1>1, <1>2, Thrown DEF IInv, Inner
  <1>4. BucketOK' /\ Zero' /\ Stored' = Stored
    BY <1>1, Known, BucketSame DEF IInv, Inner
  <1>5. /\ quota \in Counter /\ Stored \in Sum /\ Held \in Vector /\ work.gone \in Sum
    BY Known
  <1>6. quota' = Plus(quota, work.gone) /\ quota' \in Counter
    <2>1. Plus(quota, work.gone) \in Counter
      BY <1>1 DEF IInv, Inner, Returnable
    <2>2. Fits(quota, work.gone)
      BY <2>1 DEF Fits, Plus, Counter
    <2> QED BY <1>1, <2>1, <2>2 DEF Applied
  <1>7. Held = Minus(work.gone) /\ Held' = None
    BY <1>1, <1>3, IdleHandled DEF Held
  <1>8. /\ quota'.bytes - quota.bytes = Stored'.bytes - Stored.bytes + Held'.bytes - Held.bytes
        /\ quota'.files - quota.files = Stored'.files - Stored.files + Held'.files - Held.files
    <2>1. /\ quota'.bytes = quota.bytes + work.gone.bytes
          /\ quota'.files = quota.files + work.gone.files
          /\ Held.bytes = - work.gone.bytes /\ Held.files = - work.gone.files
      BY <1>6, <1>7 DEF Plus, Minus
    <2>2. /\ quota.bytes \in Int /\ quota.files \in Int /\ Stored.bytes \in Int /\ Stored.files \in Int
          /\ work.gone.bytes \in Int /\ work.gone.files \in Int
      BY <1>5 DEF Counter, Sum
    <2> QED BY <1>4, <1>7, <2>1, <2>2, NoneHeld
  <1>9. Balance'
    BY <1>3, <1>4, <1>5, <1>6, <1>7, <1>8, NoneHeld, BalanceKept DEF IInv, Inner
  <1> QED BY <1>1, <1>3, <1>4, <1>6, <1>9, UnitsSame, Ends

-----------------------------------------------------------------------------
(* Handlers that go on with the next job *)

\* After a delete, an audit or a drop the handler is done, or it takes a job.
LEMMA NextJobKeeps ==
  ASSUME IInv, NEW r \in Requests, Runs(r, work.step), work.step \in {"delete", "audit", "drop"},
         NextJob(r, work), quota' \in Counter, BucketOK', Zero', Balance',
         UNCHANGED <<units, usage>>,
         Moving =>
           \A j \in work.jobs : IsPrefix(work.source, j) /\ objects'[j] # "absent"
  PROVE  Inner'
  <1>1. CASE work.jobs = {}
    <2>1. Finish(r, "done")
      BY <1>1 DEF NextJob
    <2>2. Handed /\ work' = Idle
      BY <2>1, Finished DEF IInv, Inner
    <2> QED BY <2>2, UnitsSame, Ends
  <1>2. CASE work.jobs # {}
    <2> DEFINE w == [work EXCEPT !.step = "next"]
    <2>1. Continue(w)
      BY <1>2 DEF NextJob
    <2>2. Handed /\ work' = w /\ flaw' = flaw
      BY <2>1, Continued DEF IInv, Inner
    <2>3. work' \in Work
      BY <2>2, Known DEF Work
    <2>4. /\ work'.step = "next" /\ work'.method = work.method /\ work'.jobs = work.jobs
          /\ work'.source = work.source /\ work'.destination = work.destination
          /\ work'.body = work.body /\ work'.prior = work.prior
      BY <2>2, Known DEF Work
    <2>5. Moving
      BY <1>2, Known DEF IInv, Inner, Handling, Stepping, Moving, Work, Idle
    <2>6. usage' \in Counter /\ units' \in 0..MaxUnits
      BY DEF IInv, Inner, TypeOK
    <2>7. TypeOK'
      BY <2>2, <2>3, <2>6, TypesKept
    <2>8. Stepping' /\ BodiesFit' /\ Priced' /\ Kept'
      BY <2>4, <2>5 DEF IInv, Inner, Handling, Stepping, BodiesFit, Priced, Kept, Moving
    <2>9. TargetsIn'
      BY <2>4, <2>5 DEF IInv, Inner, Handling, TargetsIn, Moving
    <2>10. Apart'
      BY <2>4, <2>5 DEF IInv, Inner, Handling, Apart, Moving, Holding
    <2>11. Returnable'
      BY <2>4 DEF Returnable
    <2> QED BY <2>3, <2>7, <2>8, <2>9, <2>10, <2>11 DEF IInv, Inner, Handling
  <1> QED BY <1>1, <1>2

LEMMA NextJobHeld ==
  ASSUME IInv, NEW r, NextJob(r, work)
  PROVE  Held' = None /\ flaw' = flaw
  <1>1. CASE work.jobs = {}
    <2>1. work' = Idle /\ flaw' = flaw
      BY <1>1 DEF NextJob, Finish
    <2> QED BY <2>1, IdleHandled
  <1>2. CASE work.jobs # {}
    <2>1. work' = [work EXCEPT !.step = "next"] /\ flaw' = flaw
      BY <1>2 DEF NextJob, Continue
    <2>2. work'.step = "next"
      BY <2>1, Known DEF Work
    <2> QED BY <2>1, <2>2 DEF Held
  <1> QED BY <1>1, <1>2

\* What a transfer clears and undoes lies beside the source.
LEMMA JobsStay ==
  ASSUME IInv, NEW keys, Removed(keys), Moving,
         \A k \in keys \cap Paths : ~ IsPrefix(work.source, k) \/ k \notin work.jobs
  PROVE  \A j \in work.jobs : IsPrefix(work.source, j) /\ objects'[j] # "absent"
  <1>1. \A j \in work.jobs : IsPrefix(work.source, j) /\ objects[j] # "absent"
    BY DEF IInv, Inner, Handling, Apart
  <1>2. work.jobs \subseteq Paths
    BY Known DEF Work
  <1> SUFFICES ASSUME NEW j \in work.jobs
               PROVE  IsPrefix(work.source, j) /\ objects'[j] # "absent"
    OBVIOUS
  <1>3. j \in Paths /\ IsPrefix(work.source, j) /\ objects[j] # "absent"
    BY <1>1, <1>2
  <1>4. j \notin keys
    BY <1>3
  <1> QED BY <1>3, <1>4 DEF Removed

LEMMA DeleteKeeps ==
  ASSUME IInv, NEW r \in Requests, Delete(r)
  PROVE  Inner'
  <1>1. /\ Removed(work.keys) /\ UNCHANGED <<quota, units, usage>> /\ NextJob(r, work)
        /\ work.step = "delete" /\ Runs(r, work.step)
    BY DEF Delete, Runs
  <1>2. Held' = None /\ flaw' = flaw /\ Held = Minus(work.gone)
    BY <1>1, NextJobHeld DEF Held
  <1>3. BucketOK' /\ Zero'
    BY <1>1, Known, BucketRemoved DEF IInv, Inner
  <1>4. /\ quota \in Counter /\ Stored \in Sum /\ Held \in Vector /\ work.gone \in Sum /\ BucketOK
        /\ work.keys \in SUBSET Paths
    BY Known DEF Work
  <1>5. /\ Stored' = Plus(Stored, Minus(Sums(work.keys \cap Present))) /\ Stored' \in Sum
        /\ Sums(work.keys \cap Present) \in Sum
    BY <1>1, <1>4, StoredRemoved
  <1>6. /\ Held.bytes = - work.gone.bytes /\ Held.files = - work.gone.files
        /\ Stored'.bytes = Stored.bytes - Sums(work.keys \cap Present).bytes
        /\ Stored'.files = Stored.files - Sums(work.keys \cap Present).files
        /\ quota.bytes \in Int /\ quota.files \in Int /\ Stored.bytes \in Int /\ Stored.files \in Int
        /\ work.gone.bytes \in Int /\ work.gone.files \in Int
        /\ Sums(work.keys \cap Present).bytes \in Int /\ Sums(work.keys \cap Present).files \in Int
    BY <1>2, <1>4, <1>5 DEF Plus, Minus, Sum, Counter
  <1> DEFINE seen == {k \in work.keys : head(k) # "absent"}
  <1>7. work.gone = Sums(seen)
    BY <1>1 DEF IInv, Inner, Returnable, Counted
  <1>8. /\ Sums(work.keys \cap Present).bytes >= work.gone.bytes
        /\ Sums(work.keys \cap Present).files >= work.gone.files
    <2> DEFINE there == work.keys \cap Present
    <2>1. there \in SUBSET Paths /\ seen \in SUBSET there /\ there \ seen \in SUBSET Paths
      BY <1>4 DEF Present, head
    <2> HIDE DEF seen, there
    <2>2. Sums(there) = Plus(Sums(there \ seen), Sums(seen))
      BY <1>4, <2>1, SumsSplit
    <2>3. Sums(there \ seen) \in Sum /\ Sums(seen) \in Sum
      BY <1>4, <1>7, <2>1, SumsTyped
    <2>4. Sums(there).bytes >= work.gone.bytes /\ Sums(there).files >= work.gone.files
      BY <1>7, <2>2, <2>3 DEF Plus, Sum
    <2> QED BY <2>4 DEF there
  <1>9. flaw = "none" => Sums(work.keys \cap Present) = work.gone
    <2>1. flaw = "none" => seen = work.keys \cap Present
      BY <1>4 DEF IInv, RootFree, head, Present
    <2> QED BY <1>7, <2>1
  <1>10. Balance'
    <2> DEFINE there == work.keys \cap Present
    <2>1. flaw = "none" =>
            Sums(there).bytes = work.gone.bytes /\ Sums(there).files = work.gone.files
      BY <1>9
    <2>2. /\ quota'.bytes - quota.bytes >= Stored'.bytes - Stored.bytes + Held'.bytes - Held.bytes
          /\ quota'.files - quota.files >= Stored'.files - Stored.files + Held'.files - Held.files
      BY <1>1, <1>2, <1>6, <1>8, NoneHeld
    <2>3. flaw = "none" =>
          /\ quota'.bytes - quota.bytes = Stored'.bytes - Stored.bytes + Held'.bytes - Held.bytes
          /\ quota'.files - quota.files = Stored'.files - Stored.files + Held'.files - Held.files
      BY <1>1, <1>2, <1>6, <2>1, NoneHeld
    <2> QED BY <1>1, <1>2, <1>4, <1>5, <2>2, <2>3, NoneHeld, BalanceLoosens DEF IInv, Inner
  <1>11. ASSUME Moving
         PROVE  \A j \in work.jobs : IsPrefix(work.source, j) /\ objects'[j] # "absent"
    <2>1. /\ \A k \in work.keys : IsPrefix(work.destination, k)
          /\ ~ IsPrefix(work.source, work.destination) /\ ~ IsPrefix(work.destination, work.source)
      BY <1>1, <1>11 DEF IInv, Inner, Handling, Apart
    <2>2. \A k \in work.keys : ~ IsPrefix(work.source, k)
      BY <1>4, <2>1, Known, OnOneLine DEF Work
    <2> QED BY <1>1, <1>11, <2>2, JobsStay
  <1> QED BY <1>1, <1>3, <1>4, <1>10, <1>11, NextJobKeeps

LEMMA DropKeeps ==
  ASSUME IInv, NEW r \in Requests, Drop(r)
  PROVE  Inner'
  <1>1. /\ Removed({work.job}) /\ UNCHANGED <<quota, units, usage>> /\ NextJob(r, work)
        /\ work.step = "drop" /\ Runs(r, work.step)
    BY DEF Drop, Runs
  <1>2. Held' = None /\ flaw' = flaw /\ Held = Minus(Credit(work))
    BY <1>1, NextJobHeld DEF Held
  <1>3. BucketOK' /\ Zero'
    BY <1>1, Known, BucketRemoved DEF IInv, Inner
  <1>4. /\ quota \in Counter /\ Stored \in Sum /\ Held \in Vector /\ Credit(work) \in Sum /\ BucketOK
        /\ work.job \in Paths /\ work.method = "move"
    BY <1>1, Known DEF Work, IInv, Inner, Handling, Stepping
  <1>5. /\ Stored' = Plus(Stored, Minus(Sums({work.job} \cap Present))) /\ Stored' \in Sum
    BY <1>1, <1>4, StoredRemoved
  <1>6. ASSUME flaw # "uncounted"
        PROVE  /\ quota'.bytes - quota.bytes = Stored'.bytes - Stored.bytes + Held'.bytes - Held.bytes
               /\ quota'.files - quota.files = Stored'.files - Stored.files + Held'.files - Held.files
    <2>1. /\ work.body = [kind |-> objects[work.job], bytes |-> size[work.job]]
          /\ work.body.kind # "absent"
      BY <1>1, <1>4, <1>6 DEF IInv, Inner, Handling, Apart, Moving, Holding
    <2>2. {work.job} \cap Present = {work.job}
      BY <1>4, <2>1 DEF Present
    <2>3. Sums({work.job} \cap Present) = Credit(work)
      BY <1>4, <2>1, <2>2, SumOfOne DEF Credit
    <2>4. /\ Stored'.bytes = Stored.bytes - Credit(work).bytes
          /\ Stored'.files = Stored.files - Credit(work).files
          /\ Held.bytes = - Credit(work).bytes /\ Held.files = - Credit(work).files
      BY <1>2, <1>4, <1>5, <2>3 DEF Plus, Minus, Sum
    <2>5. /\ quota.bytes \in Int /\ quota.files \in Int /\ Stored.bytes \in Int /\ Stored.files \in Int
          /\ Credit(work).bytes \in Int /\ Credit(work).files \in Int
      BY <1>4 DEF Counter, Sum
    <2> QED BY <1>1, <1>2, <2>4, <2>5, NoneHeld
  <1>7. Balance'
    BY <1>1, <1>2, <1>4, <1>5, <1>6, NoneHeld, BalanceKept DEF IInv, Inner
  <1>8. ASSUME Moving
        PROVE  \A j \in work.jobs : IsPrefix(work.source, j) /\ objects'[j] # "absent"
    <2>1. work.job \notin work.jobs
      BY <1>1, <1>8 DEF IInv, Inner, Handling, Apart, Holding
    <2> QED BY <1>1, <1>8, <2>1, JobsStay
  <1> QED BY <1>1, <1>3, <1>4, <1>7, <1>8, NextJobKeeps

-----------------------------------------------------------------------------
(* A put that goes on *)

\* What has to be shown of a step after which the handler goes on.
LEMMA GoesOnTo ==
  ASSUME IInv, Handed, work' \in Work, quota' \in Counter, BucketOK', Zero',
         Balance', usage' = usage, units' \in 0..MaxUnits,
         Stepping', TargetsIn', BodiesFit', Priced', Kept', Apart', Returnable'
  PROVE  Inner'
  <1>1. usage' \in Counter
    BY DEF IInv, Inner, TypeOK
  <1>2. TypeOK'
    BY <1>1, TypesKept
  <1> QED BY <1>2 DEF IInv, Inner, Handling

LEMMA GoesOn ==
  ASSUME IInv, NEW w, Continue(w), w \in Work, quota' \in Counter, BucketOK', Zero',
         Balance', usage' = usage, units' \in 0..MaxUnits,
         Stepping', TargetsIn', BodiesFit', Priced', Kept', Apart', Returnable'
  PROVE  Inner'
  <1>1. Handed /\ work' = w
    BY Continued DEF IInv, Inner
  <1> QED BY <1>1, GoesOnTo

LEMMA Freed ==
  ASSUME IInv, work.step = "audit",
         quota' = Applied(quota, Minus(Positive(Minus(work.delta))))
  PROVE  /\ quota' \in Counter
         /\ flaw # "uncounted" =>
              /\ quota'.bytes - quota.bytes = - Credit(work).bytes - Held.bytes
              /\ quota'.files - quota.files = - Credit(work).files - Held.files
  <1> DEFINE freed == Positive(Minus(work.delta))
             credit == Credit(work)
  <1>1. /\ quota \in Counter /\ Positive(work.delta) \in Sum /\ Change \in Vector
        /\ credit \in Sum
    BY Known
  <1>2. /\ freed \in Sum
        /\ Positive(work.delta).bytes - Change.bytes = freed.bytes - credit.bytes
        /\ Positive(work.delta).files - Change.files = freed.files - credit.files
    BY Surplus
  <1>3. Held = Plus(Positive(work.delta), Minus(Change))
    BY DEF Held
  <1>4. Held.bytes = freed.bytes - credit.bytes /\ Held.files = freed.files - credit.files
    BY <1>1, <1>2, <1>3 DEF Plus, Minus, Sum, Vector
  <1>5. flaw # "uncounted" =>
          quota.bytes >= freed.bytes /\ quota.files >= freed.files
    BY Backed
  <1>6. quota' = Applied(quota, Minus(freed))
    OBVIOUS
  <1> HIDE DEF freed, credit
  <1>7. Minus(freed) \in Vector
    BY <1>2 DEF Minus, Sum, Vector
  <1>8. quota' \in Counter
    BY <1>1, <1>6, <1>7, AppliedTyped
  <1>9. ASSUME flaw # "uncounted"
        PROVE  /\ quota'.bytes - quota.bytes = - credit.bytes - Held.bytes
               /\ quota'.files - quota.files = - credit.files - Held.files
    <2>1. quota' = Plus(quota, Minus(freed))
      BY <1>1, <1>2, <1>5, <1>6, <1>9, ReleaseFits
    <2>2. /\ quota'.bytes = quota.bytes + - freed.bytes
          /\ quota'.files = quota.files + - freed.files
      BY <2>1 DEF Plus, Minus
    <2>3. /\ quota.bytes \in Int /\ quota.files \in Int /\ freed.bytes \in Int /\ freed.files \in Int
          /\ credit.bytes \in Int /\ credit.files \in Int
      BY <1>1, <1>2 DEF Counter, Sum
    <2> QED BY <1>4, <2>2, <2>3
  <1> QED BY <1>8, <1>9 DEF credit

LEMMA AuditKeeps ==
  ASSUME IInv, NEW r \in Requests, Audit(r)
  PROVE  Inner'
  <1>1. /\ UNCHANGED <<objects, size, units, usage>>
        /\ work.step = "audit" /\ Runs(r, work.step)
        /\ quota' = Applied(quota, Minus(Positive(Minus(work.delta))))
    BY DEF Audit, Runs
  <1>2. /\ quota' \in Counter
        /\ flaw # "uncounted" =>
             /\ quota'.bytes - quota.bytes = - Credit(work).bytes - Held.bytes
             /\ quota'.files - quota.files = - Credit(work).files - Held.files
    BY <1>1, Freed
  <1>3. BucketOK' /\ Zero' /\ Stored' = Stored
    BY <1>1, Known, BucketSame DEF IInv, Inner
  <1>4. /\ quota \in Counter /\ Stored \in Sum /\ Held \in Vector /\ Credit(work) \in Sum
    BY Known
  <1>5. /\ Stored.bytes \in Int /\ Stored.files \in Int /\ Held.bytes \in Int /\ Held.files \in Int
        /\ Credit(work).bytes \in Int /\ Credit(work).files \in Int
    BY <1>4 DEF Sum, Vector
  <1>6. CASE work.method # "move"
    <2>1. NextJob(r, work)
      BY <1>6 DEF Audit
    <2>2. Held' = None /\ flaw' = flaw
      BY <2>1, NextJobHeld
    <2>3. Credit(work).bytes = 0 /\ Credit(work).files = 0
      BY <1>6 DEF Credit, None
    <2>4. Balance'
      <3>1. flaw # "uncounted" =>
              /\ quota'.bytes - quota.bytes = Stored'.bytes - Stored.bytes + Held'.bytes - Held.bytes
              /\ quota'.files - quota.files = Stored'.files - Stored.files + Held'.files - Held.files
        BY <1>2, <1>3, <1>5, <2>2, <2>3, NoneHeld
      <3> QED BY <1>2, <1>3, <1>4, <2>2, <3>1, NoneHeld, BalanceKept DEF IInv, Inner
    <2>5. Moving =>
            \A j \in work.jobs : IsPrefix(work.source, j) /\ objects'[j] # "absent"
      BY <1>1 DEF IInv, Inner, Handling, Apart
    <2> QED BY <1>1, <1>2, <1>3, <2>1, <2>4, <2>5, NextJobKeeps
  <1>7. CASE work.method = "move"
    <2> DEFINE w == [work EXCEPT !.step = "drop"]
    <2>1. Continue(w)
      BY <1>7 DEF Audit
    <2>2. work' = w /\ flaw' = flaw
      BY <2>1 DEF Continue
    <2>3. /\ w \in Work /\ work' \in Work
          /\ work'.step = "drop" /\ work'.method = work.method /\ work'.jobs = work.jobs
          /\ work'.source = work.source /\ work'.destination = work.destination
          /\ work'.body = work.body /\ work'.prior = work.prior /\ work'.delta = work.delta
          /\ work'.job = work.job /\ work'.key = work.key
      BY <2>2, Known DEF Work
    <2>4. Credit(work)' = Credit(work)
      BY <2>3 DEF Credit
    <2>5. Held' = Minus(Credit(work))
      BY <2>3, <2>4 DEF Held
    <2>6. Held' \in Vector /\ Held'.bytes = - Credit(work).bytes /\ Held'.files = - Credit(work).files
      BY <1>5, <2>5 DEF Minus, Vector
    <2>7. Balance'
      <3>1. flaw # "uncounted" =>
              /\ quota'.bytes - quota.bytes = Stored'.bytes - Stored.bytes + Held'.bytes - Held.bytes
              /\ quota'.files - quota.files = Stored'.files - Stored.files + Held'.files - Held.files
        BY <1>2, <1>3, <1>5, <2>6
      <3> QED BY <1>2, <1>3, <1>4, <2>2, <2>6, <3>1, BalanceKept DEF IInv, Inner
    <2>8. Stepping' /\ BodiesFit' /\ TargetsIn' /\ Kept' /\ Returnable'
      BY <1>7, <2>3 DEF IInv, Inner, Handling, Stepping, BodiesFit, TargetsIn, Kept, Returnable, Moving
    <2>9. Priced'
      <3>1. work.delta = Delta(work.body, work.prior, Credit(work))
        BY <1>1 DEF IInv, Inner, Handling, Priced
      <3>2. Delta(work.body, work.prior, Credit(work))' = Delta(work.body, work.prior, Credit(work))
        BY <2>3, <2>4 DEF Delta
      <3> QED BY <2>3, <3>1, <3>2 DEF Priced
    <2>10. Apart'
      BY <1>1, <1>7, <2>3 DEF IInv, Inner, Handling, Apart, Moving, Holding
    <2> QED BY <1>1, <1>2, <1>3, <2>1, <2>3, <2>7, <2>8, <2>9, <2>10, UnitsSame, GoesOn
  <1> QED BY <1>6, <1>7

\* The fields of the handler that no step of a put touches.
Fixed ==
  /\ work'.method = work.method /\ work'.start = work.start /\ work'.source = work.source
  /\ work'.destination = work.destination /\ work'.jobs = work.jobs /\ work'.job = work.job
  /\ work'.key = work.key /\ work'.body = work.body

LEMMA Busy ==
  ASSUME IInv, Holding
  PROVE  work.method = "put" \/ Moving
  BY Known DEF IInv, Inner, Handling, Stepping, Moving, Holding, Work, Idle

LEMMA StepTaken ==
  ASSUME IInv, NEW step, work' = [work EXCEPT !.step = step],
         step \in {"next", "delete", "audit", "undo", "restore", "drop"}
  PROVE  /\ work' \in Work /\ work'.step = step /\ Fixed
         /\ work'.prior = work.prior /\ work'.delta = work.delta /\ work'.keys = work.keys
         /\ work'.gone = work.gone
         /\ Credit(work)' = Credit(work) /\ Change' = Change
         /\ Delta(work.body, work.prior, Credit(work))' = Delta(work.body, work.prior, Credit(work))
  <1>1. /\ work' \in Work /\ work'.step = step /\ Fixed
        /\ work'.prior = work.prior /\ work'.delta = work.delta /\ work'.keys = work.keys
        /\ work'.gone = work.gone
    BY Known DEF Work, Fixed
  <1>2. Credit(work)' = Credit(work) /\ Change' = Change
    BY <1>1 DEF Credit, Change, Fixed
  <1>3. Delta(work.body, work.prior, Credit(work))' = Delta(work.body, work.prior, Credit(work))
    BY <1>1, <1>2 DEF Delta, Fixed
  <1> QED BY <1>1, <1>2, <1>3

LEMMA AuditFailsKeeps ==
  ASSUME IInv, NEW r \in Requests, AuditFails(r)
  PROVE  Inner'
  <1> DEFINE w == [work EXCEPT !.step = "undo"]
  <1>1. /\ UNCHANGED <<objects, size, quota, units, usage>> /\ Continue(w)
        /\ work.step = "audit"
    BY DEF AuditFails, Runs
  <1>2. work' = w /\ flaw' = flaw
    BY <1>1 DEF Continue
  <1>3. /\ work' \in Work /\ work'.step = "undo" /\ Fixed
        /\ work'.prior = work.prior /\ work'.delta = work.delta
        /\ Credit(work)' = Credit(work) /\ Change' = Change
        /\ Delta(work.body, work.prior, Credit(work))' = Delta(work.body, work.prior, Credit(work))
    BY <1>2, StepTaken
  <1>4. BucketOK' /\ Zero' /\ Stored' = Stored
    BY <1>1, Known, BucketSame DEF IInv, Inner
  <1>5. Held' = Held
    BY <1>1, <1>3 DEF Held
  <1>6. Balance'
    BY <1>1, <1>2, <1>4, <1>5 DEF IInv, Inner, Balance
  <1>7. Stepping' /\ BodiesFit' /\ TargetsIn' /\ Returnable'
    <2>1. work.method = "put" \/ Moving
      BY <1>1, Busy DEF Holding
    <2> QED
      BY <1>1, <1>3, <2>1
      DEF IInv, Inner, Handling, Stepping, BodiesFit, TargetsIn, Returnable, Moving, Fixed
  <1>8. Priced'
    BY <1>1, <1>3 DEF IInv, Inner, Handling, Priced, Fixed
  <1>9. Kept'
    BY <1>1, <1>3 DEF IInv, Inner, Handling, Kept, Fixed
  <1>10. Apart'
    BY <1>1, <1>3 DEF IInv, Inner, Handling, Apart, Moving, Holding, Fixed
  <1> QED BY <1>1, <1>2, <1>3, <1>4, <1>6, <1>7, <1>8, <1>9, <1>10, Known, UnitsSame, GoesOn

LEMMA UndoGoesOnKeeps ==
  ASSUME IInv, NEW r \in Requests, Undo(r), work.prior.kind # "absent"
  PROVE  Inner'
  <1> DEFINE w == [work EXCEPT !.step = "restore"]
  <1>1. /\ UNCHANGED <<quota, units, usage>> /\ Continue(w) /\ Removed({work.key})
        /\ work.step = "undo"
    BY DEF Undo, Runs
  <1>2. work' = w /\ flaw' = flaw
    BY <1>1 DEF Continue
  <1>3. /\ work' \in Work /\ work'.step = "restore" /\ Fixed
        /\ work'.prior = work.prior /\ work'.delta = work.delta
        /\ Delta(work.body, work.prior, Credit(work))' = Delta(work.body, work.prior, Credit(work))
    BY <1>2, StepTaken
  <1>4. BucketOK' /\ Zero'
    BY <1>1, Known, BucketRemoved DEF IInv, Inner
  <1>5. /\ work.key \in Paths /\ objects[work.key] = work.body.kind
        /\ size[work.key] = work.body.bytes /\ work.body.bytes \in Nat /\ work.prior.bytes \in Nat
    BY <1>1, KeyFree, Known DEF IInv, Inner, Handling, Priced, Holding
  <1>6. /\ quota \in Counter /\ Stored \in Sum /\ Held \in Vector /\ Positive(work.delta) \in Sum
        /\ BucketOK
    BY Known
  <1>7. Stored' \in Sum /\ Stored' = Plus(Stored, Minus(Sums({work.key} \cap Present)))
    BY <1>1, <1>5, <1>6, StoredRemoved
  <1>8. /\ Held'.bytes = Positive(work.delta).bytes + work.prior.bytes
        /\ Held'.files = Positive(work.delta).files + 1 /\ Held' \in Vector
    <2>1. Positive(work.delta)' = Positive(work.delta)
      BY <1>3 DEF Positive
    <2>2. Held' = Plus(Positive(work.delta), [bytes |-> work.prior.bytes, files |-> 1])
      BY <1>3, <2>1 DEF Held
    <2> QED BY <1>5, <1>6, <2>2 DEF Plus, Vector, Sum
  <1>9. ASSUME flaw # "uncounted"
        PROVE  /\ quota'.bytes - quota.bytes = Stored'.bytes - Stored.bytes + Held'.bytes - Held.bytes
               /\ quota'.files - quota.files = Stored'.files - Stored.files + Held'.files - Held.files
    <2>1. work.body.kind # "absent"
      <3>1. work.method = "put" \/ Moving
        BY <1>1, Known DEF IInv, Inner, Handling, Stepping, Moving, Work, Idle
      <3> QED BY <1>1, <1>9, <3>1 DEF IInv, Inner, Handling, Stepping, Apart, Holding
    <2>2. {work.key} \cap Present = {work.key}
      BY <1>5, <2>1 DEF Present
    <2>3. Sums({work.key}) = [bytes |-> size[work.key], files |-> 1]
      BY <1>5, <1>6, SumOfOne
    <2>4. Stored'.bytes = Stored.bytes - work.body.bytes /\ Stored'.files = Stored.files - 1
      <3>1. Stored' = Plus(Stored, Minus(Sums({work.key})))
        BY <1>7, <2>2
      <3> QED BY <1>5, <1>6, <2>3, <3>1 DEF Plus, Minus, Sum
    <2>5. Change.bytes = work.body.bytes - work.prior.bytes /\ Change.files = 0
      BY DEF Change
    <2>6. /\ Held.bytes = Positive(work.delta).bytes - Change.bytes
          /\ Held.files = Positive(work.delta).files - Change.files
      <3>1. Held = Plus(Positive(work.delta), Minus(Change))
        BY <1>1 DEF Held
      <3>2. Change \in Vector
        BY Known
      <3> QED BY <1>6, <3>1, <3>2 DEF Plus, Minus, Sum, Vector
    <2>7. /\ Positive(work.delta).bytes \in Int /\ Positive(work.delta).files \in Int
          /\ Stored.bytes \in Int /\ Stored.files \in Int
          /\ quota.bytes \in Int /\ quota.files \in Int
      BY <1>6 DEF Sum, Counter
    <2> QED BY <1>1, <1>5, <1>8, <2>4, <2>5, <2>6, <2>7
  <1>10. Balance'
    BY <1>1, <1>2, <1>6, <1>7, <1>8, <1>9, BalanceKept DEF IInv, Inner
  <1>11. Stepping' /\ BodiesFit' /\ TargetsIn' /\ Returnable'
    <2>1. work.method = "put" \/ Moving
      BY <1>1, Busy DEF Holding
    <2> QED
      BY <1>1, <1>3, <2>1
      DEF IInv, Inner, Handling, Stepping, BodiesFit, TargetsIn, Returnable, Moving, Fixed
  <1>12. Priced'
    <2>1. objects'[work.key] = "absent" /\ size'[work.key] = 0
      BY <1>1, <1>5 DEF Removed
    <2> QED BY <1>1, <1>3, <2>1 DEF IInv, Inner, Handling, Priced, Fixed
  <1>13. Kept'
    <2>1. CASE work.method = "put"
      <3>1. /\ objects = [work.start.objects EXCEPT ![work.key] = work.body.kind]
            /\ size = [work.start.size EXCEPT ![work.key] = work.body.bytes]
            /\ work.prior = [kind |-> work.start.objects[work.key],
                             bytes |-> work.start.size[work.key]]
            /\ work.start.quota \in Counter
            /\ quota = Plus(work.start.quota, Positive(work.delta))
        BY <1>1, <2>1 DEF IInv, Inner, Handling, Kept
      <3>2. /\ work.start.objects \in [Paths -> Kinds]
            /\ work.start.size \in [Paths -> Sizes \cup {0}]
        BY Known DEF Work
      <3>3. /\ objects' = [work.start.objects EXCEPT ![work.key] = "absent"]
            /\ size' = [work.start.size EXCEPT ![work.key] = 0]
        BY <1>1, <1>5, <3>1, <3>2 DEF Removed
      <3>4. Positive(work.delta)' = Positive(work.delta)
        BY <1>3 DEF Positive
      <3> QED BY <1>1, <1>3, <3>1, <3>3, <3>4, Zenon DEF Kept, Fixed
    <2>2. CASE work.method # "put"
      BY <1>3, <2>2 DEF Kept, Fixed
    <2> QED BY <2>1, <2>2
  <1>14. Apart'
    <2>1. SUFFICES ASSUME Moving
                   PROVE  Apart'
      BY <1>3 DEF Apart, Moving, Fixed
    <2>2. Moving /\ Apart /\ ~ IsPrefix(work.source, work.key)
      BY <1>1, <2>1, KeyFree DEF IInv, Inner, Handling, Holding
    <2>3. \A j \in work.jobs : IsPrefix(work.source, j) /\ objects'[j] # "absent"
      BY <1>1, <2>2, JobsStay
    <2>4. work.job # work.key /\ work.job \in Paths
      BY <1>1, <2>2, Known DEF Work, Apart, Holding
    <2>5. objects'[work.job] = objects[work.job] /\ size'[work.job] = size[work.job]
      BY <1>1, <2>4 DEF Removed
    <2> QED BY <1>1, <1>3, <2>2, <2>3, <2>5 DEF Apart, Holding, Moving, Fixed
  <1> QED BY <1>1, <1>2, <1>3, <1>4, <1>10, <1>11, <1>12, <1>13, <1>14, Known, UnitsSame, GoesOn

LEMMA StoreKeeps ==
  ASSUME IInv, NEW r \in Requests, Store(r)
  PROVE  Inner'
  <1> DEFINE w == [work EXCEPT !.step = "audit"]
  <1>1. /\ UNCHANGED <<quota, units, usage>> /\ Wrote(work.key, work.body) /\ work' = w
        /\ work.step = "store"
    BY DEF Store, Runs
  <1>2. /\ Handed
        /\ flaw' = "none" => flaw = "none" /\ work.key # Root
        /\ flaw' # "uncounted" => flaw # "uncounted"
    BY DEF Store, Handed, IInv, Inner, TypeOK
  <1>3. /\ work' \in Work /\ work'.step = "audit" /\ Fixed
        /\ work'.prior = work.prior /\ work'.delta = work.delta /\ Change' = Change
        /\ Delta(work.body, work.prior, Credit(work))' = Delta(work.body, work.prior, Credit(work))
    BY <1>1, StepTaken
  <1>4. /\ work.key \in Paths
        /\ work.method = "put" => work.key # Root
        /\ work.prior = Object(work.key)
    BY <1>1, KeyFree DEF IInv, Inner, Handling, Priced, Holding
  <1>5. /\ quota \in Counter /\ Stored \in Sum /\ Held \in Vector /\ Positive(work.delta) \in Sum
        /\ BucketOK /\ Change \in Vector /\ work.body \in Body /\ work.job \in Paths
    BY Known DEF Work
  <1>6. BucketOK' /\ Zero'
    <2>1. work.body.kind = "absent" => work.body.bytes = 0
      BY DEF IInv, Inner, Handling, BodiesFit
    <2> QED BY <1>1, <1>4, <1>5, <2>1, BucketWrote DEF IInv, Inner
  <1>7. objects'[work.key] = work.body.kind /\ size'[work.key] = work.body.bytes
    BY <1>1, <1>4, <1>5 DEF Wrote, BucketOK
  <1>8. Held = Positive(work.delta) /\ Held' = Plus(Positive(work.delta), Minus(Change))
    <2>1. Positive(work.delta)' = Positive(work.delta)
      BY <1>3 DEF Positive
    <2> QED BY <1>1, <1>3, <2>1 DEF Held
  <1>9. /\ Held' \in Vector
        /\ Held'.bytes - Held.bytes = - Change.bytes /\ Held'.files - Held.files = - Change.files
    BY <1>5, <1>8 DEF Plus, Minus, Vector, Sum
  <1>10. Stored' \in Sum
    BY <1>6, StoredTypedNext
  <1>11. work.body.kind # "absent"
    <2>1. work.method = "put" \/ Moving
      BY <1>1, Busy DEF Holding
    <2> QED BY <1>1, <2>1 DEF IInv, Inner, Handling, Stepping, Apart, Holding
  <1>12. Balance'
    <2>1. work.body.kind \in Kinds \ {"absent"} /\ work.body.bytes \in Sizes \cup {0}
      BY <1>5, <1>11 DEF Body
    <2>2. Stored' = Plus(Stored, [bytes |-> work.body.bytes - size[work.key],
                                  files |-> IF objects[work.key] = "absent" THEN 1 ELSE 0])
      BY <1>1, <1>4, <1>5, <2>1, StoredWrote DEF IInv, Inner
    <2>3. /\ Stored'.bytes = Stored.bytes + work.body.bytes - size[work.key]
          /\ Stored'.files = Stored.files + IF objects[work.key] = "absent" THEN 1 ELSE 0
          /\ size[work.key] \in Nat /\ work.body.bytes \in Nat
          /\ Stored.bytes \in Int /\ Stored.files \in Int
      <3>1. size[work.key] \in Nat /\ work.body.bytes \in Nat
        BY <1>4, <1>5, Known, Sized
      <3> QED BY <1>5, <2>2, <3>1 DEF Plus, Sum
    <2>4. work.key # Root =>
            /\ Change.bytes = work.body.bytes - size[work.key]
            /\ Change.files = IF objects[work.key] = "absent" THEN 1 ELSE 0
      BY <1>4 DEF Change, Object, head
    <2>5. work.key = Root => Change.bytes = work.body.bytes /\ Change.files = 1
      BY <1>4, <2>3 DEF Change, Object, head
    <2>6. /\ Stored'.bytes - Stored.bytes <= Change.bytes
          /\ Stored'.files - Stored.files <= Change.files
          /\ work.key # Root => /\ Stored'.bytes - Stored.bytes = Change.bytes
                                /\ Stored'.files - Stored.files = Change.files
      BY <2>3, <2>4, <2>5
    <2>7. /\ Stored.bytes \in Int /\ Stored.files \in Int /\ Change.bytes \in Int /\ Change.files \in Int
          /\ Stored'.bytes \in Int /\ Stored'.files \in Int
          /\ quota.bytes \in Int /\ quota.files \in Int
          /\ Held.bytes \in Int /\ Held.files \in Int /\ Held'.bytes \in Int /\ Held'.files \in Int
      BY <1>5, <1>9, <1>10 DEF Sum, Vector, Counter
    <2>8. /\ quota'.bytes - quota.bytes >= Stored'.bytes - Stored.bytes + Held'.bytes - Held.bytes
          /\ quota'.files - quota.files >= Stored'.files - Stored.files + Held'.files - Held.files
      BY <1>1, <1>9, <2>6, <2>7
    <2>9. work.key # Root =>
          /\ quota'.bytes - quota.bytes = Stored'.bytes - Stored.bytes + Held'.bytes - Held.bytes
          /\ quota'.files - quota.files = Stored'.files - Stored.files + Held'.files - Held.files
      BY <1>1, <1>9, <2>6, <2>7
    <2> QED BY <1>1, <1>2, <1>5, <1>9, <1>10, <2>8, <2>9, BalanceLoosens DEF IInv, Inner
  <1>13. Stepping' /\ BodiesFit' /\ TargetsIn' /\ Returnable'
    <2>1. work.method = "put" \/ Moving
      BY <1>1, Busy DEF Holding
    <2> QED
      BY <1>1, <1>3, <2>1
      DEF IInv, Inner, Handling, Stepping, BodiesFit, TargetsIn, Returnable, Moving, Fixed
  <1>14. Priced'
    BY <1>1, <1>3, <1>7 DEF IInv, Inner, Handling, Priced, Fixed
  <1>15. Kept'
    <2>1. CASE work.method = "put"
      <3>1. /\ work.start.objects = objects /\ work.start.size = size
            /\ work.start.quota \in Counter
            /\ quota = Plus(work.start.quota, Positive(work.delta))
        BY <1>1, <2>1 DEF IInv, Inner, Handling, Kept
      <3>2. /\ objects' = [work.start.objects EXCEPT ![work.key] = work.body.kind]
            /\ size' = [work.start.size EXCEPT ![work.key] = work.body.bytes]
        BY <1>1, <3>1 DEF Wrote
      <3>3. work.prior = [kind |-> work.start.objects[work.key],
                          bytes |-> work.start.size[work.key]]
        BY <1>4, <2>1, <3>1 DEF Object, head
      <3>4. Positive(work.delta)' = Positive(work.delta)
        BY <1>3 DEF Positive
      <3> QED BY <1>1, <1>3, <3>1, <3>2, <3>3, <3>4, Zenon DEF Kept, Fixed
    <2>2. CASE work.method # "put"
      BY <1>3, <2>2 DEF Kept, Fixed
    <2> QED BY <2>1, <2>2
  <1>16. Apart'
    <2>1. SUFFICES ASSUME Moving
                   PROVE  Apart'
      BY <1>3 DEF Apart, Moving, Fixed
    <2>2. Moving /\ Apart /\ ~ IsPrefix(work.source, work.key)
      BY <1>1, <2>1, KeyFree DEF IInv, Inner, Handling, Holding
    <2>3. work.jobs \subseteq Paths
      BY Known DEF Work
    <2>4. \A j \in work.jobs : objects'[j] # "absent"
      BY <1>1, <1>5, <2>2, <2>3 DEF Wrote, BucketOK, Apart
    <2>5. objects'[work.job] = objects[work.job] /\ size'[work.job] = size[work.job]
      BY <1>1, <1>5, <2>2 DEF Wrote, BucketOK, Apart, Holding
    <2> QED BY <1>1, <1>3, <2>2, <2>4, <2>5 DEF Apart, Holding, Moving, Fixed
  <1> QED BY <1>1, <1>2, <1>3, <1>6, <1>12, <1>13, <1>14, <1>15, <1>16, Known, UnitsSame, GoesOnTo

LEMMA ReserveKeeps ==
  ASSUME IInv, NEW r \in Requests, Reserve(r)
  PROVE  Inner'
  <1> DEFINE prior == Object(work.key)
             delta == Delta(work.body, prior, Credit(work))
             taken == Positive(delta)
             w == [work EXCEPT !.step = "store", !.prior = prior, !.delta = delta]
  <1>1. UNCHANGED <<objects, size, units, usage>> /\ work.step = "reserve" /\ Runs(r, "reserve")
    BY DEF Reserve, Runs
  <1>2. CASE ~ (Fits(quota, taken) \/ taken = None)
    <2>1. quota' = quota /\ Finish(r, Ended(work))
      BY <1>2 DEF Reserve
    <2>2. Ended(work) \in {"none", "done", "refused", "no units", "partial", "failed"}
      BY DEF Ended
    <2>3. Handed /\ work' = Idle /\ flaw' = flaw
      BY <1>1, <2>1, <2>2, Known, Finished DEF IInv, Inner
    <2> QED BY <1>1, <2>1, <2>3, UnitsSame, GivesUp
  <1>3. CASE Fits(quota, taken) \/ taken = None
    <2>1. quota' = Plus(quota, taken) /\ Continue(w)
      BY <1>3 DEF Reserve
    <2>2. work' = w /\ flaw' = flaw
      BY <2>1 DEF Continue
    <2>4. /\ prior \in Body /\ (prior.kind = "absent" => prior.bytes = 0) /\ prior.bytes \in Nat
          /\ work.key = Root => prior.kind = "absent"
      <3>1. work.key \in Paths
        BY <1>1, KeyFree DEF Holding
      <3>2. BucketOK /\ Zero
        BY Known DEF IInv, Inner
      <3>3. prior \in Body /\ (prior.kind = "absent" => prior.bytes = 0)
        BY <3>1, <3>2 DEF BucketOK, Zero, Object, head, Body, Kinds
      <3>4. work.key = Root => prior.kind = "absent"
        BY DEF Object, head
      <3> QED BY <3>3, <3>4, Bounds DEF Body
    <2>5. delta \in Vector
      BY <2>4, Known DEF Delta, Vector, Sum
    <2>6. taken \in Sum
      BY <2>5, PositiveTyped
    <2> HIDE DEF prior, delta, taken
    <2>8. /\ work' \in Work /\ w \in Work /\ work'.step = "store" /\ Fixed
          /\ work'.prior = prior /\ work'.delta = delta
      BY <2>2, <2>4, <2>5, Known DEF Work, Fixed, Vector
    <2>9. quota' \in Counter
      <3>1. quota \in Counter
        BY Known
      <3>2. CASE Fits(quota, taken)
        BY <2>1, <2>6, <3>1, <3>2 DEF Fits, Plus, Counter, Sum
      <3>3. CASE taken = None
        BY <2>1, <3>1, <3>3 DEF Plus, Counter, None
      <3> QED BY <1>3, <3>2, <3>3
    <2>10. BucketOK' /\ Zero' /\ Stored' = Stored
      BY <1>1, Known, BucketSame DEF IInv, Inner
    <2>11. Held = None /\ Held' = taken
      <3>1. Positive(work.delta)' = taken
        BY <2>8 DEF taken, Positive
      <3> QED BY <1>1, <2>8, <3>1 DEF Held
    <2>12. Balance'
      <3>1. /\ quota \in Counter /\ Stored \in Sum /\ Held \in Vector /\ Held' \in Vector
        BY <2>6, <2>11, Known, CounterIsSum
      <3>2. /\ quota'.bytes = quota.bytes + taken.bytes /\ quota'.files = quota.files + taken.files
        BY <2>1 DEF Plus
      <3>3. /\ quota.bytes \in Int /\ quota.files \in Int /\ Stored.bytes \in Int
            /\ Stored.files \in Int /\ taken.bytes \in Int /\ taken.files \in Int
        BY <2>6, <3>1 DEF Counter, Sum
      <3>4. /\ quota'.bytes - quota.bytes = Stored'.bytes - Stored.bytes + Held'.bytes - Held.bytes
            /\ quota'.files - quota.files = Stored'.files - Stored.files + Held'.files - Held.files
        BY <2>10, <2>11, <3>2, <3>3, NoneHeld
      <3> QED BY <2>2, <2>9, <2>10, <3>1, <3>4, BalanceKept DEF IInv, Inner
    <2>13. Stepping' /\ BodiesFit' /\ TargetsIn' /\ Returnable'
      <3>1. work.method = "put" \/ Moving
        BY <1>1, Busy DEF Holding
      <3> QED
        BY <1>1, <2>4, <2>8, <3>1
        DEF IInv, Inner, Handling, Stepping, BodiesFit, TargetsIn, Returnable, Moving, Fixed
    <2>14. Priced'
      <3>1. Credit(work)' = Credit(work)
        BY <2>8 DEF Credit, Fixed
      <3>2. Delta(work.body, work.prior, Credit(work))' = delta
        BY <2>8, <3>1 DEF delta, Delta, Fixed
      <3>3. Object(work.key)' = prior
        BY <1>1, <2>8 DEF prior, Object, head, Fixed
      <3> QED BY <2>8, <3>2, <3>3 DEF Priced
    <2>15. Kept'
      <3>1. CASE work.method = "put"
        <4>1. work.start = Snapshot /\ work.start.quota \in Counter
          BY <1>1, <3>1 DEF IInv, Inner, Handling, Kept
        <4>2. work.start.objects = objects /\ work.start.size = size /\ work.start.quota = quota
          BY <4>1 DEF Snapshot
        <4>3. Positive(work.delta)' = taken
          BY <2>8 DEF taken, Positive
        <4> QED BY <1>1, <2>1, <2>8, <4>1, <4>2, <4>3, Zenon DEF Kept, Fixed
      <3>2. CASE work.method # "put"
        BY <2>8, <3>2 DEF Kept, Fixed
      <3> QED BY <3>1, <3>2
    <2>16. Apart'
      BY <1>1, <2>8 DEF IInv, Inner, Handling, Apart, Moving, Holding, Fixed
    <2> QED BY <1>1, <2>1, <2>8, <2>9, <2>10, <2>12, <2>13, <2>14, <2>15, <2>16, UnitsSame, GoesOn
  <1> QED BY <1>2, <1>3

-----------------------------------------------------------------------------
(* Handlers before they take anything *)

LEMMA CountedTyped ==
  ASSUME BucketOK, NEW keys \in SUBSET Paths
  PROVE  Counted(keys) \in Sum
  <1>1. {k \in keys : head(k) # "absent"} \in SUBSET Paths
    OBVIOUS
  <1> QED BY <1>1, SumsTyped DEF Counted

LEMMA TreeTyped ==
  ASSUME NEW p \in Paths
  PROVE  /\ Tree(p) \in SUBSET Paths /\ p \in Tree(p)
         /\ \A k \in Tree(p) : IsPrefix(p, k)
  <1>1. \A k \in Beneath(p) : k \in Paths /\ IsPrefix(p, k)
    BY DEF Beneath, IsStrictPrefix
  <1>2. IsPrefix(p, p)
    BY Rooted
  <1> QED BY <1>1, <1>2 DEF Tree

LEMMA CountDeleteKeeps ==
  ASSUME IInv, NEW r \in Requests, CountDelete(r)
  PROVE  Inner'
  <1> DEFINE gone == Counted(work.keys)
             w == [work EXCEPT !.step = "delete", !.gone = gone]
  <1>1. UNCHANGED <<objects, size, units, usage>> /\ work.step = "count" /\ Runs(r, "count")
    BY DEF CountDelete, Runs
  <1>2. CASE ~ Fits(quota, Minus(gone))
    <2>1. quota' = quota /\ Finish(r, "refused")
      BY <1>2 DEF CountDelete
    <2>2. Handed /\ work' = Idle /\ flaw' = flaw
      BY <1>1, <2>1, Known, Finished DEF IInv, Inner
    <2> QED BY <1>1, <2>1, <2>2, UnitsSame, GivesUp
  <1>3. CASE Fits(quota, Minus(gone))
    <2>1. quota' = Plus(quota, Minus(gone)) /\ Continue(w)
      BY <1>3 DEF CountDelete
    <2>2. work' = w /\ flaw' = flaw
      BY <2>1 DEF Continue
    <2>3. gone \in Sum
      BY Known, CountedTyped DEF Work
    <2>4. Counted(work.keys)' = Counted(work'.keys)
      BY <1>1 DEF Counted, Sums, Bytes, head
    <2>5. gone = Counted(work.keys)
      OBVIOUS
    <2> HIDE DEF gone
    <2>6. /\ work' \in Work /\ w \in Work /\ work'.step = "delete" /\ Fixed
          /\ work'.prior = work.prior /\ work'.gone = gone /\ work'.keys = work.keys
      BY <2>2, <2>3, Known DEF Work, Fixed, Sum
    <2>7. quota \in Counter /\ Stored \in Sum /\ Held \in Vector
      BY Known
    <2>8. /\ quota'.bytes = quota.bytes - gone.bytes /\ quota'.files = quota.files - gone.files
          /\ quota' \in Counter
      <3>1. Fits(quota, Minus(gone))
        BY <1>3 DEF gone
      <3> QED BY <2>1, <2>3, <2>7, <3>1 DEF Fits, Plus, Minus, Counter, Sum
    <2>9. BucketOK' /\ Zero' /\ Stored' = Stored
      BY <1>1, Known, BucketSame DEF IInv, Inner
    <2>10. Held = None /\ Held' = Minus(gone)
      BY <1>1, <2>6, HeldNone DEF Held
    <2>11. Balance'
      <3>1. Held' \in Vector /\ Held'.bytes = - gone.bytes /\ Held'.files = - gone.files
        BY <2>3, <2>10 DEF Minus, Sum, Vector
      <3>2. /\ quota.bytes \in Int /\ quota.files \in Int /\ Stored.bytes \in Int
            /\ Stored.files \in Int /\ gone.bytes \in Int /\ gone.files \in Int
        BY <2>3, <2>7 DEF Counter, Sum
      <3>3. /\ quota'.bytes - quota.bytes = Stored'.bytes - Stored.bytes + Held'.bytes - Held.bytes
            /\ quota'.files - quota.files = Stored'.files - Stored.files + Held'.files - Held.files
        BY <2>8, <2>9, <2>10, <3>1, <3>2, NoneHeld
      <3> QED BY <2>2, <2>7, <2>8, <2>9, <3>1, <3>3, BalanceKept DEF IInv, Inner
    <2>12. Returnable'
      <3>1. Plus(quota', gone) \in Counter
        BY <2>3, <2>7, <2>8 DEF Plus, Counter, Sum
      <3>2. Counted(work.keys)' = gone
        BY <2>4, <2>5, <2>6
      <3> QED BY <2>6, <3>1, <3>2 DEF Returnable
    <2>13. Stepping' /\ BodiesFit' /\ TargetsIn' /\ Priced' /\ Kept'
      <3>1. work.method = "delete" \/ Moving
        BY <1>1, Known DEF IInv, Inner, Handling, Stepping, Moving, Work, Idle
      <3> QED
        BY <1>1, <2>6, <3>1
        DEF IInv, Inner, Handling, Stepping, BodiesFit, TargetsIn, Priced, Kept, Moving, Fixed
    <2>14. Apart'
      BY <1>1, <2>6 DEF IInv, Inner, Handling, Apart, Moving, Holding, Fixed
    <2> QED BY <1>1, <2>1, <2>6, <2>8, <2>9, <2>11, <2>12, <2>13, <2>14, UnitsSame, GoesOn
  <1> QED BY <1>2, <1>3

\* Handlers that only turn to their next step.
LEMMA Turns ==
  ASSUME IInv, NEW w, Continue(w), w \in Work,
         UNCHANGED <<objects, size, quota, usage>>, units' \in 0..MaxUnits,
         work.step \in {"idle", "charge", "next"},
         w.step \in {"charge", "next", "count", "reserve"},
         Stepping', TargetsIn', BodiesFit', Kept', Apart'
  PROVE  Inner'
  <1>1. work' = w /\ flaw' = flaw
    BY DEF Continue
  <1>2. BucketOK' /\ Zero' /\ Stored' = Stored
    BY Known, BucketSame DEF IInv, Inner
  <1>3. Held = None /\ Held' = None
    BY <1>1, HeldNone DEF Held
  <1>4. Balance'
    BY <1>1, <1>2, <1>3 DEF IInv, Inner, Balance
  <1>5. Priced' /\ Returnable'
    BY <1>1 DEF Priced, Returnable
  <1> QED BY <1>2, <1>4, <1>5, Known, GoesOn

LEMMA LoadKeeps ==
  ASSUME IInv, NEW r \in Requests, NEW j \in Paths, Load(r, j)
  PROVE  Inner'
  <1> DEFINE key == Target(j, work.source, work.destination)
             body == [kind |-> objects[j], bytes |-> size[j]]
             w == [work EXCEPT !.step = "reserve", !.job = j, !.jobs = @ \ {j},
                               !.key = key, !.body = body]
  <1>1. /\ UNCHANGED <<objects, size, quota, units, usage>> /\ work.step = "next"
        /\ Runs(r, "next") /\ j \in work.jobs
    BY DEF Load, Runs
  <1>2. CASE work.destination = Root /\ j # work.source
    <2>1. Finish(r, "partial")
      BY <1>2 DEF Load
    <2>2. Handed /\ work' = Idle /\ flaw' = flaw
      BY <1>1, <2>1, Known, Finished DEF IInv, Inner
    <2> QED BY <1>1, <2>2, UnitsSame, GivesUp
  <1>3. CASE ~ (work.destination = Root /\ j # work.source)
    <2>1. Continue(w)
      BY <1>3 DEF Load
    <2>2. work' = w
      BY <2>1 DEF Continue
    <2>3. Moving
      BY <1>1, Known DEF IInv, Inner, Handling, Stepping, Moving, Work, Idle
    <2>4. /\ work.source \in Paths /\ work.destination \in Paths /\ work.jobs \in SUBSET Paths
          /\ work.prior \in Body
      BY Known DEF Work
    <2>5. key \in Paths /\ IsPrefix(work.destination, key)
      <3>1. IsPrefix(work.destination, key) /\ Target(work.source, work.source, Root) = Root
        BY <2>4, TargetBelow
      <3>2. CASE work.destination = Root
        BY <1>3, <3>1, <3>2, Bounds
      <3>3. CASE work.destination # Root
        BY <1>1, <2>3, <3>3, <3>1 DEF IInv, Inner, Handling, TargetsIn
      <3> QED BY <3>2, <3>3
    <2>6. body \in Body /\ (body.kind = "absent" => body.bytes = 0)
      BY Known DEF BucketOK, Body, IInv, Inner, Zero
    <2> HIDE DEF key
    <2>7. /\ work' \in Work /\ w \in Work /\ work'.step = "reserve" /\ work'.method = work.method
          /\ work'.source = work.source /\ work'.destination = work.destination
          /\ work'.jobs = work.jobs \ {j} /\ work'.job = j /\ work'.key = key /\ work'.body = body
          /\ work'.prior = work.prior
      <3> HIDE DEF body
      <3> QED BY <2>2, <2>4, <2>5, <2>6, Known DEF Work
    <2>8. Stepping' /\ TargetsIn' /\ BodiesFit' /\ Kept'
      BY <2>3, <2>6, <2>7
      DEF IInv, Inner, Handling, Stepping, TargetsIn, BodiesFit, Kept, Moving
    <2>9. Apart'
      <3>1. Apart /\ Moving
        BY <2>3 DEF IInv, Inner, Handling
      <3>2. work.destination = Root => key = Root
        <4>1. Target(work.source, work.source, Root) = Root
          BY <2>4, TargetBelow
        <4> QED BY <1>3, <4>1 DEF key
      <3> QED BY <1>1, <2>5, <2>7, <3>1, <3>2 DEF Apart, Holding, Moving
    <2>10. w.step = "reserve"
      BY <2>2, <2>7
    <2> QED BY <1>1, <2>1, <2>7, <2>8, <2>9, <2>10, UnitsSame, Turns
  <1> QED BY <1>2, <1>3

LEMMA ChargeKeeps ==
  ASSUME IInv, NEW r \in Requests, Charge(r)
  PROVE  Inner'
  <1> DEFINE due == units + Cardinality(work.jobs) - 1
  <1>1. /\ UNCHANGED <<objects, size, quota, usage>> /\ work.step = "charge" /\ Runs(r, "charge")
    BY DEF Charge, Runs
  <1>2. CASE ~ (due <= MaxUnits)
    <2>1. Finish(r, "no units") /\ units' = units
      BY <1>2 DEF Charge
    <2>2. Handed /\ work' = Idle /\ flaw' = flaw
      BY <1>1, <2>1, Known, Finished DEF IInv, Inner
    <2> QED BY <1>1, <2>1, <2>2, UnitsSame, GivesUp
  <1>3. CASE due <= MaxUnits
    <2> DEFINE w == IF head(work.destination) = "absent" THEN [work EXCEPT !.step = "next"]
                    ELSE [work EXCEPT !.step = "count", !.keys = Tree(work.destination)]
    <2>1. Continue(w) /\ units' = due
      BY <1>3 DEF Charge
    <2>2. work' = w
      BY <2>1 DEF Continue
    <2>3. Moving /\ work.jobs # {}
      BY <1>1, Known DEF IInv, Inner, Handling, Stepping, Moving, Work, Idle
    <2>4. units' \in 0..MaxUnits
      <3>1. IsFiniteSet(work.jobs)
        BY Known, Bounds, FS_Subset DEF Work
      <3>2. Cardinality(work.jobs) \in Nat /\ Cardinality(work.jobs) # 0
        BY <2>3, <3>1, FS_CardinalityType, FS_EmptySet
      <3>3. units \in 0..MaxUnits
        BY UnitsSame
      <3> QED BY <1>3, <2>1, <3>2, <3>3, Bounds
    <2>5. Tree(work.destination) \in SUBSET Paths
          /\ \A k \in Tree(work.destination) : IsPrefix(work.destination, k)
      BY Known, TreeTyped DEF Work
    <2>6. /\ work' \in Work /\ w \in Work /\ work'.step \in {"next", "count"} /\ Fixed
          /\ work'.prior = work.prior
          /\ work'.step = "count" => work'.keys = Tree(work.destination)
      BY <2>2, <2>5, Known DEF Work, Fixed
    <2>7. Stepping' /\ TargetsIn' /\ BodiesFit' /\ Kept'
      BY <2>3, <2>6
      DEF IInv, Inner, Handling, Stepping, TargetsIn, BodiesFit, Kept, Moving, Fixed
    <2>8. Apart'
      <3>1. work'.step = "count" => work.destination # Root
        BY <2>2, <2>6, Known DEF Work, head
      <3> QED
        BY <1>1, <2>3, <2>5, <2>6, <3>1 DEF IInv, Inner, Handling, Apart, Moving, Holding, Fixed
    <2>9. w.step \in {"next", "count"}
      BY <2>2, <2>6
    <2> QED BY <1>1, <2>1, <2>4, <2>6, <2>7, <2>8, <2>9, Turns
  <1> QED BY <1>2, <1>3

\* A handler begins with what it found, and nothing else.
LEMMA BegunTyped ==
  ASSUME IInv
  PROVE  /\ Begun \in Work /\ Begun.start = Snapshot /\ Begun.jobs = {}
         /\ Begun.prior.kind = "absent" /\ Begun.prior.bytes = 0
         /\ Begun.body.kind = "absent" /\ Begun.body.bytes = 0
         /\ Snapshot.quota \in Counter
  <1>1. Snapshot \in [objects : [Paths -> Kinds], size : [Paths -> Sizes \cup {0}],
                      quota : [bytes : Nat, files : Nat]]
    BY Known DEF Snapshot, BucketOK, Sum
  <1>2. Begun \in Work
    BY <1>1, IdleTyped DEF Begun, Work
  <1>3. /\ Begun.start = Snapshot /\ Begun.jobs = {}
        /\ Begun.prior.kind = "absent" /\ Begun.prior.bytes = 0
        /\ Begun.body.kind = "absent" /\ Begun.body.bytes = 0
    BY DEF Begun, Idle
  <1> QED BY <1>2, <1>3, Known DEF Snapshot

LEMMA BeginPutKeeps ==
  ASSUME IInv, work.step = "idle", NEW p \in Paths, NEW body \in Body, body.kind # "absent",
         BeginPut(p, body)
  PROVE  Inner'
  <1> DEFINE w == [Begun EXCEPT !.step = "reserve", !.method = "put", !.job = p, !.key = p,
                                !.body = body]
  <1>1. UNCHANGED <<objects, size, quota, units, usage>> /\ Continue(w) /\ p # Root
    BY DEF BeginPut, Puttable
  <1>2. work' = w
    BY <1>1 DEF Continue
  <1>3. /\ w \in Work /\ w.step = "reserve" /\ w.method = "put" /\ w.key = p /\ w.body = body
        /\ w.start = Snapshot /\ w.jobs = {} /\ w.prior.bytes = 0
    <2>1. /\ Begun \in Work /\ Begun.start = Snapshot /\ Begun.jobs = {} /\ Begun.prior.bytes = 0
      BY BegunTyped
    <2> QED BY <2>1 DEF Work
  <1> HIDE DEF w
  <1>4. Stepping' /\ TargetsIn' /\ BodiesFit' /\ Apart'
    BY <1>1, <1>2, <1>3 DEF Stepping, TargetsIn, BodiesFit, Apart, Moving
  <1>5. Kept'
    <2>1. Snapshot' = Snapshot
      BY <1>1 DEF Snapshot
    <2> QED BY <1>2, <1>3, <2>1, BegunTyped DEF Kept
  <1> QED BY <1>1, <1>3, <1>4, <1>5, UnitsSame, Turns

LEMMA BeginDeleteKeeps ==
  ASSUME IInv, work.step = "idle", NEW p \in Paths, BeginDelete(p)
  PROVE  Inner'
  <1> DEFINE keys == IF p = Root THEN {k \in Paths : objects[k] # "absent"} ELSE Tree(p)
             w == [Begun EXCEPT !.step = "count", !.method = "delete", !.keys = keys]
  <1>1. UNCHANGED <<objects, size, quota, units, usage>> /\ Continue(w)
    BY DEF BeginDelete
  <1>2. work' = w
    BY <1>1 DEF Continue
  <1>3. keys \in SUBSET Paths
    BY TreeTyped
  <1> HIDE DEF keys
  <1>4. /\ w \in Work /\ w.step = "count" /\ w.method = "delete" /\ w.jobs = {}
        /\ w.body.bytes = 0 /\ w.prior.bytes = 0
    <2>1. /\ Begun \in Work /\ Begun.jobs = {} /\ Begun.prior.bytes = 0 /\ Begun.body.bytes = 0
      BY BegunTyped
    <2> QED BY <1>3, <2>1 DEF Work
  <1> HIDE DEF w
  <1>5. Stepping' /\ TargetsIn' /\ BodiesFit' /\ Apart' /\ Kept'
    BY <1>2, <1>4 DEF Stepping, TargetsIn, BodiesFit, Apart, Kept, Moving
  <1> QED BY <1>1, <1>4, <1>5, UnitsSame, Turns

LEMMA BeginTransferKeeps ==
  ASSUME IInv, work.step = "idle", NEW source \in Paths, NEW destination \in Destinations,
         NEW move \in BOOLEAN, NEW jobs \in {Tree(source), {source}},
         BeginTransfer(source, destination, move, jobs)
  PROVE  Inner'
  <1> DEFINE method == IF move THEN "move" ELSE "copy"
             w == [Begun EXCEPT !.step = "charge", !.method = method, !.source = source,
                                !.destination = destination, !.jobs = jobs]
  <1>1. /\ UNCHANGED <<objects, size, quota, units, usage>> /\ Continue(w)
        /\ Transferable(source, destination)
        /\ destination # Root => \A j \in jobs : Target(j, source, destination) \in Paths
    BY DEF BeginTransfer
  <1>2. work' = w
    BY <1>1 DEF Continue
  <1>3. /\ jobs \in SUBSET Paths /\ jobs # {} /\ destination \in Paths
        /\ \A j \in jobs : IsPrefix(source, j)
    <2>1. Tree(source) \in SUBSET Paths /\ source \in Tree(source)
          /\ \A k \in Tree(source) : IsPrefix(source, k)
      BY TreeTyped
    <2>2. IsPrefix(source, source)
      BY Rooted
    <2> QED BY <2>1, <2>2, Bounds
  <1>4. \A j \in jobs : objects[j] # "absent"
    <2>1. head(source) # "absent" /\ source # Root
      BY <1>1 DEF Transferable
    <2>2. objects[source] # "absent"
      BY <2>1 DEF head
    <2> QED BY <2>2 DEF Tree, Beneath
  <1>5. method \in {"move", "copy"}
    OBVIOUS
  <1> HIDE DEF method
  <1>6. /\ w \in Work /\ w.step = "charge" /\ w.method = method /\ w.source = source
        /\ w.destination = destination /\ w.jobs = jobs /\ w.start = Snapshot
        /\ w.body.bytes = 0 /\ w.prior.bytes = 0
    <2>1. /\ Begun \in Work /\ Begun.start = Snapshot
          /\ Begun.prior.bytes = 0 /\ Begun.body.bytes = 0
      BY BegunTyped
    <2> QED BY <1>3, <1>5, <2>1 DEF Work
  <1> HIDE DEF w
  <1>7. Stepping' /\ TargetsIn' /\ BodiesFit'
    BY <1>1, <1>2, <1>3, <1>5, <1>6 DEF Stepping, TargetsIn, BodiesFit, Moving
  <1>8. Kept'
    <2>1. Snapshot' = Snapshot
      BY <1>1 DEF Snapshot
    <2> QED BY <1>2, <1>5, <1>6, <2>1 DEF Kept
  <1>9. Apart'
    <2>1. /\ source # Root /\ ~ IsPrefix(source, destination)
          /\ destination = Root \/ ~ IsPrefix(destination, source)
      BY <1>1 DEF Transferable
    <2> QED BY <1>1, <1>2, <1>3, <1>4, <1>6, <2>1 DEF Apart, Holding
  <1> QED BY <1>1, <1>6, <1>7, <1>8, <1>9, UnitsSame, Turns

-----------------------------------------------------------------------------
(* Every step *)

LEMMA StartKeeps ==
  ASSUME IInv, NEW r \in Requests, Start(r)
  PROVE  Inner'
  <1>1. Runs(r, "idle") /\ work.step = "idle"
    BY DEF Start, Runs
  <1>2. CASE Refuse(r)
    BY <1>1, <1>2, RefuseKeeps
  <1>3. ASSUME NEW p \in Paths, NEW kind \in {"file", "collection"}, NEW bytes \in Sizes \cup {0},
               BeginPut(p, [kind |-> kind, bytes |-> bytes])
        PROVE  Inner'
    <2>1. [kind |-> kind, bytes |-> bytes] \in Body
      BY DEF Body, Kinds
    <2> QED BY <1>1, <1>3, <2>1, BeginPutKeeps
  <1>4. ASSUME NEW p \in Paths, BeginDelete(p)
        PROVE  Inner'
    BY <1>1, <1>4, BeginDeleteKeeps
  <1>5. ASSUME NEW source \in Paths, NEW destination \in Destinations, NEW move \in BOOLEAN,
               NEW jobs \in {Tree(source), {source}},
               BeginTransfer(source, destination, move, jobs)
        PROVE  Inner'
    BY <1>1, <1>5, BeginTransferKeeps
  <1> QED BY <1>2, <1>3, <1>4, <1>5, Zenon DEF Start

LEMMA ProceedKeeps ==
  ASSUME IInv, NEW r \in Requests, Proceed(r)
  PROVE  Inner'
  <1>1. CASE Charge(r) \/ CountDelete(r) \/ Delete(r) \/ DeleteFails(r)
    BY <1>1, ChargeKeeps, CountDeleteKeeps, DeleteKeeps, DeleteFailsKeeps
  <1>2. CASE \E j \in Paths : Load(r, j)
    BY <1>2, LoadKeeps
  <1>3. CASE RefuseContent(r) \/ Reserve(r)
    BY <1>3, RefuseContentKeeps, ReserveKeeps
  <1>4. CASE Store(r) \/ StoreRefused(r) \/ StoreFails(r)
    BY <1>4, StoreKeeps, StoreRefusedKeeps, StoreFailsKeeps
  <1>5. CASE Audit(r) \/ AuditFails(r)
    BY <1>5, AuditKeeps, AuditFailsKeeps
  <1>6. CASE Undo(r) \/ Restore(r) \/ CompensationFails(r)
    BY <1>6, UndoEndsKeeps, UndoGoesOnKeeps, RestoreKeeps, CompensationFailsKeeps
  <1>7. CASE Drop(r) \/ DropFails(r)
    BY <1>7, DropKeeps, CompensationFailsKeeps
  <1> QED BY <1>1, <1>2, <1>3, <1>4, <1>5, <1>6, <1>7, Zenon DEF Proceed

LEMMA NextInner ==
  ASSUME IInv, [Next]_vars
  PROVE  Inner'
  <1>1. CASE UNCHANGED vars
    <2>1. UNCHANGED <<objects, size, quota, work, flaw>> /\ Handed
          /\ usage' \in Counter /\ units' \in 0..MaxUnits
      BY <1>1 DEF vars, IInv, Inner, TypeOK, Handed
    <2> QED BY <2>1, HandlerSame
  <1>2. ASSUME NEW r \in Requests,
               Mutate(r) \/ Read(r) \/ ReadDone(r) \/ Report(r) \/ Step(r)
        PROVE  Inner'
    BY <1>2, EnterKeeps, ReadDoneKeeps, ReportKeeps, StartKeeps, ProceedKeeps, Zenon DEF Step
  <1>3. CASE Crash
    BY <1>3, CrashKeeps
  <1> QED BY <1>1, <1>2, <1>3 DEF Next

\* Only a put writes, and one at the root is a flaw; an undo there restores nothing.
LEMMA RootKept ==
  ASSUME IInv, [Next]_vars
  PROVE  RootFree'
  <1> SUFFICES ASSUME flaw' = "none"
               PROVE  objects'[Root] = "absent"
    BY DEF RootFree
  <1>1. flaw = "none" => objects[Root] = "absent"
    BY DEF IInv, RootFree
  <1>2. CASE UNCHANGED vars
    BY <1>1, <1>2 DEF vars
  <1>3. ASSUME NEW r \in Requests, Mutate(r) \/ Read(r) \/ ReadDone(r) \/ Report(r)
        PROVE  objects'[Root] = "absent"
    BY <1>1, <1>3 DEF Mutate, Read, Enter, ReadDone, Report
  <1>4. ASSUME NEW r \in Requests, Start(r)
        PROVE  objects'[Root] = "absent"
    BY <1>1, <1>4 DEF Start, Refuse, Finish, BeginPut, BeginDelete, BeginTransfer, Continue
  <1>5. ASSUME NEW r \in Requests, Proceed(r)
        PROVE  objects'[Root] = "absent"
    <2>1. ASSUME flaw = "none", NEW keys, Removed(keys)
          PROVE  objects'[Root] = "absent"
      BY <1>1, <2>1, Bounds DEF Removed
    <2>2. ASSUME NextJob(r, work)
          PROVE  flaw = "none"
      BY <2>2 DEF NextJob, Finish, Continue
    <2>3. ASSUME flaw = "none", NEW p \in Paths \ {Root}, NEW b, Wrote(p, b)
          PROVE  objects'[Root] = "absent"
      BY <1>1, <2>3, Known DEF Wrote, BucketOK
    <2>4. CASE Charge(r)
      BY <1>1, <2>4 DEF Charge, Continue, Finish
    <2>5. CASE CountDelete(r) \/ DeleteFails(r)
      BY <1>1, <2>5 DEF CountDelete, DeleteFails, Continue, Finish, Throw
    <2>6. CASE \E j \in Paths : Load(r, j)
      BY <1>1, <2>6 DEF Load, Continue, Finish
    <2>7. CASE Delete(r) \/ Drop(r)
      BY <2>1, <2>2, <2>7 DEF Delete, Drop
    <2>8. CASE RefuseContent(r) \/ Reserve(r)
      BY <1>1, <2>8 DEF RefuseContent, Reserve, Continue, Finish
    <2>9. CASE Store(r)
      <3>1. flaw = "none" /\ work.key # Root /\ Wrote(work.key, work.body) /\ work.key \in Paths
        BY <2>9, Known DEF Store, Work
      <3> QED BY <2>3, <3>1
    <2>10. CASE StoreRefused(r) \/ StoreFails(r)
      BY <1>1, <2>10 DEF StoreRefused, StoreFails, Finish, Throw
    <2>11. CASE Audit(r)
      <3>1. flaw = "none"
        BY <2>2, <2>11 DEF Audit, Continue
      <3> QED BY <1>1, <2>11, <3>1 DEF Audit
    <2>12. CASE AuditFails(r)
      BY <1>1, <2>12 DEF AuditFails, Continue
    <2>13. CASE Undo(r)
      <3>1. flaw = "none"
        BY <2>13 DEF Undo, Continue, Throw
      <3> QED BY <2>1, <2>13, <3>1 DEF Undo
    <2>14. CASE Restore(r)
      <3>1. flaw = "none" /\ Wrote(work.key, work.prior) /\ work.key \in Paths
        BY <2>14, Known DEF Restore, Throw, Work
      <3>2. work.key # Root
        BY <2>14 DEF Restore, Runs, IInv, Inner, Handling, BodiesFit, Priced
      <3> QED BY <2>3, <3>1, <3>2
    <2>15. CASE CompensationFails(r) \/ DropFails(r)
      <3>1. flaw = "none" /\ objects' = objects
        BY <2>15 DEF CompensationFails, DropFails, Throw, Abandoned, IInv, Inner, TypeOK
      <3> QED BY <1>1, <3>1
    <2> QED BY <1>5, <2>4, <2>5, <2>6, <2>7, <2>8, <2>9, <2>10, <2>11, <2>12, <2>13, <2>14,
               <2>15, Zenon DEF Proceed
  <1>6. CASE Crash
    <2>1. flaw = "none" /\ objects' = objects
      BY <1>6 DEF Crash, Abandoned, IInv, Inner, TypeOK
    <2> QED BY <1>1, <2>1
  <1> QED BY <1>2, <1>3, <1>4, <1>5, <1>6, Zenon DEF Next, Step

LEMMA NextIInv ==
  ASSUME IInv, [Next]_vars
  PROVE  IInv'
  BY NextInner, RootKept DEF IInv

LEMMA InitIInv == Init => IInv
  <1> SUFFICES ASSUME Init
               PROVE  IInv
    OBVIOUS
  <1>1. BucketOK /\ Zero
    BY DEF Init, BucketOK, Zero
  <1>2. objects[Root] = "absent"
    BY DEF Init
  <1>3. work = Idle /\ quota = Stored /\ Stored \in Counter /\ flaw = "none"
    BY DEF Init
  <1>4. TypeOK
    <2>1. tail \in Seq(Requests) /\ units \in 0..MaxUnits /\ outcome = "none"
      BY Bounds DEF Init
    <2>2. request \in [Requests -> [phase : {"away", "reading", "queued", "reporting"},
                                    before : Counter]]
      BY CounterIsSum DEF Init
    <2>3. usage \in Counter
      BY <1>3 DEF Init
    <2> QED BY <1>1, <1>3, <2>1, <2>2, <2>3, IdleTyped DEF TypeOK, BucketOK
  <1>5. work.step = "idle" /\ work.method = "none" /\ work.body.bytes = 0 /\ work.prior.bytes = 0
    BY <1>3 DEF Idle
  <1>6. Handling
    <2>1. Stepping /\ TargetsIn /\ BodiesFit /\ Priced /\ Kept /\ Apart
      BY <1>3, <1>5 DEF Stepping, TargetsIn, BodiesFit, Priced, Kept, Apart, Moving, Holding
    <2> QED BY <1>3, <2>1, IdleTyped DEF Handling
  <1>7. Balance
    <2>1. Held = None
      BY <1>5, HeldNone
    <2>2. Stored.bytes \in Int /\ Stored.files \in Int
      BY <1>3, CounterIsSum DEF Sum
    <2>3. Plus(Stored, None) = Stored
      BY <1>3 DEF Plus, None, Counter
    <2> QED BY <1>3, <2>1, <2>2, <2>3, NoneHeld DEF Balance
  <1>8. Returnable
    BY <1>5 DEF Returnable
  <1> QED BY <1>1, <1>2, <1>4, <1>6, <1>7, <1>8 DEF IInv, Inner, RootFree

\* The inductive invariant holds in every state: what a handler holds fits what
\* it found, and the counter is what is stored plus what the handler holds.
THEOREM IInvCorrect == Spec => []IInv
  <1>1. IInv /\ [Next]_vars => IInv'
    BY NextIInv
  <1> QED BY InitIInv, <1>1, PTL DEF Spec

\* The counter and the row in D1 stay within the caps, and the handler holds
\* what its method can hold, for every name space, cap, size and failing call.
THEOREM TypeCorrect == Spec => []TypeOK
  <1>1. IInv => TypeOK
    BY DEF IInv, Inner
  <1> QED BY <1>1, IInvCorrect, PTL

LEMMA EqualsWhenIdle ==
  ASSUME IInv
  PROVE  CounterEqualsStored
  <1> SUFFICES ASSUME work = Idle, flaw = "none"
               PROVE  quota = Stored
    BY DEF CounterEqualsStored
  <1>1. Held = None
    BY HeldNone DEF Idle
  <1>2. quota = Plus(Stored, None)
    BY <1>1 DEF IInv, Inner, Balance
  <1>3. Stored \in Sum
    BY Known
  <1> QED BY <1>2, <1>3 DEF Plus, None, Sum

\* Between requests the counter is the bytes and objects stored, however each
\* put, delete, copy and move ended, as long as no undo and no deletion of a
\* moved source failed, the object did not die between counter and bucket, and
\* nothing was copied onto the drive itself, where PrefixBucket.head never sees
\* it again.
THEOREM CounterEqualsStoredCorrect == Spec => []CounterEqualsStored
  <1>1. IInv => CounterEqualsStored
    BY EqualsWhenIdle
  <1> QED BY <1>1, IInvCorrect, PTL

LEMMA CappedWhileWorking ==
  ASSUME IInv
  PROVE  NeverOverCap
  <1> DEFINE twice == work.step \in {"audit", "undo", "drop"} /\ work.method = "move"
  <1> SUFFICES ASSUME flaw # "uncounted"
               PROVE  /\ Stored.bytes <= MaxBytes + IF twice THEN work.body.bytes ELSE 0
                      /\ Stored.files <= MaxFiles + IF twice THEN 1 ELSE 0
                      /\ work = Idle => Stored.bytes <= quota.bytes /\ Stored.files <= quota.files
    BY DEF NeverOverCap
  <1>1. quota.bytes >= Stored.bytes + Held.bytes /\ quota.files >= Stored.files + Held.files
    BY DEF IInv, Inner, Balance
  <1>2. /\ quota \in Counter /\ Stored \in Sum /\ Held \in Vector /\ work.body.bytes \in Nat
        /\ work.prior.bytes \in Nat /\ Positive(work.delta) \in Sum /\ work.gone \in Sum
        /\ Change \in Vector /\ Credit(work) \in Sum
    BY Known
  <1>3. /\ quota.bytes \in Int /\ quota.files \in Int /\ quota.bytes <= MaxBytes
        /\ quota.files <= MaxFiles /\ Stored.bytes \in Int /\ Stored.files \in Int
        /\ Held.bytes \in Int /\ Held.files \in Int /\ MaxBytes \in Int /\ MaxFiles \in Int
    BY <1>2, Bounds DEF Counter, Sum, Vector
  <1>4. CASE work.step = "delete"
    <2>1. Plus(quota, work.gone) \in Counter /\ Held = Minus(work.gone)
      BY <1>4 DEF IInv, Inner, Returnable, Held
    <2>2. /\ quota.bytes + work.gone.bytes <= MaxBytes /\ quota.files + work.gone.files <= MaxFiles
          /\ Held.bytes = - work.gone.bytes /\ Held.files = - work.gone.files
      BY <2>1, Bounds DEF Plus, Minus, Counter
    <2>3. work.gone.bytes \in Int /\ work.gone.files \in Int
      BY <1>2 DEF Sum
    <2> QED BY <1>1, <1>3, <1>4, <2>2, <2>3 DEF Idle
  <1>5. CASE work.step \in {"store", "restore"} \/ (work.step \in {"audit", "undo"} /\ ~ twice)
    <2>1. Held.bytes \in Nat /\ Held.files \in Nat
      BY <1>5, HeldBack
    <2> QED BY <1>1, <1>3, <1>5, <2>1 DEF Idle
  <1>6. CASE work.step = "drop"
    <2>1. Held = Minus(Credit(work)) /\ work.method = "move"
      BY <1>6 DEF Held, IInv, Inner, Handling, Stepping
    <2>2. Held.bytes = - work.body.bytes /\ Held.files = -1
      BY <2>1 DEF Minus, Credit
    <2> QED BY <1>1, <1>2, <1>3, <1>6, <2>1, <2>2 DEF Idle
  <1>7. CASE work.step \in {"audit", "undo"} /\ twice
    <2> DEFINE freed == Positive(Minus(work.delta))
               credit == Credit(work)
    <2>1. Held = Plus(Positive(work.delta), Minus(Change))
      BY <1>7 DEF Held
    <2>2. /\ Held.bytes = Positive(work.delta).bytes - Change.bytes
          /\ Held.files = Positive(work.delta).files - Change.files
      BY <1>2, <2>1 DEF Plus, Minus, Sum, Vector
    <2>3. /\ freed \in Sum /\ Held.bytes = freed.bytes - credit.bytes
          /\ Held.files = freed.files - credit.files
          /\ work.method = "move" => credit = [bytes |-> work.body.bytes, files |-> 1]
          /\ work.method # "move" => credit.bytes = 0 /\ credit.files = 0
      BY <1>7, <2>2, Surplus
    <2> HIDE DEF freed, credit
    <2>4. freed.bytes \in Nat /\ freed.files \in Nat
      BY <2>3 DEF Sum
    <2>5. credit.bytes = work.body.bytes /\ credit.files = 1
      BY <1>7, <2>3
    <2> QED BY <1>1, <1>2, <1>3, <1>7, <2>3, <2>4, <2>5 DEF Idle
  <1>8. CASE work.step \notin {"store", "audit", "undo", "restore", "drop", "delete"}
    <2>1. Held.bytes = 0 /\ Held.files = 0
      BY <1>8, HeldNone, NoneHeld
    <2> QED BY <1>1, <1>3, <1>8, <2>1
  <1> QED BY <1>4, <1>5, <1>6, <1>7, <1>8

\* The bucket holds no more than the caps, also in the middle of a handler, but
\* for the copy whose source a MOVE is about to delete; a leaked reservation and
\* an object of the drive itself only err on the full side.
THEOREM NeverOverCapCorrect == Spec => []NeverOverCap
  <1>1. IInv => NeverOverCap
    BY CappedWhileWorking
  <1> QED BY <1>1, IInvCorrect, PTL

-----------------------------------------------------------------------------
(* A failed put cancels out *)

AsFound ==
  objects' = work.start.objects /\ size' = work.start.size /\ quota' = work.start.quota

FailureCancels ==
  (work # Idle /\ work' = Idle)
  /\ \/ outcome' = "no units"
     \/ work.method = "put" /\ outcome' \in {"refused", "failed"} /\ flaw' = "none"
    => AsFound

LEMMA ReleaseRestores ==
  ASSUME IInv, work.method = "put", work.step \in {"store", "undo", "restore"}, Release
  PROVE  quota' = work.start.quota
  <1> DEFINE found == work.start.quota
             taken == Positive(work.delta)
  <1>1. found \in Counter /\ quota = Plus(found, taken)
    BY DEF IInv, Inner, Handling, Kept
  <1>2. quota \in Counter /\ taken \in Sum
    BY Known
  <1>3. quota' = Applied(quota, Minus(taken))
    BY DEF Release
  <1> HIDE DEF found, taken
  <1>4. quota.bytes = found.bytes + taken.bytes /\ quota.files = found.files + taken.files
    BY <1>1 DEF Plus
  <1>5. /\ found.bytes \in Nat /\ found.files \in Nat /\ taken.bytes \in Nat /\ taken.files \in Nat
    BY <1>1, <1>2, CounterIsSum DEF Sum
  <1>6. quota' = Plus(quota, Minus(taken))
    BY <1>2, <1>3, <1>4, <1>5, ReleaseFits
  <1>7. quota' = [bytes |-> found.bytes, files |-> found.files]
    BY <1>4, <1>5, <1>6 DEF Plus, Minus
  <1>8. found = [bytes |-> found.bytes, files |-> found.files]
    BY <1>1 DEF Counter
  <1> QED BY <1>7, <1>8 DEF found

LEMMA FoundOnReserve ==
  ASSUME IInv, work.step = "charge" \/ (work.step = "reserve" /\ work.method = "put"),
         UNCHANGED <<objects, size, quota>>
  PROVE  AsFound
  <1>1. work.start = Snapshot
    BY DEF IInv, Inner, Handling, Kept
  <1> QED BY <1>1 DEF AsFound, Snapshot

LEMMA FoundOnStore ==
  ASSUME IInv, work.step = "store", work.method = "put", Release, UNCHANGED <<objects, size>>
  PROVE  AsFound
  <1>1. work.start.objects = objects /\ work.start.size = size
    BY DEF IInv, Inner, Handling, Kept
  <1> QED BY <1>1, ReleaseRestores DEF AsFound

LEMMA FoundOnUndo ==
  ASSUME IInv, work.method = "put", Release,
         \/ work.step = "undo" /\ work.prior.kind = "absent" /\ Removed({work.key})
         \/ work.step = "restore" /\ Wrote(work.key, work.prior)
  PROVE  AsFound
  <1> DEFINE was == work.start.objects
             had == work.start.size
  <1>1. was \in [Paths -> Kinds] /\ had \in [Paths -> Sizes \cup {0}] /\ work.key \in Paths
    BY Known DEF Work
  <1>2. work.prior = [kind |-> was[work.key], bytes |-> had[work.key]]
    BY DEF IInv, Inner, Handling, Kept
  <1>3. quota' = work.start.quota
    BY ReleaseRestores
  <1>4. CASE work.step = "undo" /\ work.prior.kind = "absent" /\ Removed({work.key})
    <2>1. /\ objects = [was EXCEPT ![work.key] = work.body.kind]
          /\ size = [had EXCEPT ![work.key] = work.body.bytes]
          /\ work.prior.bytes = 0
      BY <1>4 DEF IInv, Inner, Handling, Kept, BodiesFit
    <2>2. was[work.key] = "absent" /\ had[work.key] = 0
      BY <1>2, <1>4, <2>1
    <2>3. /\ objects' = [p \in Paths |-> IF p = work.key THEN "absent" ELSE objects[p]]
          /\ size' = [p \in Paths |-> IF p = work.key THEN 0 ELSE size[p]]
      BY <1>4 DEF Removed
    <2> HIDE DEF was, had
    <2>4. objects' = was /\ size' = had
      BY <1>1, <2>1, <2>2, <2>3
    <2> QED BY <1>3, <2>4 DEF AsFound, was, had
  <1>5. CASE work.step = "restore" /\ Wrote(work.key, work.prior)
    <2>1. /\ objects = [was EXCEPT ![work.key] = "absent"]
          /\ size = [had EXCEPT ![work.key] = 0]
      BY <1>5 DEF IInv, Inner, Handling, Kept
    <2>2. /\ objects' = [objects EXCEPT ![work.key] = was[work.key]]
          /\ size' = [size EXCEPT ![work.key] = had[work.key]]
      BY <1>2, <1>5 DEF Wrote
    <2> HIDE DEF was, had
    <2>3. objects' = was /\ size' = had
      BY <1>1, <2>1, <2>2
    <2> QED BY <1>3, <2>3 DEF AsFound, was, had
  <1> QED BY <1>4, <1>5

LEMMA StepCancels ==
  ASSUME IInv, [Next]_vars
  PROVE  FailureCancels
  <1> SUFFICES ASSUME work # Idle, work' = Idle,
                      \/ outcome' = "no units"
                      \/ work.method = "put" /\ outcome' \in {"refused", "failed"}
                         /\ flaw' = "none"
               PROVE  AsFound
    BY DEF FailureCancels
  <1>1. CASE UNCHANGED vars
    BY <1>1 DEF vars
  <1>2. ASSUME NEW r \in Requests, Mutate(r) \/ Read(r) \/ ReadDone(r) \/ Report(r)
        PROVE  AsFound
    BY <1>2 DEF Mutate, Read, Enter, ReadDone, Report
  <1>3. ASSUME NEW r \in Requests, Start(r)
        PROVE  AsFound
    BY <1>3 DEF Start, Runs, IInv, Inner, Handling, Stepping
  <1>4. /\ work.method = "put" => work.step \in {"reserve", "store", "audit", "undo", "restore"}
        /\ work.method = "put" => work.jobs = {}
    BY DEF IInv, Inner, Handling, Stepping
  <1>5. ASSUME NEW w, Continue(w)
        PROVE  FALSE
    BY <1>5 DEF Continue
  <1>6. ASSUME NEW r, NextJob(r, work)
        PROVE  FALSE
    BY <1>5, <1>6 DEF NextJob, Finish
  <1>7. ASSUME NEW r \in Requests, Proceed(r)
        PROVE  AsFound
    <2>1. CASE Charge(r)
      <3>1. UNCHANGED <<objects, size, quota>> /\ work.step = "charge"
        BY <2>1 DEF Charge, Runs
      <3> QED BY <3>1, FoundOnReserve
    <2>2. CASE CountDelete(r) \/ Delete(r) \/ DeleteFails(r) \/ \E j \in Paths : Load(r, j)
      <3>1. work.step \in {"count", "delete", "next"}
        BY <2>2 DEF CountDelete, Delete, DeleteFails, Load, Runs
      <3>2. outcome' # "no units"
        BY <1>5, <1>6, <2>2
        DEF CountDelete, Delete, DeleteFails, Load, Finish, Throw
      <3> QED BY <1>4, <3>1, <3>2
    <2>3. CASE RefuseContent(r) \/ Reserve(r)
      <3>1. /\ work.step = "reserve" /\ UNCHANGED <<objects, size, quota>>
            /\ Finish(r, Ended(work))
        BY <1>5, <2>3 DEF RefuseContent, Reserve, Runs
      <3>2. outcome' # "no units"
        BY <3>1 DEF Finish, Ended
      <3> QED BY <3>1, <3>2, FoundOnReserve
    <2>4. CASE Store(r)
      BY <2>4 DEF Store
    <2>5. CASE StoreRefused(r) \/ StoreFails(r)
      <3>1. /\ work.step = "store" /\ UNCHANGED <<objects, size>> /\ Release
            /\ outcome' # "no units"
        BY <2>5 DEF StoreRefused, StoreFails, Runs, Finish, Throw
      <3> QED BY <3>1, FoundOnStore
    <2>6. CASE Audit(r) \/ AuditFails(r)
      BY <1>5, <1>6, <2>6 DEF Audit, AuditFails
    <2>7. CASE Undo(r)
      <3>1. /\ work.step = "undo" /\ work.prior.kind = "absent" /\ Removed({work.key}) /\ Release
            /\ outcome' # "no units"
        BY <1>5, <2>7 DEF Undo, Runs, Throw
      <3> QED BY <3>1, FoundOnUndo
    <2>8. CASE Restore(r)
      <3>1. /\ work.step = "restore" /\ Wrote(work.key, work.prior) /\ Release
            /\ outcome' # "no units"
        BY <2>8 DEF Restore, Runs, Throw
      <3> QED BY <3>1, FoundOnUndo
    <2>9. CASE CompensationFails(r)
      BY <2>9 DEF CompensationFails, Throw, Abandoned, Runs
    <2>10. CASE Drop(r) \/ DropFails(r)
      BY <1>6, <2>10 DEF Drop, DropFails, Throw, Abandoned, Runs
    <2> QED BY <1>7, <2>1, <2>2, <2>3, <2>4, <2>5, <2>6, <2>7, <2>8, <2>9, <2>10, Zenon
            DEF Proceed
  <1>8. CASE Crash
    BY <1>8 DEF Crash
  <1> QED BY <1>1, <1>2, <1>3, <1>7, <1>8, Zenon DEF Next, Step

\* A put that is refused or fails, unless its undo fails, and a transfer without
\* units leave the objects, their sizes and the counter as the handler found them.
THEOREM FailureChangesNothingCorrect == Spec => FailureChangesNothing
  <1>1. IInv /\ [Next]_vars => [FailureCancels]_vars
    BY StepCancels
  <1>2. Spec => [][FailureCancels]_vars
    BY <1>1, IInvCorrect, PTL DEF Spec
  <1> QED BY <1>2 DEF FailureChangesNothing, FailureCancels, AsFound

=============================================================================

-------------------------- MODULE DriveLocksProofs --------------------------
(* Proofs about the lock table, for every value of the constants.          *)
EXTENDS DriveLocks, FiniteSetTheorems, TLAPS

-----------------------------------------------------------------------------
(* Arithmetic and sets *)

LEMMA DivFacts ==
  ASSUME NEW a \in Nat, NEW b \in Nat \ {0}
  PROVE  /\ a \div b \in Nat
         /\ (a \div b) * b <= a
  OBVIOUS

LEMMA AtMostOneMore ==
  ASSUME NEW S, NEW T, NEW x, IsFiniteSet(S), T \subseteq S \cup {x}
  PROVE  IsFiniteSet(T) /\ Cardinality(T) \in Nat /\ Cardinality(T) <= Cardinality(S) + 1
  <1>1. Cardinality(S) \in Nat
    BY FS_CardinalityType
  <1>2. /\ IsFiniteSet(S \cup {x})
        /\ Cardinality(S \cup {x}) = IF x \in S THEN Cardinality(S) ELSE Cardinality(S) + 1
    BY FS_AddElement, Zenon
  <1>3. Cardinality(S \cup {x}) <= Cardinality(S) + 1
    BY <1>1, <1>2
  <1>4. IsFiniteSet(T) /\ Cardinality(T) <= Cardinality(S \cup {x})
    BY <1>2, FS_Subset
  <1>5. Cardinality(T) \in Nat /\ Cardinality(S \cup {x}) \in Nat
    BY <1>2, <1>4, FS_CardinalityType
  <1> QED BY <1>1, <1>3, <1>4, <1>5

LEMMA OneReplaced ==
  ASSUME NEW S, NEW T, NEW x, NEW y \in S, IsFiniteSet(S), T \subseteq (S \ {y}) \cup {x}
  PROVE  Cardinality(T) <= Cardinality(S)
  <1>1. IsFiniteSet(S \ {y}) /\ Cardinality(S \ {y}) = Cardinality(S) - 1
    BY FS_RemoveElement
  <1>2. Cardinality(T) \in Nat /\ Cardinality(T) <= (Cardinality(S) - 1) + 1
    BY <1>1, AtMostOneMore
  <1>3. Cardinality(S) \in Nat
    BY FS_CardinalityType
  <1> QED BY <1>2, <1>3

-----------------------------------------------------------------------------
(* What the lock operations do to the clock's bounds *)

\* The end of a granted lock is a tick less than a second after the drive's.
LEMMA TimeoutBounded ==
  ASSUME now \in 0..Lifetime, now < Lifetime, NEW seconds \in Timeouts
  PROVE  /\ parseTimeout(seconds) \in Nat
         /\ parseTimeout(seconds) < Lifetime + Second
  <1> DEFINE remaining == IF Lifetime - now > Second THEN Lifetime - now ELSE Second
             cap == IF remaining \div Second > 1 THEN remaining \div Second ELSE 1
             granted == IF seconds < cap THEN seconds ELSE cap
  <1>1. /\ Second \in Nat \ {0} /\ Lifetime \in Nat /\ seconds \in Nat /\ now \in Nat
        /\ remaining \in Nat
    BY BoundsAssumption
  <1>2. cap \in Nat /\ cap * Second <= remaining
    <2>1. remaining \div Second \in Nat /\ (remaining \div Second) * Second <= remaining
      BY <1>1, DivFacts
    <2>2. CASE remaining \div Second > 1
      BY <2>1, <2>2
    <2>3. CASE ~ (remaining \div Second > 1)
      BY <1>1, <2>3
    <2> QED BY <2>2, <2>3
  <1>3. granted \in Nat /\ granted * Second \in Nat /\ granted * Second <= remaining
    <2>1. granted \in Nat /\ granted <= cap
      BY <1>1, <1>2
    <2>2. granted * Second <= cap * Second
      BY <1>1, <1>2, <2>1
    <2> HIDE DEF granted, cap
    <2> QED BY <1>1, <1>2, <2>1, <2>2
  <1>4. parseTimeout(seconds) = now + granted * Second
    BY DEF parseTimeout
  <1> HIDE DEF granted
  <1> QED BY <1>1, <1>3, <1>4

-----------------------------------------------------------------------------
(* Type correctness *)

LEMMA TreeInPaths ==
  ASSUME NEW p \in Paths
  PROVE  Tree(p) \subseteq Paths
  BY DEF Tree, Beneath

LEMMA TransferTypeOK ==
  ASSUME TypeOK, NEW source \in Paths, NEW destination \in Paths,
         NEW tokens \in SUBSET TokensOf(Live), NEW move \in BOOLEAN,
         NEW done \in SUBSET Tree(source),
         transfer(source, destination, tokens, move, done)
  PROVE  TypeOK'
  <1> DEFINE made == {Target(k, source, destination) : k \in done}
             removed == IF head(destination) # "absent" THEN Tree(destination) ELSE {}
  <1>1. done \subseteq Paths /\ removed \subseteq Paths /\ made \subseteq Paths
    BY TreeInPaths DEF transfer
  <1>2. objects' \in [Paths -> Kinds]
    <2>1. \A k \in made : (CHOOSE j \in done : Target(j, source, destination) = k) \in Paths
      BY <1>1
    <2>2. "absent" \in Kinds /\ \A k \in Paths : objects[k] \in Kinds
      BY DEF TypeOK, Kinds
    <2> QED BY <1>1, <2>1, <2>2 DEF transfer
  <1>3. request' \in [tokens : SUBSET Tokens, paths : SUBSET Paths, fresh : SUBSET Paths]
    <2>1. tokens \subseteq Tokens
      BY DEF TypeOK, TokensOf, Live, LockRecord
    <2> QED BY <1>1, <2>1 DEF transfer, Transferred
  <1> QED BY <1>2, <1>3 DEF transfer, TypeOK

LEMMA RequestTypeOK ==
  ASSUME TypeOK, NEW p \in Paths, NEW tokens \in SUBSET TokensOf(Live), Wrote(tokens, {p})
  PROVE  /\ tokens \subseteq Tokens
         /\ request' \in [tokens : SUBSET Tokens, paths : SUBSET Paths, fresh : SUBSET Paths]
  BY DEF TypeOK, TokensOf, Live, LockRecord, Wrote, Transferred

LEMMA LockChecksTypeOK ==
  ASSUME TypeOK, NEW p \in Paths, NEW tokens, NEW scope, LockChecks(p, tokens, scope)
  PROVE  objects' \in [Paths -> Kinds]
  BY DEF LockChecks, TypeOK, Kinds

LEMMA PutLockTypeOK ==
  ASSUME TypeOK, NEW record \in LockRecord, putLock(record)
  PROVE  locks' \subseteq LockRecord
  BY DEF putLock, Live, TypeOK

LEMMA NextTypeOK ==
  ASSUME TypeOK, [Next]_vars
  PROVE  TypeOK'
  <1>1. CASE Tick
    BY <1>1, BoundsAssumption DEF Tick, TypeOK, NoRequest
  <1>2. CASE UNCHANGED vars
    BY <1>2 DEF vars, TypeOK
  <1>3. ASSUME NEW p \in Paths, NEW tokens \in SUBSET TokensOf(Live)
        PROVE  /\ handlePut(p, tokens) => TypeOK'
               /\ handleProppatch(p, tokens) => TypeOK'
               /\ handleMkcol(p, tokens) => TypeOK'
    BY RequestTypeOK DEF handlePut, handleProppatch, handleMkcol, TypeOK, Kinds
  <1>4. ASSUME NEW p \in Paths, NEW tokens \in SUBSET TokensOf(Live), handleDelete(p, tokens)
        PROVE  TypeOK'
    <2>1. tokens \subseteq Tokens
      BY DEF TypeOK, TokensOf, Live, LockRecord
    <2> QED BY <1>4, <2>1, TreeInPaths DEF handleDelete, Wrote, Transferred, TypeOK, Kinds
  <1>5. ASSUME NEW p \in Paths, NEW q \in Paths, NEW tokens \in SUBSET TokensOf(Live)
        PROVE  /\ handleCopy(p, q, tokens) => TypeOK'
               /\ handleMove(p, q, tokens) => TypeOK'
    BY TransferTypeOK DEF handleCopy, handleMove
  <1>6. ASSUME NEW p \in Paths, NEW tokens \in SUBSET TokensOf(Live),
               NEW scope \in {"exclusive", "shared"}, LockRefusedAfterCreate(p, tokens, scope)
        PROVE  TypeOK'
    BY <1>6, RequestTypeOK, LockChecksTypeOK DEF LockRefusedAfterCreate, TypeOK
  <1>7. ASSUME NEW p \in Paths, NEW tokens \in SUBSET TokensOf(Live),
               NEW scope \in {"exclusive", "shared"}, NEW depth \in {"0", "infinity"},
               NEW seconds \in Timeouts, handleLock(p, tokens, scope, depth, seconds)
        PROVE  TypeOK'
    <2>1. parseTimeout(seconds) \in Nat
      BY <1>7, TimeoutBounded DEF handleLock, LockChecks, Presented, TypeOK
    <2>2. PICK token \in Tokens \ TokensOf(locks) :
            putLock([token |-> token, path |-> p, scope |-> scope, depth |-> depth,
                     expiresAt |-> parseTimeout(seconds)])
      BY <1>7 DEF handleLock
    <2>3. locks' \subseteq LockRecord
      BY <2>1, <2>2, PutLockTypeOK DEF LockRecord
    <2> QED BY <1>7, <2>3, RequestTypeOK, LockChecksTypeOK DEF handleLock, TypeOK
  <1>8. ASSUME NEW p \in Paths, NEW tokens \in SUBSET TokensOf(Live),
               NEW lock \in locks, NEW depth \in {"0", "infinity"},
               NEW seconds \in Timeouts, refreshLock(p, tokens, lock, depth, seconds)
        PROVE  TypeOK'
    <2>1. parseTimeout(seconds) \in Nat
      BY <1>8, TimeoutBounded DEF refreshLock, Presented, TypeOK
    <2>2. [lock EXCEPT !.depth = depth, !.expiresAt = parseTimeout(seconds)] \in LockRecord
      BY <2>1 DEF LockRecord, TypeOK
    <2>3. locks' \subseteq LockRecord
      BY <1>8, <2>2, PutLockTypeOK DEF refreshLock
    <2> QED BY <1>8, <2>3, RequestTypeOK DEF refreshLock, TypeOK
  <1>9. ASSUME NEW p \in Paths, NEW tokens \in SUBSET TokensOf(Live), NEW token \in tokens,
               handleUnlock(p, tokens, token)
        PROVE  TypeOK'
    BY <1>9, RequestTypeOK DEF handleUnlock, TypeOK, Live
  <1> QED BY <1>1, <1>2, <1>3, <1>4, <1>5, <1>6, <1>7, <1>8, <1>9 DEF Next

\* The tables and the bucket hold what their columns allow, whichever requests
\* arrive and however long they wait.
THEOREM TypeCorrect == Spec => []TypeOK
  <1>1. Init => TypeOK
    BY BoundsAssumption DEF Init, TypeOK, Kinds, NoRequest
  <1>2. TypeOK /\ [Next]_vars => TypeOK'
    BY NextTypeOK
  <1> QED BY <1>1, <1>2, PTL DEF Spec

-----------------------------------------------------------------------------
(* The lock table.  The rows must be known to be finitely many before they *)
(* can be counted.                                                         *)

TableInv ==
  /\ locks \subseteq LockRecord
  /\ IsFiniteSet(locks)
  /\ LockTable
  /\ LockEndsWithDrive

SharedAt(L, p) == {l \in L : l.path = p /\ l.scope = "shared"}

\* Losing rows breaks nothing.
LEMMA RowsRemoved ==
  ASSUME TableInv, locks' \subseteq locks
  PROVE  TableInv'
  <1>1. IsFiniteSet(locks') /\ Cardinality(locks') <= Cardinality(locks)
    BY FS_Subset DEF TableInv
  <1>2. Cardinality(locks') \in Nat /\ Cardinality(locks) \in Nat
    BY <1>1, FS_CardinalityType DEF TableInv
  <1>3. \A p \in Paths : Cardinality(SharedAt(locks', p)) <= MaxSharedLocks
    <2> TAKE p \in Paths
    <2>1. SharedAt(locks', p) \subseteq SharedAt(locks, p) /\ SharedAt(locks, p) \subseteq locks
      BY DEF SharedAt
    <2>2. IsFiniteSet(SharedAt(locks, p))
      BY <2>1, FS_Subset DEF TableInv
    <2>3. Cardinality(SharedAt(locks', p)) <= Cardinality(SharedAt(locks, p))
      BY <2>1, <2>2, FS_Subset
    <2>4. Cardinality(SharedAt(locks', p)) \in Nat /\ Cardinality(SharedAt(locks, p)) \in Nat
      BY <2>1, <2>2, FS_Subset, FS_CardinalityType
    <2>5. Cardinality(SharedAt(locks, p)) <= MaxSharedLocks
      BY DEF TableInv, LockTable, LockCaps, SharedAt
    <2> QED BY <2>3, <2>4, <2>5, BoundsAssumption
  <1>4. LockCaps'
    BY <1>1, <1>2, <1>3, BoundsAssumption DEF TableInv, LockTable, LockCaps, SharedAt
  <1> QED BY <1>1, <1>4 DEF TableInv, LockTable, TokensUnique, ExclusiveAlone, LockEndsWithDrive

\* A row that replaces a live one with the same token, path and scope.
LEMMA RowReplaced ==
  ASSUME TableInv, NEW lock \in Live, NEW record \in LockRecord, putLock(record),
         record.token = lock.token, record.path = lock.path, record.scope = lock.scope,
         record.expiresAt < Lifetime + Second
  PROVE  TableInv'
  <1>1. locks' \subseteq (locks \ {lock}) \cup {record} /\ lock \in locks
    BY DEF putLock, Live
  <1>2. IsFiniteSet(locks') /\ Cardinality(locks') <= Cardinality(locks)
    BY <1>1, AtMostOneMore, OneReplaced DEF TableInv
  <1>3. Cardinality(locks') \in Nat /\ Cardinality(locks) \in Nat
    BY <1>2, FS_CardinalityType DEF TableInv
  <1>4. \A p \in Paths : Cardinality(SharedAt(locks', p)) <= MaxSharedLocks
    <2> TAKE p \in Paths
    <2>1. IsFiniteSet(SharedAt(locks, p)) /\ IsFiniteSet(SharedAt(locks', p))
      BY <1>2, FS_Subset DEF TableInv, SharedAt
    <2>2. Cardinality(SharedAt(locks', p)) <= Cardinality(SharedAt(locks, p))
      <3>1. CASE lock \in SharedAt(locks, p)
        <4>1. SharedAt(locks', p) \subseteq (SharedAt(locks, p) \ {lock}) \cup {record}
          BY <1>1 DEF SharedAt
        <4> QED BY <2>1, <3>1, <4>1, OneReplaced
      <3>2. CASE lock \notin SharedAt(locks, p)
        <4>1. SharedAt(locks', p) \subseteq SharedAt(locks, p)
          BY <1>1, <3>2 DEF SharedAt
        <4> QED BY <2>1, <4>1, FS_Subset
      <3> QED BY <3>1, <3>2
    <2>3. Cardinality(SharedAt(locks', p)) \in Nat /\ Cardinality(SharedAt(locks, p)) \in Nat
      BY <2>1, FS_CardinalityType
    <2>4. Cardinality(SharedAt(locks, p)) <= MaxSharedLocks
      BY DEF TableInv, LockTable, LockCaps, SharedAt
    <2> QED BY <2>2, <2>3, <2>4, BoundsAssumption
  <1>5. LockCaps'
    BY <1>2, <1>3, <1>4, BoundsAssumption DEF TableInv, LockTable, LockCaps, SharedAt
  <1>6. TokensUnique'
    BY DEF TableInv, LockTable, TokensUnique, putLock, Live
  <1>7. ExclusiveAlone'
    <2> SUFFICES ASSUME NEW l \in locks', NEW m \in locks', l.path = m.path, l.scope = "exclusive"
                 PROVE  l = m
      BY DEF ExclusiveAlone
    <2>1. \A a, b \in locks : a.path = b.path /\ a.scope = "exclusive" => a = b
      BY DEF TableInv, LockTable, ExclusiveAlone
    <2>2. \A n \in locks' : n = record \/ (n \in locks /\ n # lock)
      BY <1>1
    <2> QED BY <1>1, <2>1, <2>2
  <1>8. LockEndsWithDrive' /\ locks' \subseteq LockRecord
    BY <1>1 DEF TableInv, LockEndsWithDrive
  <1> QED BY <1>2, <1>5, <1>6, <1>7, <1>8 DEF TableInv, LockTable

\* A new row that the scope and cap checks of handleLock let in.
LEMMA RowAdded ==
  ASSUME TableInv, NEW record \in LockRecord, putLock(record),
         record.token \notin TokensOf(locks),
         Grantable(record.path, record.scope),
         record.expiresAt < Lifetime + Second
  PROVE  TableInv'
  <1>1. locks' \subseteq Live \cup {record} /\ Live \subseteq locks
    BY DEF putLock, Live
  <1>2. IsFiniteSet(Live) /\ IsFiniteSet(locks')
    BY <1>1, FS_Subset, AtMostOneMore DEF TableInv
  <1>3. Cardinality(locks') <= MaxLocks
    <2>1. Cardinality(locks') \in Nat /\ Cardinality(locks') <= Cardinality(Live) + 1
      BY <1>1, <1>2, AtMostOneMore
    <2>2. Cardinality(Live) \in Nat /\ Cardinality(Live) < MaxLocks
      BY <1>2, FS_CardinalityType DEF Grantable
    <2> QED BY <2>1, <2>2, BoundsAssumption
  <1>4. \A p \in Paths : Cardinality(SharedAt(locks', p)) <= MaxSharedLocks
    <2> TAKE p \in Paths
    <2>1. /\ SharedAt(locks, p) \subseteq locks
          /\ SharedAt(Live, p) \subseteq SharedAt(locks, p)
          /\ IsFiniteSet(SharedAt(locks, p))
      BY <1>1, FS_Subset DEF SharedAt, TableInv
    <2>2. Cardinality(SharedAt(locks, p)) \in Nat /\ Cardinality(SharedAt(locks, p)) <= MaxSharedLocks
      BY <2>1, FS_CardinalityType DEF TableInv, LockTable, LockCaps, SharedAt
    <2>3. CASE record.path = p /\ record.scope = "shared"
      <3>1. SharedAt(Live, p) = {l \in LocksAt(p) : l.scope = "shared"}
        BY DEF SharedAt, LocksAt
      <3>2. IsFiniteSet(SharedAt(Live, p)) /\ Cardinality(SharedAt(Live, p)) \in Nat
        BY <2>1, FS_Subset, FS_CardinalityType
      <3>3. Cardinality(SharedAt(Live, p)) < MaxSharedLocks
        BY <2>3, <3>1 DEF Grantable
      <3>4. SharedAt(locks', p) \subseteq SharedAt(Live, p) \cup {record}
        BY <1>1 DEF SharedAt
      <3>5. /\ Cardinality(SharedAt(locks', p)) \in Nat
            /\ Cardinality(SharedAt(locks', p)) <= Cardinality(SharedAt(Live, p)) + 1
        BY <3>2, <3>4, AtMostOneMore
      <3> QED BY <3>2, <3>3, <3>5, BoundsAssumption
    <2>4. CASE ~ (record.path = p /\ record.scope = "shared")
      <3>1. SharedAt(locks', p) \subseteq SharedAt(locks, p)
        BY <1>1, <2>4 DEF SharedAt
      <3>2. /\ Cardinality(SharedAt(locks', p)) <= Cardinality(SharedAt(locks, p))
            /\ Cardinality(SharedAt(locks', p)) \in Nat
        BY <2>1, <3>1, FS_Subset, FS_CardinalityType
      <3> QED BY <2>2, <3>2, BoundsAssumption
    <2> QED BY <2>3, <2>4
  <1>5. LockCaps'
    BY <1>3, <1>4 DEF LockCaps, SharedAt
  <1>6. TokensUnique'
    BY DEF TableInv, LockTable, TokensUnique, putLock, Live, TokensOf
  <1>7. ExclusiveAlone'
    <2>1. \A l \in Live : l.path = record.path => l.scope # "exclusive" /\ record.scope # "exclusive"
      BY DEF Grantable, LocksAt, LockRecord
    <2>2. \A n \in locks' : n = record \/ n \in Live
      BY <1>1
    <2> QED BY <1>1, <2>1, <2>2 DEF ExclusiveAlone, TableInv, LockTable
  <1>8. LockEndsWithDrive' /\ locks' \subseteq LockRecord
    BY <1>1 DEF TableInv, LockEndsWithDrive
  <1> QED BY <1>2, <1>5, <1>6, <1>7, <1>8 DEF TableInv, LockTable

LEMMA NextTableInv ==
  ASSUME TypeOK, TableInv, [Next]_vars
  PROVE  TableInv'
  <1>1. CASE UNCHANGED locks
    BY <1>1, RowsRemoved
  <1>2. ASSUME NEW p \in Paths, NEW tokens \in SUBSET TokensOf(Live),
               NEW scope \in {"exclusive", "shared"}, NEW depth \in {"0", "infinity"},
               NEW seconds \in Timeouts, handleLock(p, tokens, scope, depth, seconds)
        PROVE  TableInv'
    <2>1. parseTimeout(seconds) \in Nat /\ parseTimeout(seconds) < Lifetime + Second
      BY <1>2, TimeoutBounded DEF handleLock, LockChecks, Presented, TypeOK
    <2>2. PICK token \in Tokens \ TokensOf(locks) :
            putLock([token |-> token, path |-> p, scope |-> scope, depth |-> depth,
                     expiresAt |-> parseTimeout(seconds)])
      BY <1>2 DEF handleLock
    <2> DEFINE record == [token |-> token, path |-> p, scope |-> scope, depth |-> depth,
                          expiresAt |-> parseTimeout(seconds)]
    <2>3. record \in LockRecord
      BY <2>1 DEF LockRecord
    <2>4. Grantable(record.path, record.scope)
      BY <1>2 DEF handleLock
    <2> QED BY <2>1, <2>2, <2>3, <2>4, RowAdded
  <1>3. ASSUME NEW p \in Paths, NEW tokens \in SUBSET TokensOf(Live),
               NEW lock \in locks, NEW depth \in {"0", "infinity"},
               NEW seconds \in Timeouts, refreshLock(p, tokens, lock, depth, seconds)
        PROVE  TableInv'
    <2>1. parseTimeout(seconds) \in Nat /\ parseTimeout(seconds) < Lifetime + Second
      BY <1>3, TimeoutBounded DEF refreshLock, Presented, TypeOK
    <2> DEFINE record == [lock EXCEPT !.depth = depth, !.expiresAt = parseTimeout(seconds)]
    <2>2. /\ record \in LockRecord /\ record.token = lock.token /\ record.path = lock.path
          /\ record.scope = lock.scope /\ record.expiresAt = parseTimeout(seconds)
      BY <2>1 DEF LockRecord, TypeOK
    <2>3. lock \in Live
      BY <1>3 DEF refreshLock, findHeldLock, LocksAt
    <2>4. putLock(record)
      BY <1>3 DEF refreshLock
    <2> QED BY <2>1, <2>2, <2>3, <2>4, RowReplaced
  <1>4. ASSUME NEW p \in Paths, NEW tokens \in SUBSET TokensOf(Live), NEW token \in tokens,
               handleUnlock(p, tokens, token)
        PROVE  TableInv'
    BY <1>4, RowsRemoved DEF handleUnlock, Live
  <1>5. CASE Tick \/ UNCHANGED vars
    BY <1>1, <1>5 DEF Tick, vars
  <1>6. ASSUME NEW p \in Paths, NEW tokens \in SUBSET TokensOf(Live),
               \/ handlePut(p, tokens)
               \/ handleProppatch(p, tokens)
               \/ handleMkcol(p, tokens)
               \/ handleDelete(p, tokens)
               \/ \E q \in Paths : handleCopy(p, q, tokens) \/ handleMove(p, q, tokens)
               \/ \E scope \in {"exclusive", "shared"} : LockRefusedAfterCreate(p, tokens, scope)
        PROVE  TableInv'
    <2>1. UNCHANGED locks
      BY <1>6 DEF handlePut, handleProppatch, handleMkcol, handleDelete, handleCopy, handleMove,
                  transfer, LockRefusedAfterCreate
    <2> QED BY <1>1, <2>1
  <1>7. ASSUME NEW p \in Paths, NEW tokens \in SUBSET TokensOf(Live),
               NEW scope \in {"exclusive", "shared"},
               \/ LockRefusedAfterCreate(p, tokens, scope)
               \/ \E depth \in {"0", "infinity"}, seconds \in Timeouts :
                    handleLock(p, tokens, scope, depth, seconds)
        PROVE  TableInv'
    BY <1>2, <1>6, <1>7
  <1>8. ASSUME NEW p \in Paths, NEW tokens \in SUBSET TokensOf(Live),
               \/ \E lock \in locks, depth \in {"0", "infinity"}, seconds \in Timeouts :
                    refreshLock(p, tokens, lock, depth, seconds)
               \/ \E token \in tokens : handleUnlock(p, tokens, token)
        PROVE  TableInv'
    BY <1>3, <1>4, <1>8
  <1> QED BY <1>5, <1>6, <1>7, <1>8 DEF Next

LEMMA InvariantHolds == Spec => [](TypeOK /\ TableInv)
  <1>1. Init => TypeOK /\ TableInv
    <2>1. Init => TypeOK
      BY BoundsAssumption DEF Init, TypeOK, Kinds, NoRequest
    <2>2. Init => TableInv
      <3>1. IsFiniteSet({}) /\ Cardinality({}) = 0
        BY FS_EmptySet
      <3>2. \A p : {l \in {} : l.path = p /\ l.scope = "shared"} = {}
        OBVIOUS
      <3> QED BY <3>1, <3>2, BoundsAssumption
              DEF Init, TableInv, LockTable, TokensUnique, ExclusiveAlone, LockCaps,
                  LockEndsWithDrive
    <2> QED BY <2>1, <2>2
  <1>2. TypeOK /\ TableInv /\ [Next]_vars => (TypeOK /\ TableInv)'
    BY NextTypeOK, NextTableInv
  <1> QED BY <1>1, <1>2, PTL DEF Spec

\* One row per token, an exclusive lock alone on its path, both caps: for any
\* number of paths and tokens and any caps.
THEOREM LockTableCorrect == Spec => []LockTable
  <1>1. TableInv => LockTable
    BY DEF TableInv
  <1> QED BY <1>1, InvariantHolds, PTL

\* No lock outlives its drive by a second or more, whatever timeout is asked.
THEOREM LockEndsWithDriveCorrect == Spec => []LockEndsWithDrive
  <1>1. TableInv => LockEndsWithDrive
    BY DEF TableInv
  <1> QED BY <1>1, InvariantHolds, PTL

-----------------------------------------------------------------------------
(* What a lock protects *)

\* A write that assertWritable lets through holds the exclusive lock over it.
LEMMA WritableOpens ==
  ASSUME ExclusiveAlone, NEW p, NEW tokens, NEW ignoreShared,
         assertWritable(p, tokens, ignoreShared),
         NEW l \in Live, l.scope = "exclusive", Covers(l, p)
  PROVE  l.token \in tokens
  <1>1. l.path \in Prefixes(p) /\ l \in Applicable(l.path, p, ignoreShared)
    BY DEF Covers, Applicable, LocksAt
  <1>2. PICK m \in Applicable(l.path, p, ignoreShared) : m.token \in tokens
    BY <1>1 DEF assertWritable
  <1>3. m = l
    BY <1>2 DEF Applicable, LocksAt, Live, ExclusiveAlone
  <1> QED BY <1>2, <1>3

\* Two prefixes of one path lie on one line.
LEMMA PrefixesOnOneLine ==
  ASSUME NEW p \in Paths, NEW k \in Paths, NEW c \in Paths,
         p = k \/ IsStrictPrefix(p, k), c \in Prefixes(k)
  PROVE  \/ IsStrictPrefix(p, c)
         \/ c \in Prefixes(p) /\ (c = k => p = k)
  <1> DEFINE Names == UNION {Range(q) : q \in Paths}
  <1>1. p \in Seq(Names) /\ k \in Seq(Names) /\ c \in Seq(Names)
    BY PathsAssumption
  <1>2. PICK i \in 0..Len(k) : c = SubSeq(k, 1, i)
    BY DEF Prefixes
  <1>3. Len(p) \in 0..Len(k) /\ p = SubSeq(k, 1, Len(p))
    <2>1. CASE p = k
      BY <1>1, <2>1
    <2>2. CASE IsStrictPrefix(p, k)
      BY <1>1, <2>2 DEF IsStrictPrefix, IsPrefix
    <2> QED BY <2>1, <2>2
  <1> HIDE DEF Names
  <1>4. Len(c) = i
    BY <1>1, <1>2
  <1>5. CASE Len(p) < i
    <2>1. SubSeq(c, 1, Len(p)) = SubSeq(k, 1, Len(p))
      BY <1>1, <1>2, <1>3, <1>4, <1>5
    <2>2. SubSeq(p, 1, Len(p)) = p
      BY <1>1
    <2> QED BY <1>1, <1>3, <1>4, <1>5, <2>1, <2>2 DEF IsStrictPrefix, IsPrefix
  <1>6. CASE i <= Len(p)
    <2>1. SubSeq(p, 1, i) = SubSeq(k, 1, i)
      BY <1>1, <1>2, <1>3, <1>6
    <2>2. c \in Prefixes(p)
      BY <1>2, <1>3, <1>6, <2>1 DEF Prefixes
    <2>3. c = k => p = k
      BY <1>1, <1>3, <1>4, <1>6
    <2> QED BY <2>2, <2>3
  <1> QED BY <1>1, <1>3, <1>5, <1>6

\* DELETE, and a COPY or MOVE over something, check the whole subtree.
LEMMA SubtreeOpens ==
  ASSUME TypeOK, ExclusiveAlone, NEW p \in Paths, NEW tokens,
         assertWritable(p, tokens, FALSE), ~ descendantBlocks(p, tokens),
         NEW k \in Paths, p = k \/ IsStrictPrefix(p, k),
         NEW l \in Live, l.scope = "exclusive", Covers(l, k)
  PROVE  l.token \in tokens
  <1>1. l.path \in Paths /\ l.path \in Prefixes(k)
    BY DEF Covers, TypeOK, LockRecord, Live
  <1>2. CASE IsStrictPrefix(p, l.path)
    BY <1>2, Zenon DEF descendantBlocks
  <1>3. CASE l.path \in Prefixes(p) /\ (l.path = k => p = k)
    <2>1. Covers(l, p)
      BY <1>3 DEF Covers
    <2> QED BY <2>1, WritableOpens
  <1> QED BY <1>1, <1>2, <1>3, PrefixesOnOneLine

LEMMA TargetInside ==
  ASSUME NEW source \in Paths, NEW destination \in Paths, NEW k \in Paths,
         Target(k, source, destination) \in Paths
  PROVE  \/ destination = Target(k, source, destination)
         \/ IsStrictPrefix(destination, Target(k, source, destination))
  <1> DEFINE Names == UNION {Range(q) : q \in Paths}
             rest == SubSeq(k, Len(source) + 1, Len(k))
  <1>1. destination \in Seq(Names) /\ k \in Seq(Names) /\ source \in Seq(Names)
    BY PathsAssumption
  <1> HIDE DEF Names
  <1>2. rest \in Seq(Names)
    BY <1>1
  <1>3. Target(k, source, destination) = destination \o rest
    BY Zenon DEF Target
  <1> HIDE DEF rest
  <1>4. /\ Len(destination) <= Len(destination \o rest)
        /\ SubSeq(destination \o rest, 1, Len(destination)) = destination
        /\ SubSeq(destination, 1, Len(destination)) = destination
    BY <1>1, <1>2
  <1> QED BY <1>3, <1>4 DEF IsStrictPrefix, IsPrefix

LEMMA TreeInside ==
  ASSUME NEW p \in Paths, NEW k \in Tree(p)
  PROVE  k \in Paths /\ (p = k \/ IsStrictPrefix(p, k))
  BY DEF Tree, Beneath

LEMMA RootAboveAll ==
  ASSUME NEW k \in Paths
  PROVE  Root = k \/ IsStrictPrefix(Root, k)
  <1> DEFINE Names == UNION {Range(q) : q \in Paths}
  <1>1. k \in Seq(Names)
    BY PathsAssumption
  <1> HIDE DEF Names
  <1> QED BY <1>1 DEF Root, IsStrictPrefix, IsPrefix

\* A step that presented tokens was free to write these paths.
Opened(tokens, paths) ==
  \A l \in Live : \A k \in paths : l.scope = "exclusive" /\ Covers(l, k) => l.token \in tokens

\* What ExclusiveLockHolds says of one step.
RequestOpened ==
  \A l \in Live : \A k \in request'.paths :
    l.scope = "exclusive" /\ Covers(l, k) =>
      \/ l.token \in request'.tokens
      \/ \E d \in request'.fresh : IsStrictPrefix(d, l.path)

\* Of two prefixes of one path, one is a prefix of the other: a lock that covers
\* a path below p sits at p or above it, or strictly below p.
LEMMA LockAboveOrBelow ==
  ASSUME NEW p \in Paths, NEW k \in Paths, p = k \/ IsStrictPrefix(p, k),
         NEW l, Covers(l, k), ~ IsStrictPrefix(p, l.path)
  PROVE  Covers(l, p)
  <1>1. l.path \in Prefixes(k) /\ l.path \in Paths
    BY PathsAssumption DEF Covers
  <1>2. l.path \in Prefixes(p) /\ (l.path = k => p = k)
    BY <1>1, PrefixesOnOneLine
  <1> QED BY <1>2 DEF Covers

LEMMA TransferOpens ==
  ASSUME TypeOK, ExclusiveAlone, NEW source \in Paths, NEW destination \in Paths,
         NEW tokens \in SUBSET TokensOf(Live), NEW move \in BOOLEAN,
         NEW done \in SUBSET Tree(source),
         transfer(source, destination, tokens, move, done)
  PROVE  RequestOpened
  <1> DEFINE existing == head(destination) # "absent"
             removed == IF existing THEN Tree(destination) ELSE {}
             made == {Target(k, source, destination) : k \in done}
  <1>1. /\ request'.tokens = tokens
        /\ request'.paths = removed \cup (IF move THEN done ELSE {}) \cup made
        /\ request'.fresh = IF existing THEN {} ELSE {destination}
    BY DEF transfer, Transferred
  <1>2. made \subseteq Paths /\ done \subseteq Paths
    BY TreeInPaths DEF transfer
  <1>3. assertWritable(destination, tokens, FALSE)
    BY DEF transfer
  <1>4. \A k \in removed \cup made : k \in Paths /\ (destination = k \/ IsStrictPrefix(destination, k))
    BY <1>2, TreeInside, TargetInside
  <1>5. existing => Opened(tokens, removed \cup made)
    BY <1>3, <1>4, SubtreeOpens DEF transfer, Opened
  <1>6. move => Opened(tokens, done)
    <2> HAVE move
    <2>1. assertWritable(source, tokens, FALSE) /\ ~ descendantBlocks(source, tokens)
      BY DEF transfer
    <2> QED BY <2>1, TreeInside, SubtreeOpens DEF Opened
  <1>7. ASSUME NEW l \in Live, NEW k \in made, l.scope = "exclusive", Covers(l, k),
               ~ IsStrictPrefix(destination, l.path)
        PROVE  l.token \in tokens
    <2>1. Covers(l, destination)
      BY <1>4, <1>7, LockAboveOrBelow
    <2> QED BY <1>3, <1>7, <2>1, WritableOpens
  <1>8. ~ existing => removed = {}
    OBVIOUS
  <1> HIDE DEF existing, removed, made
  <1> QED BY <1>1, <1>5, <1>6, <1>7, <1>8 DEF Opened, RequestOpened

LEMMA NextOpens ==
  ASSUME TypeOK, ExclusiveAlone, Next
  PROVE  RequestOpened
  <1>1. CASE Tick
    BY <1>1 DEF Tick, NoRequest, RequestOpened
  <1>2. ASSUME NEW p \in Paths, NEW tokens \in SUBSET TokensOf(Live), Wrote(tokens, {p}),
               \E ignoreShared \in BOOLEAN : assertWritable(p, tokens, ignoreShared)
        PROVE  RequestOpened
    BY <1>2, WritableOpens DEF RequestOpened, Wrote, Transferred
  <1>3. ASSUME NEW p \in Paths, NEW tokens \in SUBSET TokensOf(Live),
               \/ handlePut(p, tokens)
               \/ handleProppatch(p, tokens)
               \/ handleMkcol(p, tokens)
               \/ \E lock \in locks, depth \in {"0", "infinity"}, seconds \in Timeouts :
                    refreshLock(p, tokens, lock, depth, seconds)
               \/ \E token \in tokens : handleUnlock(p, tokens, token)
        PROVE  RequestOpened
    <2>1. Wrote(tokens, {p}) /\ assertWritable(p, tokens, FALSE)
      BY <1>3 DEF handlePut, handleProppatch, handleMkcol, refreshLock, handleUnlock
    <2> QED BY <1>2, <2>1
  <1>4. ASSUME NEW p \in Paths, NEW tokens \in SUBSET TokensOf(Live),
               NEW scope \in {"exclusive", "shared"},
               \/ LockRefusedAfterCreate(p, tokens, scope)
               \/ \E depth \in {"0", "infinity"}, seconds \in Timeouts :
                    handleLock(p, tokens, scope, depth, seconds)
        PROVE  RequestOpened
    <2>1. Wrote(tokens, {p}) /\ assertWritable(p, tokens, scope = "shared")
      BY <1>4 DEF LockRefusedAfterCreate, handleLock, LockChecks
    <2> QED BY <1>2, <2>1
  <1>5. ASSUME NEW p \in Paths, NEW tokens \in SUBSET TokensOf(Live), handleDelete(p, tokens)
        PROVE  RequestOpened
    <2>1. /\ request'.tokens = tokens
          /\ request'.paths = IF p = Root THEN Paths ELSE Tree(p)
          /\ assertWritable(p, tokens, FALSE) /\ ~ descendantBlocks(p, tokens)
      BY <1>5 DEF handleDelete, Wrote, Transferred
    <2>2. \A k \in request'.paths : k \in Paths /\ (p = k \/ IsStrictPrefix(p, k))
      BY <2>1, TreeInside, RootAboveAll
    <2> QED BY <2>1, <2>2, SubtreeOpens DEF RequestOpened
  <1>6. ASSUME NEW p \in Paths, NEW q \in Paths, NEW tokens \in SUBSET TokensOf(Live),
               handleCopy(p, q, tokens) \/ handleMove(p, q, tokens)
        PROVE  RequestOpened
    BY <1>6, TransferOpens DEF handleCopy, handleMove
  <1> QED BY <1>1, <1>3, <1>4, <1>5, <1>6 DEF Next

\* No handler writes, removes, moves away, locks or unlocks anything under a
\* live exclusive lock whose token the request did not present, save a COPY or
\* MOVE to a name nothing is stored at, which writes its members through the
\* locks strictly below that name: for any tree of names and any mix of locks.
THEOREM ExclusiveLockHoldsCorrect == Spec => ExclusiveLockHolds
  <1>1. TypeOK /\ TableInv /\ [Next]_vars =>
          [\A l \in Live : \A k \in request'.paths :
             l.scope = "exclusive" /\ Covers(l, k) =>
               \/ l.token \in request'.tokens
               \/ \E d \in request'.fresh : IsStrictPrefix(d, l.path)]_vars
    BY NextOpens DEF TableInv, LockTable, RequestOpened
  <1> QED BY <1>1, InvariantHolds, PTL DEF Spec, ExclusiveLockHolds

LEMMA NextPersists ==
  ASSUME TypeOK, TableInv, Next, NEW l \in Live
  PROVE  \/ \E m \in locks' : m.token = l.token /\ m.path = l.path /\ m.scope = l.scope
         \/ l.token \in request'.tokens
  <1>1. CASE UNCHANGED locks
    BY <1>1 DEF Live
  <1>2. ASSUME NEW p \in Paths, NEW tokens \in SUBSET TokensOf(Live),
               NEW scope, NEW depth, NEW seconds,
               handleLock(p, tokens, scope, depth, seconds)
        PROVE  l \in locks'
    BY <1>2 DEF handleLock, putLock, TokensOf, Live
  <1>3. ASSUME NEW p \in Paths, NEW tokens \in SUBSET TokensOf(Live), NEW lock \in locks,
               NEW depth, NEW seconds, refreshLock(p, tokens, lock, depth, seconds)
        PROVE  \E m \in locks' : m.token = l.token /\ m.path = l.path /\ m.scope = l.scope
    <2> DEFINE record == [lock EXCEPT !.depth = depth, !.expiresAt = parseTimeout(seconds)]
    <2>1. /\ record.token = lock.token /\ record.path = lock.path /\ record.scope = lock.scope
          /\ record \in locks' /\ \A n \in Live : n.token # record.token => n \in locks'
      BY <1>3 DEF refreshLock, putLock, TypeOK, LockRecord
    <2>2. l.token = lock.token => l = lock
      BY DEF TableInv, LockTable, TokensUnique, Live
    <2> QED BY <2>1, <2>2
  <1>4. ASSUME NEW p \in Paths, NEW tokens \in SUBSET TokensOf(Live), NEW token \in tokens,
               handleUnlock(p, tokens, token)
        PROVE  l \in locks' \/ l.token \in request'.tokens
    BY <1>4 DEF handleUnlock, Wrote, Transferred
  <1>5. ASSUME NEW p \in Paths, NEW tokens \in SUBSET TokensOf(Live),
               \/ Tick
               \/ handlePut(p, tokens)
               \/ handleProppatch(p, tokens)
               \/ handleMkcol(p, tokens)
               \/ handleDelete(p, tokens)
               \/ \E q \in Paths : handleCopy(p, q, tokens) \/ handleMove(p, q, tokens)
               \/ \E scope \in {"exclusive", "shared"} : LockRefusedAfterCreate(p, tokens, scope)
        PROVE  UNCHANGED locks
    BY <1>5 DEF Tick, handlePut, handleProppatch, handleMkcol, handleDelete, handleCopy,
                handleMove, transfer, LockRefusedAfterCreate
  <1>6. CASE Tick
    BY <1>1, <1>6 DEF Tick
  <1> QED BY <1>1, <1>2, <1>3, <1>4, <1>5, <1>6 DEF Next

\* A live lock is never lost, moved to another path or given another scope by
\* a request that does not present it.
THEOREM LiveLocksPersistCorrect == Spec => LiveLocksPersist
  <1>1. TypeOK /\ TableInv /\ [Next]_vars =>
          [\A l \in Live :
             \/ \E m \in locks' : m.token = l.token /\ m.path = l.path /\ m.scope = l.scope
             \/ l.token \in request'.tokens]_vars
    BY NextPersists
  <1> QED BY <1>1, InvariantHolds, PTL DEF Spec, LiveLocksPersist

=============================================================================

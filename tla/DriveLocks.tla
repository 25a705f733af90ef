----------------------------- MODULE DriveLocks -----------------------------
(***************************************************************************)
(* The WebDAV lock table of one r2-drive Durable Object, and every handler *)
(* of webdav.ts that reads or writes it.                                   *)
(*                                                                         *)
(* DriveSession runs the mutating methods one at a time (see DriveQuota    *)
(* for that mutex and for failures of the bucket), so a handler is one     *)
(* action here.  What varies is which requests arrive, with which lock     *)
(* tokens, and how much time passes between them.  A request the code      *)
(* refuses before it changes anything (423, 412, 409, 404, 400, 410) is    *)
(* a stuttering step and has no action.                                    *)
(*                                                                         *)
(* The If header can only add a refusal (412), and a client can always     *)
(* write one that passes, so a request is the set of tokens that           *)
(* lockTokensFrom reads from it.  A token that is in no live row opens     *)
(* nothing, so a request presents live ones, and a new lock may take any   *)
(* token that no row of the table has.                                     *)
(***************************************************************************)
EXTENDS DriveTree

CONSTANTS
  Tokens,          \* the tokens randomUUID returns, in no order
  Second,          \* clock ticks in one second of a lock timeout
  Lifetime,        \* the tick at which the drive expires
  Timeouts,        \* the lock timeouts clients ask for, in seconds
  MaxLocks,        \* MAX_LOCKS_PER_DRIVE
  MaxSharedLocks   \* MAX_SHARED_LOCKS_PER_PATH

ASSUME BoundsAssumption ==
  /\ Second \in Nat \ {0}
  /\ Lifetime \in Nat
  /\ Timeouts \subseteq Nat \ {0}
  /\ MaxLocks \in Nat
  /\ MaxSharedLocks \in Nat

VARIABLES
  now,       \* Date.now(), in ticks
  locks,     \* the rows of the locks table
  request    \* history: the tokens the last mutating request presented, every
             \* path it wrote, and in fresh the destination of a COPY or MOVE
             \* that found nothing stored there

vars == <<now, locks, objects, request>>

LockRecord ==
  [token : Tokens, path : Paths, scope : {"exclusive", "shared"},
   depth : {"0", "infinity"}, expiresAt : Nat]

NoRequest == [tokens |-> {}, paths |-> {}, fresh |-> {}]

-----------------------------------------------------------------------------
(* Reads of the lock table *)

Live == {l \in locks : l.expiresAt > now}

LocksAt(p) == {l \in Live : l.path = p}

TokensOf(L) == {l.token : l \in L}

\* A lock at level c that a write to p must answer for.
Applicable(c, p, ignoreShared) ==
  {l \in LocksAt(c) :
     /\ c = p \/ l.depth = "infinity"
     /\ ~ (ignoreShared /\ c = p /\ l.scope = "shared")}

\* Mutant: the locks above the path are forgotten.
assertTargetWritable(p, tokens, ignoreShared) ==
  LET applicable == Applicable(p, p, ignoreShared)
  IN  applicable = {} \/ \E l \in applicable : l.token \in tokens

\* One presented token per level that has applicable locks is enough.
assertWritable(p, tokens, ignoreShared) ==
  \A c \in Prefixes(p) :
    LET applicable == Applicable(c, p, ignoreShared)
    IN  applicable = {} \/ \E l \in applicable : l.token \in tokens

\* Mutant: one token opens everything inside p.
anyDescendantOpens(p, tokens) ==
  LET inside == {l \in Live : IsStrictPrefix(p, l.path)}
  IN  inside # {} /\ TokensOf(inside) \cap tokens = {}

\* Some lock strictly inside p has a token the request did not present.
descendantBlocks(p, tokens) ==
  \E l \in Live : IsStrictPrefix(p, l.path) /\ l.token \notin tokens

-----------------------------------------------------------------------------
Init ==
  /\ now = 0
  /\ locks = {}
  /\ objects = [p \in Paths |-> "absent"]
  /\ request = NoRequest

(* What every mutating request shares: DriveSession.dispatch answers 410   *)
(* from the drive's expiry on, and the client presents some live tokens.   *)
Presented(tokens) == now < Lifetime /\ tokens \subseteq TokensOf(Live)

Transferred(tokens, paths, fresh) ==
  request' = [tokens |-> tokens, paths |-> paths, fresh |-> fresh]

Wrote(tokens, paths) == Transferred(tokens, paths, {})

handlePut(p, tokens) ==
  /\ Presented(tokens)
  /\ p # Root
  /\ assertWritable(p, tokens, FALSE)
  /\ head(p) # "collection"
  /\ ParentExists(p)
  /\ objects' = [objects EXCEPT ![p] = "file"]
  /\ Wrote(tokens, {p})
  /\ UNCHANGED <<now, locks>>

\* The dead properties are rewritten together with the unchanged body.
handleProppatch(p, tokens) ==
  /\ Presented(tokens)
  /\ assertWritable(p, tokens, FALSE)
  /\ head(p) # "absent"
  /\ Wrote(tokens, {p})
  /\ UNCHANGED <<now, locks, objects>>

handleMkcol(p, tokens) ==
  /\ Presented(tokens)
  /\ p # Root
  /\ assertWritable(p, tokens, FALSE)
  /\ head(p) = "absent"
  /\ ParentExists(p)
  /\ objects' = [objects EXCEPT ![p] = "collection"]
  /\ Wrote(tokens, {p})
  /\ UNCHANGED <<now, locks>>

\* DELETE takes the objects and leaves the rows of the lock table.
handleDelete(p, tokens) ==
  /\ Presented(tokens)
  /\ assertWritable(p, tokens, FALSE)
  /\ ~ descendantBlocks(p, tokens)
  /\ p = Root \/ head(p) # "absent"
  /\ LET keys == IF p = Root THEN Paths ELSE Tree(p)
     IN  /\ objects' = [k \in Paths |-> IF k \in keys THEN "absent" ELSE objects[k]]
         /\ Wrote(tokens, keys)
  /\ UNCHANGED <<now, locks>>

(* COPY and MOVE.  A put that the content or quota checks refuse ends the  *)
(* request after the jobs in done: the source first, then its members in   *)
(* the order of their names, which is any order here; a COPY of Depth 0    *)
(* has the source as its only job.  When nothing is stored at the          *)
(* destination only its own path and the levels above it are checked: the  *)
(* members below it are written whatever locks are found there.            *)
transfer(source, destination, tokens, move, done) ==
  LET existing == head(destination) # "absent"
      removed  == IF existing THEN Tree(destination) ELSE {}
      made     == {Target(k, source, destination) : k \in done}
  IN
  /\ Presented(tokens)
  /\ Transferable(source, destination)
  /\ move => assertWritable(source, tokens, FALSE) /\ ~ descendantBlocks(source, tokens)
  /\ assertWritable(destination, tokens, FALSE)
  /\ existing => ~ descendantBlocks(destination, tokens)
  /\ done = {} \/ source \in done
  /\ destination = Root => done \subseteq {source}
  /\ made \subseteq Paths
  /\ objects' =
       [k \in Paths |->
          IF k \in made THEN objects[CHOOSE j \in done : Target(j, source, destination) = k]
          ELSE IF k \in removed \/ (move /\ k \in done) THEN "absent"
          ELSE objects[k]]
  /\ Transferred(tokens, removed \cup (IF move THEN done ELSE {}) \cup made,
                 IF existing THEN {} ELSE {destination})
  /\ UNCHANGED <<now, locks>>

handleCopy(source, destination, tokens) ==
  \E done \in SUBSET Tree(source) : transfer(source, destination, tokens, FALSE, done)

handleMove(source, destination, tokens) ==
  \E done \in SUBSET Tree(source) : transfer(source, destination, tokens, TRUE, done)

-----------------------------------------------------------------------------
(* LOCK and UNLOCK *)

\* Mutant: the asked timeout without the cap.
uncappedTimeout(seconds) == now + seconds * Second

\* The tick a granted lock runs out: capped by the drive, at least one second.
parseTimeout(seconds) ==
  LET remaining  == IF Lifetime - now > Second THEN Lifetime - now ELSE Second
      capSeconds == IF remaining \div Second > 1 THEN remaining \div Second ELSE 1
  IN  now + (IF seconds < capSeconds THEN seconds ELSE capSeconds) * Second

\* Mutant: the upsert takes the path for its key.
putLockByPath(record) == locks' = {l \in Live : l.path # record.path} \cup {record}

\* SqliteLocks.put: drop what has expired, then upsert by token.
putLock(record) == locks' = {l \in Live : l.token # record.token} \cup {record}

\* Mutant: an exclusive lock only asks for other exclusive ones.
GrantableOverShared(p, scope) ==
  /\ \A l \in LocksAt(p) : l.scope # "exclusive"
  /\ Cardinality({l \in LocksAt(p) : l.scope = "shared"}) < MaxSharedLocks
  /\ Cardinality(Live) < MaxLocks

\* The locks already on the path and the two caps leave room for this one.
Grantable(p, scope) ==
  /\ scope = "exclusive" => LocksAt(p) = {}
  /\ scope = "shared" =>
       /\ \A l \in LocksAt(p) : l.scope # "exclusive"
       /\ Cardinality({l \in LocksAt(p) : l.scope = "shared"}) < MaxSharedLocks
  /\ Cardinality(Live) < MaxLocks

\* LOCK on a name nothing is stored at creates an empty file first.
Creates(p) == p # Root /\ head(p) = "absent"

\* Mutant: LOCK stores a kind of its own, neither file nor collection.
LockNullChecks(p, tokens, scope) ==
  /\ Presented(tokens)
  /\ assertWritable(p, tokens, scope = "shared")
  /\ Creates(p) => ParentExists(p)
  /\ objects' = IF Creates(p) THEN [objects EXCEPT ![p] = "lock-null"] ELSE objects

LockChecks(p, tokens, scope) ==
  /\ Presented(tokens)
  /\ assertWritable(p, tokens, scope = "shared")
  /\ Creates(p) => ParentExists(p)
  /\ objects' = IF Creates(p) THEN [objects EXCEPT ![p] = "file"] ELSE objects

handleLock(p, tokens, scope, depth, seconds) ==
  /\ LockChecks(p, tokens, scope)
  /\ Grantable(p, scope)
  /\ \E token \in Tokens \ TokensOf(locks) :
       putLock([token |-> token, path |-> p, scope |-> scope, depth |-> depth,
                expiresAt |-> parseTimeout(seconds)])
  /\ Wrote(tokens, {p})
  /\ UNCHANGED now

\* The scope and cap checks come after the put: the file stays, 423 returns.
LockRefusedAfterCreate(p, tokens, scope) ==
  /\ LockChecks(p, tokens, scope)
  /\ Creates(p)
  /\ ~ Grantable(p, scope)
  /\ Wrote(tokens, {p})
  /\ UNCHANGED <<now, locks>>

\* The nearest level at which the request holds a lock that covers p.
findHeldLock(p, tokens, lock) ==
  LET held(c) == {l \in LocksAt(c) : l.token \in tokens /\ (c = p \/ l.depth = "infinity")}
  IN  /\ lock.path \in Prefixes(p)
      /\ lock \in held(lock.path)
      /\ \A c \in Prefixes(p) : Len(c) > Len(lock.path) => held(c) = {}

\* An empty LOCK body refreshes; an explicit Depth header replaces the depth.
refreshLock(p, tokens, lock, depth, seconds) ==
  /\ Presented(tokens)
  /\ assertWritable(p, tokens, FALSE)
  /\ findHeldLock(p, tokens, lock)
  /\ p = Root \/ head(lock.path) # "absent"
  /\ putLock([lock EXCEPT !.depth = depth, !.expiresAt = parseTimeout(seconds)])
  /\ Wrote(tokens, {p})
  /\ UNCHANGED <<now, objects>>

handleUnlock(p, tokens, token) ==
  /\ Presented(tokens)
  /\ token \in tokens
  /\ p = Root \/ head(p) # "absent"
  /\ token \in TokensOf(LocksAt(p))
  /\ assertWritable(p, tokens, FALSE)
  /\ locks' = {l \in Live : l.token # token}
  /\ Wrote(tokens, {p})
  /\ UNCHANGED <<now, objects>>

-----------------------------------------------------------------------------
Tick ==
  /\ now < Lifetime
  /\ now' = now + 1
  /\ request' = NoRequest
  /\ UNCHANGED <<locks, objects>>

Next ==
  \/ Tick
  \/ \E p \in Paths : \E tokens \in SUBSET TokensOf(Live) :
       \/ handlePut(p, tokens)
       \/ handleProppatch(p, tokens)
       \/ handleMkcol(p, tokens)
       \/ handleDelete(p, tokens)
       \/ \E q \in Paths : handleCopy(p, q, tokens) \/ handleMove(p, q, tokens)
       \/ \E scope \in {"exclusive", "shared"} :
            \/ LockRefusedAfterCreate(p, tokens, scope)
            \/ \E depth \in {"0", "infinity"}, seconds \in Timeouts :
                 handleLock(p, tokens, scope, depth, seconds)
       \/ \E lock \in locks, depth \in {"0", "infinity"}, seconds \in Timeouts :
            refreshLock(p, tokens, lock, depth, seconds)
       \/ \E token \in tokens : handleUnlock(p, tokens, token)

Spec == Init /\ [][Next]_vars

-----------------------------------------------------------------------------
(* Properties *)

\* The variables hold what the tables and the bucket can hold.
TypeOK ==
  /\ now \in 0..Lifetime
  /\ locks \subseteq LockRecord
  /\ objects \in [Paths -> Kinds]
  /\ request \in [tokens : SUBSET Tokens, paths : SUBSET Paths, fresh : SUBSET Paths]

\* The primary key: one row per token, a refreshed row included.
TokensUnique == \A l, m \in locks : l.token = m.token => l = m

\* An exclusive lock shares its path with no other row, expired rows included:
\* the check handleLock makes before it inserts (webdav.ts:465-466) and the
\* deletion of expired rows in SqliteLocks.put keep the table so.
ExclusiveAlone ==
  \A l, m \in locks : l.path = m.path /\ l.scope = "exclusive" => l = m

\* SAFETY.md: at most 64 locks on a drive and 8 shared locks on one path,
\* counted over the rows the table stores, not only over the live ones.
LockCaps ==
  /\ Cardinality(locks) <= MaxLocks
  /\ \A p \in Paths :
       Cardinality({l \in locks : l.path = p /\ l.scope = "shared"}) <= MaxSharedLocks

LockTable == TokensUnique /\ ExclusiveAlone /\ LockCaps

\* A lock outlives its drive by less than a second: parseTimeout rounds the
\* time that is left up to one second and down to whole seconds otherwise.
LockEndsWithDrive == \A l \in locks : l.expiresAt < Lifetime + Second

Covers(l, k) == l.path \in Prefixes(k) /\ (l.path = k \/ l.depth = "infinity")

\* Nothing covered by a live exclusive lock is written, deleted, moved away,
\* locked or unlocked by a request that did not present that lock's token, with
\* one exception: a COPY or MOVE onto a name nothing is stored at looks for no
\* lock below that name (webdav.ts:397-410), and DELETE leaves the rows of the
\* locks of what it removes, so it may write through a lock strictly below its
\* destination that a PUT of the same path would have to present.
ExclusiveLockHolds ==
  [][\A l \in Live : \A k \in request'.paths :
       l.scope = "exclusive" /\ Covers(l, k) =>
         \/ l.token \in request'.tokens
         \/ \E d \in request'.fresh : IsStrictPrefix(d, l.path)]_vars

\* A live lock leaves the table only when its own token is presented, and a
\* refresh never moves it to another path or changes its scope.
LiveLocksPersist ==
  [][\A l \in Live :
       \/ \E m \in locks' : m.token = l.token /\ m.path = l.path /\ m.scope = l.scope
       \/ l.token \in request'.tokens]_vars
=============================================================================

------------------------------ MODULE DriveQuota ------------------------------
(***************************************************************************)
(* One r2-drive Durable Object between its clients, the R2 bucket and the  *)
(* D1 row: the request budget, the mutex of DriveSession, and the quota    *)
(* counter that GuardedBucket keeps beside a bucket it cannot write in the *)
(* same transaction.                                                       *)
(*                                                                         *)
(* A step is what runs between two awaits that matter: everything in one   *)
(* SQLite statement and the code around it is one step, each call of the   *)
(* bucket and of D1 is a step that may fail in the ways Faults allows, or  *)
(* that the object does not survive.  A call that fails has had no effect; *)
(* one that is under way when the object dies has had its effect by then   *)
(* or never has.  Lock tokens (see DriveLocks) and conditional headers     *)
(* only decide whether a request is refused before it changes anything,    *)
(* which here any request may be.                                          *)
(***************************************************************************)
EXTENDS DriveTree

CONSTANTS
  Requests,      \* the requests a drive may have in flight, each used again
  Sizes,         \* the sizes of the bodies clients put
  Destinations,  \* the paths clients name as the destination of a transfer
  Faults,        \* the calls that may fail, "put", "audit" and "delete", and "crash"
  MaxBytes,      \* MAX_DRIVE_BYTES
  MaxFiles,      \* MAX_FILES
  MaxUnits       \* MAX_DRIVE_REQUESTS

ASSUME BoundsAssumption ==
  /\ Sizes \subseteq Nat
  /\ Destinations \subseteq Paths
  /\ Faults \subseteq {"put", "audit", "delete", "crash"}
  /\ MaxBytes \in Nat /\ MaxFiles \in Nat /\ MaxUnits \in Nat
  /\ IsFiniteSet(Paths)

VARIABLES
  size,     \* the bytes stored at each path
  quota,    \* the quota row of the Durable Object
  units,    \* the requests row: units used
  usage,    \* bytes_used and file_count of the drive's row in D1
  tail,     \* the mutating requests DriveSession has queued; the head runs
  request,  \* where each request stands in DriveObject.fetch
  work,     \* the mutating handler that runs, and what it holds in memory
  outcome,  \* history: how the handler that ended in the last step ended
  flaw      \* history: the worst that has been left behind so far

vars == <<objects, size, quota, units, usage, tail, request, work, outcome, flaw>>

Counter == [bytes : 0..MaxBytes, files : 0..MaxFiles]

None == [bytes |-> 0, files |-> 0]

Untouched ==
  [objects |-> [p \in Paths |-> "absent"], size |-> [p \in Paths |-> 0], quota |-> None]

\* What a handler holds, before it holds anything.
Idle ==
  [step |-> "idle", method |-> "none", start |-> Untouched, source |-> Root, destination |-> Root,
   jobs |-> {}, keys |-> {}, gone |-> None, job |-> Root, key |-> Root,
   body |-> [kind |-> "absent", bytes |-> 0],
   prior |-> [kind |-> "absent", bytes |-> 0], delta |-> None]

\* The bytes of the objects at keys, counted one by one.
Bytes(keys) == Cardinality(UNION {{k} \X (1..size[k]) : k \in keys})

Sums(keys) == [bytes |-> Bytes(keys), files |-> Cardinality(keys)]

Stored == Sums({p \in Paths : objects[p] # "absent"})

-----------------------------------------------------------------------------
(* SqliteQuota.apply: one UPDATE whose WHERE clause is the cap. *)

\* Mutant: the WHERE clause forgets the upper bounds.
FitsFromBelow(q, d) == q.bytes + d.bytes >= 0 /\ q.files + d.files >= 0

Fits(q, d) == q.bytes + d.bytes \in 0..MaxBytes /\ q.files + d.files \in 0..MaxFiles

Plus(q, d) == [bytes |-> q.bytes + d.bytes, files |-> q.files + d.files]

Minus(d) == [bytes |-> - d.bytes, files |-> - d.files]

\* A statement that does not fit changes nothing; a release only logs that.
Applied(q, d) == IF Fits(q, d) THEN Plus(q, d) ELSE q

Positive(d) == [bytes |-> Max({0, d.bytes}), files |-> Max({0, d.files})]

\* Mutant: the object that is overwritten is not counted as going away.
DeltaWithoutPrior(body, prior, credit) ==
  [bytes |-> body.bytes - credit.bytes, files |-> 1 - credit.files]

\* What a put adds: a MOVE is credited with the source it deletes afterwards.
Delta(body, prior, credit) ==
  [bytes |-> body.bytes - prior.bytes - credit.bytes,
   files |-> (IF prior.kind = "absent" THEN 1 ELSE 0) - credit.files]

Object(p) == [kind |-> head(p), bytes |-> IF p = Root THEN 0 ELSE size[p]]

\* What GuardedBucket.delete counts: the keys it can head.
Counted(keys) == Sums({k \in keys : head(k) # "absent"})

Snapshot == [objects |-> objects, size |-> size, quota |-> quota]

\* History: a handler remembers what it found.
Begun == [Idle EXCEPT !.start = Snapshot]

-----------------------------------------------------------------------------
(* A drive that earlier requests have filled, each object in a collection. *)
Init ==
  /\ objects \in {o \in [Paths -> Kinds] :
       /\ o[Root] = "absent"
       /\ \A p \in Paths \ {Root} :
            o[p] # "absent" => Front(p) = Root \/ o[Front(p)] = "collection"}
  /\ size \in {s \in [Paths -> Sizes \cup {0}] :
       \A p \in Paths : IF objects[p] = "file" THEN s[p] \in Sizes ELSE s[p] = 0}
  /\ Stored \in Counter
  /\ quota = Stored
  /\ usage = Stored
  /\ units = 0
  /\ tail = << >>
  /\ request = [r \in Requests |-> [phase |-> "away", before |-> None]]
  /\ work = Idle
  /\ outcome = "none"
  /\ flaw = "none"

(* DriveObject.fetch up to session.handle: one unit, or 429; the counter   *)
(* as it stands before this request waits for the ones ahead of it.        *)
Enter(r, phase) ==
  /\ request[r].phase = "away"
  /\ units < MaxUnits
  /\ units' = units + 1
  /\ request' = [request EXCEPT ![r] = [phase |-> phase, before |-> quota]]
  /\ outcome' = "none"
  /\ UNCHANGED <<objects, size, quota, usage, work, flaw>>

Mutate(r) == Enter(r, "queued") /\ tail' = Append(tail, r)

Read(r) == Enter(r, "reading") /\ UNCHANGED tail

\* The rest of DriveObject.fetch: D1 hears of the counter when it changed.
Answered(r, after) ==
  request' = [request EXCEPT ![r] =
                IF after = @.before THEN [phase |-> "away", before |-> None]
                ELSE [phase |-> "reporting", before |-> after]]

ReadDone(r) ==
  /\ request[r].phase = "reading"
  /\ Answered(r, quota)
  /\ outcome' = "none"
  /\ UNCHANGED <<objects, size, quota, units, usage, tail, work, flaw>>

\* D1Repo.updateUsage lands; writes of two requests land in either order.
Report(r) ==
  /\ request[r].phase = "reporting"
  /\ usage' = request[r].before
  /\ request' = [request EXCEPT ![r] = [phase |-> "away", before |-> None]]
  /\ outcome' = "none"
  /\ UNCHANGED <<objects, size, quota, units, tail, work, flaw>>

-----------------------------------------------------------------------------
(* DriveSession.exclusive: the head of the tail runs alone. *)

Runs(r, step) == tail # << >> /\ Head(tail) = r /\ work.step = step

\* The handler returned a response: the next run starts, fetch goes on.
Finish(r, how) ==
  /\ tail' = Tail(tail)
  /\ work' = Idle
  /\ Answered(r, quota')
  /\ outcome' = how
  /\ UNCHANGED flaw

\* Mutant: a rejected run is not caught, so what waits behind it never runs.
PoisonTail(r, left) ==
  /\ tail' = tail
  /\ work' = Idle
  /\ request' = [request EXCEPT ![r] = [phase |-> "away", before |-> None]]
  /\ outcome' = "failed"
  /\ flaw' = left

\* The handler threw: fetch throws before it looks at the counter again.
Throw(r, left) ==
  /\ tail' = Tail(tail)
  /\ work' = Idle
  /\ request' = [request EXCEPT ![r] = [phase |-> "away", before |-> None]]
  /\ outcome' = "failed"
  /\ flaw' = left

\* History: what a handler that stops where it stands leaves behind.  A deletion
\* that was counted ahead, or the credit of a MOVE for a source that is still
\* there, leaves objects the counter does not know of ("uncounted"); any other
\* put leaves at most a count that nobody takes back ("leak").
Abandoned ==
  IF \/ flaw = "uncounted" \/ work.step \in {"delete", "drop"}
     \/ work.step \in {"audit", "undo"} /\ work.method = "move"
  THEN "uncounted"
  ELSE IF work.step \in {"store", "audit", "undo", "restore"} THEN "leak" ELSE flaw

Continue(next) == work' = next /\ outcome' = "none" /\ UNCHANGED <<tail, request, flaw>>

\* 404, 405, 409, 410, 412, 423: nothing has changed yet.
Refuse(r) ==
  /\ UNCHANGED quota
  /\ Finish(r, "refused")
  /\ UNCHANGED <<objects, size, units, usage>>

\* handlePut, handleMkcol, the empty file of handleLock, and handleProppatch.
Puttable(p, body) ==
  /\ p # Root
  /\ \/ head(p) # "collection" /\ ParentExists(p) /\ body.kind = "file" /\ body.bytes \in Sizes
     \/ head(p) = "absent" /\ ParentExists(p) /\ body.kind = "collection" /\ body.bytes = 0
     \/ head(p) = "absent" /\ ParentExists(p) /\ body.kind = "file" /\ body.bytes = 0
     \/ head(p) # "absent" /\ body = Object(p)

BeginPut(p, body) ==
  /\ Puttable(p, body)
  /\ Continue([Begun EXCEPT !.step = "reserve", !.method = "put", !.job = p, !.key = p,
                            !.body = body])
  /\ UNCHANGED <<objects, size, quota, units, usage>>

BeginDelete(p) ==
  /\ p = Root \/ head(p) # "absent"
  /\ Continue([Begun EXCEPT !.step = "count", !.method = "delete",
                 !.keys = IF p = Root THEN {k \in Paths : objects[k] # "absent"} ELSE Tree(p)])
  /\ UNCHANGED <<objects, size, quota, units, usage>>

BeginTransfer(source, destination, move, jobs) ==
  /\ Transferable(source, destination)
  /\ jobs = Tree(source) \/ (~ move /\ jobs = {source})
  /\ destination # Root => \A j \in jobs : Target(j, source, destination) \in Paths
  /\ Continue([Begun EXCEPT !.step = "charge", !.method = IF move THEN "move" ELSE "copy",
                 !.source = source, !.destination = destination, !.jobs = jobs])
  /\ UNCHANGED <<objects, size, quota, units, usage>>

\* Mutant: the destination is cleared first and the units are taken after.
ClearBeforeCharge(r) ==
  /\ Runs(r, "charge")
  /\ IF head(work.destination) # "absent"
     THEN /\ objects' = [objects EXCEPT ![work.destination] = "absent"]
          /\ size' = [size EXCEPT ![work.destination] = 0]
          /\ quota' = Applied(quota, Minus(Counted({work.destination})))
     ELSE UNCHANGED <<objects, size, quota>>
  /\ IF units + Cardinality(work.jobs) - 1 <= MaxUnits
     THEN units' = units + Cardinality(work.jobs) - 1 /\ Continue([work EXCEPT !.step = "next"])
     ELSE UNCHANGED units /\ Finish(r, "no units")
  /\ UNCHANGED usage

\* takeUnits: all the further objects are paid for, or 429 and nothing is done.
Charge(r) ==
  /\ Runs(r, "charge")
  /\ UNCHANGED quota
  /\ IF units + Cardinality(work.jobs) - 1 <= MaxUnits
     THEN /\ units' = units + Cardinality(work.jobs) - 1
          /\ Continue(IF head(work.destination) = "absent" THEN [work EXCEPT !.step = "next"]
                      ELSE [work EXCEPT !.step = "count", !.keys = Tree(work.destination)])
     ELSE UNCHANGED units /\ Finish(r, "no units")
  /\ UNCHANGED <<objects, size, usage>>

\* The handler goes on with the next job, or it is done.
NextJob(r, w) ==
  IF w.jobs = {} THEN Finish(r, "done") ELSE Continue([w EXCEPT !.step = "next"])

-----------------------------------------------------------------------------
(* GuardedBucket.delete *)

\* The counter goes down before the objects do.
CountDelete(r) ==
  /\ Runs(r, "count")
  /\ LET gone == Counted(work.keys) IN
     IF Fits(quota, Minus(gone))
     THEN /\ quota' = Plus(quota, Minus(gone))
          /\ Continue([work EXCEPT !.step = "delete", !.gone = gone])
     ELSE UNCHANGED quota /\ Finish(r, "refused")
  /\ UNCHANGED <<objects, size, units, usage>>

Removed(keys) ==
  /\ objects' = [p \in Paths |-> IF p \in keys THEN "absent" ELSE objects[p]]
  /\ size' = [p \in Paths |-> IF p \in keys THEN 0 ELSE size[p]]

Delete(r) ==
  /\ Runs(r, "delete")
  /\ Removed(work.keys)
  /\ UNCHANGED quota
  /\ NextJob(r, work)
  /\ UNCHANGED <<units, usage>>

DeleteFails(r) ==
  /\ Runs(r, "delete")
  /\ "delete" \in Faults
  /\ quota' = Applied(quota, work.gone)
  /\ Throw(r, flaw)
  /\ UNCHANGED <<objects, size, units, usage>>

-----------------------------------------------------------------------------
(* The job loop of transfer, and GuardedBucket.put *)

\* The source comes first, its members in the order of their names.  Below
\* the root destination the name of a member is not a safe key: 400.
Load(r, j) ==
  /\ Runs(r, "next")
  /\ j \in work.jobs
  /\ work.source \in work.jobs => j = work.source
  /\ UNCHANGED quota
  /\ IF work.destination = Root /\ j # work.source
     THEN Finish(r, "partial")
     ELSE Continue([work EXCEPT !.step = "reserve", !.job = j, !.jobs = @ \ {j},
                      !.key = Target(j, work.source, work.destination),
                      !.body = [kind |-> objects[j], bytes |-> size[j]]])
  /\ UNCHANGED <<objects, size, units, usage>>

Credit(w) ==
  IF w.method = "move" THEN [bytes |-> w.body.bytes, files |-> 1] ELSE None

Ended(w) == IF w.method = "put" THEN "refused" ELSE "partial"

\* The content rules, or the length of the key, refuse the body.
RefuseContent(r) ==
  /\ Runs(r, "reserve")
  /\ UNCHANGED quota
  /\ Finish(r, Ended(work))
  /\ UNCHANGED <<objects, size, units, usage>>

Reserve(r) ==
  /\ Runs(r, "reserve")
  /\ LET prior == Object(work.key)
         delta == Delta(work.body, prior, Credit(work))
     IN  IF Fits(quota, Positive(delta)) \/ Positive(delta) = None
         THEN /\ quota' = Plus(quota, Positive(delta))
              /\ Continue([work EXCEPT !.step = "store", !.prior = prior, !.delta = delta])
         ELSE UNCHANGED quota /\ Finish(r, Ended(work))
  /\ UNCHANGED <<objects, size, units, usage>>

Wrote(p, body) ==
  /\ objects' = [objects EXCEPT ![p] = body.kind]
  /\ size' = [size EXCEPT ![p] = body.bytes]

\* History: an object of the drive itself is counted, and no head sees it again.
Store(r) ==
  /\ Runs(r, "store")
  /\ Wrote(work.key, work.body)
  /\ work' = [work EXCEPT !.step = "audit"]
  /\ outcome' = "none"
  /\ flaw' = IF work.key = Root /\ flaw = "none" THEN "leak" ELSE flaw
  /\ UNCHANGED <<quota, units, usage, tail, request>>

Release == quota' = Applied(quota, Minus(Positive(work.delta)))

\* The If-Match or If-None-Match of a PUT fails in the bucket itself.
StoreRefused(r) ==
  /\ Runs(r, "store")
  /\ work.method = "put"
  /\ Release
  /\ Finish(r, "refused")
  /\ UNCHANGED <<objects, size, units, usage>>

StoreFails(r) ==
  /\ Runs(r, "store")
  /\ "put" \in Faults
  /\ Release
  /\ Throw(r, flaw)
  /\ UNCHANGED <<objects, size, units, usage>>

\* The audit row is in D1: what the put freed is released.
Audit(r) ==
  /\ Runs(r, "audit")
  /\ quota' = Applied(quota, Minus(Positive(Minus(work.delta))))
  /\ IF work.method = "move" THEN Continue([work EXCEPT !.step = "drop"]) ELSE NextJob(r, work)
  /\ UNCHANGED <<objects, size, units, usage>>

AuditFails(r) ==
  /\ Runs(r, "audit")
  /\ "audit" \in Faults
  /\ Continue([work EXCEPT !.step = "undo"])
  /\ UNCHANGED <<objects, size, quota, units, usage>>

\* Mutant: the object that was overwritten is not put back.
UndoWithoutRestore(r) ==
  /\ Runs(r, "undo")
  /\ Removed({work.key})
  /\ Release
  /\ Throw(r, flaw)
  /\ UNCHANGED <<units, usage>>

Undo(r) ==
  /\ Runs(r, "undo")
  /\ Removed({work.key})
  /\ IF work.prior.kind # "absent"
     THEN UNCHANGED quota /\ Continue([work EXCEPT !.step = "restore"])
     ELSE Release /\ Throw(r, flaw)
  /\ UNCHANGED <<units, usage>>

Restore(r) ==
  /\ Runs(r, "restore")
  /\ Wrote(work.key, work.prior)
  /\ Release
  /\ Throw(r, flaw)
  /\ UNCHANGED <<units, usage>>

\* The second error escapes before the reservation is released.
CompensationFails(r) ==
  /\ \/ Runs(r, "undo") /\ "delete" \in Faults
     \/ Runs(r, "restore") /\ "put" \in Faults
  /\ Throw(r, Abandoned)
  /\ UNCHANGED <<objects, size, quota, units, usage>>

\* MOVE deletes the source it was credited with, without counting it again.
Drop(r) ==
  /\ Runs(r, "drop")
  /\ Removed({work.job})
  /\ UNCHANGED quota
  /\ NextJob(r, work)
  /\ UNCHANGED <<units, usage>>

DropFails(r) ==
  /\ Runs(r, "drop")
  /\ "delete" \in Faults
  /\ Throw(r, Abandoned)
  /\ UNCHANGED <<objects, size, quota, units, usage>>

-----------------------------------------------------------------------------
(* DriveSession.dispatch hands the request at the head to its handler.     *)
Start(r) ==
  /\ Runs(r, "idle")
  /\ \/ Refuse(r)
     \/ \E p \in Paths, kind \in {"file", "collection"}, bytes \in Sizes \cup {0} :
          BeginPut(p, [kind |-> kind, bytes |-> bytes])
     \/ \E p \in Paths : BeginDelete(p)
     \/ \E source \in Paths, destination \in Destinations, move \in BOOLEAN :
          \E jobs \in {Tree(source), {source}} : BeginTransfer(source, destination, move, jobs)

Proceed(r) ==
  \/ Charge(r)
  \/ CountDelete(r) \/ Delete(r) \/ DeleteFails(r)
  \/ \E j \in Paths : Load(r, j)
  \/ RefuseContent(r) \/ Reserve(r)
  \/ Store(r) \/ StoreRefused(r) \/ StoreFails(r)
  \/ Audit(r) \/ AuditFails(r)
  \/ Undo(r) \/ Restore(r) \/ CompensationFails(r)
  \/ Drop(r) \/ DropFails(r)

\* Only the request at the head of the tail moves.
Step(r) == tail # << >> /\ Head(tail) = r /\ (Start(r) \/ Proceed(r))

(* The object is evicted or restarted: what is in memory is gone with the  *)
(* requests it was answering, and nobody goes on where they stopped.       *)
Crash ==
  /\ "crash" \in Faults
  /\ \E r \in Requests : request[r].phase # "away"
  /\ tail' = << >>
  /\ request' = [r \in Requests |-> [phase |-> "away", before |-> None]]
  /\ work' = Idle
  /\ outcome' = "none"
  /\ flaw' = Abandoned
  /\ UNCHANGED <<objects, size, quota, units, usage>>

Next ==
  \/ \E r \in Requests : Mutate(r) \/ Read(r) \/ ReadDone(r) \/ Report(r) \/ Step(r)
  \/ Crash

Spec == Init /\ [][Next]_vars

(* A call of R2, of D1 or of SQLite settles, and a response is sent.       *)
FairSpec == Spec /\ \A r \in Requests : WF_vars(ReadDone(r) \/ Report(r) \/ Step(r))

-----------------------------------------------------------------------------
(* Properties *)

Body == [kind : Kinds, bytes : Sizes \cup {0}]

Work ==
  [step : {"idle", "charge", "count", "delete", "next", "reserve", "store",
           "audit", "undo", "restore", "drop"},
   method : {"none", "put", "delete", "copy", "move"},
   start : [objects : [Paths -> Kinds], size : [Paths -> Sizes \cup {0}],
            quota : [bytes : Nat, files : Nat]],
   source : Paths, destination : Paths, jobs : SUBSET Paths, keys : SUBSET Paths,
   gone : [bytes : Nat, files : Nat], job : Paths, key : Paths,
   body : Body, prior : Body, delta : [bytes : Int, files : Int]]

\* The variables hold what the tables, the bucket and the handlers can hold.
TypeOK ==
  /\ objects \in [Paths -> Kinds]
  /\ size \in [Paths -> Sizes \cup {0}]
  /\ quota \in Counter
  /\ usage \in Counter
  /\ units \in 0..MaxUnits
  /\ tail \in Seq(Requests)
  /\ request \in [Requests -> [phase : {"away", "reading", "queued", "reporting"},
                               before : Counter]]
  /\ work \in Work
  /\ outcome \in {"none", "done", "refused", "no units", "partial", "failed"}
  /\ flaw \in {"none", "leak", "uncounted"}

\* SAFETY.md: "A failed copy leaves the counter equal to the bytes still stored";
\* and so does every other request, however it ends, as long as the calls that
\* undo a failed put and the deletion of a moved source succeed, no object dies
\* between its counter and its bucket, and nothing is copied onto the drive
\* itself, where PrefixBucket.head never finds it.
CounterEqualsStored == work = Idle /\ flaw = "none" => quota = Stored

\* A reservation that was never released, a put that a crash cut off, and an
\* object of the drive itself only ever make the drive look fuller: until a
\* MOVE has left a copy it was credited for, or a crash objects that were
\* counted as deleted, the bucket holds no more than the counter says between
\* requests, and no more than the caps allow also while a put, its undo or a
\* delete is under way; only the copy whose source a MOVE is about to delete
\* comes on top.
NeverOverCap ==
  LET stored == Stored
      twice  == work.step \in {"audit", "undo", "drop"} /\ work.method = "move"
  IN  flaw # "uncounted" =>
        /\ stored.bytes <= MaxBytes + IF twice THEN work.body.bytes ELSE 0
        /\ stored.files <= MaxFiles + IF twice THEN 1 ELSE 0
        /\ work = Idle => stored.bytes <= quota.bytes /\ stored.files <= quota.files

\* A PUT that does not succeed, and a COPY or MOVE that cannot pay for its
\* objects, leave the bucket and the counter as they found them: the reserve,
\* store, audit and undo steps of GuardedBucket.put cancel out unless the undo
\* itself fails, and the units are taken before the destination is deleted
\* (webdav.ts:394-396).
FailureChangesNothing ==
  [][(work # Idle /\ work' = Idle)
     /\ \/ outcome' = "no units"
        \/ work.method = "put" /\ outcome' \in {"refused", "failed"} /\ flaw' = "none"
       => objects' = work.start.objects /\ size' = work.start.size /\ quota' = work.start.quota]_vars

\* Every request is answered, or cut off by a crash: a handler that throws does
\* not stop the ones that wait behind it in the tail.
EveryRequestAnswered ==
  \A r \in Requests : request[r].phase # "away" ~> request[r].phase = "away"
=============================================================================

---------------------------- MODULE DriveLifecycle ----------------------------
(***************************************************************************)
(* One r2-drive drive from the row verify inserted to the wipe: the row in *)
(* D1, the Durable Object with its alarm and its DriveSession, the objects *)
(* in R2, the clients that write, and everything that may wipe: the alarm, *)
(* the cron, requests that touch an old drive, and an operator's release.  *)
(*                                                                         *)
(* The three stores share no transaction, so a step is what runs between   *)
(* two awaits.  A wipe reads the row first and acts on what it read later. *)
(* Time is counted from the insertion of the row.                          *)
(***************************************************************************)
EXTENDS Naturals, Sequences, FiniteSets

CONSTANTS
  Writers,    \* the mutating requests that may be in flight, used again
  Visitors,   \* the Worker requests that may wipe, used again
  Alarm,      \* the alarm handler of the Durable Object; it never overlaps
  Crons,      \* the invocations of the scheduled handler, used again; a wiper
              \* may serve as a visitor and as a cron, one after the other
  Sessions,   \* the DriveSession objects that may be alive at once
  Ttl,        \* DRIVE_TTL_MS
  Keep,       \* FROZEN_KEEP_MS
  Never,      \* no time: SQL's NULL, or no alarm
  MaxTime,    \* bound: where the clock stops
  LastFreeze, \* bound: no freeze later than this
  MaxFaults   \* bound: how many wipes fail half way

Wipers == {Alarm} \cup Crons \cup Visitors

\* A frozen drive is kept longer than an active one lives, and there is always a
\* session nobody uses.
ASSUME BoundsAssumption ==
  /\ Never \notin Nat
  /\ Ttl \in Nat /\ Keep \in Nat /\ Ttl <= Keep
  /\ MaxFaults \in Nat /\ MaxTime \in Nat /\ LastFreeze \in Nat
  /\ Alarm \notin Crons \cup Visitors /\ Writers \cap Wipers = {}
  /\ IsFiniteSet(Writers) /\ IsFiniteSet(Wipers)
  /\ "null" \notin Sessions
  /\ Cardinality(Writers) + Cardinality(Wipers) < Cardinality(Sessions)

VARIABLES
  now,
  row,        \* the drive's row in D1: status and frozen_at
  holds,      \* whether the bucket holds anything under the drive's prefix
  scheduled,  \* whether the storage of the Durable Object has expiresAt
  alarm,      \* the time of its alarm, or Never
  session,    \* DriveObject.session, or "null"
  closed,     \* the sessions that were sealed
  tail,       \* per session, who waits in DriveSession.exclusive; the head runs
  writer,     \* where each mutating request is
  wiper,      \* where each wipe is
  deferral,   \* the deferAlarm call an admin freeze still has to make, or Never
  faults,     \* how many wipes have failed
  verify,     \* whether the verify request that made the drive still runs
  released,   \* history: an operator released the drive
  unsealed    \* history: a release found no session to seal, or could not erase

vars == <<now, row, holds, scheduled, alarm, session, closed, tail, writer, wiper,
          deferral, faults, verify, released, unsealed>>

object == <<scheduled, alarm, session, closed, tail>>

history == <<released, unsealed>>

Away == [step |-> "away"]

-----------------------------------------------------------------------------
(* wipeDecision: one decision for the alarm, the request path and the cron *)

Until(seen) == (IF seen.frozenAt = Never THEN Ttl ELSE seen.frozenAt) + Keep

\* Mutant: a freeze is for ever.
frozenNeverDue(seen, at) == seen.status = "active" /\ Ttl <= at

\* The drive may be wiped at this time, by a row read at any earlier one.
wipeDue(seen, at) ==
  \/ seen.status = "active" /\ Ttl <= at
  \/ seen.status = "frozen" /\ Until(seen) <= at

-----------------------------------------------------------------------------
Init ==
  /\ now = 0
  /\ row = [status |-> "active", frozenAt |-> Never]
  /\ holds = FALSE
  /\ scheduled = FALSE
  /\ alarm = Never
  /\ session = "null"
  /\ closed = {}
  /\ tail = [s \in Sessions |-> << >>]
  /\ writer = [p \in Writers |-> Away]
  /\ wiper = [w \in Wipers |-> Away]
  /\ deferral = Never
  /\ faults = 0
  /\ verify = "running"
  /\ released = FALSE
  /\ unsealed = FALSE

Tick ==
  /\ now < MaxTime
  /\ now' = now + 1
  /\ UNCHANGED <<row, holds, object, writer, wiper, deferral, faults, verify, history>>

\* The end of verify: DriveObject.schedule, and the client gets its password.
Schedule ==
  /\ verify = "running"
  /\ verify' = "answered"
  /\ scheduled' = TRUE
  /\ alarm' = Ttl
  /\ UNCHANGED <<now, row, holds, session, closed, tail, writer, wiper, deferral, faults, history>>

\* The call fails and so does verify: a drive without an alarm or a client.
ScheduleFails ==
  /\ verify = "running"
  /\ verify' = "failed"
  /\ UNCHANGED <<now, row, holds, object, writer, wiper, deferral, faults, history>>

-----------------------------------------------------------------------------
(* Freezing: a report, or an operator who then also defers the alarm *)

\* Mutant: the row holds the end of the keep.
FrozenUntil == [status |-> "frozen", frozenAt |-> now + Keep]

Frozen ==
  [status |-> "frozen", frozenAt |-> IF row.frozenAt = Never THEN now ELSE row.frozenAt]

Freeze ==
  /\ row.status # "wiped"
  /\ now <= LastFreeze
  /\ row' = Frozen
  /\ UNCHANGED <<now, holds, object, writer, wiper, faults, verify, history>>

Report == Freeze /\ UNCHANGED deferral

AdminFreeze == deferral = Never /\ Freeze /\ deferral' = now + Keep

DeferAlarm ==
  /\ deferral # Never
  /\ alarm' = deferral
  /\ deferral' = Never
  /\ UNCHANGED <<now, row, holds, scheduled, session, closed, tail, writer, wiper, faults, verify, history>>

-----------------------------------------------------------------------------
(* A mutating request: the router, DriveObject.fetch, DriveSession *)

Moves(p, next) == writer' = [writer EXCEPT ![p] = next]

\* handleDavInner lets the request through by the row it read.
Admit(p) ==
  /\ writer[p] = Away
  /\ verify = "answered"
  /\ row.status = "active" /\ ~ wipeDue(row, now)
  /\ Moves(p, [step |-> "admitted"])
  /\ UNCHANGED <<now, row, holds, object, wiper, deferral, faults, verify, history>>

\* Nobody refers to the session any more.
Unused(s) == s # session /\ tail[s] = << >>

\* DriveObject.fetch reads expiresAt and takes the session, or makes one.
Arrive(p) ==
  /\ writer[p].step = "admitted"
  /\ LET s == IF session # "null" THEN session ELSE CHOOSE t \in Sessions : Unused(t)
     IN  /\ session' = s
         /\ closed' = IF session # "null" THEN closed ELSE closed \ {s}
         /\ tail' = [tail EXCEPT ![s] = Append(@, p)]
         /\ Moves(p, [step |-> "queued", session |-> s, scheduled |-> scheduled])
  /\ UNCHANGED <<now, row, holds, scheduled, alarm, wiper, deferral, faults, verify, history>>

Leaves(p) ==
  /\ tail' = [tail EXCEPT ![writer[p].session] = Tail(@)]
  /\ Moves(p, Away)

Runs(who, s) == tail[s] # << >> /\ Head(tail[s]) = who

\* The 410 of DriveSession.dispatch.
refused(p) == writer[p].session \in closed \/ ~ writer[p].scheduled \/ Ttl <= now

dispatch(p) ==
  /\ writer[p].step = "queued"
  /\ Runs(p, writer[p].session)
  /\ IF refused(p) THEN Leaves(p)
     ELSE Moves(p, [writer[p] EXCEPT !.step = "writing"]) /\ UNCHANGED tail
  /\ UNCHANGED <<now, row, holds, scheduled, alarm, session, closed, wiper, deferral, faults, verify, history>>

\* The handler ends: something was stored, everything deleted, or neither.
Land(p) ==
  /\ writer[p].step = "writing"
  /\ holds' \in BOOLEAN
  /\ Leaves(p)
  /\ UNCHANGED <<now, row, scheduled, alarm, session, closed, wiper, deferral, faults, verify, history>>

-----------------------------------------------------------------------------
(* Wipes *)

Goes(w, next) == wiper' = [wiper EXCEPT ![w] = next]

\* What makes a wiper look at the row: now was read before the row by the
\* alarm and the cron, and after it by a request.
Begins(w, kind) ==
  /\ wiper[w] = Away
  /\ Goes(w, [step |-> "look", kind |-> kind, row |-> row, at |-> now])

AlarmFires ==
  /\ alarm # Never /\ alarm <= now
  /\ Begins(Alarm, "alarm")
  /\ alarm' = Never
  /\ UNCHANGED <<now, row, holds, scheduled, session, closed, tail, writer, deferral, faults, verify, history>>

Sweep(w) ==
  /\ w # Alarm
  /\ Begins(w, "sweep")
  /\ UNCHANGED <<now, row, holds, object, writer, deferral, faults, verify, history>>

Visit(w) ==
  /\ w \in Visitors
  /\ \/ Begins(w, "visit")
     \/ Begins(w, "release")
  /\ UNCHANGED <<now, row, holds, object, writer, deferral, faults, verify, history>>

\* Mutant: a frozen drive is skipped and its alarm is not set again.
skipFrozen(w) == alarm' = alarm

\* The defer of runAlarm; nobody but the alarm defers.
defer(w) ==
  alarm' = IF wiper[w].kind = "alarm" /\ row.status = "frozen" THEN Until(row) ELSE alarm

Decide(w) ==
  /\ wiper[w].step = "look"
  /\ LET kind  == wiper[w].kind
         due   == CASE kind \in {"alarm", "sweep"} -> wipeDue(row, wiper[w].at)
                    [] kind = "visit" -> wipeDue(wiper[w].row, now)
                    [] kind = "release" -> wiper[w].row.status # "wiped"
     IN  /\ IF due THEN Goes(w, [step |-> "call", kind |-> kind]) /\ UNCHANGED alarm
            ELSE Goes(w, Away) /\ defer(w)
         /\ released' = (released \/ (kind = "release" /\ due))
  /\ UNCHANGED <<now, row, holds, scheduled, session, closed, tail, writer, deferral, faults, verify, unsealed>>

\* Mutant: the wipe does not wait for the write that is in flight.
closeAtOnce(w) ==
  /\ closed' = IF session = "null" THEN closed ELSE closed \cup {session}
  /\ Goes(w, [step |-> "clear", kind |-> wiper[w].kind])
  /\ UNCHANGED tail

\* DriveSession.seal queues behind the writes; no session, nothing to seal.
seal(w) ==
  /\ UNCHANGED closed
  /\ IF session = "null"
     THEN Goes(w, [step |-> "clear", kind |-> wiper[w].kind]) /\ UNCHANGED tail
     ELSE /\ tail' = [tail EXCEPT ![session] = Append(@, w)]
          /\ Goes(w, [step |-> "sealing", kind |-> wiper[w].kind, session |-> session])

\* DriveObject.wipe is called.
Call(w) ==
  /\ wiper[w].step = "call"
  /\ seal(w)
  /\ unsealed' = (unsealed \/ (wiper[w].kind = "release" /\ session = "null"))
  /\ UNCHANGED <<now, row, holds, scheduled, alarm, session, writer, deferral, faults, verify, released>>

\* Mutant: the seal never lets the next in the queue run.
sealStays(w) ==
  /\ wiper[w].step = "sealing"
  /\ Runs(w, wiper[w].session)
  /\ closed' = closed \cup {wiper[w].session}
  /\ Goes(w, [step |-> "clear", kind |-> wiper[w].kind])
  /\ UNCHANGED <<now, row, holds, scheduled, alarm, session, tail, writer, deferral, faults, verify, history>>

Sealed(w) ==
  /\ wiper[w].step = "sealing"
  /\ Runs(w, wiper[w].session)
  /\ closed' = closed \cup {wiper[w].session}
  /\ tail' = [tail EXCEPT ![wiper[w].session] = Tail(@)]
  /\ Goes(w, [step |-> "clear", kind |-> wiper[w].kind])
  /\ UNCHANGED <<now, row, holds, scheduled, alarm, session, writer, deferral, faults, verify, history>>

\* deletePrefix, in the Durable Object and again in the Worker.
Clear(w) ==
  /\ wiper[w].step \in {"clear", "clear again"}
  /\ holds' = FALSE
  /\ Goes(w, [wiper[w] EXCEPT !.step = IF @ = "clear" THEN "mark" ELSE "mark again"])
  /\ UNCHANGED <<now, row, object, writer, deferral, faults, verify, history>>

\* D1Repo.markWiped
Mark(w) ==
  /\ wiper[w].step \in {"mark", "mark again"}
  /\ row' = [row EXCEPT !.status = "wiped"]
  /\ Goes(w, IF wiper[w].step = "mark" THEN [wiper[w] EXCEPT !.step = "erase"] ELSE Away)
  /\ UNCHANGED <<now, holds, object, writer, deferral, faults, verify, history>>

\* deleteAll empties the storage, the object forgets its session.
Erase(w) ==
  /\ wiper[w].step = "erase"
  /\ scheduled' = FALSE
  /\ session' = "null"
  /\ Goes(w, IF w = Alarm THEN Away ELSE [wiper[w] EXCEPT !.step = "clear again"])
  /\ UNCHANGED <<now, row, holds, alarm, closed, tail, writer, deferral, faults, verify, history>>

\* R2 or D1 fails: the handler throws, and the runtime retries an alarm.
WipeFails(w) ==
  /\ wiper[w].step \in {"clear", "mark", "erase", "clear again", "mark again"}
  /\ faults < MaxFaults
  /\ faults' = faults + 1
  /\ Goes(w, Away)
  /\ alarm' = IF w = Alarm /\ alarm = Never THEN now ELSE alarm
  /\ unsealed' = (unsealed \/ (wiper[w].kind = "release" /\ wiper[w].step = "erase"))
  /\ UNCHANGED <<now, row, holds, scheduled, session, closed, tail, writer, deferral, verify, released>>

\* An object that does nothing is evicted from memory.
Evict ==
  /\ session # "null"
  /\ tail[session] = << >>
  /\ \A w \in Wipers : wiper[w].step \in {"away", "look", "call", "clear again", "mark again"}
  /\ session' = "null"
  /\ UNCHANGED <<now, row, holds, scheduled, alarm, closed, tail, writer, wiper, deferral, faults, verify, history>>

-----------------------------------------------------------------------------
WriterStep(p) == Arrive(p) \/ dispatch(p) \/ Land(p)

WiperStep(w) ==
  Decide(w) \/ Call(w) \/ Sealed(w) \/ Clear(w) \/ Mark(w) \/ Erase(w)

Next ==
  \/ Tick \/ Schedule \/ ScheduleFails
  \/ Report \/ AdminFreeze \/ DeferAlarm
  \/ \E p \in Writers : Admit(p) \/ WriterStep(p)
  \/ AlarmFires
  \/ \E w \in Wipers : Sweep(w) \/ Visit(w) \/ WiperStep(w) \/ WipeFails(w)
  \/ Evict

Spec == Init /\ [][Next]_vars

(* Time passes, requests and wipes that have started come to an end, and   *)
(* the cron runs every five minutes (wrangler.jsonc).                      *)
FairSpec ==
  /\ Spec
  /\ WF_vars(Tick)
  /\ \A w \in Crons : WF_vars(Sweep(w))
  /\ \A p \in Writers : WF_vars(WriterStep(p))
  /\ \A w \in Wipers : WF_vars(WiperStep(w))

-----------------------------------------------------------------------------
(* Properties *)

Times == 0..(MaxTime + Keep)

\* The variables hold what the row, the object and the handlers can hold.
TypeOK ==
  /\ now \in 0..MaxTime
  /\ row \in [status : {"active", "frozen", "wiped"}, frozenAt : {Never} \cup 0..LastFreeze]
  /\ holds \in BOOLEAN /\ scheduled \in BOOLEAN
  /\ verify \in {"running", "answered", "failed"}
  /\ released \in BOOLEAN /\ unsealed \in BOOLEAN
  /\ alarm \in {Never} \cup Times
  /\ deferral \in {Never} \cup Times
  /\ session \in Sessions \cup {"null"}
  /\ closed \subseteq Sessions
  /\ tail \in [Sessions -> Seq(Writers \cup Wipers)]
  /\ \A p \in Writers : writer[p].step \in {"away", "admitted", "queued", "writing"}
  /\ \A w \in Wipers : wiper[w].step \in
       {"away", "look", "call", "sealing", "clear", "mark", "erase", "clear again", "mark again"}
  /\ faults \in 0..MaxFaults

Promise == INSTANCE DrivePromise
  WITH status <- row.status, since <- row.frozenAt

\* However alarm, cron, requests, freezes and writes interleave, and wherever a
\* wipe fails, the drive keeps what it promises: wiped only after its hour or a
\* release, empty for ever once it was wiped (unless a release left the object
\* able to write), frozen since the first freeze.
ImplementsPromise == Promise!Spec

\* The alarm alone is enough to end a drive whose schedule call succeeded: it is
\* set until the handler runs, and the handler sets it again unless the drive
\* is wiped (runAlarm) or the wipe failed and the runtime retries.
AlarmCovers ==
  scheduled /\ row.status # "wiped" => alarm # Never \/ wiper[Alarm] # Away

\* Every drive ends, also a frozen one, also when a wipe fails half way or the
\* object never got its alarm, and every write is answered on the way.
EventuallyWiped == <>[](row.status = "wiped")

WritesEnd == \A p \in Writers : writer[p] # Away ~> writer[p] = Away

\* SAFETY.md: a frozen drive is kept as evidence until frozen_at plus 30 days.
FrozenKept ==
  [][row.status = "frozen" /\ ~ released /\ now < Until(row) => row'.status # "wiped"]_vars

\* SAFETY.md: a wipe waits for the write in flight and the rest gets 410, so
\* that a wiped drive stays empty once everything under way has ended.
WipedIsEmpty ==
  row.status = "wiped"
  /\ (\A p \in Writers : writer[p] = Away) /\ (\A w \in Wipers : wiper[w] = Away)
    => ~ holds
=============================================================================

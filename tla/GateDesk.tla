------------------------------ MODULE GateDesk ------------------------------
(***************************************************************************)
(* clef-gate: the desk of one anonymous session.  A Durable Object holds   *)
(* the session, at most one tool call that waits for a person and the      *)
(* schedule that ends both; D1 holds the session row and the audit log.    *)
(* A handler of the object is atomic up to its next await of D1 or of a    *)
(* model: there other handlers of the same object run.  A D1 statement is  *)
(* sent in one step, executed in a second and its answer read in a third.  *)
(***************************************************************************)
EXTENDS Integers, FiniteSets

CONSTANTS
  Calls,        \* the chat requests, each naming the decision it may log
  Clicks,       \* the browser's other requests in flight at once
  Opener,       \* the request that starts the session
  Alarm,        \* the scheduled callback expire()
  SessionTtl,   \* SESSION_TTL_SECONDS
  PendingTtl,   \* PENDING_TTL_SECONDS
  Day,          \* the age at which purgeExpired drops any audit row
  TurnLimit,    \* TURN_LIMIT
  LastTurn,     \* bound: time passes LastTurn only when no handler is running
  MaxTime,      \* bound on the clock
  MaxFaults,    \* bound on evictions and failed D1 statements
  None

ASSUME GateConstants ==
  /\ Opener # Alarm /\ {Opener, Alarm} \cap (Calls \cup Clicks) = {}
  /\ Calls \cap Clicks = {}
  /\ {SessionTtl, PendingTtl, TurnLimit} \subseteq Nat \ {0}
  /\ {Day, LastTurn, MaxTime, MaxFaults} \subseteq Nat
  /\ None \notin Nat \cup Calls

VARIABLES
  now,       \* the clock
  desk,      \* the agent's state: open (createdAt > 0), ends (expiresAt), turns
  pending,   \* the row of the pending table, or None
  sched,     \* when the schedule named by scheduleId fires, or None
  firing,    \* the callback that runs is the schedule's own row
  busy,      \* #busy
  card,      \* the outcome on each gate card of the transcript
  pc, stmt, reply,   \* each handler: where it is, its D1 statement, the answer
  row,       \* expires_at of the sessions row, or None
  log,       \* the decisions table
  sweep,     \* the hourly purge: its next statement and its clock, or None
  cookie,    \* the browser holds the session cookie
  faults

\* Kept for the properties only: the verdict of each decision, the outcome its
\* audit row ever held ("unlogged" before the row exists), its tool's runs.
VARIABLES verdict, recorded, ran

history == <<verdict, recorded, ran>>
object == <<desk, pending, sched, firing, busy, card>>
database == <<row, log, recorded>>
vars == <<now, object, pc, stmt, reply, row, log, sweep, cookie, faults, history>>

Workers == Calls \cup Clicks \cup {Opener, Alarm}
Once == Calls \cup {Opener}
Outcomes == {"approve", "deny", "expired"}
Closed == [open |-> FALSE, ends |-> 0, turns |-> 0]
Pending == [id : Calls, expires : Nat]
LogRow == [own : BOOLEAN, at : Nat, outcome : Outcomes \cup {"none"}]
Statement == [op : {"session", "decision", "outcome", "check", "purgeLog", "purgeRow"},
              id : Calls \cup {None}, as : Outcomes \cup {"none"},
              own : BOOLEAN, at : Nat]
ASSUME NoneIsNoRow == None \notin Pending \cup LogRow \cup Statement

Resting == {"idle", "done"}
Places == Resting \cup {"start", "plan", "insert", "outcome", "expire",
                        "closing", "model", "reclaim", "purgeLog", "purgeRow"}

(* The statements of audit.ts. *)
InsertSession(ends) == [op |-> "session", id |-> None, as |-> "none", own |-> TRUE, at |-> ends]
InsertDecision(k) == [op |-> "decision", id |-> k, as |-> "none", own |-> desk.open, at |-> now]
SetHumanOutcome(d, o) == [op |-> "outcome", id |-> d, as |-> o, own |-> TRUE, at |-> now]
SessionIsLive == [op |-> "check", id |-> None, as |-> "none", own |-> TRUE, at |-> now]
Purge(table) == [op |-> table, id |-> None, as |-> "none", own |-> TRUE, at |-> now]

Init ==
  /\ now = 0 /\ desk = Closed /\ pending = None /\ sched = None
  /\ firing = FALSE /\ busy = FALSE /\ card = [d \in Calls |-> "gone"]
  /\ pc = [w \in Workers |-> "idle"]
  /\ stmt = [w \in Workers |-> None] /\ reply = [w \in Workers |-> "none"]
  /\ row = None /\ log = [d \in Calls |-> None] /\ sweep = None
  /\ cookie = FALSE /\ faults = 0
  /\ verdict = [d \in Calls |-> "none"] /\ recorded = [d \in Calls |-> "unlogged"]
  /\ ran = [d \in Calls |-> 0]

-----------------------------------------------------------------------------
(* What the handlers share. *)

Live == desk.open /\ now < desk.ends

\* Mutant: chat() and resolve() do not look at #busy.
MayStartBusy == Live

\* What chat() and resolve() require of the desk.
MayStart == ~busy /\ Live

\* Mutant: the window closes after its last moment.
windowPassed(p) == p.expires < now

isPendingExpired(p) == p.expires <= now

\* Mutant: expire() does not wait for a turn.
NeverDeferred == FALSE

\* expire() puts itself off while a turn is under way.
Deferred == busy

Earlier(a, b) == IF a <= b THEN a ELSE b

\* Mutant: a waiting call needs no schedule of its own.
DueOfSession(p, d) == d.ends

\* When arm() wants to be called next.
Due(p, d) == IF p = None THEN d.ends ELSE Earlier(p.expires, d.ends)

\* arm(): drops the schedule, and sets one only for a time still to come.
Arm(p, d) ==
  /\ sched' = IF Due(p, d) <= now THEN None ELSE Due(p, d)
  /\ firing' = FALSE

Goes(w, place) == pc' = [pc EXCEPT ![w] = place]
Sends(w, place, statement) ==
  /\ Goes(w, place)
  /\ stmt' = [stmt EXCEPT ![w] = statement]
  /\ UNCHANGED reply
Answered(w, place) == pc[w] = place /\ reply[w] # "none"
Reads(w) ==
  /\ stmt' = [stmt EXCEPT ![w] = None]
  /\ reply' = [reply EXCEPT ![w] = "none"]
Rests(w) == Goes(w, IF w \in Once THEN "done" ELSE "idle")

\* A request of the browser arrives with its cookie.
Free(w) == pc[w] = "idle" /\ stmt[w] = None
Arrives(w) == cookie /\ Free(w)

MarkHuman(d, o) == card' = [card EXCEPT ![d] = IF @ = "gone" THEN @ ELSE o]
Dropped(d) == IF pending # None /\ pending.id = d THEN None ELSE pending

\* Handlers in flight are lost; a statement already sent may still execute.
Killed ==
  /\ pc' = [w \in Workers |-> IF pc[w] # "idle" /\ w \in Once THEN "done" ELSE "idle"]
  /\ stmt' = [w \in Workers |-> IF reply[w] = "none" THEN stmt[w] ELSE None]
  /\ reply' = [w \in Workers |-> "none"]

\* destroy(): the object's storage and alarm are gone and the object is aborted.
\* The catch around it is not modelled: a destroy() that fails midway is followed
\* by deleteAll() alone, and a turn in flight then lives until it throws.
Destroy ==
  /\ desk' = Closed /\ pending' = None /\ sched' = None
  /\ firing' = FALSE /\ busy' = FALSE /\ card' = [d \in Calls |-> "gone"]
  /\ Killed

\* wipe() up to the first statement of purgeSession.
Wipe(w) ==
  IF desk.open
  THEN /\ desk' = Closed /\ pending' = None /\ sched' = None /\ firing' = FALSE
       /\ card' = [d \in Calls |-> "gone"] /\ UNCHANGED busy
       /\ pc' = [pc EXCEPT ![w] = "purgeLog"]
       /\ stmt' = [stmt EXCEPT ![w] = Purge("purgeLog")]
       /\ reply' = [reply EXCEPT ![w] = "none"]
  ELSE Destroy

-----------------------------------------------------------------------------
(* The session. *)

Start ==
  /\ pc[Opener] = "idle"
  /\ desk' = [open |-> TRUE, ends |-> now + SessionTtl, turns |-> 0]
  /\ Sends(Opener, "start", InsertSession(now + SessionTtl))
  /\ UNCHANGED <<now, pending, sched, firing, busy, card, row, log, sweep,
                 cookie, faults, history>>

Started ==
  /\ Answered(Opener, "start")
  /\ Reads(Opener) /\ Rests(Opener)
  /\ \/ /\ reply[Opener] = "error"
        /\ desk' = Closed
        /\ UNCHANGED <<sched, firing, cookie>>
     \/ /\ reply[Opener] = "ok"
        /\ Arm(pending, desk)
        /\ cookie' = TRUE
        /\ UNCHANGED desk
  /\ UNCHANGED <<now, pending, busy, card, row, log, sweep, faults, history>>

View(k) ==
  /\ Arrives(k)
  /\ ~Live /\ desk.open
  /\ Wipe(k)
  /\ UNCHANGED <<now, row, log, sweep, cookie, faults, history>>

Forget(k) ==
  /\ Arrives(k)
  /\ Wipe(k)
  /\ UNCHANGED <<now, row, log, sweep, cookie, faults, history>>

SetModel(k) ==
  /\ Arrives(k)
  /\ Live
  /\ Sends(k, "model", InsertSession(desk.ends))
  /\ UNCHANGED <<now, object, row, log, sweep, cookie, faults, history>>

ModelSet(k) ==
  /\ Answered(k, "model")
  /\ Reads(k) /\ Rests(k)
  /\ UNCHANGED <<now, object, row, log, sweep, cookie, faults, history>>

\* What sessionIsLive() asks.
RowLive(at) == row # None /\ at < row

\* The worker found no live row and calls reclaim(), which looks again while the
\* desk knows its session.
Reclaim(k) ==
  /\ Arrives(k)
  /\ ~RowLive(now)
  /\ IF desk.open THEN Sends(k, "reclaim", SessionIsLive) /\ UNCHANGED object
                  ELSE Destroy
  /\ UNCHANGED <<now, row, log, sweep, cookie, faults, history>>

\* What the desk still holds goes, unless the row is live or the read failed.
Reclaimed(k) ==
  /\ Answered(k, "reclaim")
  /\ IF reply[k] = "no" THEN Destroy
                        ELSE Reads(k) /\ Rests(k) /\ UNCHANGED object
  /\ UNCHANGED <<now, row, log, sweep, cookie, faults, history>>

\* wipe() after a statement of purgeSession: a failure skips the second one.
Purged(w) ==
  /\ Answered(w, "purgeLog") \/ Answered(w, "purgeRow")
  /\ IF pc[w] = "purgeLog" /\ reply[w] # "error"
     THEN /\ Goes(w, "purgeRow")
          /\ stmt' = [stmt EXCEPT ![w] = Purge("purgeRow")]
          /\ reply' = [reply EXCEPT ![w] = "none"]
          /\ UNCHANGED object
     ELSE Destroy
  /\ UNCHANGED <<now, row, log, sweep, cookie, faults, history>>

-----------------------------------------------------------------------------
(* A turn: chat(). *)

\* Mutant: the turn is counted when it starts, and again when it is answered.
ChatCountsTwice(k) ==
  /\ Arrives(k)
  /\ MayStart /\ pending = None /\ desk.turns < TurnLimit
  /\ desk' = [desk EXCEPT !.turns = @ + 1]
  /\ busy' = TRUE
  /\ Goes(k, "plan")
  /\ UNCHANGED <<now, pending, sched, firing, card, stmt, reply, row, log,
                 sweep, cookie, faults, history>>

Chat(k) ==
  /\ Arrives(k)
  /\ MayStart /\ pending = None /\ desk.turns < TurnLimit
  /\ busy' = TRUE
  /\ Goes(k, "plan")
  /\ UNCHANGED <<now, desk, pending, sched, firing, card, stmt, reply, row, log,
                 sweep, cookie, faults, history>>

\* The planner answered without a usable tool call.
ChatAnswered(k) ==
  /\ pc[k] = "plan"
  /\ desk' = [desk EXCEPT !.turns = @ + 1]
  /\ busy' = FALSE
  /\ Rests(k)
  /\ UNCHANGED <<now, pending, sched, firing, card, stmt, reply, row, log,
                 sweep, cookie, faults, history>>

\* The gate judged the call; the decision goes to the audit log first.
ChatJudged(k) ==
  /\ pc[k] = "plan"
  /\ \E v \in {"allow", "deny", "ask"} : verdict' = [verdict EXCEPT ![k] = v]
  /\ Sends(k, "insert", InsertDecision(k))
  /\ UNCHANGED <<now, object, row, log, sweep, cookie, faults, recorded, ran>>

ChatLogged(k) ==
  /\ Answered(k, "insert")
  /\ Reads(k)
  /\ LET ok == reply[k] = "ok"
         waits == ok /\ verdict[k] = "ask"
         runs == ok /\ verdict[k] = "allow"
         turn == [desk EXCEPT !.turns = @ + 1]
         call == [id |-> k, expires |-> now + PendingTtl]
     IN /\ desk' = IF ok THEN turn ELSE desk
        /\ card' = IF ok THEN [card EXCEPT ![k] = "none"] ELSE card
        /\ IF waits THEN pending' = call /\ Arm(call, turn)
                    ELSE UNCHANGED <<pending, sched, firing>>
        /\ ran' = IF runs THEN [ran EXCEPT ![k] = @ + 1] ELSE ran
        /\ IF runs THEN Goes(k, "closing") /\ UNCHANGED busy
                   ELSE Rests(k) /\ busy' = FALSE
  /\ UNCHANGED <<now, row, log, sweep, cookie, faults, verdict, recorded>>

\* The closing sentence of a turn whose tool ran.
Closing(k) ==
  /\ pc[k] = "closing"
  /\ busy' = FALSE
  /\ Rests(k)
  /\ UNCHANGED <<now, desk, pending, sched, firing, card, stmt, reply, row, log,
                 sweep, cookie, faults, history>>

-----------------------------------------------------------------------------
(* The person's answer: resolve(). *)

Resolve(k, o) ==
  /\ Arrives(k)
  /\ MayStart /\ pending # None
  /\ IF isPendingExpired(pending)
     THEN Sends(k, "expire", SetHumanOutcome(pending.id, "expired")) /\ UNCHANGED busy
     ELSE Sends(k, "outcome", SetHumanOutcome(pending.id, o)) /\ busy' = TRUE
  /\ UNCHANGED <<now, desk, pending, sched, firing, card, row, log, sweep,
                 cookie, faults, history>>

OutcomeRecorded(k) ==
  /\ Answered(k, "outcome")
  /\ Reads(k)
  /\ LET d == stmt[k].id
         runs == reply[k] = "ok" /\ stmt[k].as = "approve"
     IN /\ pending' = IF reply[k] = "error" THEN pending ELSE Dropped(d)
        /\ IF reply[k] = "ok" THEN MarkHuman(d, stmt[k].as) /\ Arm(pending', desk)
                              ELSE UNCHANGED <<card, sched, firing>>
        /\ ran' = IF runs THEN [ran EXCEPT ![d] = @ + 1] ELSE ran
        /\ IF runs THEN Goes(k, "closing") /\ UNCHANGED busy
                   ELSE Rests(k) /\ busy' = FALSE
  /\ UNCHANGED <<now, desk, row, log, sweep, cookie, faults, verdict, recorded>>

\* expirePending() returned in resolve(): the call is refused.
PendingExpired(k) ==
  /\ Answered(k, "expire")
  /\ Reads(k) /\ Rests(k)
  /\ MarkHuman(stmt[k].id, "expired")
  /\ pending' = Dropped(stmt[k].id)
  /\ Arm(pending', desk)
  /\ UNCHANGED <<now, desk, busy, row, log, sweep, cookie, faults, history>>

-----------------------------------------------------------------------------
(* The schedule: expire(). *)

\* expire() once no call is overdue: at is the clock it read, p the pending
\* table, c the cards, mine whether the row that fired is still the schedule.
Settles(at, p, c, mine) ==
  IF desk.open /\ desk.ends <= at THEN Wipe(Alarm)
  ELSE /\ Rests(Alarm) /\ Reads(Alarm)
       /\ pending' = p /\ card' = c
       /\ IF Live THEN Arm(p, desk)
                  ELSE sched' = (IF mine THEN None ELSE sched) /\ firing' = FALSE
       /\ UNCHANGED <<desk, busy>>

Expire ==
  /\ sched # None /\ sched <= now
  /\ Free(Alarm)
  /\ CASE Deferred ->
            /\ sched' = now + 1 /\ firing' = FALSE
            /\ UNCHANGED <<desk, pending, busy, card, pc, stmt, reply>>
       [] ~Deferred /\ pending # None /\ isPendingExpired(pending) ->
            /\ firing' = TRUE
            /\ Sends(Alarm, "expire", SetHumanOutcome(pending.id, "expired"))
            /\ UNCHANGED <<desk, pending, sched, busy, card>>
       [] OTHER -> Settles(now, pending, card, TRUE)
  /\ UNCHANGED <<now, row, log, sweep, cookie, faults, history>>

\* expirePending() returned in expire().
CallExpired ==
  /\ Answered(Alarm, "expire")
  /\ LET d == stmt[Alarm].id
     IN Settles(stmt[Alarm].at, Dropped(d),
                [card EXCEPT ![d] = IF @ = "gone" THEN @ ELSE "expired"], firing)
  /\ UNCHANGED <<now, row, log, sweep, cookie, faults, history>>

-----------------------------------------------------------------------------
(* D1, the hourly purge, time and failures. *)

\* The row an outcome may still be written to.
Unanswered(s) == log[s.id] # None /\ log[s.id].own /\ log[s.id].outcome = "none"

Effect(s) ==
  CASE s.op = "session" -> row' = s.at /\ UNCHANGED <<log, recorded>>
    [] s.op = "decision" ->
         /\ log' = [log EXCEPT ![s.id] = [own |-> s.own, at |-> s.at, outcome |-> "none"]]
         /\ recorded' = [recorded EXCEPT ![s.id] = "none"]
         /\ UNCHANGED row
    [] s.op = "outcome" ->
         /\ log' = IF Unanswered(s) THEN [log EXCEPT ![s.id].outcome = s.as] ELSE log
         /\ recorded' = IF Unanswered(s) THEN [recorded EXCEPT ![s.id] = s.as] ELSE recorded
         /\ UNCHANGED row
    [] s.op = "purgeLog" ->
         /\ log' = [d \in Calls |-> IF log[d] # None /\ log[d].own THEN None ELSE log[d]]
         /\ UNCHANGED <<row, recorded>>
    [] s.op = "purgeRow" -> row' = None /\ UNCHANGED <<log, recorded>>
    [] s.op = "check" -> UNCHANGED database

\* Mutant: an update that changed no row counts as recorded.
ResultOfAny(s) == "ok"

\* Whether an update changed a row, which setHumanOutcome() looks at, or a read
\* found one.
Result(s) ==
  IF \/ s.op = "outcome" /\ ~Unanswered(s)
     \/ s.op = "check" /\ ~RowLive(s.at)
  THEN "no" ELSE "ok"

\* The answer of a statement whose handler is gone is nobody's.
Delivers(w, answer) ==
  IF pc[w] \in Resting
  THEN stmt' = [stmt EXCEPT ![w] = None] /\ UNCHANGED reply
  ELSE reply' = [reply EXCEPT ![w] = answer] /\ UNCHANGED stmt

Execute(w) ==
  /\ stmt[w] # None /\ reply[w] = "none"
  /\ Effect(stmt[w])
  /\ Delivers(w, Result(stmt[w]))
  /\ UNCHANGED <<now, object, pc, sweep, cookie, faults, verdict, ran>>

\* A statement fails, before or after it took effect.
ExecuteFails(w) ==
  /\ stmt[w] # None /\ reply[w] = "none"
  /\ faults < MaxFaults /\ faults' = faults + 1
  /\ Effect(stmt[w]) \/ UNCHANGED database
  /\ Delivers(w, "error")
  /\ UNCHANGED <<now, object, pc, sweep, cookie, verdict, ran>>

\* The object restarts: deploy, eviction, crash.
Evict ==
  /\ faults < MaxFaults /\ faults' = faults + 1
  /\ \E w \in Workers : pc[w] \notin Resting
  /\ busy' = FALSE /\ firing' = FALSE
  /\ Killed
  /\ UNCHANGED <<now, desk, pending, sched, card, row, log, sweep, cookie, history>>

Ended(at) == row # None /\ row < at

\* Mutant: only the rows of a session that is left grow stale.
StaleOfSession(d, at) == row # None /\ log[d] # None /\ log[d].own /\ log[d].at + Day < at

Stale(d, at) == log[d] # None /\ log[d].at + Day < at

\* purgeExpired(), one statement at a time; a purge that would delete nothing is
\* left out.
Purges ==
  \/ /\ sweep = None
     /\ Ended(now) \/ \E d \in Calls : Stale(d, now)
     /\ log' = IF Ended(now)
               THEN [d \in Calls |-> IF log[d] # None /\ log[d].own THEN None ELSE log[d]]
               ELSE log
     /\ sweep' = [next |-> "row", at |-> now]
     /\ UNCHANGED row
  \/ /\ sweep # None /\ sweep.next = "row"
     /\ row' = IF Ended(sweep.at) THEN None ELSE row
     /\ sweep' = [sweep EXCEPT !.next = "stale"]
     /\ UNCHANGED log
  \/ /\ sweep # None /\ sweep.next = "stale"
     /\ log' = [d \in Calls |-> IF Stale(d, sweep.at) THEN None ELSE log[d]]
     /\ sweep' = None
     /\ UNCHANGED row

Cron ==
  /\ Purges
  /\ UNCHANGED <<now, object, pc, stmt, reply, cookie, faults, history>>

\* The clock counts from the session's start, which is over long before it ends.
Tick ==
  /\ pc[Opener] = "done"
  /\ now < MaxTime
  /\ now >= LastTurn => \A w \in Workers : pc[w] \in Resting /\ stmt[w] = None
  /\ now' = now + 1
  /\ UNCHANGED <<object, pc, stmt, reply, row, log, sweep, cookie, faults, history>>

-----------------------------------------------------------------------------

Resumes(w) ==
  \/ w = Opener /\ Started
  \/ w = Alarm /\ CallExpired
  \/ w \in Calls /\ (ChatAnswered(w) \/ ChatJudged(w) \/ ChatLogged(w) \/ Closing(w))
  \/ w \in Clicks /\ (ModelSet(w) \/ Reclaimed(w) \/ OutcomeRecorded(w)
                        \/ PendingExpired(w) \/ Closing(w))
  \/ w \notin Once /\ Purged(w)

Click(k) ==
  \/ View(k) \/ Forget(k) \/ SetModel(k) \/ Reclaim(k)
  \/ \E o \in {"approve", "deny"} : Resolve(k, o)

Next ==
  \/ Start
  \/ \E k \in Calls : Chat(k)
  \/ \E k \in Clicks : Click(k)
  \/ \E w \in Workers : Resumes(w) \/ Execute(w) \/ ExecuteFails(w)
  \/ Expire \/ Evict \/ Cron \/ Tick

Spec == Init /\ [][Next]_vars

\* A handler goes on once D1 or the model has answered (a model call times out
\* after 8 s), D1 answers, a due schedule fires, the cron runs and time passes;
\* nobody has to send a request.
FairSpec ==
  /\ Spec
  /\ \A w \in Workers : WF_vars(Resumes(w)) /\ WF_vars(Execute(w) \/ ExecuteFails(w))
  /\ WF_vars(Expire) /\ WF_vars(Cron) /\ WF_vars(Tick)

-----------------------------------------------------------------------------
(* What the desk promises. *)

\* The type of the state; the turns stay within the limit although chat() reads
\* them before it awaits the model and writes them after.
TypeOK ==
  /\ now \in Nat /\ faults \in Nat /\ sched \in Nat \cup {None} /\ row \in Nat \cup {None}
  /\ desk \in [open : BOOLEAN, ends : Nat, turns : 0..TurnLimit]
  /\ pending \in Pending \cup {None}
  /\ {firing, busy, cookie} \subseteq BOOLEAN
  /\ card \in [Calls -> Outcomes \cup {"gone", "none"}]
  /\ pc \in [Workers -> Places]
  /\ stmt \in [Workers -> Statement \cup {None}]
  /\ reply \in [Workers -> {"none", "ok", "no", "error"}]
  /\ log \in [Calls -> LogRow \cup {None}]
  /\ sweep \in [next : {"row", "stale"}, at : Nat] \cup {None}
  /\ verdict \in [Calls -> {"none", "allow", "deny", "ask"}]
  /\ recorded \in [Calls -> Outcomes \cup {"unlogged", "none"}]
  /\ ran \in [Calls -> Nat]

\* A tool runs at most once, only after its verdict is in the audit log, and a
\* call that waits for a person only after the log holds the approval
\* (chat() and resolve() in agent.ts, setHumanOutcome() in audit.ts).
RanOnlyWhenAllowed ==
  \A d \in Calls : ran[d] > 0 =>
    /\ ran[d] = 1
    /\ \/ verdict[d] = "allow" /\ recorded[d] = "none"
       \/ verdict[d] = "ask" /\ recorded[d] = "approve"

\* #busy is up exactly while one chat or answered call is between its awaits: no
\* two turns of a desk overlap, and none leaves it up (the finally blocks).
OneTurn ==
  LET turns == {k \in Workers : pc[k] \in {"plan", "insert", "outcome", "closing"}}
  IN Cardinality(turns) = IF busy THEN 1 ELSE 0

\* The card the browser shows and the audit row agree on what the person said;
\* "expired" may be shown without being logged only after a failure, or when
\* the row has been purged since.
CardMatchesAudit ==
  \A d \in Calls :
    /\ card[d] \in {"approve", "deny"} => recorded[d] = card[d]
    /\ card[d] = "expired" /\ faults = 0 => recorded[d] = "expired" \/ log[d] = None

Quiet == \A w \in Workers : pc[w] \in Resting

\* While the session lasts and no handler runs, the schedule is no later than what
\* is due next (arm(), and the deferral of a busy expire()), and it is set, as
\* long as only one call has ever waited for a person.
AlarmCovers ==
  Live /\ cookie /\ Quiet =>
    /\ sched # None \/ \E c, d \in Calls : c # d /\ verdict[c] = "ask" /\ verdict[d] = "ask"
    /\ sched # None =>
         /\ sched <= now + 1 \/ sched <= desk.ends
         /\ pending # None => sched <= now + 1 \/ sched <= pending.expires

\* A waiting call that has a schedule is answered or expires, unless the answer
\* for an earlier one is still on its way.
WaitingEnds ==
  /\ pending # None /\ sched # None
  /\ \A w \in Workers : stmt[w] # None /\ stmt[w].op = "outcome" => stmt[w].id = pending.id
  ~> pending = None

\* Whatever a session, even one that was cleared while a turn was running,
\* wrote to D1 is purged for good.
RowsPurged == <>[](row = None /\ \A d \in Calls : log[d] = None)

\* The schedule frees the storage of every session (README.md of clef-gate).
DeskIsFreed == desk.open ~> ~desk.open

=============================================================================

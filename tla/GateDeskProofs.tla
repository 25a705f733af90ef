--------------------------- MODULE GateDeskProofs ---------------------------
(***************************************************************************)
(* Proofs about GateDesk: its types, that a tool runs only when allowed,   *)
(* that turns do not overlap, and that cards and schedule can be trusted.  *)
(***************************************************************************)
EXTENDS GateDesk, FiniteSetTheorems, TLAPS

-----------------------------------------------------------------------------
(* The inductive invariant *)

InTurn(w) == pc[w] \in {"plan", "insert", "outcome", "closing"}

Sending == {"start", "insert", "outcome", "expire", "model", "reclaim", "purgeLog", "purgeRow"}

Ops == {"session", "decision", "outcome", "check", "purgeLog", "purgeRow"}

\* What a handler has sent where it waits.
OpOf ==
  [place \in Sending |->
     IF place \in {"start", "model"} THEN "session"
     ELSE IF place = "insert" THEN "decision"
     ELSE IF place \in {"outcome", "expire"} THEN "outcome"
     ELSE IF place = "reclaim" THEN "check"
     ELSE place]

\* Where each handler can be, and what it has sent and heard there; one that was
\* lost on the way leaves its statement behind.
Proper(w, place, s, r) ==
  /\ place = "start" => w = Opener
  /\ place \in {"plan", "insert"} => w \in Calls
  /\ place = "closing" => w \in Calls \cup Clicks
  /\ place \in {"outcome", "model", "reclaim"} => w \in Clicks
  /\ place \in {"expire", "purgeLog", "purgeRow"} => w \in Clicks \cup {Alarm}
  /\ place = "done" => w \in Once
  /\ r # "none" => place \in Sending
  /\ place \in Sending => s # None /\ s.op = OpOf[place]
  /\ place \in {"plan", "closing"} => s = None
  /\ place = "idle" /\ w \in Once => s = None
  /\ place = "outcome" => s.as \in {"approve", "deny"}
  /\ place = "expire" => s.as = "expired"
  /\ s # None /\ s.op = "decision" => w \in Calls /\ s.id = w
  /\ s # None /\ s.op = "outcome" => s.id \in Calls /\ s.as \in Outcomes
  /\ w \in Calls /\ s # None => s.op = "decision"

Papers == \A w \in Workers : Proper(w, pc[w], stmt[w], reply[w])

OneAtATime ==
  /\ \A v, w \in Workers : InTurn(v) /\ InTurn(w) => v = w
  /\ busy <=> \E w \in Workers : InTurn(w)

RoomLeft == \A k \in Calls : pc[k] \in {"plan", "insert"} => desk.turns < TurnLimit

\* Until the session has started nothing else happens.
Before ==
  pc[Opener] \in {"idle", "start"} =>
    /\ sched = None /\ ~ cookie /\ pending = None
    /\ \A w \in Workers \ {Opener} : pc[w] = "idle" /\ stmt[w] = None
    /\ desk.open <=> pc[Opener] = "start"

Shut == ~ desk.open => desk.ends = 0 /\ sched = None

\* The call waited for a person, and what logged it is over.
Asked(d) == verdict[d] = "ask" /\ recorded[d] # "unlogged" /\ pc[d] = "done" /\ stmt[d] = None

AskedFirst ==
  /\ pending # None => Asked(pending.id)
  /\ \A w \in Workers : stmt[w] # None /\ stmt[w].op = "outcome" => Asked(stmt[w].id)

\* The life of a decision: judged, logged, answered.
Decision(d) ==
  /\ pc[d] \in {"idle", "plan"} => verdict[d] = "none" /\ recorded[d] = "unlogged"
  /\ pc[d] \in {"idle", "plan", "insert"} \/ stmt[d] # None => ran[d] = 0 /\ card[d] = "gone"
  /\ stmt[d] # None /\ reply[d] = "none" => recorded[d] = "unlogged"
  /\ pc[d] = "insert" => verdict[d] # "none" /\ (reply[d] = "ok" => recorded[d] = "none")
  /\ recorded[d] \in Outcomes => Asked(d)
  /\ recorded[d] = "unlogged" => card[d] = "gone" /\ ran[d] = 0 /\ log[d] = None
  /\ log[d] # None => log[d].outcome = recorded[d]

Decisions == \A d \in Calls : Decision(d)

\* The answer to an outcome says what the log holds.
HeardAt(w) ==
  /\ pc[w] = "outcome" /\ reply[w] = "ok" =>
       recorded[stmt[w].id] = stmt[w].as /\ ran[stmt[w].id] = 0
  /\ pc[w] = "expire" /\ reply[w] = "ok" => recorded[stmt[w].id] = "expired"
  /\ pc[w] = "expire" /\ reply[w] = "no" /\ faults = 0 =>
       recorded[stmt[w].id] = "expired" \/ log[stmt[w].id] = None
  /\ pc[w] = "expire" /\ reply[w] = "error" => faults # 0

Heard == \A w \in Workers : HeardAt(w)

\* A decision logged for no session belongs to a desk that was cleared.
Owned ==
  /\ \A d \in Calls : log[d] # None /\ ~ log[d].own => ~ desk.open
  /\ \A d \in Calls : stmt[d] # None /\ ~ stmt[d].own => ~ desk.open
  /\ \A w \in Workers : stmt[w] # None /\ stmt[w].op = "outcome" /\ log[stmt[w].id] # None =>
       log[stmt[w].id].own

Answer(w, d) == stmt[w] # None /\ stmt[w].op = "outcome" /\ stmt[w].id = d /\ stmt[w].as # "expired"

Expiry(w, d) == stmt[w] # None /\ stmt[w].op = "outcome" /\ stmt[w].id = d /\ stmt[w].as = "expired"

\* The handlers are gone and nothing will start any more.
Over == ~ desk.open /\ pending = None /\ sched = None /\ Quiet /\ pc[Opener] = "done"

Orphans == \A w \in Workers : stmt[w] # None /\ pc[w] \in Resting => Over

NeverBoth == \A v, w \in Workers : \A d \in Calls : ~ (Expiry(v, d) /\ Answer(w, d))

Expiring ==
  \A v \in Workers : \A d \in Calls : Expiry(v, d) =>
    /\ recorded[d] \notin {"approve", "deny"}
    /\ pending # None /\ pending.id = d => pending.expires <= now

Answering ==
  \A d \in Calls : pending # None /\ pending.id = d /\ recorded[d] \in {"approve", "deny"} =>
    \E w \in Workers : pc[w] = "outcome" /\ Answer(w, d) /\ reply[w] = "ok"

\* Without failures a call is either answered or expired, never both.
InOrder == faults = 0 => Orphans /\ NeverBoth /\ Expiring /\ Answering

\* Two calls have waited for a person.
TwoAsked == \E c, d \in Calls : c # d /\ verdict[c] = "ask" /\ verdict[d] = "ask"

Covered ==
  Live =>
    /\ cookie => sched # None \/ TwoAsked
    /\ sched # None =>
         /\ sched <= now + 1 \/ sched <= desk.ends
         /\ pending # None => sched <= now + 1 \/ sched <= pending.expires

IInv ==
  /\ TypeOK /\ Papers /\ OneAtATime /\ RoomLeft /\ Before /\ Shut
  /\ AskedFirst /\ Decisions /\ Heard /\ Owned /\ InOrder /\ Covered
  /\ RanOnlyWhenAllowed /\ CardMatchesAudit

-----------------------------------------------------------------------------
(* Handlers, and who moves *)

LEMMA Consts ==
  /\ Opener # Alarm /\ Opener \notin Calls \cup Clicks /\ Alarm \notin Calls \cup Clicks
  /\ Calls \cap Clicks = {}
  /\ SessionTtl \in Nat \ {0} /\ PendingTtl \in Nat \ {0} /\ TurnLimit \in Nat \ {0}
  /\ None \notin Nat /\ None \notin Calls
  /\ None \notin Pending /\ None \notin LogRow /\ None \notin Statement
  BY GateConstants, NoneIsNoRow

\* Only handler w moves, to this place, with this statement and answer.
Moves(w, place, s, r) ==
  /\ pc' \in [Workers -> Places]
  /\ stmt' \in [Workers -> Statement \cup {None}]
  /\ reply' \in [Workers -> {"none", "ok", "no", "error"}]
  /\ pc'[w] = place /\ stmt'[w] = s /\ reply'[w] = r
  /\ \A v \in Workers \ {w} : pc'[v] = pc[v] /\ stmt'[v] = stmt[v] /\ reply'[v] = reply[v]

LEMMA Sent ==
  ASSUME TypeOK, NEW w \in Workers, NEW place \in Places, NEW s \in Statement,
         Sends(w, place, s)
  PROVE  Moves(w, place, s, reply[w])
  BY DEF TypeOK, Sends, Goes, Moves

LEMMA RestedRead ==
  ASSUME TypeOK, NEW w \in Workers, Reads(w), Rests(w)
  PROVE  Moves(w, IF w \in Once THEN "done" ELSE "idle", None, "none")
  BY DEF TypeOK, Reads, Rests, Goes, Moves, Places, Resting

LEMMA WentRead ==
  ASSUME TypeOK, NEW w \in Workers, NEW place \in Places, Reads(w), Goes(w, place)
  PROVE  Moves(w, place, None, "none")
  BY DEF TypeOK, Reads, Goes, Moves

LEMMA Went ==
  ASSUME TypeOK, NEW w \in Workers, NEW place \in Places, Goes(w, place), UNCHANGED <<stmt, reply>>
  PROVE  Moves(w, place, stmt[w], reply[w])
  BY DEF TypeOK, Goes, Moves

LEMMA Statements ==
  ASSUME TypeOK
  PROVE  /\ InsertSession(now + SessionTtl) \in Statement
         /\ InsertSession(desk.ends) \in Statement
         /\ \A k \in Calls : InsertDecision(k) \in Statement
         /\ \A d \in Calls, o \in Outcomes : SetHumanOutcome(d, o) \in Statement
         /\ \A table \in {"purgeLog", "purgeRow"} : Purge(table) \in Statement
         /\ SessionIsLive \in Statement
  BY Consts DEF TypeOK, InsertSession, InsertDecision, SetHumanOutcome, SessionIsLive, Purge, Statement

LEMMA Read ==
  ASSUME TypeOK
  PROVE  /\ \A at \in {now + SessionTtl, desk.ends} : InsertSession(at) # None /\ InsertSession(at).op = "session"
         /\ \A k \in Calls : /\ InsertDecision(k) # None /\ InsertDecision(k).op = "decision"
                             /\ InsertDecision(k).id = k /\ InsertDecision(k).own = desk.open
         /\ \A d \in Calls, o \in Outcomes :
              /\ SetHumanOutcome(d, o) # None /\ SetHumanOutcome(d, o).op = "outcome"
              /\ SetHumanOutcome(d, o).id = d /\ SetHumanOutcome(d, o).as = o
         /\ \A table \in {"purgeLog", "purgeRow"} :
              Purge(table) # None /\ Purge(table).op = table
         /\ SessionIsLive # None /\ SessionIsLive.op = "check"
  <1>1. None \notin Statement
    BY Consts
  <1> QED BY <1>1, Statements DEF InsertSession, InsertDecision, SetHumanOutcome, SessionIsLive, Purge

\* A handler that rests, plans or closes has nothing to hear.
LEMMA Silent ==
  ASSUME TypeOK, Papers, NEW w \in Workers
  PROVE  /\ pc[w] \notin Sending => reply[w] = "none"
         /\ pc[w] \in {"plan", "closing"} => stmt[w] = None
         /\ pc[w] \in Places /\ stmt[w] \in Statement \cup {None}
  BY DEF Papers, Proper, TypeOK

LEMMA RestedQuietly ==
  ASSUME TypeOK, Papers, NEW w \in Workers, pc[w] \in {"plan", "closing"}, Rests(w), UNCHANGED <<stmt, reply>>
  PROVE  Moves(w, IF w \in Once THEN "done" ELSE "idle", None, "none")
  <1> DEFINE place == IF w \in Once THEN "done" ELSE "idle"
  <1>1. place \in Places /\ Goes(w, place)
    BY DEF Places, Resting, Rests
  <1>2. stmt[w] = None /\ reply[w] = "none"
    BY Silent DEF Sending
  <1> HIDE DEF place
  <1>3. Moves(w, place, stmt[w], reply[w])
    BY <1>1, Went
  <1> QED BY <1>2, <1>3 DEF place

LEMMA KilledAll ==
  ASSUME TypeOK, Killed
  PROVE  /\ pc' \in [Workers -> Places]
         /\ stmt' \in [Workers -> Statement \cup {None}]
         /\ reply' \in [Workers -> {"none", "ok", "no", "error"}]
         /\ \A w \in Workers :
              /\ pc'[w] = (IF pc[w] # "idle" /\ w \in Once THEN "done" ELSE "idle")
              /\ pc'[w] \in Resting /\ reply'[w] = "none"
              /\ stmt'[w] = stmt[w] \/ stmt'[w] = None
              /\ stmt'[w] # None => reply[w] = "none"
  BY DEF TypeOK, Killed, Places, Resting

LEMMA Delivered ==
  ASSUME TypeOK, Papers, NEW w \in Workers, NEW answer \in {"ok", "no", "error"},
         Delivers(w, answer), pc' = pc
  PROVE  \/ pc[w] \in Resting /\ Moves(w, pc[w], None, "none")
         \/ pc[w] \notin Resting /\ Moves(w, pc[w], stmt[w], answer)
  <1>1. pc[w] \in Resting => reply[w] = "none"
    BY Silent DEF Resting, Sending
  <1> QED BY <1>1 DEF TypeOK, Delivers, Moves

\* The session of the desk, or the whole object, is gone.
LEMMA WipeGoes ==
  ASSUME TypeOK, NEW w \in Workers, Wipe(w)
  PROVE  \/ /\ desk.open /\ Moves(w, "purgeLog", Purge("purgeLog"), "none")
            /\ desk' = Closed /\ pending' = None /\ sched' = None /\ firing' = FALSE
            /\ card' = [d \in Calls |-> "gone"] /\ busy' = busy
         \/ ~ desk.open /\ Destroy
  <1>1. Purge("purgeLog") \in Statement
    BY Statements
  <1> QED BY <1>1 DEF Wipe, TypeOK, Moves, Places

-----------------------------------------------------------------------------
(* What each step does to its handler *)

LEMMA StartMoves ==
  ASSUME TypeOK, Papers, Start
  PROVE  pc[Opener] = "idle" /\ Moves(Opener, "start", InsertSession(now + SessionTtl), "none")
  <1>1. Opener \in Workers /\ "start" \in Places /\ pc[Opener] = "idle"
    BY DEF Workers, Places, Start
  <1>2. reply[Opener] = "none"
    BY <1>1, Silent DEF Sending
  <1> QED BY <1>1, <1>2, Sent, Statements DEF Start

LEMMA StartedMoves ==
  ASSUME TypeOK, Started
  PROVE  pc[Opener] = "start" /\ Moves(Opener, "done", None, "none")
  BY RestedRead DEF Started, Workers, Once, Answered

LEMMA IdleClick ==
  ASSUME TypeOK, Papers, NEW k \in Calls \cup Clicks \cup {Alarm}, Free(k)
  PROVE  k \in Workers /\ pc[k] = "idle" /\ stmt[k] = None /\ reply[k] = "none"
  BY Silent DEF Workers, Free, Sending

LEMMA PurgedMoves ==
  ASSUME TypeOK, NEW w \in Workers, Purged(w)
  PROVE  /\ pc[w] \in {"purgeLog", "purgeRow"}
         /\ \/ Moves(w, "purgeRow", Purge("purgeRow"), "none") /\ UNCHANGED object
            \/ Destroy
  <1>1. Purge("purgeRow") \in Statement
    BY Statements
  <1> QED BY <1>1 DEF Purged, Answered, Goes, TypeOK, Moves, Places

LEMMA ChatMoves ==
  ASSUME TypeOK, Papers, NEW k \in Calls, Chat(k)
  PROVE  /\ pc[k] = "idle" /\ stmt[k] = None /\ cookie /\ Live
         /\ Moves(k, "plan", None, "none")
  <1>1. k \in Workers /\ pc[k] = "idle" /\ stmt[k] = None /\ reply[k] = "none" /\ cookie /\ Live
    BY IdleClick DEF Chat, Arrives, MayStart
  <1>2. Moves(k, "plan", stmt[k], reply[k])
    BY <1>1, Went DEF Chat, Places
  <1> QED BY <1>1, <1>2

LEMMA ChatAnsweredMoves ==
  ASSUME TypeOK, Papers, NEW k \in Calls, ChatAnswered(k)
  PROVE  pc[k] = "plan" /\ Moves(k, "done", None, "none")
  BY RestedQuietly DEF ChatAnswered, Workers, Once

LEMMA ChatJudgedMoves ==
  ASSUME TypeOK, Papers, NEW k \in Calls, ChatJudged(k)
  PROVE  /\ pc[k] = "plan" /\ stmt[k] = None
         /\ Moves(k, "insert", InsertDecision(k), "none")
  <1>1. k \in Workers /\ pc[k] = "plan" /\ "insert" \in Places
    BY DEF ChatJudged, Workers, Places
  <1>2. stmt[k] = None /\ reply[k] = "none"
    BY <1>1, Silent DEF Sending
  <1> QED BY <1>1, <1>2, Sent, Statements DEF ChatJudged

LEMMA ChatLoggedMoves ==
  ASSUME TypeOK, NEW k \in Calls, ChatLogged(k)
  PROVE  /\ pc[k] = "insert" /\ reply[k] # "none"
         /\ \/ /\ reply[k] = "ok" /\ verdict[k] = "allow"
               /\ Moves(k, "closing", None, "none") /\ busy' = busy
            \/ /\ ~ (reply[k] = "ok" /\ verdict[k] = "allow")
               /\ Moves(k, "done", None, "none") /\ busy' = FALSE
  BY RestedRead, WentRead DEF ChatLogged, Answered, Workers, Once, Places

LEMMA ClosingMoves ==
  ASSUME TypeOK, Papers, NEW k \in Calls \cup Clicks, Closing(k)
  PROVE  /\ pc[k] = "closing"
         /\ Moves(k, IF k \in Once THEN "done" ELSE "idle", None, "none")
  BY RestedQuietly DEF Closing, Workers

LEMMA ResolveMoves ==
  ASSUME TypeOK, Papers, NEW k \in Clicks, NEW o \in {"approve", "deny"}, Resolve(k, o)
  PROVE  /\ pc[k] = "idle" /\ stmt[k] = None /\ cookie /\ Live /\ ~ busy
         /\ pending # None /\ pending.id \in Calls
         /\ \/ /\ isPendingExpired(pending) /\ busy' = busy
               /\ Moves(k, "expire", SetHumanOutcome(pending.id, "expired"), "none")
            \/ /\ ~ isPendingExpired(pending) /\ busy' = TRUE
               /\ Moves(k, "outcome", SetHumanOutcome(pending.id, o), "none")
  <1>1. k \in Workers /\ pc[k] = "idle" /\ stmt[k] = None /\ reply[k] = "none" /\ cookie /\ Live /\ ~ busy
    BY IdleClick DEF Resolve, Arrives, MayStart
  <1>2. pending # None /\ pending.id \in Calls
    BY DEF Resolve, TypeOK, Pending
  <1>3. SetHumanOutcome(pending.id, "expired") \in Statement /\ SetHumanOutcome(pending.id, o) \in Statement
    BY <1>2, Statements DEF Outcomes
  <1> QED BY <1>1, <1>2, <1>3, Sent DEF Resolve, Places

LEMMA OutcomeRecordedMoves ==
  ASSUME TypeOK, NEW k \in Clicks, OutcomeRecorded(k)
  PROVE  /\ pc[k] = "outcome" /\ reply[k] # "none"
         /\ \/ /\ reply[k] = "ok" /\ stmt[k].as = "approve"
               /\ Moves(k, "closing", None, "none") /\ busy' = busy
            \/ /\ ~ (reply[k] = "ok" /\ stmt[k].as = "approve")
               /\ Moves(k, "idle", None, "none") /\ busy' = FALSE
  BY RestedRead, WentRead, Consts DEF OutcomeRecorded, Answered, Workers, Once, Places

LEMMA PendingExpiredMoves ==
  ASSUME TypeOK, NEW k \in Clicks, PendingExpired(k)
  PROVE  pc[k] = "expire" /\ reply[k] # "none" /\ Moves(k, "idle", None, "none")
  BY RestedRead, Consts DEF PendingExpired, Answered, Workers, Once

\* The alarm's handler, at its end.
LEMMA SettlesMoves ==
  ASSUME TypeOK, NEW STATE at, NEW STATE p, NEW STATE c, NEW STATE mine, Settles(at, p, c, mine)
  PROVE  \/ Wipe(Alarm)
         \/ /\ Moves(Alarm, "idle", None, "none")
            /\ pending' = p /\ card' = c /\ desk' = desk /\ busy' = busy /\ firing' = FALSE
            /\ Live => Arm(p, desk)
            /\ ~ Live => sched' \in {None, sched}
  BY RestedRead, Consts DEF Settles, Arm, Workers, Once

LEMMA ExpireMoves ==
  ASSUME TypeOK, Papers, Expire
  PROVE  /\ pc[Alarm] = "idle" /\ stmt[Alarm] = None /\ sched # None /\ sched <= now
         /\ \/ /\ busy /\ sched' = now + 1 /\ firing' = FALSE
               /\ UNCHANGED <<desk, pending, busy, card, pc, stmt, reply>>
            \/ /\ ~ busy /\ pending # None /\ pending.id \in Calls /\ pending.expires <= now
               /\ Moves(Alarm, "expire", SetHumanOutcome(pending.id, "expired"), "none")
               /\ UNCHANGED <<desk, pending, sched, busy, card>> /\ firing' = TRUE
            \/ /\ ~ busy /\ ~ (pending # None /\ pending.expires <= now)
               /\ Settles(now, pending, card, TRUE)
  <1>1. Alarm \in Workers /\ pc[Alarm] = "idle" /\ stmt[Alarm] = None /\ reply[Alarm] = "none"
    BY IdleClick DEF Expire
  <1>2. pending # None => pending.id \in Calls /\ SetHumanOutcome(pending.id, "expired") \in Statement
    BY Statements DEF TypeOK, Pending, Outcomes
  <1>3. CASE Deferred
    BY <1>1, <1>3 DEF Expire, Deferred
  <1>4. CASE ~ Deferred /\ pending # None /\ isPendingExpired(pending)
    <2>1. Moves(Alarm, "expire", SetHumanOutcome(pending.id, "expired"), "none")
      BY <1>1, <1>2, <1>4, Sent DEF Expire, Places
    <2> QED BY <1>1, <1>2, <1>4, <2>1 DEF Expire, Deferred, isPendingExpired
  <1>5. CASE ~ Deferred /\ ~ (pending # None /\ isPendingExpired(pending))
    BY <1>1, <1>5 DEF Expire, Deferred, isPendingExpired
  <1> QED BY <1>3, <1>4, <1>5

-----------------------------------------------------------------------------
(* The steps, with the ways to clear the desk brought together *)

Outside == UNCHANGED <<now, row, log, sweep, cookie, faults, history>>

\* The session is cleared and w goes on to purge its rows.
Cleared(w) ==
  /\ pc[Opener] = "done" /\ pc[w] \in {"idle", "expire"} /\ desk.open
  /\ Moves(w, "purgeLog", Purge("purgeLog"), "none")
  /\ desk' = Closed /\ pending' = None /\ sched' = None /\ firing' = FALSE
  /\ card' = [d \in Calls |-> "gone"] /\ busy' = busy
  /\ Outside

\* The whole object is gone.
Gone == pc[Opener] = "done" /\ Destroy /\ Outside

PurgesOn(w) ==
  /\ pc[w] = "purgeLog"
  /\ Moves(w, "purgeRow", Purge("purgeRow"), "none") /\ UNCHANGED object /\ Outside

\* A click sends its one statement, and reads the answer, with nothing else done.
Inquiry(place, s) == s.op \in {"session", "check"} /\ s.op = OpOf[place]

Asks(k) ==
  /\ pc[k] = "idle" /\ stmt[k] = None /\ cookie /\ desk.open
  /\ \E place \in {"model", "reclaim"}, s \in Statement :
       Inquiry(place, s) /\ Moves(k, place, s, "none")
  /\ UNCHANGED object /\ Outside

Heeds(k) ==
  /\ pc[k] \in {"model", "reclaim"} /\ Moves(k, "idle", None, "none")
  /\ UNCHANGED object /\ Outside

\* expire() waits for a turn; it expires the waiting call; it is through.
Defers ==
  /\ pc[Opener] = "done" /\ busy /\ sched # None /\ sched' = now + 1 /\ firing' = FALSE
  /\ UNCHANGED <<desk, pending, busy, card, pc, stmt, reply>> /\ Outside

Overdue ==
  /\ pc[Opener] = "done" /\ pc[Alarm] = "idle" /\ stmt[Alarm] = None
  /\ ~ busy /\ pending # None /\ pending.id \in Calls /\ pending.expires <= now /\ sched # None
  /\ Moves(Alarm, "expire", SetHumanOutcome(pending.id, "expired"), "none")
  /\ UNCHANGED <<desk, pending, sched, busy, card>> /\ firing' = TRUE /\ Outside

Through(p, c) ==
  /\ pc[Opener] = "done"
  /\ Moves(Alarm, "idle", None, "none")
  /\ pending' = p /\ card' = c /\ desk' = desk /\ busy' = busy /\ firing' = FALSE /\ Outside
  /\ Live => Arm(p, desk)
  /\ ~ Live => sched' \in {None, sched}

Rested ==
  /\ pc[Alarm] = "idle" /\ sched # None /\ ~ (pending # None /\ pending.expires <= now)
  /\ Through(pending, card)

Expired ==
  /\ pc[Alarm] = "expire" /\ reply[Alarm] # "none"
  /\ LET d == stmt[Alarm].id
     IN Through(Dropped(d), [card EXCEPT ![d] = IF @ = "gone" THEN @ ELSE "expired"])

LEMMA OpenerPlaces ==
  ASSUME TypeOK, Papers, Before
  PROVE  /\ pc[Opener] \in {"idle", "start", "done"}
         /\ cookie \/ sched # None \/ pending # None => pc[Opener] = "done"
         /\ \A w \in Workers : w # Opener /\ pc[w] # "idle" => pc[Opener] = "done"
  <1>1. Opener \in Workers /\ pc[Opener] \in Places
    BY DEF Workers, TypeOK
  <1>2. pc[Opener] \in {"idle", "start", "done"}
    BY <1>1, Consts DEF Papers, Proper, Places, Resting
  <1> QED BY <1>2 DEF Before

LEMMA ClearMoves ==
  ASSUME TypeOK, Papers, Before, NEW k \in Clicks, View(k) \/ Forget(k)
  PROVE  Cleared(k) \/ Gone
  <1>1. k \in Workers /\ pc[k] = "idle" /\ pc[Opener] = "done"
    BY OpenerPlaces DEF View, Forget, Arrives, Free, Workers
  <1>2. Outside /\ Wipe(k)
    BY DEF View, Forget, Outside
  <1> QED BY <1>1, <1>2, WipeGoes DEF Cleared, Gone

LEMMA Asking ==
  ASSUME TypeOK, Papers, Before, NEW k \in Clicks, SetModel(k) \/ Reclaim(k)
  PROVE  Asks(k) \/ Gone
  <1>1. k \in Workers /\ Free(k) /\ cookie /\ Outside
    BY DEF SetModel, Reclaim, Arrives, Outside, Workers
  <1>2. pc[k] = "idle" /\ stmt[k] = None /\ reply[k] = "none" /\ pc[Opener] = "done"
    BY <1>1, IdleClick, OpenerPlaces
  <1>3. CASE SetModel(k)
    <2>1. Moves(k, "model", InsertSession(desk.ends), "none")
      BY <1>1, <1>2, <1>3, Sent, Statements DEF SetModel, Places
    <2>2. desk.open /\ UNCHANGED object
      BY <1>3 DEF SetModel, Live, object
    <2> QED BY <1>1, <1>2, <2>1, <2>2, Statements, Read DEF Asks, Inquiry, Sending, OpOf
  <1>4. CASE Reclaim(k) /\ desk.open
    <2>1. Moves(k, "reclaim", SessionIsLive, "none") /\ UNCHANGED object
      BY <1>1, <1>2, <1>4, Sent, Statements DEF Reclaim, Places
    <2> QED BY <1>1, <1>2, <1>4, <2>1, Statements, Read DEF Asks, Inquiry, Sending, OpOf
  <1>5. CASE Reclaim(k) /\ ~ desk.open
    BY <1>1, <1>2, <1>5 DEF Reclaim, Gone
  <1> QED BY <1>3, <1>4, <1>5

LEMMA Heeding ==
  ASSUME TypeOK, Papers, Before, NEW k \in Clicks, ModelSet(k) \/ Reclaimed(k)
  PROVE  Heeds(k) \/ Gone
  <1>1. k \in Workers /\ k \notin Once /\ k # Opener /\ pc[k] \in {"model", "reclaim"} /\ Outside
    BY Consts DEF ModelSet, Reclaimed, Answered, Outside, Workers, Once
  <1>2. pc[Opener] = "done"
    BY <1>1, OpenerPlaces
  <1>3. CASE Reads(k) /\ Rests(k) /\ UNCHANGED object
    BY <1>1, <1>3, RestedRead DEF Heeds
  <1> QED BY <1>1, <1>2, <1>3 DEF ModelSet, Reclaimed, Gone

LEMMA PurgeGoesOn ==
  ASSUME TypeOK, Papers, Before, NEW w \in Workers, w \notin Once, Purged(w)
  PROVE  PurgesOn(w) \/ Gone
  <1>1. pc[w] \in {"purgeLog", "purgeRow"} /\ w # Opener /\ Outside
    BY PurgedMoves DEF Purged, Outside, Once
  <1>2. pc[Opener] = "done"
    BY <1>1, OpenerPlaces
  <1>3. CASE Destroy
    BY <1>1, <1>2, <1>3 DEF Gone
  <1>4. CASE ~ Destroy
    <2>1. Moves(w, "purgeRow", Purge("purgeRow"), "none") /\ UNCHANGED object
      BY <1>4, PurgedMoves
    <2>2. pc[w] = "purgeLog"
      BY <1>4 DEF Purged
    <2> QED BY <1>1, <2>1, <2>2 DEF PurgesOn
  <1> QED BY <1>3, <1>4

LEMMA AlarmMoves ==
  ASSUME TypeOK, Papers, Before, Expire \/ CallExpired
  PROVE  Defers \/ Overdue \/ Rested \/ Expired \/ Cleared(Alarm) \/ Gone
  <1> Alarm \in Workers /\ Alarm # Opener
    BY Consts DEF Workers
  <1>1. ASSUME NEW STATE at, NEW STATE p, NEW STATE c, NEW STATE mine, Settles(at, p, c, mine),
               pc[Opener] = "done", pc[Alarm] \in {"idle", "expire"}, Outside
        PROVE  Through(p, c) \/ Cleared(Alarm) \/ Gone
    <2>1. CASE Wipe(Alarm)
      BY <1>1, <2>1, WipeGoes DEF Cleared, Gone
    <2>2. CASE ~ Wipe(Alarm)
      BY <1>1, <2>2, SettlesMoves DEF Through
    <2> QED BY <2>1, <2>2
  <1>2. CASE Expire
    <2>1. Outside /\ pc[Opener] = "done"
      BY <1>2, OpenerPlaces DEF Expire, Outside
    <2>2. CASE Settles(now, pending, card, TRUE)
      BY <1>2, <2>1, <2>2, <1>1, ExpireMoves DEF Rested, Defers, Overdue
    <2>3. CASE ~ Settles(now, pending, card, TRUE)
      BY <1>2, <2>1, <2>3, ExpireMoves DEF Defers, Overdue
    <2> QED BY <2>2, <2>3
  <1>3. CASE CallExpired
    <2>1. Outside /\ pc[Alarm] = "expire" /\ reply[Alarm] # "none" /\ pc[Opener] = "done"
      BY <1>3, OpenerPlaces DEF CallExpired, Outside, Answered
    <2> DEFINE d == stmt[Alarm].id
               c == [card EXCEPT ![d] = IF @ = "gone" THEN @ ELSE "expired"]
    <2>2. Settles(stmt[Alarm].at, Dropped(d), c, firing)
      BY <1>3 DEF CallExpired
    <2>3. Through(Dropped(d), c) \/ Cleared(Alarm) \/ Gone
      BY <1>1, <2>1, <2>2
    <2> QED BY <2>1, <2>3 DEF Expired
  <1> QED BY <1>2, <1>3

Step ==
  \/ Start \/ Started \/ Defers \/ Overdue \/ Rested \/ Expired \/ Gone
  \/ \E w \in Clicks \cup {Alarm} : Cleared(w) \/ PurgesOn(w)
  \/ \E k \in Calls : Chat(k) \/ ChatAnswered(k) \/ ChatJudged(k) \/ ChatLogged(k)
  \/ \E k \in Calls \cup Clicks : Closing(k)
  \/ \E k \in Clicks : Asks(k) \/ Heeds(k) \/ OutcomeRecorded(k) \/ PendingExpired(k)
  \/ \E k \in Clicks, o \in {"approve", "deny"} : Resolve(k, o)
  \/ \E w \in Workers : Execute(w) \/ ExecuteFails(w)
  \/ Evict \/ Cron \/ Tick \/ UNCHANGED vars

LEMMA Steps ==
  ASSUME TypeOK, Papers, Before, [Next]_vars
  PROVE  Step
  <1>1. CASE Start \/ Evict \/ Cron \/ Tick \/ UNCHANGED vars
    BY <1>1 DEF Step
  <1>2. ASSUME NEW k \in Calls, Chat(k) PROVE Step
    BY <1>2 DEF Step
  <1>3. ASSUME NEW k \in Clicks, Click(k) PROVE Step
    BY <1>3, ClearMoves, Asking DEF Step, Click
  <1>4. CASE Expire
    BY <1>4, AlarmMoves DEF Step
  <1>5. ASSUME NEW w \in Workers, Execute(w) \/ ExecuteFails(w) PROVE Step
    BY <1>5 DEF Step
  <1>6. ASSUME NEW w \in Workers, Resumes(w) PROVE Step
    <2>1. CASE w \notin Once /\ Purged(w)
      <3>1. w \in Clicks \cup {Alarm}
        BY <2>1 DEF Workers, Once
      <3> QED BY <2>1, <3>1, PurgeGoesOn DEF Step
    <2>2. CASE w = Alarm /\ CallExpired
      BY <2>2, AlarmMoves DEF Step
    <2>3. CASE w = Opener /\ Started
      BY <2>3 DEF Step
    <2>4. CASE w \in Calls /\ (ChatAnswered(w) \/ ChatJudged(w) \/ ChatLogged(w) \/ Closing(w))
      BY <2>4 DEF Step
    <2>5. CASE w \in Clicks /\ (ModelSet(w) \/ Reclaimed(w))
      BY <2>5, Heeding DEF Step
    <2>6. CASE w \in Clicks /\ (OutcomeRecorded(w) \/ PendingExpired(w) \/ Closing(w))
      BY <2>6 DEF Step
    <2> QED BY <1>6, <2>1, <2>2, <2>3, <2>4, <2>5, <2>6 DEF Resumes
  <1> QED BY <1>1, <1>2, <1>3, <1>4, <1>5, <1>6 DEF Next

-----------------------------------------------------------------------------
(* Each part of the invariant is kept *)

Handlers ==
  /\ pc \in [Workers -> Places]
  /\ stmt \in [Workers -> Statement \cup {None}]
  /\ reply \in [Workers -> {"none", "ok", "no", "error"}]

LEMMA Papered ==
  ASSUME Papers, NEW w \in Workers, NEW STATE place, NEW STATE s, NEW STATE r,
         Moves(w, place, s, r), Proper(w, place, s, r)
  PROVE  Papers' /\ Handlers'
  <1>1. Handlers'
    BY DEF Moves, Handlers
  <1>2. ASSUME NEW v \in Workers PROVE Proper(v, pc'[v], stmt'[v], reply'[v])
    <2>1. CASE v = w
      BY <2>1 DEF Moves
    <2>2. CASE v # w
      BY <2>2 DEF Moves, Papers
    <2> QED BY <2>1, <2>2
  <1> QED BY <1>1, <1>2 DEF Papers, Proper

\* D1 has executed the statement of w, or failed.
Told(w, answer) ==
  /\ stmt[w] # None /\ reply[w] = "none" /\ answer \in {"ok", "no", "error"}
  /\ \/ pc[w] \in Resting /\ Moves(w, pc[w], None, "none")
     \/ pc[w] \notin Resting /\ Moves(w, pc[w], stmt[w], answer)
  /\ answer # "error" => faults' = faults /\ answer = Result(stmt[w]) /\ Effect(stmt[w])
  /\ answer = "error" => faults' = faults + 1 /\ (Effect(stmt[w]) \/ UNCHANGED database)
  /\ UNCHANGED <<now, object, pc, sweep, cookie, verdict, ran>>

LEMMA ExecuteMoves ==
  ASSUME TypeOK, Papers, NEW w \in Workers, Execute(w) \/ ExecuteFails(w)
  PROVE  \E answer \in {"ok", "no", "error"} : Told(w, answer)
  <1>1. CASE Execute(w)
    <2>1. Result(stmt[w]) \in {"ok", "no", "error"} /\ Result(stmt[w]) # "error" /\ pc' = pc
      BY <1>1 DEF Execute, Result
    <2>2. Delivers(w, Result(stmt[w]))
      BY <1>1 DEF Execute
    <2>3. \/ pc[w] \in Resting /\ Moves(w, pc[w], None, "none")
          \/ pc[w] \notin Resting /\ Moves(w, pc[w], stmt[w], Result(stmt[w]))
      BY <2>1, <2>2, Delivered
    <2>4. Told(w, Result(stmt[w]))
      BY <1>1, <2>1, <2>3 DEF Execute, Told
    <2> QED BY <2>1, <2>4
  <1>2. CASE ExecuteFails(w)
    <2>1. \/ pc[w] \in Resting /\ Moves(w, pc[w], None, "none")
          \/ pc[w] \notin Resting /\ Moves(w, pc[w], stmt[w], "error")
      BY <1>2, Delivered DEF ExecuteFails
    <2>2. Told(w, "error")
      BY <1>2, <2>1 DEF ExecuteFails, Told
    <2> QED BY <2>2
  <1> QED BY <1>1, <1>2

LEMMA KilledPapers ==
  ASSUME TypeOK, Papers, Killed
  PROVE  Papers' /\ Handlers'
  <1>1. Handlers'
    BY KilledAll DEF Handlers
  <1>2. ASSUME NEW w \in Workers PROVE Proper(w, pc'[w], stmt'[w], reply'[w])
    <2>1. Proper(w, pc[w], stmt[w], reply[w])
      BY DEF Papers
    <2> QED BY <2>1, KilledAll DEF Proper, Killed, Resting, Sending
  <1> QED BY <1>1, <1>2 DEF Papers, Proper

LEMMA PapersNext ==
  ASSUME TypeOK, Papers, Before, Step
  PROVE  Papers' /\ Handlers'
  <1>1. CASE Start
    <2>1. Moves(Opener, "start", InsertSession(now + SessionTtl), "none")
      BY <1>1, StartMoves
    <2>2. Proper(Opener, "start", InsertSession(now + SessionTtl), "none")
      BY <1>1, Consts, Read DEF Proper, Sending, OpOf, Workers, Once
    <2> QED BY <2>1, <2>2, Papered DEF Workers
  <1>2. CASE Started
    <2>1. Moves(Opener, "done", None, "none")
      BY <1>2, StartedMoves
    <2>2. Proper(Opener, "done", None, "none")
      BY <1>2, Consts DEF Proper, Sending, OpOf, Workers, Once
    <2> QED BY <2>1, <2>2, Papered DEF Workers
  <1>3. CASE Defers
    BY <1>3 DEF Defers, Papers, Proper, Handlers, TypeOK
  <1>4. CASE Overdue
    <2> DEFINE s == SetHumanOutcome(pending.id, "expired")
    <2>1. Moves(Alarm, "expire", s, "none") /\ pending.id \in Calls
      BY <1>4 DEF Overdue
    <2>2. Proper(Alarm, "expire", s, "none")
      BY <2>1, Consts, Read DEF Proper, Sending, OpOf, Workers, Once, Outcomes
    <2> HIDE DEF s
    <2> QED BY <2>1, <2>2, Papered DEF Workers
  <1>5. CASE Rested \/ Expired
    <2>1. Moves(Alarm, "idle", None, "none")
      BY <1>5 DEF Rested, Expired, Through
    <2>2. Proper(Alarm, "idle", None, "none")
      BY Consts DEF Proper, Sending, Once
    <2> QED BY <2>1, <2>2, Papered DEF Workers
  <1>6. CASE Gone
    BY <1>6, KilledPapers DEF Gone, Destroy
  <1>7. ASSUME NEW w \in Clicks \cup {Alarm}, Cleared(w) PROVE Papers' /\ Handlers'
    <2>1. Moves(w, "purgeLog", Purge("purgeLog"), "none")
      BY <1>7 DEF Cleared
    <2>2. Proper(w, "purgeLog", Purge("purgeLog"), "none")
      BY <1>7, Consts, Read DEF Proper, Sending, OpOf, Workers, Once
    <2> QED BY <2>1, <2>2, Papered DEF Workers
  <1>8. ASSUME NEW w \in Clicks \cup {Alarm}, PurgesOn(w) PROVE Papers' /\ Handlers'
    <2>1. Moves(w, "purgeRow", Purge("purgeRow"), "none")
      BY <1>8 DEF PurgesOn
    <2>2. Proper(w, "purgeRow", Purge("purgeRow"), "none")
      BY <1>8, Consts, Read DEF Proper, Sending, OpOf, Workers, Once
    <2> QED BY <2>1, <2>2, Papered DEF Workers
  <1>9. ASSUME NEW k \in Calls, Chat(k) PROVE Papers' /\ Handlers'
    <2>1. Moves(k, "plan", None, "none")
      BY <1>9, ChatMoves
    <2>2. Proper(k, "plan", None, "none")
      BY <1>9, Consts DEF Proper, Sending, OpOf, Workers, Once
    <2> QED BY <2>1, <2>2, Papered DEF Workers
  <1>10. ASSUME NEW k \in Calls, ChatAnswered(k) PROVE Papers' /\ Handlers'
    <2>1. Moves(k, "done", None, "none")
      BY <1>10, ChatAnsweredMoves
    <2>2. Proper(k, "done", None, "none")
      BY <1>10, Consts DEF Proper, Sending, OpOf, Workers, Once
    <2> QED BY <2>1, <2>2, Papered DEF Workers
  <1>11. ASSUME NEW k \in Calls, ChatJudged(k) PROVE Papers' /\ Handlers'
    <2>1. Moves(k, "insert", InsertDecision(k), "none")
      BY <1>11, ChatJudgedMoves
    <2>2. Proper(k, "insert", InsertDecision(k), "none")
      BY <1>11, Consts, Read DEF Proper, Sending, OpOf, Workers, Once
    <2> QED BY <2>1, <2>2, Papered DEF Workers
  <1>12. ASSUME NEW k \in Calls, ChatLogged(k) PROVE Papers' /\ Handlers'
    <2>1. \E place \in {"closing", "done"} : Moves(k, place, None, "none")
      BY <1>12, ChatLoggedMoves
    <2>2. \A place \in {"closing", "done"} : Proper(k, place, None, "none")
      BY <1>12, Consts DEF Proper, Sending, Workers, Once
    <2> QED BY <2>1, <2>2, Papered DEF Workers
  <1>13. ASSUME NEW k \in Calls \cup Clicks, Closing(k) PROVE Papers' /\ Handlers'
    <2>1. Moves(k, IF k \in Once THEN "done" ELSE "idle", None, "none")
      BY <1>13, ClosingMoves
    <2>2. Proper(k, IF k \in Once THEN "done" ELSE "idle", None, "none")
      BY <1>13, Consts DEF Proper, Sending, OpOf, Workers, Once
    <2> QED BY <2>1, <2>2, Papered DEF Workers
  <1>14. ASSUME NEW k \in Clicks, Asks(k) PROVE Papers' /\ Handlers'
    <2>1. PICK place \in {"model", "reclaim"}, s \in Statement :
            Inquiry(place, s) /\ Moves(k, place, s, "none")
      BY <1>14 DEF Asks
    <2>2. Proper(k, place, s, "none")
      BY <1>14, <2>1, Consts DEF Inquiry, Proper, Sending, OpOf, Workers, Once
    <2> QED BY <2>1, <2>2, Papered DEF Workers
  <1>15. ASSUME NEW k \in Clicks, Heeds(k) PROVE Papers' /\ Handlers'
    <2>1. Moves(k, "idle", None, "none")
      BY <1>15 DEF Heeds
    <2>2. Proper(k, "idle", None, "none")
      BY <1>15, Consts DEF Proper, Sending, OpOf, Workers, Once
    <2> QED BY <2>1, <2>2, Papered DEF Workers
  <1>16. ASSUME NEW k \in Clicks, OutcomeRecorded(k) PROVE Papers' /\ Handlers'
    <2>1. \E place \in {"closing", "idle"} : Moves(k, place, None, "none")
      BY <1>16, OutcomeRecordedMoves
    <2>2. \A place \in {"closing", "idle"} : Proper(k, place, None, "none")
      BY <1>16, Consts DEF Proper, Sending, Workers, Once
    <2> QED BY <2>1, <2>2, Papered DEF Workers
  <1>17. ASSUME NEW k \in Clicks, PendingExpired(k) PROVE Papers' /\ Handlers'
    <2>1. Moves(k, "idle", None, "none")
      BY <1>17, PendingExpiredMoves
    <2>2. Proper(k, "idle", None, "none")
      BY <1>17, Consts DEF Proper, Sending, OpOf, Workers, Once
    <2> QED BY <2>1, <2>2, Papered DEF Workers
  <1>18. ASSUME NEW k \in Clicks, NEW o \in {"approve", "deny"}, Resolve(k, o) PROVE Papers' /\ Handlers'
    <2>1. /\ pending.id \in Calls
          /\ \/ Moves(k, "expire", SetHumanOutcome(pending.id, "expired"), "none")
             \/ Moves(k, "outcome", SetHumanOutcome(pending.id, o), "none")
      BY <1>18, ResolveMoves
    <2>2. /\ Proper(k, "expire", SetHumanOutcome(pending.id, "expired"), "none")
          /\ Proper(k, "outcome", SetHumanOutcome(pending.id, o), "none")
      BY <1>18, <2>1, Consts, Read DEF Proper, Sending, OpOf, Workers, Once, Outcomes
    <2> QED BY <2>1, <2>2, Papered DEF Workers
  <1>19. ASSUME NEW w \in Workers, Execute(w) \/ ExecuteFails(w) PROVE Papers' /\ Handlers'
    <2>1. PICK answer \in {"ok", "no", "error"} : Told(w, answer)
      BY <1>19, ExecuteMoves
    <2>2. Proper(w, pc[w], stmt[w], reply[w]) /\ pc[w] \in Places
      BY DEF Papers, TypeOK
    <2>3. CASE pc[w] \in Resting
      <3>1. Moves(w, pc[w], None, "none")
        BY <2>1, <2>3 DEF Told
      <3>2. Proper(w, pc[w], None, "none")
        BY <2>2, <2>3 DEF Proper, Resting, Sending
      <3> QED BY <3>1, <3>2, Papered
    <2>4. CASE pc[w] \notin Resting
      <3>1. Moves(w, pc[w], stmt[w], answer) /\ stmt[w] # None
        BY <2>1, <2>4 DEF Told
      <3>2. Proper(w, pc[w], stmt[w], answer)
        BY <2>2, <2>4, <3>1 DEF Proper, Resting, Sending, Places
      <3> QED BY <3>1, <3>2, Papered
    <2> QED BY <2>3, <2>4
  <1>20. CASE Evict
    BY <1>20, KilledPapers DEF Evict
  <1>21. CASE Cron \/ Tick \/ UNCHANGED vars
    BY <1>21 DEF Cron, Tick, vars, Papers, Proper, Handlers, TypeOK
  <1> QED
    BY <1>1, <1>2, <1>3, <1>4, <1>5, <1>6, <1>7, <1>8, <1>9, <1>10, <1>11, <1>12, <1>13, <1>14,
       <1>15, <1>16, <1>17, <1>18, <1>19, <1>20, <1>21 DEF Step

\* What arm() sets.
LEMMA Armed ==
  ASSUME TypeOK, NEW STATE p, p \in Pending \cup {None}, NEW STATE d, d.ends \in Nat, Arm(p, d)
  PROVE  /\ sched' \in Nat \cup {None} /\ firing' = FALSE
         /\ sched' # None => sched' > now /\ sched' <= d.ends /\ (p # None => sched' <= p.expires)
         /\ sched' = None => d.ends <= now \/ (p # None /\ p.expires <= now)
  <1>1. now \in Nat /\ None \notin Nat /\ (p # None => p.expires \in Nat)
    BY Consts DEF TypeOK, Pending
  <1>2. Due(p, d) \in Nat /\ Due(p, d) <= d.ends /\ (p # None => Due(p, d) <= p.expires)
    BY <1>1 DEF Due, Earlier
  <1>3. Due(p, d) = d.ends \/ (p # None /\ Due(p, d) = p.expires)
    BY DEF Due, Earlier
  <1>4. sched' = (IF Due(p, d) <= now THEN None ELSE Due(p, d)) /\ firing' = FALSE
    BY DEF Arm
  <1> QED BY <1>1, <1>2, <1>3, <1>4

LEMMA DroppedTyped ==
  ASSUME TypeOK, NEW STATE d
  PROVE  /\ Dropped(d) \in Pending \cup {None}
         /\ Dropped(d) # None => Dropped(d) = pending /\ pending.id # d
         /\ Dropped(d) = None \/ Dropped(d) = pending
  BY DEF TypeOK, Dropped

\* What the desk does once the audit log has the decision.
Logged(k, turn, call) ==
  /\ UNCHANGED <<now, row, log, sweep, cookie, faults, verdict, recorded>>
  /\ reply[k] # "ok" => UNCHANGED <<desk, card>>
  /\ reply[k] = "ok" => desk' = turn /\ card' = [card EXCEPT ![k] = "none"]
  /\ reply[k] = "ok" /\ verdict[k] = "ask" => pending' = call /\ Arm(call, turn)
  /\ ~ (reply[k] = "ok" /\ verdict[k] = "ask") => UNCHANGED <<pending, sched, firing>>
  /\ reply[k] = "ok" /\ verdict[k] = "allow" => ran' = [ran EXCEPT ![k] = @ + 1]
  /\ ~ (reply[k] = "ok" /\ verdict[k] = "allow") => ran' = ran

LEMMA ChatLoggedData ==
  ASSUME TypeOK, NEW k \in Calls, ChatLogged(k)
  PROVE  \E turn, call :
           /\ turn \in [open : BOOLEAN, ends : Nat, turns : Nat]
           /\ turn.open = desk.open /\ turn.ends = desk.ends /\ turn.turns = desk.turns + 1
           /\ call \in Pending /\ call.id = k /\ call.expires = now + PendingTtl /\ call # None
           /\ Logged(k, turn, call)
  <1> DEFINE turn == [desk EXCEPT !.turns = @ + 1]
             call == [id |-> k, expires |-> now + PendingTtl]
  <1>1. /\ turn \in [open : BOOLEAN, ends : Nat, turns : Nat]
        /\ turn.open = desk.open /\ turn.ends = desk.ends /\ turn.turns = desk.turns + 1
    BY Consts DEF TypeOK
  <1>2. call \in Pending /\ call.id = k /\ call.expires = now + PendingTtl /\ call # None
    BY Consts DEF TypeOK, Pending
  <1>3. Logged(k, turn, call)
    BY DEF ChatLogged, Logged
  <1> HIDE DEF turn, call
  <1> QED BY <1>1, <1>2, <1>3

\* What the desk does once it has heard of the person's answer.
Settled(k, d) ==
  /\ UNCHANGED <<now, desk, row, log, sweep, cookie, faults, verdict, recorded>>
  /\ pending' = IF reply[k] = "error" THEN pending ELSE Dropped(d)
  /\ reply[k] = "ok" => MarkHuman(d, stmt[k].as) /\ Arm(Dropped(d), desk)
  /\ reply[k] # "ok" => UNCHANGED <<card, sched, firing>>
  /\ reply[k] = "ok" /\ stmt[k].as = "approve" => ran' = [ran EXCEPT ![d] = @ + 1]
  /\ ~ (reply[k] = "ok" /\ stmt[k].as = "approve") => ran' = ran

LEMMA Outcome ==
  ASSUME TypeOK, Papers, NEW w \in Workers, stmt[w] # None, stmt[w].op = "outcome"
  PROVE  stmt[w].id \in Calls /\ stmt[w].as \in Outcomes
  BY DEF Papers, Proper

LEMMA OutcomeRecordedData ==
  ASSUME TypeOK, Papers, NEW k \in Clicks, OutcomeRecorded(k)
  PROVE  /\ stmt[k] # None /\ stmt[k].op = "outcome" /\ stmt[k].as \in {"approve", "deny"}
         /\ stmt[k].id \in Calls
         /\ Settled(k, stmt[k].id)
  <1>1. pc[k] = "outcome" /\ k \in Workers
    BY OutcomeRecordedMoves DEF Workers
  <1>2. stmt[k] # None /\ stmt[k].op = "outcome" /\ stmt[k].as \in {"approve", "deny"}
    BY <1>1 DEF Papers, Proper, Sending, OpOf
  <1>3. reply[k] = "ok" => Arm(Dropped(stmt[k].id), desk)
    BY DEF OutcomeRecorded, Arm
  <1>4. Settled(k, stmt[k].id)
    BY <1>3 DEF OutcomeRecorded, Settled
  <1> QED BY <1>1, <1>2, <1>4, Outcome

LEMMA PendingExpiredData ==
  ASSUME TypeOK, Papers, NEW k \in Clicks, PendingExpired(k)
  PROVE  /\ stmt[k] # None /\ stmt[k].op = "outcome" /\ stmt[k].as = "expired"
         /\ stmt[k].id \in Calls
         /\ pending' = Dropped(stmt[k].id) /\ MarkHuman(stmt[k].id, "expired")
         /\ Arm(Dropped(stmt[k].id), desk)
         /\ desk' = desk /\ busy' = busy /\ Outside
  <1>1. pc[k] = "expire" /\ k \in Workers
    BY PendingExpiredMoves DEF Workers
  <1>2. stmt[k] # None /\ stmt[k].op = "outcome" /\ stmt[k].as = "expired"
    BY <1>1 DEF Papers, Proper, Sending, OpOf
  <1>3. Arm(Dropped(stmt[k].id), desk)
    BY DEF PendingExpired, Arm
  <1>4. pending' = Dropped(stmt[k].id) /\ MarkHuman(stmt[k].id, "expired") /\ desk' = desk /\ busy' = busy /\ Outside
    BY DEF PendingExpired, Outside
  <1> QED BY <1>1, <1>2, <1>3, <1>4, Outcome

LEMMA ExpiredData ==
  ASSUME TypeOK, Papers, Expired
  PROVE  /\ stmt[Alarm] # None /\ stmt[Alarm].op = "outcome" /\ stmt[Alarm].as = "expired"
         /\ stmt[Alarm].id \in Calls
         /\ pending' = Dropped(stmt[Alarm].id) /\ MarkHuman(stmt[Alarm].id, "expired")
         /\ Live => Arm(Dropped(stmt[Alarm].id), desk)
         /\ ~ Live => sched' \in {None, sched}
         /\ desk' = desk /\ busy' = busy /\ firing' = FALSE /\ Outside
  <1>1. pc[Alarm] = "expire" /\ Alarm \in Workers
    BY DEF Expired, Workers
  <1>2. stmt[Alarm] # None /\ stmt[Alarm].op = "outcome" /\ stmt[Alarm].as = "expired"
    BY <1>1 DEF Papers, Proper, Sending, OpOf
  <1>3. /\ pending' = Dropped(stmt[Alarm].id) /\ MarkHuman(stmt[Alarm].id, "expired")
        /\ Live => Arm(Dropped(stmt[Alarm].id), desk)
        /\ ~ Live => sched' \in {None, sched}
        /\ desk' = desk /\ busy' = busy /\ firing' = FALSE /\ Outside
    BY DEF Expired, Through, MarkHuman
  <1> QED BY <1>1, <1>2, <1>3, Outcome

\* The types apart from those of the handlers.
Shared ==
  /\ now \in Nat /\ faults \in Nat /\ sched \in Nat \cup {None} /\ row \in Nat \cup {None}
  /\ desk \in [open : BOOLEAN, ends : Nat, turns : 0..TurnLimit]
  /\ pending \in Pending \cup {None}
  /\ firing \in BOOLEAN /\ busy \in BOOLEAN /\ cookie \in BOOLEAN
  /\ card \in [Calls -> Outcomes \cup {"gone", "none"}]
  /\ log \in [Calls -> LogRow \cup {None}]
  /\ sweep \in [next : {"row", "stale"}, at : Nat] \cup {None}
  /\ verdict \in [Calls -> {"none", "allow", "deny", "ask"}]
  /\ recorded \in [Calls -> Outcomes \cup {"unlogged", "none"}]
  /\ ran \in [Calls -> Nat]

LEMMA ClosedTyped == Closed \in [open : BOOLEAN, ends : Nat, turns : 0..TurnLimit]
  BY Consts DEF Closed

LEMMA EffectTyped ==
  ASSUME TypeOK, Papers, NEW w \in Workers, stmt[w] # None, Effect(stmt[w])
  PROVE  /\ row' \in Nat \cup {None}
         /\ log' \in [Calls -> LogRow \cup {None}]
         /\ recorded' \in [Calls -> Outcomes \cup {"unlogged", "none"}]
  <1> DEFINE s == stmt[w]
  <1>1. /\ s.op \in Ops /\ s.at \in Nat /\ s.own \in BOOLEAN
        /\ s.op = "decision" => s.id \in Calls
        /\ s.op = "outcome" => s.id \in Calls /\ s.as \in Outcomes
    <2>1. s \in Statement
      BY DEF TypeOK
    <2> QED BY <2>1 DEF Statement, Papers, Proper, Ops
  <1>2. row \in Nat \cup {None} /\ log \in [Calls -> LogRow \cup {None}]
        /\ recorded \in [Calls -> Outcomes \cup {"unlogged", "none"}]
    BY DEF TypeOK
  <1>3. Effect(s)
    OBVIOUS
  <1> HIDE DEF s
  <1>4. CASE s.op \in {"session", "purgeRow"}
    BY <1>1, <1>2, <1>3, <1>4 DEF Effect
  <1>5. CASE s.op = "purgeLog"
    BY <1>1, <1>2, <1>3, <1>5 DEF Effect
  <1>6. CASE s.op = "decision"
    <2>1. [own |-> s.own, at |-> s.at, outcome |-> "none"] \in LogRow
      BY <1>1 DEF LogRow
    <2> QED BY <1>1, <1>2, <1>3, <1>6, <2>1 DEF Effect
  <1>7. CASE s.op = "outcome"
    <2>1. row' = row /\ recorded' \in [Calls -> Outcomes \cup {"unlogged", "none"}]
      BY <1>1, <1>2, <1>3, <1>7 DEF Effect
    <2>2. CASE ~ Unanswered(s)
      BY <1>2, <1>3, <1>7, <2>1, <2>2 DEF Effect
    <2>3. CASE Unanswered(s)
      <3>1. log' = [log EXCEPT ![s.id] = [log[s.id] EXCEPT !.outcome = s.as]]
        BY <1>3, <1>7, <2>3 DEF Effect
      <3>2. log[s.id] \in LogRow
        BY <1>1, <1>2, <1>7, <2>3 DEF Unanswered
      <3>3. [log[s.id] EXCEPT !.outcome = s.as] \in LogRow
        BY <1>1, <1>7, <3>2 DEF LogRow
      <3> QED BY <1>2, <2>1, <3>1, <3>3
    <2> QED BY <2>2, <2>3
  <1>8. CASE s.op = "check"
    BY <1>2, <1>3, <1>8 DEF Effect, database
  <1> QED BY <1>1, <1>4, <1>5, <1>6, <1>7, <1>8 DEF Ops

LEMMA MarkTyped ==
  ASSUME TypeOK, NEW STATE d, NEW STATE o, o \in Outcomes, MarkHuman(d, o)
  PROVE  card' \in [Calls -> Outcomes \cup {"gone", "none"}]
  BY DEF TypeOK, MarkHuman

LEMMA TypesAre ==
  TypeOK <=> Handlers /\ Shared
  BY DEF TypeOK, Handlers, Shared

LEMMA SharedNext ==
  ASSUME TypeOK, Papers, RoomLeft, Step
  PROVE  Shared'
  <1>1. CASE Start
    <2>1. desk' = [open |-> TRUE, ends |-> now + SessionTtl, turns |-> 0] /\ now \in Nat
      BY <1>1 DEF Start, TypeOK
    <2>2. desk' \in [open : BOOLEAN, ends : Nat, turns : 0..TurnLimit]
      BY <2>1, Consts
    <2> QED BY <1>1, <2>2 DEF Start, TypeOK, Shared, history
  <1>2. CASE Started
    <2>1. CASE reply[Opener] = "error"
      BY <1>2, <2>1, ClosedTyped DEF Started, TypeOK, Shared, history
    <2>2. CASE reply[Opener] # "error"
      <3>1. Arm(pending, desk) /\ cookie' = TRUE /\ desk' = desk
        BY <1>2, <2>2 DEF Started
      <3>2. sched' \in Nat \cup {None} /\ firing' = FALSE
        BY <3>1, Armed DEF TypeOK
      <3> QED BY <1>2, <3>1, <3>2 DEF Started, TypeOK, Shared, history
    <2> QED BY <2>1, <2>2
  <1>3. CASE Defers
    <2>1. firing' \in BOOLEAN /\ busy' \in BOOLEAN /\ cookie' \in BOOLEAN
      BY <1>3, TypesAre DEF Defers, Shared, Outside, history
    <2>2. sched' \in Nat \cup {None} /\ faults' \in Nat
      BY <1>3, TypesAre DEF Defers, Shared, Outside, history
    <2> QED BY <1>3, <2>1, <2>2, TypesAre DEF Defers, Shared, Outside, history
  <1>4. CASE Overdue
    <2>1. firing' \in BOOLEAN /\ busy' \in BOOLEAN /\ cookie' \in BOOLEAN
      BY <1>4, TypesAre DEF Overdue, Shared, Outside, history
    <2>2. sched' \in Nat \cup {None} /\ faults' \in Nat
      BY <1>4, TypesAre DEF Overdue, Shared, Outside, history
    <2> QED BY <1>4, <2>1, <2>2, TypesAre DEF Overdue, Shared, Outside, history
  <1>5. CASE Rested
    <2>1. Live => sched' \in Nat \cup {None}
      BY <1>5, Armed DEF Rested, Through, TypeOK
    <2> QED BY <1>5, <2>1 DEF Rested, Through, TypeOK, Shared, Outside, history
  <1>6. CASE Expired
    <2>1. Dropped(stmt[Alarm].id) \in Pending \cup {None}
      BY DroppedTyped
    <2>2. desk.ends \in Nat
      BY DEF TypeOK
    <2>3. sched' \in Nat \cup {None}
      BY <1>6, <2>1, <2>2, ExpiredData, Armed DEF TypeOK
    <2>4. card' \in [Calls -> Outcomes \cup {"gone", "none"}]
      BY <1>6, ExpiredData, MarkTyped DEF Outcomes
    <2> QED BY <1>6, <2>1, <2>3, <2>4, ExpiredData DEF TypeOK, Shared, Outside, history
  <1>7. CASE Gone
    BY <1>7, ClosedTyped DEF Gone, Destroy, TypeOK, Shared, Outside, history
  <1>8. ASSUME NEW w \in Clicks \cup {Alarm}, Cleared(w) PROVE Shared'
    BY <1>8, ClosedTyped DEF Cleared, TypeOK, Shared, Outside, history
  <1>9. ASSUME NEW w \in Clicks \cup {Alarm}, PurgesOn(w) PROVE Shared'
    BY <1>9 DEF PurgesOn, TypeOK, Shared, Outside, history, object
  <1>10. ASSUME NEW k \in Calls, Chat(k) PROVE Shared'
    BY <1>10 DEF Chat, TypeOK, Shared, history
  <1>11. ASSUME NEW k \in Calls, ChatAnswered(k) PROVE Shared'
    <2>1. desk.turns < TurnLimit /\ desk.turns \in Nat
      BY <1>11 DEF ChatAnswered, RoomLeft, TypeOK
    <2>2. desk' \in [open : BOOLEAN, ends : Nat, turns : 0..TurnLimit]
      BY <1>11, <2>1, Consts DEF ChatAnswered, TypeOK
    <2> QED BY <1>11, <2>2 DEF ChatAnswered, TypeOK, Shared, history
  <1>12. ASSUME NEW k \in Calls, ChatJudged(k) PROVE Shared'
    BY <1>12 DEF ChatJudged, TypeOK, Shared, object
  <1>13. ASSUME NEW k \in Calls, ChatLogged(k) PROVE Shared'
    <2>1. PICK turn, call :
            /\ turn \in [open : BOOLEAN, ends : Nat, turns : Nat]
            /\ turn.open = desk.open /\ turn.ends = desk.ends /\ turn.turns = desk.turns + 1
            /\ call \in Pending /\ call.id = k /\ call.expires = now + PendingTtl /\ call # None
            /\ Logged(k, turn, call)
      BY <1>13, ChatLoggedData
    <2>2. desk.turns < TurnLimit /\ desk.turns \in Nat /\ desk.ends \in Nat
      <3>1. pc[k] = "insert"
        BY <1>13, ChatLoggedMoves
      <3> QED BY <3>1, TypesAre DEF RoomLeft, Shared
    <2>3. turn \in [open : BOOLEAN, ends : Nat, turns : 0..TurnLimit]
      BY <2>1, <2>2, Consts
    <2>4. sched' \in Nat \cup {None} /\ firing' \in BOOLEAN
      BY <2>1, <2>2, Armed DEF Logged, TypeOK
    <2>5. busy' \in BOOLEAN
      BY <1>13, ChatLoggedMoves DEF TypeOK
    <2>6. desk' \in [open : BOOLEAN, ends : Nat, turns : 0..TurnLimit] /\ pending' \in Pending \cup {None}
      BY <2>1, <2>3 DEF Logged, TypeOK
    <2>7. card' \in [Calls -> Outcomes \cup {"gone", "none"}] /\ ran' \in [Calls -> Nat]
      BY <2>1 DEF Logged, TypeOK
    <2> QED BY <2>1, <2>4, <2>5, <2>6, <2>7 DEF Logged, TypeOK, Shared
  <1>14. ASSUME NEW k \in Calls \cup Clicks, Closing(k) PROVE Shared'
    BY <1>14 DEF Closing, TypeOK, Shared, history
  <1>15. ASSUME NEW k \in Clicks, Asks(k) \/ Heeds(k) PROVE Shared'
    BY <1>15 DEF Asks, Heeds, Outside, TypeOK, Shared, history, object
  <1>16. ASSUME NEW k \in Clicks, OutcomeRecorded(k) PROVE Shared'
    <2> DEFINE d == stmt[k].id
    <2>1. d \in Calls /\ stmt[k].as \in Outcomes /\ Settled(k, d)
      BY <1>16, OutcomeRecordedData DEF Outcomes
    <2>2. Dropped(d) \in Pending \cup {None} /\ desk.ends \in Nat
      BY DroppedTyped DEF TypeOK
    <2>3. sched' \in Nat \cup {None} /\ firing' \in BOOLEAN
      BY <2>1, <2>2, Armed DEF Settled, TypeOK
    <2>4. card' \in [Calls -> Outcomes \cup {"gone", "none"}]
      BY <2>1, MarkTyped DEF Settled, TypeOK
    <2>5. ran' \in [Calls -> Nat] /\ pending' \in Pending \cup {None}
      BY <2>1, <2>2 DEF Settled, TypeOK
    <2>6. busy' \in BOOLEAN
      BY <1>16, OutcomeRecordedMoves DEF TypeOK
    <2> QED BY <2>1, <2>3, <2>4, <2>5, <2>6 DEF Settled, TypeOK, Shared
  <1>17. ASSUME NEW k \in Clicks, PendingExpired(k) PROVE Shared'
    <2>1. Dropped(stmt[k].id) \in Pending \cup {None} /\ desk.ends \in Nat
      BY DroppedTyped DEF TypeOK
    <2>2. sched' \in Nat \cup {None} /\ firing' = FALSE
      BY <1>17, <2>1, PendingExpiredData, Armed
    <2>3. card' \in [Calls -> Outcomes \cup {"gone", "none"}]
      BY <1>17, PendingExpiredData, MarkTyped DEF Outcomes
    <2> QED BY <1>17, <2>1, <2>2, <2>3, PendingExpiredData DEF TypeOK, Shared, Outside, history
  <1>18. ASSUME NEW k \in Clicks, NEW o \in {"approve", "deny"}, Resolve(k, o) PROVE Shared'
    <2>1. busy' \in BOOLEAN
      BY <1>18, ResolveMoves, TypesAre DEF Shared
    <2> QED BY <1>18, <2>1 DEF Resolve, TypeOK, Shared, history
  <1>19. ASSUME NEW w \in Workers, Execute(w) \/ ExecuteFails(w) PROVE Shared'
    <2>1. PICK answer \in {"ok", "no", "error"} : Told(w, answer)
      BY <1>19, ExecuteMoves
    <2>2. /\ row' \in Nat \cup {None}
          /\ log' \in [Calls -> LogRow \cup {None}]
          /\ recorded' \in [Calls -> Outcomes \cup {"unlogged", "none"}]
      BY <2>1, EffectTyped DEF Told, TypeOK, database
    <2>3. faults' \in Nat
      BY <2>1 DEF Told, TypeOK
    <2> QED BY <2>1, <2>2, <2>3 DEF Told, TypeOK, Shared, object
  <1>20. CASE Evict
    <2>1. firing' \in BOOLEAN /\ busy' \in BOOLEAN /\ cookie' \in BOOLEAN
      BY <1>20, TypesAre DEF Evict, Shared, history
    <2>2. sched' \in Nat \cup {None} /\ faults' \in Nat
      BY <1>20, TypesAre DEF Evict, Shared, history
    <2> QED BY <1>20, <2>1, <2>2, TypesAre DEF Evict, Shared, history
  <1>21. CASE Cron
    <2>1. log' \in [Calls -> LogRow \cup {None}] /\ row' \in Nat \cup {None}
      BY <1>21 DEF Cron, Purges, TypeOK
    <2>2. sweep' \in [next : {"row", "stale"}, at : Nat] \cup {None}
      <3>1. CASE sweep = None
        BY <1>21, <3>1 DEF Cron, Purges, TypeOK
      <3>2. CASE sweep # None
        BY <1>21, <3>2 DEF Cron, Purges, TypeOK
      <3> QED BY <3>1, <3>2
    <2> QED BY <1>21, <2>1, <2>2 DEF Cron, TypeOK, Shared, object, history
  <1>22. CASE Tick
    BY <1>22 DEF Tick, TypeOK, Shared, object, history
  <1>23. CASE UNCHANGED vars
    BY <1>23 DEF vars, TypeOK, Shared, object, history
  <1> QED
    BY <1>1, <1>2, <1>3, <1>4, <1>5, <1>6, <1>7, <1>8, <1>9, <1>10, <1>11, <1>12, <1>13, <1>14,
       <1>15, <1>16, <1>17, <1>18, <1>19, <1>20, <1>21, <1>22, <1>23 DEF Step

Turns == {"plan", "insert", "outcome", "closing"}

\* A handler moves within its turn or outside of one; it ends its turn; it begins one.
LEMMA TurnKept ==
  ASSUME OneAtATime, NEW w \in Workers, NEW STATE place, NEW STATE s, NEW STATE r,
         Moves(w, place, s, r), InTurn(w) <=> place \in Turns, busy' = busy
  PROVE  OneAtATime'
  <1>1. \A v \in Workers : pc'[v] \in Turns <=> InTurn(v)
    BY DEF Moves, InTurn, Turns
  <1>2. \A v \in Workers : InTurn(v)' <=> InTurn(v)
    BY <1>1 DEF InTurn, Turns
  <1> QED BY <1>2 DEF OneAtATime

LEMMA TurnOver ==
  ASSUME OneAtATime, NEW w \in Workers, NEW STATE place, NEW STATE s, NEW STATE r,
         Moves(w, place, s, r), InTurn(w), place \notin Turns, busy' = FALSE
  PROVE  OneAtATime'
  <1>1. \A v \in Workers : pc'[v] \notin Turns
    BY DEF Moves, InTurn, Turns, OneAtATime
  <1>2. \A v \in Workers : ~ InTurn(v)'
    BY <1>1 DEF InTurn, Turns
  <1> QED BY <1>2 DEF OneAtATime

LEMMA TurnBegun ==
  ASSUME OneAtATime, NEW w \in Workers, NEW STATE place, NEW STATE s, NEW STATE r,
         Moves(w, place, s, r), ~ busy, place \in Turns, busy' = TRUE
  PROVE  OneAtATime'
  <1>1. \A v \in Workers : pc'[v] \in Turns <=> v = w
    BY DEF Moves, InTurn, Turns, OneAtATime
  <1>2. \A v \in Workers : InTurn(v)' <=> v = w
    BY <1>1 DEF InTurn, Turns
  <1> QED BY <1>2 DEF OneAtATime

LEMMA TurnsKilled ==
  ASSUME TypeOK, Killed, busy' = FALSE
  PROVE  OneAtATime'
  <1>1. \A v \in Workers : ~ InTurn(v)'
    BY KilledAll DEF InTurn, Resting
  <1> QED BY <1>1 DEF OneAtATime

LEMMA TurnsNext ==
  ASSUME TypeOK, Papers, OneAtATime, Step
  PROVE  OneAtATime'
  <1>1. CASE Start
    <2>1. Moves(Opener, "start", InsertSession(now + SessionTtl), "none")
      BY <1>1, StartMoves
    <2> QED BY <1>1, <2>1, TurnKept DEF InTurn, Turns, Workers, Start
  <1>2. CASE Started
    <2>1. Moves(Opener, "done", None, "none")
      BY <1>2, StartedMoves
    <2> QED BY <1>2, <2>1, TurnKept DEF InTurn, Turns, Workers, Started, Answered
  <1>3. CASE Defers
    BY <1>3 DEF Defers, OneAtATime, InTurn
  <1>4. CASE Overdue
    <2>1. Moves(Alarm, "expire", SetHumanOutcome(pending.id, "expired"), "none")
      BY <1>4 DEF Overdue
    <2> QED BY <1>4, <2>1, TurnKept DEF InTurn, Turns, Workers, Overdue
  <1>5. CASE Rested \/ Expired
    <2>1. Moves(Alarm, "idle", None, "none")
      BY <1>5 DEF Rested, Expired, Through
    <2> QED BY <1>5, <2>1, TurnKept DEF InTurn, Turns, Workers, Rested, Expired, Through
  <1>6. CASE Gone
    BY <1>6, TurnsKilled DEF Gone, Destroy
  <1>7. ASSUME NEW w \in Clicks \cup {Alarm}, Cleared(w) PROVE OneAtATime'
    <2>1. Moves(w, "purgeLog", Purge("purgeLog"), "none")
      BY <1>7 DEF Cleared
    <2> QED BY <1>7, <2>1, TurnKept DEF InTurn, Turns, Workers, Cleared
  <1>8. ASSUME NEW w \in Clicks \cup {Alarm}, PurgesOn(w) PROVE OneAtATime'
    <2>1. Moves(w, "purgeRow", Purge("purgeRow"), "none")
      BY <1>8 DEF PurgesOn
    <2> QED BY <1>8, <2>1, TurnKept DEF InTurn, Turns, Workers, PurgesOn, object
  <1>9. ASSUME NEW k \in Calls, Chat(k) PROVE OneAtATime'
    <2>1. Moves(k, "plan", None, "none")
      BY <1>9, ChatMoves
    <2> QED BY <1>9, <2>1, TurnBegun DEF InTurn, Turns, Workers, Chat, MayStart
  <1>10. ASSUME NEW k \in Calls, ChatAnswered(k) PROVE OneAtATime'
    <2>1. Moves(k, "done", None, "none")
      BY <1>10, ChatAnsweredMoves
    <2> QED BY <1>10, <2>1, TurnOver DEF InTurn, Turns, Workers, ChatAnswered
  <1>11. ASSUME NEW k \in Calls, ChatJudged(k) PROVE OneAtATime'
    <2>1. Moves(k, "insert", InsertDecision(k), "none")
      BY <1>11, ChatJudgedMoves
    <2> QED BY <1>11, <2>1, TurnKept DEF InTurn, Turns, Workers, ChatJudged, object
  <1>12. ASSUME NEW k \in Calls, ChatLogged(k) PROVE OneAtATime'
    <2>1. InTurn(k) /\ k \in Workers
      BY <1>12, ChatLoggedMoves DEF InTurn, Workers
    <2>2. CASE Moves(k, "closing", None, "none") /\ busy' = busy
      BY <2>1, <2>2, TurnKept DEF Turns
    <2>3. CASE Moves(k, "done", None, "none") /\ busy' = FALSE
      BY <2>1, <2>3, TurnOver DEF Turns
    <2> QED BY <1>12, <2>2, <2>3, ChatLoggedMoves
  <1>13. ASSUME NEW k \in Calls \cup Clicks, Closing(k) PROVE OneAtATime'
    <2> DEFINE place == IF k \in Once THEN "done" ELSE "idle"
    <2>1. Moves(k, place, None, "none") /\ InTurn(k) /\ busy' = FALSE
      BY <1>13, ClosingMoves DEF Closing, InTurn
    <2>2. place \notin Turns /\ k \in Workers
      BY DEF Turns, Workers
    <2> HIDE DEF place
    <2> QED BY <2>1, <2>2, TurnOver
  <1>14. ASSUME NEW k \in Clicks, Asks(k) PROVE OneAtATime'
    <2>1. PICK place \in {"model", "reclaim"}, s \in Statement :
            Inquiry(place, s) /\ Moves(k, place, s, "none")
      BY <1>14 DEF Asks
    <2> QED BY <1>14, <2>1, TurnKept, Consts DEF Asks, Inquiry, Outside, InTurn, Turns, Workers, object
  <1>15. ASSUME NEW k \in Clicks, Heeds(k) PROVE OneAtATime'
    <2>1. Moves(k, "idle", None, "none")
      BY <1>15 DEF Heeds
    <2> QED BY <1>15, <2>1, TurnKept DEF Heeds, Outside, InTurn, Turns, Workers, object
  <1>16. ASSUME NEW k \in Clicks, OutcomeRecorded(k) PROVE OneAtATime'
    <2>1. InTurn(k) /\ k \in Workers
      BY <1>16, OutcomeRecordedMoves DEF InTurn, Workers
    <2>2. CASE Moves(k, "closing", None, "none") /\ busy' = busy
      BY <2>1, <2>2, TurnKept DEF Turns
    <2>3. CASE Moves(k, "idle", None, "none") /\ busy' = FALSE
      BY <2>1, <2>3, TurnOver DEF Turns
    <2> QED BY <1>16, <2>2, <2>3, OutcomeRecordedMoves
  <1>17. ASSUME NEW k \in Clicks, PendingExpired(k) PROVE OneAtATime'
    <2>1. Moves(k, "idle", None, "none")
      BY <1>17, PendingExpiredMoves
    <2> QED BY <1>17, <2>1, TurnKept, PendingExpiredMoves, PendingExpiredData DEF InTurn, Turns,
               Workers
  <1>18. ASSUME NEW k \in Clicks, NEW o \in {"approve", "deny"}, Resolve(k, o) PROVE OneAtATime'
    <2>1. pc[k] = "idle" /\ ~ busy /\ k \in Workers
      BY <1>18, ResolveMoves DEF Workers
    <2>2. CASE Moves(k, "expire", SetHumanOutcome(pending.id, "expired"), "none") /\ busy' = busy
      BY <2>1, <2>2, TurnKept DEF InTurn, Turns
    <2>3. CASE Moves(k, "outcome", SetHumanOutcome(pending.id, o), "none") /\ busy' = TRUE
      BY <2>1, <2>3, TurnBegun DEF Turns
    <2> QED BY <1>18, <2>2, <2>3, ResolveMoves
  <1>19. ASSUME NEW w \in Workers, Execute(w) \/ ExecuteFails(w) PROVE OneAtATime'
    <2>1. PICK answer \in {"ok", "no", "error"} : Told(w, answer)
      BY <1>19, ExecuteMoves
    <2> QED BY <2>1 DEF Told, object, OneAtATime, InTurn
  <1>20. CASE Evict
    BY <1>20, TurnsKilled DEF Evict
  <1>21. CASE Cron \/ Tick \/ UNCHANGED vars
    BY <1>21 DEF Cron, Tick, vars, object, OneAtATime, InTurn
  <1> QED
    BY <1>1, <1>2, <1>3, <1>4, <1>5, <1>6, <1>7, <1>8, <1>9, <1>10, <1>11, <1>12, <1>13, <1>14,
       <1>15, <1>16, <1>17, <1>18, <1>19, <1>20, <1>21 DEF Step

\* A turn begins or goes on with room left; whoever ends a turn was the only one.
LEMMA RoomKept ==
  ASSUME RoomLeft, NEW w \in Workers, NEW STATE place, NEW STATE s, NEW STATE r,
         Moves(w, place, s, r), desk'.turns = desk.turns,
         place \in {"plan", "insert"} => w \notin Calls \/ pc[w] \in {"plan", "insert"}
  PROVE  RoomLeft'
  BY DEF RoomLeft, Moves, Workers

LEMMA RoomFree ==
  ASSUME OneAtATime, NEW w \in Workers, NEW STATE place, NEW STATE s, NEW STATE r,
         Moves(w, place, s, r), InTurn(w), place \notin {"plan", "insert"}
  PROVE  RoomLeft'
  <1>1. \A v \in Workers : pc'[v] \notin {"plan", "insert"}
    BY DEF Moves, InTurn, OneAtATime
  <1> QED BY <1>1 DEF RoomLeft, Workers

LEMMA RoomOfClosed ==
  ASSUME desk' = Closed
  PROVE  RoomLeft'
  BY Consts DEF RoomLeft, Closed

LEMMA RoomNext ==
  ASSUME TypeOK, Papers, OneAtATime, RoomLeft, Step
  PROVE  RoomLeft'
  <1>1. CASE Start
    <2>1. desk'.turns = 0
      BY <1>1 DEF Start
    <2> QED BY <2>1, Consts DEF RoomLeft
  <1>2. CASE Started
    <2>1. Moves(Opener, "done", None, "none")
      BY <1>2, StartedMoves
    <2>2. desk' = desk \/ desk' = Closed
      BY <1>2 DEF Started
    <2> QED BY <2>1, <2>2, RoomKept, RoomOfClosed DEF Workers
  <1>3. CASE Defers
    BY <1>3 DEF Defers, RoomLeft
  <1>4. CASE Overdue
    <2>1. Moves(Alarm, "expire", SetHumanOutcome(pending.id, "expired"), "none")
      BY <1>4 DEF Overdue
    <2> QED BY <1>4, <2>1, RoomKept DEF Workers, Overdue
  <1>5. CASE Rested \/ Expired
    <2>1. Moves(Alarm, "idle", None, "none")
      BY <1>5 DEF Rested, Expired, Through
    <2> QED BY <1>5, <2>1, RoomKept DEF Workers, Rested, Expired, Through
  <1>6. CASE Gone
    BY <1>6, RoomOfClosed DEF Gone, Destroy
  <1>7. ASSUME NEW w \in Clicks \cup {Alarm}, Cleared(w) PROVE RoomLeft'
    BY <1>7, RoomOfClosed DEF Cleared
  <1>8. ASSUME NEW w \in Clicks \cup {Alarm}, PurgesOn(w) PROVE RoomLeft'
    <2>1. Moves(w, "purgeRow", Purge("purgeRow"), "none")
      BY <1>8 DEF PurgesOn
    <2> QED BY <1>8, <2>1, RoomKept DEF Workers, PurgesOn, object
  <1>9. ASSUME NEW k \in Calls, Chat(k) PROVE RoomLeft'
    BY <1>9 DEF Chat, RoomLeft
  <1>10. ASSUME NEW k \in Calls, ChatAnswered(k) PROVE RoomLeft'
    <2>1. Moves(k, "done", None, "none")
      BY <1>10, ChatAnsweredMoves
    <2> QED BY <1>10, <2>1, RoomFree DEF Workers, ChatAnswered, InTurn
  <1>11. ASSUME NEW k \in Calls, ChatJudged(k) PROVE RoomLeft'
    <2>1. Moves(k, "insert", InsertDecision(k), "none")
      BY <1>11, ChatJudgedMoves
    <2> QED BY <1>11, <2>1, RoomKept DEF Workers, ChatJudged, object
  <1>12. ASSUME NEW k \in Calls, ChatLogged(k) PROVE RoomLeft'
    <2>1. \E place \in {"closing", "done"} : Moves(k, place, None, "none")
      BY <1>12, ChatLoggedMoves
    <2>2. InTurn(k) /\ k \in Workers
      BY <1>12, ChatLoggedMoves DEF InTurn, Workers
    <2> QED BY <2>1, <2>2, RoomFree
  <1>13. ASSUME NEW k \in Calls \cup Clicks, Closing(k) PROVE RoomLeft'
    <2> DEFINE place == IF k \in Once THEN "done" ELSE "idle"
    <2>1. Moves(k, place, None, "none") /\ InTurn(k)
      BY <1>13, ClosingMoves DEF InTurn
    <2>2. place \notin {"plan", "insert"} /\ k \in Workers
      BY DEF Workers
    <2> HIDE DEF place
    <2> QED BY <2>1, <2>2, RoomFree
  <1>14. ASSUME NEW k \in Clicks, Asks(k) PROVE RoomLeft'
    <2>1. PICK place \in {"model", "reclaim"}, s \in Statement :
            Inquiry(place, s) /\ Moves(k, place, s, "none")
      BY <1>14 DEF Asks
    <2> QED BY <1>14, <2>1, RoomKept, Consts DEF Asks, Inquiry, Outside, Workers, object
  <1>15. ASSUME NEW k \in Clicks, Heeds(k) PROVE RoomLeft'
    <2>1. Moves(k, "idle", None, "none")
      BY <1>15 DEF Heeds
    <2> QED BY <1>15, <2>1, RoomKept DEF Heeds, Outside, Workers, object
  <1>16. ASSUME NEW k \in Clicks, OutcomeRecorded(k) PROVE RoomLeft'
    <2>1. \E place \in {"closing", "idle"} : Moves(k, place, None, "none")
      BY <1>16, OutcomeRecordedMoves
    <2>2. InTurn(k) /\ k \in Workers
      BY <1>16, OutcomeRecordedMoves DEF InTurn, Workers
    <2> QED BY <2>1, <2>2, RoomFree
  <1>17. ASSUME NEW k \in Clicks, PendingExpired(k) PROVE RoomLeft'
    <2>1. Moves(k, "idle", None, "none")
      BY <1>17, PendingExpiredMoves
    <2> QED BY <1>17, <2>1, RoomKept, PendingExpiredData DEF Workers
  <1>18. ASSUME NEW k \in Clicks, NEW o \in {"approve", "deny"}, Resolve(k, o) PROVE RoomLeft'
    <2>1. \E place \in {"expire", "outcome"}, s \in Statement : Moves(k, place, s, "none")
      BY <1>18, ResolveMoves, Statements DEF Outcomes
    <2> QED BY <1>18, <2>1, RoomKept DEF Resolve, Workers
  <1>19. ASSUME NEW w \in Workers, Execute(w) \/ ExecuteFails(w) PROVE RoomLeft'
    <2>1. PICK answer \in {"ok", "no", "error"} : Told(w, answer)
      BY <1>19, ExecuteMoves
    <2> QED BY <2>1 DEF Told, object, RoomLeft
  <1>20. CASE Evict
    <2>1. \A w \in Workers : pc'[w] \in Resting
      BY <1>20, KilledAll DEF Evict
    <2> QED BY <2>1 DEF RoomLeft, Resting, Workers
  <1>21. CASE Cron \/ Tick \/ UNCHANGED vars
    BY <1>21 DEF Cron, Tick, vars, object, RoomLeft
  <1> QED
    BY <1>1, <1>2, <1>3, <1>4, <1>5, <1>6, <1>7, <1>8, <1>9, <1>10, <1>11, <1>12, <1>13, <1>14,
       <1>15, <1>16, <1>17, <1>18, <1>19, <1>20, <1>21 DEF Step

LEMMA NothingBefore ==
  ASSUME pc[Opener] = "done", NEW w \in Workers, w # Opener,
         NEW STATE place, NEW STATE s, NEW STATE r, Moves(w, place, s, r)
  PROVE  Before'
  BY DEF Before, Moves, Workers

LEMMA BeforeNext ==
  ASSUME TypeOK, Papers, Before, Step
  PROVE  Before'
  <1>1. CASE Start
    <2>1. Moves(Opener, "start", InsertSession(now + SessionTtl), "none") /\ pc[Opener] = "idle"
      BY <1>1, StartMoves
    <2>2. desk'.open = TRUE
      BY <1>1 DEF Start
    <2> QED BY <1>1, <2>1, <2>2 DEF Start, Before, Moves
  <1>2. CASE Started
    <2>1. pc'[Opener] = "done"
      BY <1>2, StartedMoves DEF Moves
    <2> QED BY <2>1 DEF Before
  <1>3. CASE Defers
    BY <1>3 DEF Defers, Before
  <1>4. CASE Overdue
    <2>1. Moves(Alarm, "expire", SetHumanOutcome(pending.id, "expired"), "none")
      BY <1>4 DEF Overdue
    <2>2. pc[Opener] = "done"
      BY <1>4 DEF Overdue
    <2> QED BY <2>1, <2>2, NothingBefore, Consts DEF Workers
  <1>5. CASE Rested \/ Expired
    <2>1. Moves(Alarm, "idle", None, "none")
      BY <1>5 DEF Rested, Expired, Through
    <2>2. pc[Opener] = "done"
      BY <1>5 DEF Rested, Expired, Through
    <2> QED BY <2>1, <2>2, NothingBefore, Consts DEF Workers
  <1>6. CASE Gone
    <2>1. pc'[Opener] = "done"
      BY <1>6, KilledAll DEF Gone, Destroy, Workers, Once
    <2> QED BY <2>1 DEF Before
  <1>7. ASSUME NEW w \in Clicks \cup {Alarm}, Cleared(w) PROVE Before'
    <2>1. Moves(w, "purgeLog", Purge("purgeLog"), "none")
      BY <1>7 DEF Cleared
    <2>2. pc[Opener] = "done"
      BY <1>7 DEF Cleared
    <2> QED BY <2>1, <2>2, NothingBefore, Consts DEF Workers
  <1>8. ASSUME NEW w \in Clicks \cup {Alarm}, PurgesOn(w) PROVE Before'
    <2>1. Moves(w, "purgeRow", Purge("purgeRow"), "none")
      BY <1>8 DEF PurgesOn
    <2>2. pc[Opener] = "done"
      BY <1>8, OpenerPlaces, Consts DEF PurgesOn, Workers
    <2> QED BY <2>1, <2>2, NothingBefore, Consts DEF Workers
  <1>9. ASSUME NEW k \in Calls, Chat(k) PROVE Before'
    <2>1. Moves(k, "plan", None, "none")
      BY <1>9, ChatMoves
    <2>2. pc[Opener] = "done"
      BY <1>9, OpenerPlaces, ChatMoves
    <2> QED BY <2>1, <2>2, NothingBefore, Consts DEF Workers
  <1>10. ASSUME NEW k \in Calls, ChatAnswered(k) PROVE Before'
    <2>1. Moves(k, "done", None, "none")
      BY <1>10, ChatAnsweredMoves
    <2>2. pc[Opener] = "done"
      BY <1>10, OpenerPlaces, ChatAnsweredMoves, Consts DEF Workers
    <2> QED BY <2>1, <2>2, NothingBefore, Consts DEF Workers
  <1>11. ASSUME NEW k \in Calls, ChatJudged(k) PROVE Before'
    <2>1. Moves(k, "insert", InsertDecision(k), "none")
      BY <1>11, ChatJudgedMoves
    <2>2. pc[Opener] = "done"
      BY <1>11, OpenerPlaces, ChatJudgedMoves, Consts DEF Workers
    <2> QED BY <2>1, <2>2, NothingBefore, Consts DEF Workers
  <1>12. ASSUME NEW k \in Calls, ChatLogged(k) PROVE Before'
    <2>1. \E place \in {"closing", "done"} : Moves(k, place, None, "none")
      BY <1>12, ChatLoggedMoves
    <2>2. pc[Opener] = "done"
      BY <1>12, ChatLoggedMoves, OpenerPlaces, Consts DEF Workers
    <2> QED BY <2>1, <2>2, NothingBefore, Consts DEF Workers
  <1>13. ASSUME NEW k \in Calls \cup Clicks, Closing(k) PROVE Before'
    <2>1. Moves(k, IF k \in Once THEN "done" ELSE "idle", None, "none")
      BY <1>13, ClosingMoves
    <2>2. pc[Opener] = "done"
      BY <1>13, OpenerPlaces, ClosingMoves, Consts DEF Workers
    <2> QED BY <2>1, <2>2, NothingBefore, Consts DEF Workers
  <1>14. ASSUME NEW k \in Clicks, Asks(k) PROVE Before'
    <2>1. PICK place \in {"model", "reclaim"}, s \in Statement :
            Inquiry(place, s) /\ Moves(k, place, s, "none")
      BY <1>14 DEF Asks
    <2>2. pc[Opener] = "done"
      BY <1>14, OpenerPlaces DEF Asks
    <2> QED BY <2>1, <2>2, NothingBefore, Consts DEF Workers
  <1>15. ASSUME NEW k \in Clicks, Heeds(k) PROVE Before'
    <2>1. Moves(k, "idle", None, "none")
      BY <1>15 DEF Heeds
    <2>2. pc[Opener] = "done"
      BY <1>15, OpenerPlaces, Consts DEF Heeds, Workers
    <2> QED BY <2>1, <2>2, NothingBefore, Consts DEF Workers
  <1>16. ASSUME NEW k \in Clicks, OutcomeRecorded(k) PROVE Before'
    <2>1. \E place \in {"closing", "idle"} : Moves(k, place, None, "none")
      BY <1>16, OutcomeRecordedMoves
    <2>2. pc[Opener] = "done"
      BY <1>16, OutcomeRecordedMoves, OpenerPlaces, Consts DEF Workers
    <2> QED BY <2>1, <2>2, NothingBefore, Consts DEF Workers
  <1>17. ASSUME NEW k \in Clicks, PendingExpired(k) PROVE Before'
    <2>1. Moves(k, "idle", None, "none")
      BY <1>17, PendingExpiredMoves
    <2>2. pc[Opener] = "done"
      BY <1>17, OpenerPlaces, PendingExpiredMoves, Consts DEF Workers
    <2> QED BY <2>1, <2>2, NothingBefore, Consts DEF Workers
  <1>18. ASSUME NEW k \in Clicks, NEW o \in {"approve", "deny"}, Resolve(k, o) PROVE Before'
    <2>1. \E place \in {"expire", "outcome"}, s \in Statement : Moves(k, place, s, "none")
      BY <1>18, ResolveMoves, Statements DEF Outcomes
    <2>2. pc[Opener] = "done"
      BY <1>18, ResolveMoves, OpenerPlaces
    <2> QED BY <2>1, <2>2, NothingBefore, Consts DEF Workers
  <1>19. ASSUME NEW w \in Workers, Execute(w) \/ ExecuteFails(w) PROVE Before'
    <2>1. PICK answer \in {"ok", "no", "error"} : Told(w, answer)
      BY <1>19, ExecuteMoves
    <2>2. pc' = pc /\ sched' = sched /\ cookie' = cookie /\ pending' = pending /\ desk' = desk
      BY <2>1 DEF Told, object
    <2>3. \A v \in Workers : stmt'[v] = stmt[v] \/ stmt'[v] = None
      BY <2>1 DEF Told, Moves
    <2> QED BY <2>2, <2>3 DEF Before
  <1>20. CASE Evict
    <2>1. pc[Opener] # "idle"
      BY <1>20 DEF Evict, Before, Resting
    <2>2. pc'[Opener] = "done"
      BY <1>20, <2>1, KilledAll DEF Evict, Workers, Once
    <2> QED BY <2>2 DEF Before
  <1>21. CASE Cron \/ Tick \/ UNCHANGED vars
    BY <1>21 DEF Cron, Tick, vars, object, Before
  <1> QED
    BY <1>1, <1>2, <1>3, <1>4, <1>5, <1>6, <1>7, <1>8, <1>9, <1>10, <1>11, <1>12, <1>13, <1>14,
       <1>15, <1>16, <1>17, <1>18, <1>19, <1>20, <1>21 DEF Step

LEMMA ArmedShut ==
  ASSUME TypeOK, Shut, NEW STATE p, p \in Pending \cup {None}, NEW STATE d,
         d.open = desk.open, d.ends = desk.ends, Arm(p, d)
  PROVE  ~ desk.open => sched' = None
  <1>1. SUFFICES ASSUME ~ desk.open PROVE sched' = None
    OBVIOUS
  <1>2. d.ends = 0 /\ d.ends \in Nat /\ now \in Nat
    BY <1>1 DEF Shut, TypeOK
  <1>3. sched' \in Nat \cup {None} /\ (sched' # None => sched' > now /\ sched' <= d.ends)
    BY <1>2, Armed
  <1> QED BY <1>2, <1>3

LEMMA ShutNext ==
  ASSUME TypeOK, Papers, Before, Shut, Step
  PROVE  Shut'
  <1>1. CASE Start
    <2>1. desk'.open = TRUE
      BY <1>1 DEF Start
    <2> QED BY <2>1 DEF Shut
  <1>2. CASE Started
    <2>1. CASE desk' = Closed /\ sched' = sched
      <3>1. sched = None
        BY <1>2, StartedMoves DEF Before
      <3> QED BY <2>1, <3>1 DEF Shut, Closed
    <2>2. CASE desk' = desk
      <3>1. desk.open
        BY <1>2, StartedMoves DEF Before
      <3> QED BY <2>2, <3>1 DEF Shut
    <2> QED BY <1>2, <2>1, <2>2 DEF Started
  <1>3. CASE Defers
    BY <1>3 DEF Defers, Shut
  <1>4. CASE Overdue
    BY <1>4 DEF Overdue, Shut
  <1>5. CASE Rested \/ Expired
    <2>1. desk' = desk /\ (~ Live => sched' \in {None, sched})
      BY <1>5 DEF Rested, Expired, Through
    <2> QED BY <2>1 DEF Shut, Live
  <1>6. CASE Gone
    BY <1>6 DEF Gone, Destroy, Shut, Closed
  <1>7. ASSUME NEW w \in Clicks \cup {Alarm}, Cleared(w) PROVE Shut'
    BY <1>7 DEF Cleared, Shut, Closed
  <1>8. ASSUME NEW w \in Clicks \cup {Alarm}, PurgesOn(w) PROVE Shut'
    BY <1>8 DEF PurgesOn, object, Shut
  <1>9. ASSUME NEW k \in Calls, Chat(k) PROVE Shut'
    BY <1>9 DEF Chat, Shut
  <1>10. ASSUME NEW k \in Calls, ChatAnswered(k) PROVE Shut'
    <2>1. desk'.open = desk.open /\ desk'.ends = desk.ends /\ sched' = sched
      BY <1>10 DEF ChatAnswered, TypeOK
    <2> QED BY <2>1 DEF Shut
  <1>11. ASSUME NEW k \in Calls, ChatJudged(k) PROVE Shut'
    BY <1>11 DEF ChatJudged, object, Shut
  <1>12. ASSUME NEW k \in Calls, ChatLogged(k) PROVE Shut'
    <2>1. PICK turn, call :
            /\ turn.open = desk.open /\ turn.ends = desk.ends
            /\ call \in Pending /\ Logged(k, turn, call)
      BY <1>12, ChatLoggedData
    <2>2. desk'.open = desk.open /\ desk'.ends = desk.ends
      BY <2>1 DEF Logged
    <2>3. sched' = sched \/ Arm(call, turn)
      BY <2>1 DEF Logged
    <2> QED BY <2>1, <2>2, <2>3, ArmedShut DEF Shut
  <1>13. ASSUME NEW k \in Calls \cup Clicks, Closing(k) PROVE Shut'
    BY <1>13 DEF Closing, Shut
  <1>14. ASSUME NEW k \in Clicks, Asks(k) \/ Heeds(k) PROVE Shut'
    BY <1>14 DEF Asks, Heeds, Outside, object, Shut
  <1>15. ASSUME NEW k \in Clicks, OutcomeRecorded(k) PROVE Shut'
    <2>1. Settled(k, stmt[k].id)
      BY <1>15, OutcomeRecordedData
    <2> QED BY <2>1, ArmedShut, DroppedTyped DEF Settled, Shut
  <1>16. ASSUME NEW k \in Clicks, PendingExpired(k) PROVE Shut'
    <2>1. Arm(Dropped(stmt[k].id), desk) /\ desk' = desk
      BY <1>16, PendingExpiredData
    <2> QED BY <2>1, ArmedShut, DroppedTyped DEF Shut
  <1>17. ASSUME NEW k \in Clicks, NEW o \in {"approve", "deny"}, Resolve(k, o) PROVE Shut'
    BY <1>17 DEF Resolve, Shut
  <1>18. ASSUME NEW w \in Workers, Execute(w) \/ ExecuteFails(w) PROVE Shut'
    <2>1. PICK answer \in {"ok", "no", "error"} : Told(w, answer)
      BY <1>18, ExecuteMoves
    <2> QED BY <2>1 DEF Told, object, Shut
  <1>19. CASE Evict
    BY <1>19 DEF Evict, Shut
  <1>20. CASE Cron \/ Tick \/ UNCHANGED vars
    BY <1>20 DEF Cron, Tick, vars, object, Shut
  <1> QED
    BY <1>1, <1>2, <1>3, <1>4, <1>5, <1>6, <1>7, <1>8, <1>9, <1>10, <1>11, <1>12, <1>13, <1>14,
       <1>15, <1>16, <1>17, <1>18, <1>19, <1>20 DEF Step

-----------------------------------------------------------------------------
(* The audit log and the calls *)

\* What an executed statement wrote about the call d: nothing, or less; the
\* decision of d; the answer to d.
WroteNothing(d) == recorded'[d] = recorded[d] /\ log'[d] \in {log[d], None}

WroteDecision(w, d) ==
  /\ w = d /\ stmt[w].op = "decision"
  /\ recorded'[d] = "none"
  /\ log'[d] # None /\ log'[d].own = stmt[w].own /\ log'[d].outcome = "none"

WroteOutcome(w, d) ==
  /\ stmt[w].op = "outcome" /\ stmt[w].id = d
  /\ log[d] # None /\ log[d].own /\ log[d].outcome = "none"
  /\ recorded'[d] = stmt[w].as
  /\ log'[d] # None /\ log'[d].own /\ log'[d].outcome = stmt[w].as

LEMMA Written ==
  ASSUME TypeOK, Papers, NEW w \in Workers, stmt[w] # None, Effect(stmt[w]), NEW d \in Calls
  PROVE  /\ WroteNothing(d) \/ WroteDecision(w, d) \/ WroteOutcome(w, d)
         /\ stmt[w].op = "outcome" /\ stmt[w].id = d /\ Unanswered(stmt[w]) => WroteOutcome(w, d)
         /\ stmt[w].op = "outcome" /\ ~ Unanswered(stmt[w]) => recorded' = recorded /\ log' = log
         /\ stmt[w].op = "check" => recorded' = recorded /\ log' = log
         /\ stmt[w].op = "decision" /\ stmt[w].id = d => WroteDecision(w, d)
  <1> DEFINE s == stmt[w]
  <1>1. /\ s.op \in Ops
        /\ s.op = "decision" => s.id = w /\ w \in Calls /\ s.own \in BOOLEAN
        /\ s.op = "outcome" => s.id \in Calls /\ s.as \in Outcomes
    <2>1. s \in Statement
      BY DEF TypeOK
    <2> QED BY <2>1 DEF Statement, Papers, Proper, Ops
  <1>2. log \in [Calls -> LogRow \cup {None}] /\ recorded \in [Calls -> Outcomes \cup {"unlogged", "none"}]
    BY DEF TypeOK
  <1>3. CASE s.op \in {"session", "purgeRow"}
    BY <1>3 DEF Effect, WroteNothing
  <1>4. CASE s.op = "purgeLog"
    BY <1>2, <1>4 DEF Effect, WroteNothing
  <1>5. CASE s.op = "decision"
    <2> DEFINE new == [own |-> s.own, at |-> s.at, outcome |-> "none"]
    <2>1. new # None /\ new.own = s.own /\ new.outcome = "none"
      <3>1. s.at \in Nat /\ s.own \in BOOLEAN
        BY DEF TypeOK, Statement
      <3>2. new \in LogRow
        BY <3>1 DEF LogRow
      <3> QED BY <3>2, Consts
    <2>2. log' = [log EXCEPT ![w] = new] /\ recorded' = [recorded EXCEPT ![w] = "none"]
      BY <1>1, <1>5 DEF Effect
    <2> HIDE DEF new
    <2>3. CASE d = w
      BY <1>2, <1>5, <2>1, <2>2, <2>3 DEF WroteDecision
    <2>4. CASE d # w
      BY <1>1, <1>2, <1>5, <2>2, <2>4 DEF WroteNothing
    <2> QED BY <2>3, <2>4, <1>5
  <1>6. CASE s.op = "outcome"
    <2>1. CASE ~ Unanswered(s)
      BY <1>6, <2>1 DEF Effect, WroteNothing
    <2>2. CASE Unanswered(s)
      <3> DEFINE e == s.id
                 new == [log[e] EXCEPT !.outcome = s.as]
      <3>1. log[e] # None /\ log[e].own /\ log[e].outcome = "none"
        BY <2>2 DEF Unanswered
      <3>2. log[e] \in LogRow /\ s.as \in Outcomes
        BY <1>1, <1>2, <1>6, <3>1
      <3>3. new \in LogRow /\ new.own = log[e].own /\ new.outcome = s.as
        BY <3>2 DEF LogRow
      <3>4. log' = [log EXCEPT ![e] = new] /\ recorded' = [recorded EXCEPT ![e] = s.as]
        BY <1>6, <2>2 DEF Effect
      <3>5. new # None
        BY <3>3, Consts
      <3> HIDE DEF new
      <3>6. CASE d = e
        BY <1>1, <1>2, <1>6, <2>2, <3>1, <3>3, <3>4, <3>5, <3>6 DEF WroteOutcome
      <3>7. CASE d # e
        BY <1>1, <1>2, <1>6, <2>2, <3>4, <3>7 DEF WroteNothing
      <3> QED BY <3>6, <3>7
    <2> QED BY <2>1, <2>2
  <1>7. CASE s.op = "check"
    BY <1>7 DEF Effect, database, WroteNothing
  <1> QED BY <1>1, <1>3, <1>4, <1>5, <1>6, <1>7 DEF Ops

\* The same of a statement that may have failed.
LEMMA ToldData ==
  ASSUME TypeOK, Papers, NEW w \in Workers, NEW answer, Told(w, answer), NEW d \in Calls
  PROVE  /\ WroteNothing(d) \/ WroteDecision(w, d) \/ WroteOutcome(w, d)
         /\ answer = "ok" /\ stmt[w].op = "decision" /\ w = d => WroteDecision(w, d)
         /\ answer = "ok" /\ stmt[w].op = "outcome" /\ stmt[w].id = d => WroteOutcome(w, d)
         /\ answer = "no" => /\ stmt[w].op = "outcome" => ~ Unanswered(stmt[w])
                           /\ recorded' = recorded /\ log' = log
  <1>1. stmt[w] # None /\ (Effect(stmt[w]) \/ (answer = "error" /\ UNCHANGED database))
    BY DEF Told
  <1>2. stmt[w].op = "decision" => stmt[w].id = w
    BY <1>1 DEF Papers, Proper
  <1>3. answer # "error" => answer = Result(stmt[w])
    BY DEF Told
  <1>4. CASE Effect(stmt[w])
    BY <1>1, <1>2, <1>3, <1>4, Written DEF Result
  <1>5. CASE answer = "error" /\ UNCHANGED database
    BY <1>5 DEF database, WroteNothing
  <1> QED BY <1>1, <1>4, <1>5

LEMMA AskedKept ==
  ASSUME NEW d \in Calls, Asked(d), NEW w \in Workers, w # d,
         NEW STATE place, NEW STATE s, NEW STATE r, Moves(w, place, s, r),
         verdict' = verdict, recorded' = recorded
  PROVE  Asked(d)'
  BY DEF Asked, Moves, Workers

LEMMA AskedKilled ==
  ASSUME TypeOK, Killed, NEW d \in Calls, Asked(d), verdict' = verdict, recorded' = recorded
  PROVE  Asked(d)'
  <1>1. d \in Workers /\ d \in Once
    BY DEF Workers, Once
  <1> QED BY <1>1, KilledAll DEF Asked

\* What was asked stays asked.
LEMMA AskedStays ==
  ASSUME TypeOK, Papers, NEW d \in Calls, Asked(d), Step
  PROVE  Asked(d)'
  <1>1. CASE Start
    <2>1. Moves(Opener, "start", InsertSession(now + SessionTtl), "none")
      BY <1>1, StartMoves
    <2>2. Opener # d /\ Opener \in Workers
      BY <1>1, Consts, StartMoves DEF Workers, Asked
    <2> QED BY <1>1, <2>1, <2>2, AskedKept DEF history, Start
  <1>2. CASE Started
    <2>1. Moves(Opener, "done", None, "none")
      BY <1>2, StartedMoves
    <2>2. Opener # d /\ Opener \in Workers
      BY <1>2, Consts, StartedMoves DEF Workers, Asked
    <2> QED BY <1>2, <2>1, <2>2, AskedKept DEF history, Started
  <1>3. CASE Defers
    BY <1>3 DEF Defers, Outside, history, Asked
  <1>4. CASE Overdue
    <2>1. Moves(Alarm, "expire", SetHumanOutcome(pending.id, "expired"), "none")
      BY <1>4 DEF Overdue
    <2>2. Alarm # d /\ Alarm \in Workers
      BY <1>4, Consts DEF Workers, Asked, Overdue
    <2> QED BY <1>4, <2>1, <2>2, AskedKept DEF history, Overdue, Outside
  <1>5. CASE Rested \/ Expired
    <2>1. Moves(Alarm, "idle", None, "none")
      BY <1>5 DEF Rested, Expired, Through
    <2>2. Alarm # d /\ Alarm \in Workers
      BY <1>5, Consts DEF Workers, Asked, Rested, Expired, Through
    <2> QED BY <1>5, <2>1, <2>2, AskedKept DEF history, Rested, Expired, Through, Outside
  <1>6. CASE Gone
    BY <1>6, AskedKilled DEF Gone, Destroy, Outside, history
  <1>7. ASSUME NEW w \in Clicks \cup {Alarm}, Cleared(w) PROVE Asked(d)'
    <2>1. Moves(w, "purgeLog", Purge("purgeLog"), "none")
      BY <1>7 DEF Cleared
    <2>2. w # d /\ w \in Workers
      BY <1>7, Consts DEF Workers, Asked, Cleared
    <2> QED BY <1>7, <2>1, <2>2, AskedKept DEF history, Cleared, Outside
  <1>8. ASSUME NEW w \in Clicks \cup {Alarm}, PurgesOn(w) PROVE Asked(d)'
    <2>1. Moves(w, "purgeRow", Purge("purgeRow"), "none")
      BY <1>8 DEF PurgesOn
    <2>2. w # d /\ w \in Workers
      BY <1>8, Consts DEF Workers, Asked, PurgesOn
    <2> QED BY <1>8, <2>1, <2>2, AskedKept DEF history, PurgesOn, Outside
  <1>9. ASSUME NEW k \in Calls, Chat(k) PROVE Asked(d)'
    <2>1. Moves(k, "plan", None, "none")
      BY <1>9, ChatMoves
    <2>2. k # d /\ k \in Workers
      BY <1>9, Consts, ChatMoves DEF Workers, Asked
    <2> QED BY <1>9, <2>1, <2>2, AskedKept DEF history, Chat
  <1>10. ASSUME NEW k \in Calls, ChatAnswered(k) PROVE Asked(d)'
    <2>1. Moves(k, "done", None, "none")
      BY <1>10, ChatAnsweredMoves
    <2>2. k # d /\ k \in Workers
      BY <1>10, Consts, ChatAnsweredMoves DEF Workers, Asked
    <2> QED BY <1>10, <2>1, <2>2, AskedKept DEF history, ChatAnswered
  <1>11. ASSUME NEW k \in Calls, ChatJudged(k) PROVE Asked(d)'
    <2>1. Moves(k, "insert", InsertDecision(k), "none") /\ pc[k] = "plan"
      BY <1>11, ChatJudgedMoves
    <2>2. k # d
      BY <2>1 DEF Asked
    <2>3. verdict'[d] = verdict[d] /\ recorded' = recorded
      BY <1>11, <2>2 DEF ChatJudged, TypeOK
    <2> QED BY <2>1, <2>2, <2>3 DEF Asked, Moves, Workers
  <1>12. ASSUME NEW k \in Calls, ChatLogged(k) PROVE Asked(d)'
    <2>1. \E place \in {"closing", "done"} : Moves(k, place, None, "none")
      BY <1>12, ChatLoggedMoves
    <2>2. k # d /\ k \in Workers
      BY <1>12, ChatLoggedMoves DEF Asked, Workers
    <2> QED BY <1>12, <2>1, <2>2, AskedKept DEF ChatLogged
  <1>13. ASSUME NEW k \in Calls \cup Clicks, Closing(k) PROVE Asked(d)'
    <2>1. Moves(k, IF k \in Once THEN "done" ELSE "idle", None, "none")
      BY <1>13, ClosingMoves
    <2>2. k # d /\ k \in Workers
      BY <1>13, Consts, ClosingMoves DEF Workers, Asked
    <2> QED BY <1>13, <2>1, <2>2, AskedKept DEF history, Closing
  <1>14. ASSUME NEW k \in Clicks, Asks(k) PROVE Asked(d)'
    <2>1. PICK place \in {"model", "reclaim"}, s \in Statement :
            Inquiry(place, s) /\ Moves(k, place, s, "none")
      BY <1>14 DEF Asks
    <2>2. k # d /\ k \in Workers
      BY <1>14, Consts DEF Asks, Workers, Asked
    <2> QED BY <1>14, <2>1, <2>2, AskedKept, Consts DEF Asks, Inquiry, Outside, history
  <1>15. ASSUME NEW k \in Clicks, Heeds(k) PROVE Asked(d)'
    <2>1. Moves(k, "idle", None, "none")
      BY <1>15 DEF Heeds
    <2>2. k # d /\ k \in Workers
      BY <1>15, Consts DEF Heeds, Workers, Asked
    <2> QED BY <1>15, <2>1, <2>2, AskedKept DEF Heeds, Outside, history
  <1>16. ASSUME NEW k \in Clicks, OutcomeRecorded(k) PROVE Asked(d)'
    <2>1. \E place \in {"closing", "idle"} : Moves(k, place, None, "none")
      BY <1>16, OutcomeRecordedMoves
    <2>2. k # d /\ k \in Workers
      BY Consts DEF Workers
    <2> QED BY <1>16, <2>1, <2>2, AskedKept DEF OutcomeRecorded
  <1>17. ASSUME NEW k \in Clicks, PendingExpired(k) PROVE Asked(d)'
    <2>1. Moves(k, "idle", None, "none")
      BY <1>17, PendingExpiredMoves
    <2>2. k # d /\ k \in Workers
      BY <1>17, Consts, PendingExpiredMoves DEF Workers, Asked
    <2> QED BY <1>17, <2>1, <2>2, AskedKept DEF history, PendingExpired
  <1>18. ASSUME NEW k \in Clicks, NEW o \in {"approve", "deny"}, Resolve(k, o) PROVE Asked(d)'
    <2>1. \E place \in {"expire", "outcome"}, s \in Statement : Moves(k, place, s, "none")
      BY <1>18, ResolveMoves, Statements DEF Outcomes
    <2>2. k # d /\ k \in Workers
      BY Consts DEF Workers
    <2> QED BY <1>18, <2>1, <2>2, AskedKept DEF Resolve, history
  <1>19. ASSUME NEW w \in Workers, Execute(w) \/ ExecuteFails(w) PROVE Asked(d)'
    <2>1. PICK answer \in {"ok", "no", "error"} : Told(w, answer)
      BY <1>19, ExecuteMoves
    <2>2. w # d /\ verdict' = verdict
      BY <2>1 DEF Told, Asked
    <2>3. pc'[d] = pc[d] /\ stmt'[d] = stmt[d]
      BY <2>1, <2>2 DEF Told, Moves, Workers
    <2>4. recorded'[d] # "unlogged"
      <3>1. WroteNothing(d) \/ WroteDecision(w, d) \/ WroteOutcome(w, d)
        BY <2>1, ToldData
      <3>2. WroteOutcome(w, d) => stmt[w].as \in Outcomes
        BY <2>1, Outcome DEF WroteOutcome, Told
      <3> QED BY <3>1, <3>2 DEF WroteNothing, WroteDecision, WroteOutcome, Asked, Outcomes
    <2> QED BY <2>2, <2>3, <2>4 DEF Asked
  <1>20. CASE Evict
    BY <1>20, AskedKilled DEF Evict, history
  <1>21. CASE Cron \/ Tick \/ UNCHANGED vars
    BY <1>21 DEF Cron, Tick, vars, history, Asked
  <1> QED
    BY <1>1, <1>2, <1>3, <1>4, <1>5, <1>6, <1>7, <1>8, <1>9, <1>10, <1>11, <1>12, <1>13, <1>14,
       <1>15, <1>16, <1>17, <1>18, <1>19, <1>20, <1>21 DEF Step

\* A call that another handler's step leaves alone, but for its card, its tool
\* and the row that may be purged.
LEMMA DecisionKept ==
  ASSUME NEW d \in Calls, Decision(d),
         NEW w \in Workers, w # d, NEW STATE place, NEW STATE s, NEW STATE r, Moves(w, place, s, r),
         verdict'[d] = verdict[d], recorded'[d] = recorded[d], log'[d] \in {log[d], None},
         card[d] = "gone" => card'[d] = "gone",
         ran'[d] = ran[d] \/ Asked(d)
  PROVE  Decision(d)'
  <1>1. pc'[d] = pc[d] /\ stmt'[d] = stmt[d] /\ reply'[d] = reply[d]
    BY DEF Moves, Workers
  <1>2. CASE Asked(d)
    BY <1>1, <1>2 DEF Decision, Asked, Outcomes
  <1>3. CASE ~ Asked(d)
    BY <1>1, <1>3 DEF Decision, Asked
  <1> QED BY <1>2, <1>3

LEMMA DecisionKilled ==
  ASSUME TypeOK, Papers, NEW d \in Calls, Decision(d), Killed,
         verdict'[d] = verdict[d], recorded'[d] = recorded[d], log'[d] = log[d],
         card'[d] = card[d] \/ card'[d] = "gone", ran'[d] = ran[d]
  PROVE  Decision(d)'
  <1>1. d \in Workers /\ d \in Once
    BY DEF Workers, Once
  <1>2. /\ pc'[d] = (IF pc[d] # "idle" THEN "done" ELSE "idle") /\ reply'[d] = "none"
        /\ stmt'[d] \in {stmt[d], None}
        /\ stmt'[d] # None => reply[d] = "none"
    BY <1>1, KilledAll
  <1>3. recorded[d] \in Outcomes => Asked(d)'
    BY <1>2 DEF Decision, Asked
  <1> QED BY <1>2, <1>3 DEF Decision

LEMMA DecisionNext ==
  ASSUME TypeOK, Papers, AskedFirst, NEW d \in Calls, Decision(d), Step
  PROVE  Decision(d)'
  <1>1. CASE Start
    <2>1. Moves(Opener, "start", InsertSession(now + SessionTtl), "none")
      BY <1>1, StartMoves
    <2>2. Opener # d /\ Opener \in Workers
      BY Consts DEF Workers
    <2> QED BY <1>1, <2>1, <2>2, DecisionKept DEF Decisions, history, Start
  <1>2. CASE Started
    <2>1. Moves(Opener, "done", None, "none")
      BY <1>2, StartedMoves
    <2>2. Opener # d /\ Opener \in Workers
      BY Consts DEF Workers
    <2> QED BY <1>2, <2>1, <2>2, DecisionKept DEF Decisions, history, Started
  <1>3. CASE Defers
    BY <1>3 DEF Defers, Outside, history, Decision, Asked
  <1>4. CASE Overdue
    <2>1. Moves(Alarm, "expire", SetHumanOutcome(pending.id, "expired"), "none")
      BY <1>4 DEF Overdue
    <2>2. Alarm # d /\ Alarm \in Workers
      BY Consts DEF Workers
    <2> QED BY <1>4, <2>1, <2>2, DecisionKept DEF Decisions, history, Overdue, Outside
  <1>5. CASE Rested
    <2>1. Moves(Alarm, "idle", None, "none")
      BY <1>5 DEF Rested, Through
    <2>2. Alarm # d /\ Alarm \in Workers
      BY Consts DEF Workers
    <2> QED BY <1>5, <2>1, <2>2, DecisionKept DEF Decisions, history, Rested, Through, Outside
  <1>6. CASE Expired
    <2>1. Moves(Alarm, "idle", None, "none")
      BY <1>6 DEF Expired, Through
    <2>2. Alarm # d /\ Alarm \in Workers
      BY Consts DEF Workers
    <2>3. card[d] = "gone" => card'[d] = "gone"
      BY <1>6, ExpiredData DEF MarkHuman, TypeOK
    <2> QED BY <1>6, <2>1, <2>2, <2>3, ExpiredData, DecisionKept DEF Outside, history
  <1>7. CASE Gone
    BY <1>7, DecisionKilled DEF Gone, Destroy, Outside, history
  <1>8. ASSUME NEW w \in Clicks \cup {Alarm}, Cleared(w) PROVE Decision(d)'
    <2>1. Moves(w, "purgeLog", Purge("purgeLog"), "none")
      BY <1>8 DEF Cleared
    <2>2. w # d /\ w \in Workers
      BY Consts DEF Workers
    <2> QED BY <1>8, <2>1, <2>2, DecisionKept DEF Decisions, history, Cleared, Outside
  <1>9. ASSUME NEW w \in Clicks \cup {Alarm}, PurgesOn(w) PROVE Decision(d)'
    <2>1. Moves(w, "purgeRow", Purge("purgeRow"), "none")
      BY <1>9 DEF PurgesOn
    <2>2. w # d /\ w \in Workers
      BY Consts DEF Workers
    <2> QED BY <1>9, <2>1, <2>2, DecisionKept DEF Decisions, history, PurgesOn, Outside, object
  <1>10. ASSUME NEW k \in Calls, Chat(k) PROVE Decision(d)'
    <2>1. Moves(k, "plan", None, "none") /\ k \in Workers
      BY <1>10, ChatMoves DEF Workers
    <2>2. CASE k # d
      BY <1>10, <2>1, <2>2, DecisionKept DEF history, Chat
    <2>3. CASE k = d
      <3>1. pc[d] = "idle" /\ pc'[d] = "plan" /\ stmt'[d] = None
        BY <1>10, <2>1, <2>3, ChatMoves DEF Moves
      <3> QED BY <1>10, <3>1 DEF Chat, history, Decision, Asked
    <2> QED BY <2>2, <2>3
  <1>11. ASSUME NEW k \in Calls, ChatAnswered(k) PROVE Decision(d)'
    <2>1. Moves(k, "done", None, "none") /\ k \in Workers
      BY <1>11, ChatAnsweredMoves DEF Workers
    <2>2. CASE k # d
      BY <1>11, <2>1, <2>2, DecisionKept DEF history, ChatAnswered
    <2>3. CASE k = d
      <3>1. pc[d] = "plan" /\ pc'[d] = "done" /\ stmt'[d] = None
        BY <1>11, <2>1, <2>3, ChatAnsweredMoves DEF Moves
      <3> QED BY <1>11, <3>1 DEF ChatAnswered, history, Decision, Asked, Outcomes
    <2> QED BY <2>2, <2>3
  <1>12. ASSUME NEW k \in Calls, ChatJudged(k) PROVE Decision(d)'
    <2>1. Moves(k, "insert", InsertDecision(k), "none") /\ k \in Workers /\ pc[k] = "plan"
      BY <1>12, ChatJudgedMoves DEF Workers
    <2>2. CASE k # d
      <3>1. verdict'[d] = verdict[d]
        BY <1>12, <2>2 DEF ChatJudged, TypeOK
      <3> QED BY <1>12, <2>1, <2>2, <3>1, DecisionKept DEF ChatJudged, object
    <2>3. CASE k = d
      <3>1. /\ pc[d] = "plan" /\ pc'[d] = "insert" /\ reply'[d] = "none"
            /\ verdict'[d] # "none"
        BY <1>12, <2>1, <2>3 DEF Moves, ChatJudged, TypeOK
      <3>2. /\ recorded[d] = "unlogged" /\ recorded' = recorded /\ log' = log /\ card' = card /\ ran' = ran
        BY <1>12, <3>1 DEF Decision, ChatJudged, object
      <3> QED BY <3>1, <3>2 DEF Decision, Outcomes
    <2> QED BY <2>2, <2>3
  <1>13. ASSUME NEW k \in Calls, ChatLogged(k) PROVE Decision(d)'
    <2>1. PICK place \in {"closing", "done"} : Moves(k, place, None, "none")
      BY <1>13, ChatLoggedMoves
    <2>2. PICK turn, call : Logged(k, turn, call)
      BY <1>13, ChatLoggedData
    <2>3. CASE k # d
      <3>1. card'[d] = card[d] /\ ran'[d] = ran[d]
        BY <2>2, <2>3 DEF Logged, TypeOK
      <3> QED BY <2>1, <2>2, <2>3, <3>1, DecisionKept DEF Logged, Workers
    <2>4. CASE k = d
      <3>1. /\ pc[d] = "insert" /\ pc'[d] \in {"closing", "done"} /\ stmt'[d] = None /\ reply'[d] = "none"
        BY <1>13, <2>1, <2>4, ChatLoggedMoves DEF Moves
      <3>2. recorded'[d] = recorded[d] /\ log'[d] = log[d] /\ recorded[d] \notin Outcomes
        BY <2>2, <3>1 DEF Logged, Decision, Asked
      <3>3. CASE reply[d] = "ok"
        <4>1. recorded[d] = "none"
          BY <3>1, <3>3 DEF Decision
        <4> QED BY <3>1, <3>2, <4>1 DEF Decision
      <3>4. CASE reply[d] # "ok"
        <4>1. card' = card /\ ran' = ran
          BY <2>2, <2>4, <3>4 DEF Logged
        <4> QED BY <3>1, <3>2, <4>1 DEF Decision
      <3> QED BY <3>3, <3>4
    <2> QED BY <2>3, <2>4
  <1>14. ASSUME NEW k \in Calls \cup Clicks, Closing(k) PROVE Decision(d)'
    <2>1. Moves(k, IF k \in Once THEN "done" ELSE "idle", None, "none") /\ k \in Workers
      BY <1>14, ClosingMoves DEF Workers
    <2>2. CASE k # d
      BY <1>14, <2>1, <2>2, DecisionKept DEF history, Closing
    <2>3. CASE k = d
      <3>1. pc[d] = "closing" /\ pc'[d] = "done" /\ stmt'[d] = None
        BY <1>14, <2>1, <2>3, ClosingMoves DEF Moves, Once
      <3> QED BY <1>14, <3>1 DEF Closing, history, Decision, Asked
    <2> QED BY <2>2, <2>3
  <1>15. ASSUME NEW k \in Clicks, Asks(k) PROVE Decision(d)'
    <2>1. PICK place \in {"model", "reclaim"}, s \in Statement :
            Inquiry(place, s) /\ Moves(k, place, s, "none")
      BY <1>15 DEF Asks
    <2>2. k # d /\ k \in Workers
      BY Consts DEF Workers
    <2> QED BY <1>15, <2>1, <2>2, DecisionKept, Consts DEF Asks, Inquiry, Outside, Decisions, history, object
  <1>16. ASSUME NEW k \in Clicks, Heeds(k) PROVE Decision(d)'
    <2>1. Moves(k, "idle", None, "none")
      BY <1>16 DEF Heeds
    <2>2. k # d /\ k \in Workers
      BY Consts DEF Workers
    <2> QED BY <1>16, <2>1, <2>2, DecisionKept DEF Heeds, Outside, Decisions, history, object
  <1>17. ASSUME NEW k \in Clicks, OutcomeRecorded(k) PROVE Decision(d)'
    <2>1. \E place \in {"closing", "idle"} : Moves(k, place, None, "none")
      BY <1>17, OutcomeRecordedMoves
    <2>2. k # d /\ k \in Workers
      BY Consts DEF Workers
    <2>3. Settled(k, stmt[k].id) /\ Asked(stmt[k].id)
      BY <1>17, <2>2, OutcomeRecordedData DEF AskedFirst
    <2>4. card[d] = "gone" => card'[d] = "gone"
      BY <2>3 DEF Settled, MarkHuman, TypeOK
    <2>5. ran'[d] = ran[d] \/ Asked(d)
      BY <2>3 DEF Settled, TypeOK
    <2> QED BY <2>1, <2>2, <2>3, <2>4, <2>5, DecisionKept DEF Settled
  <1>18. ASSUME NEW k \in Clicks, PendingExpired(k) PROVE Decision(d)'
    <2>1. Moves(k, "idle", None, "none")
      BY <1>18, PendingExpiredMoves
    <2>2. k # d /\ k \in Workers
      BY Consts DEF Workers
    <2>3. card[d] = "gone" => card'[d] = "gone"
      BY <1>18, PendingExpiredData DEF MarkHuman, TypeOK
    <2> QED BY <1>18, <2>1, <2>2, <2>3, PendingExpiredData, DecisionKept DEF Outside, history
  <1>19. ASSUME NEW k \in Clicks, NEW o \in {"approve", "deny"}, Resolve(k, o) PROVE Decision(d)'
    <2>1. \E place \in {"expire", "outcome"}, s \in Statement : Moves(k, place, s, "none")
      BY <1>19, ResolveMoves, Statements DEF Outcomes
    <2>2. k # d /\ k \in Workers
      BY Consts DEF Workers
    <2> QED BY <1>19, <2>1, <2>2, DecisionKept DEF Resolve, history
  <1>20. ASSUME NEW w \in Workers, Execute(w) \/ ExecuteFails(w) PROVE Decision(d)'
    <2>1. PICK answer \in {"ok", "no", "error"} : Told(w, answer)
      BY <1>20, ExecuteMoves
    <2>2. verdict' = verdict /\ card' = card /\ ran' = ran /\ pc' = pc
      BY <2>1 DEF Told, object
    <2>3. CASE WroteDecision(w, d)
      <3>1. recorded'[d] = "none" /\ log'[d].outcome = "none"
        BY <2>3 DEF WroteDecision
      <3>2. ran[d] = 0 /\ card[d] = "gone"
        BY <2>1, <2>3 DEF WroteDecision, Told, Decision
      <3>3. stmt'[d] = None \/ reply'[d] = answer
        BY <2>1, <2>3 DEF WroteDecision, Told, Moves
      <3>4. pc[d] \notin {"idle", "plan"}
        BY <2>1, <2>3 DEF WroteDecision, Told, Papers, Proper, Once
      <3>5. pc[d] = "insert" => verdict[d] # "none"
        BY DEF Decision
      <3> QED BY <2>2, <3>1, <3>2, <3>3, <3>4, <3>5 DEF Decision, Outcomes
    <2>4. CASE WroteOutcome(w, d)
      <3>1. Asked(d) /\ stmt[w].as \in Outcomes
        BY <2>1, <2>4, Outcome DEF WroteOutcome, Told, AskedFirst
      <3>2. Asked(d)'
        BY <1>20, <3>1, AskedStays
      <3>3. recorded'[d] = stmt[w].as /\ log'[d].outcome = stmt[w].as
        BY <2>4 DEF WroteOutcome
      <3> QED BY <3>1, <3>2, <3>3 DEF Decision, Asked, Outcomes
    <2>5. CASE WroteNothing(d)
      <3>1. CASE w # d
        <4>1. \E place, s, r : Moves(w, place, s, r)
          BY <2>1 DEF Told
        <4> QED BY <2>2, <2>5, <3>1, <4>1, DecisionKept DEF WroteNothing
      <3>2. CASE w = d
        <4>1. answer # "ok"
          <5>1. stmt[d].op = "decision"
            BY <2>1, <3>2 DEF Told, Papers, Proper
          <5>2. answer = "ok" => WroteDecision(d, d)
            BY <2>1, <3>2, <5>1, ToldData
          <5>3. stmt[d] # None /\ reply[d] = "none"
            BY <2>1, <3>2 DEF Told
          <5>4. recorded[d] = "unlogged"
            BY <5>3 DEF Decision
          <5> QED BY <2>5, <5>2, <5>4 DEF WroteNothing, WroteDecision
        <4>2. stmt'[d] = None \/ reply'[d] = answer
          BY <2>1, <3>2 DEF Told, Moves
        <4>3. stmt[d] # None /\ reply[d] = "none" /\ answer # "none"
          BY <2>1, <3>2 DEF Told
        <4>4. recorded[d] = "unlogged"
          BY <4>3 DEF Decision
        <4>5. ran[d] = 0 /\ card[d] = "gone"
          BY <4>3 DEF Decision
        <4>6. recorded'[d] = "unlogged" /\ log'[d] = None
          BY <2>5, <4>4 DEF WroteNothing, Decision
        <4>7. ~ (stmt'[d] # None /\ reply'[d] = "none") /\ (reply'[d] = "ok" => stmt'[d] = None /\ pc[d] # "insert")
          <5>1. CASE pc[d] \in Resting
            BY <2>1, <3>2, <5>1 DEF Told, Moves, Resting
          <5>2. CASE pc[d] \notin Resting
            BY <2>1, <3>2, <4>1, <4>3, <5>2 DEF Told, Moves
          <5> QED BY <5>1, <5>2
        <4> QED BY <2>2, <4>5, <4>6, <4>7 DEF Decision, Outcomes
      <3> QED BY <3>1, <3>2
    <2> QED BY <2>1, <2>3, <2>4, <2>5, ToldData
  <1>21. CASE Evict
    BY <1>21, DecisionKilled DEF Evict, history
  <1>22. CASE Cron
    <2>1. log'[d] \in {log[d], None}
      BY <1>22 DEF Cron, Purges, TypeOK
    <2> QED BY <1>22, <2>1 DEF Cron, object, history, Decision, Asked
  <1>23. CASE Tick
    BY <1>23 DEF Tick, object, history, Decision, Asked
  <1>24. CASE UNCHANGED vars
    BY <1>24 DEF vars, object, history, Decision, Asked
  <1> QED
    BY <1>1, <1>2, <1>3, <1>4, <1>5, <1>6, <1>7, <1>8, <1>9, <1>10, <1>11, <1>12, <1>13, <1>14,
       <1>15, <1>16, <1>17, <1>18, <1>19, <1>20, <1>21, <1>22, <1>23, <1>24 DEF Step

\* Asked(d) after the step, whatever became of the state that names d.
StillAsked(d) ==
  verdict'[d] = "ask" /\ recorded'[d] # "unlogged" /\ pc'[d] = "done" /\ stmt'[d] = None

LEMMA AskedAll ==
  ASSUME TypeOK, Papers, AskedFirst, Step
  PROVE  /\ \A d \in Calls : Asked(d) => Asked(d)'
         /\ \A d \in Calls : Asked(d) => StillAsked(d)
         /\ pending # None => pending.id \in Calls /\ StillAsked(pending.id)
         /\ \A w \in Workers : stmt[w] # None /\ stmt[w].op = "outcome" =>
              stmt[w].id \in Calls /\ StillAsked(stmt[w].id)
  <1>1. ASSUME NEW d \in Calls, Asked(d) PROVE Asked(d)' /\ StillAsked(d)
    BY <1>1, AskedStays DEF Asked, StillAsked
  <1>2. pending # None => pending.id \in Calls
    BY DEF TypeOK, Pending
  <1>3. \A w \in Workers : stmt[w] # None /\ stmt[w].op = "outcome" => stmt[w].id \in Calls
    BY Outcome
  <1> QED BY <1>1, <1>2, <1>3 DEF AskedFirst

LEMMA AskedMoved ==
  ASSUME TypeOK, Papers, AskedFirst, Step,
         NEW w \in Workers, NEW STATE place, NEW STATE s, NEW STATE r, Moves(w, place, s, r),
         \/ s = None \/ s = stmt[w] \/ s.op # "outcome"
         \/ s.id \in Calls /\ Asked(s.id),
         pending' \in {pending, None}
  PROVE  AskedFirst'
  <1>1. pending' # None => StillAsked(pending'.id)
    BY AskedAll
  <1>2. ASSUME NEW v \in Workers, stmt'[v] # None, stmt'[v].op = "outcome"
        PROVE  StillAsked(stmt'[v].id)
    <2>1. CASE stmt'[v] = stmt[v]
      BY <1>2, <2>1, AskedAll
    <2>2. CASE stmt'[v] # stmt[v]
      <3>1. v = w /\ stmt'[v] = s
        BY <2>2 DEF Moves
      <3>2. s.id \in Calls /\ Asked(s.id)
        BY <1>2, <2>2, <3>1
      <3> QED BY <3>1, <3>2, AskedAll
    <2> QED BY <2>1, <2>2
  <1> QED BY <1>1, <1>2 DEF AskedFirst, Asked, StillAsked

LEMMA AskedFirstKilled ==
  ASSUME TypeOK, Papers, AskedFirst, Step, Killed, pending' \in {pending, None}
  PROVE  AskedFirst'
  <1>1. pending' # None => StillAsked(pending'.id)
    BY AskedAll
  <1>2. \A v \in Workers : stmt'[v] # None /\ stmt'[v].op = "outcome" => StillAsked(stmt'[v].id)
    BY KilledAll, AskedAll
  <1> QED BY <1>1, <1>2 DEF AskedFirst, Asked, StillAsked

LEMMA AskedFirstNext ==
  ASSUME TypeOK, Papers, AskedFirst, Decisions, Step
  PROVE  AskedFirst'
  <1>1. CASE Start
    <2>1. Moves(Opener, "start", InsertSession(now + SessionTtl), "none")
      BY <1>1, StartMoves
    <2> QED BY <1>1, <2>1, AskedMoved, Read DEF Workers, Start
  <1>2. CASE Started
    <2>1. Moves(Opener, "done", None, "none")
      BY <1>2, StartedMoves
    <2> QED BY <1>2, <2>1, AskedMoved DEF Workers, Started
  <1>3. CASE Defers
    <2>1. pending' = pending /\ stmt' = stmt
      BY <1>3 DEF Defers
    <2> QED BY <2>1, AskedAll DEF AskedFirst, Asked, StillAsked
  <1>4. CASE Overdue
    <2> DEFINE s == SetHumanOutcome(pending.id, "expired")
    <2>1. Moves(Alarm, "expire", s, "none") /\ pending.id \in Calls /\ pending # None /\ pending' = pending
      BY <1>4 DEF Overdue
    <2>2. s.id \in Calls /\ Asked(s.id)
      BY <2>1, Read DEF AskedFirst, Outcomes
    <2> HIDE DEF s
    <2> QED BY <2>1, <2>2, AskedMoved DEF Workers
  <1>5. CASE Rested
    <2>1. Moves(Alarm, "idle", None, "none")
      BY <1>5 DEF Rested, Through
    <2> QED BY <1>5, <2>1, AskedMoved DEF Workers, Rested, Through
  <1>6. CASE Expired
    <2>1. Moves(Alarm, "idle", None, "none")
      BY <1>6 DEF Expired, Through
    <2> QED BY <1>6, <2>1, AskedMoved, ExpiredData, DroppedTyped DEF Workers
  <1>7. CASE Gone
    BY <1>7, AskedFirstKilled DEF Gone, Destroy
  <1>8. ASSUME NEW w \in Clicks \cup {Alarm}, Cleared(w) PROVE AskedFirst'
    <2>1. Moves(w, "purgeLog", Purge("purgeLog"), "none")
      BY <1>8 DEF Cleared
    <2> QED BY <1>8, <2>1, AskedMoved, Read DEF Workers, Cleared
  <1>9. ASSUME NEW w \in Clicks \cup {Alarm}, PurgesOn(w) PROVE AskedFirst'
    <2>1. Moves(w, "purgeRow", Purge("purgeRow"), "none")
      BY <1>9 DEF PurgesOn
    <2> QED BY <1>9, <2>1, AskedMoved, Read DEF Workers, PurgesOn, object
  <1>10. ASSUME NEW k \in Calls, Chat(k) PROVE AskedFirst'
    <2>1. Moves(k, "plan", None, "none")
      BY <1>10, ChatMoves
    <2> QED BY <1>10, <2>1, AskedMoved DEF Workers, Chat
  <1>11. ASSUME NEW k \in Calls, ChatAnswered(k) PROVE AskedFirst'
    <2>1. Moves(k, "done", None, "none")
      BY <1>11, ChatAnsweredMoves
    <2> QED BY <1>11, <2>1, AskedMoved DEF Workers, ChatAnswered
  <1>12. ASSUME NEW k \in Calls, ChatJudged(k) PROVE AskedFirst'
    <2>1. Moves(k, "insert", InsertDecision(k), "none")
      BY <1>12, ChatJudgedMoves
    <2> QED BY <1>12, <2>1, AskedMoved, Read DEF Workers, ChatJudged, object
  <1>13. ASSUME NEW k \in Calls, ChatLogged(k) PROVE AskedFirst'
    <2>1. PICK place \in {"closing", "done"} : Moves(k, place, None, "none")
      BY <1>13, ChatLoggedMoves
    <2>2. PICK turn, call : call # None /\ call.id = k /\ Logged(k, turn, call)
      BY <1>13, ChatLoggedData
    <2>3. CASE ~ (reply[k] = "ok" /\ verdict[k] = "ask")
      <3>1. pending' = pending
        BY <2>2, <2>3 DEF Logged
      <3> QED BY <2>1, <3>1, AskedMoved DEF Workers
    <2>4. CASE reply[k] = "ok" /\ verdict[k] = "ask"
      <3>1. pending' = call /\ recorded' = recorded /\ verdict' = verdict
        BY <2>2, <2>4 DEF Logged
      <3>2. pc[k] = "insert" /\ Moves(k, "done", None, "none")
        BY <1>13, <2>4, ChatLoggedMoves
      <3>3. recorded[k] = "none"
        BY <2>4, <3>2 DEF Decisions, Decision
      <3>4. StillAsked(k)
        BY <2>4, <3>1, <3>2, <3>3 DEF StillAsked, Moves
      <3>5. \A v \in Workers : stmt'[v] # None => stmt'[v] = stmt[v]
        BY <3>2 DEF Moves
      <3> QED BY <2>2, <3>1, <3>4, <3>5, AskedAll DEF AskedFirst, Asked, StillAsked
    <2> QED BY <2>3, <2>4
  <1>14. ASSUME NEW k \in Calls \cup Clicks, Closing(k) PROVE AskedFirst'
    <2>1. Moves(k, IF k \in Once THEN "done" ELSE "idle", None, "none")
      BY <1>14, ClosingMoves
    <2> QED BY <1>14, <2>1, AskedMoved DEF Workers, Closing
  <1>15. ASSUME NEW k \in Clicks, Asks(k) PROVE AskedFirst'
    <2>1. PICK place \in {"model", "reclaim"}, s \in Statement :
            Inquiry(place, s) /\ Moves(k, place, s, "none")
      BY <1>15 DEF Asks
    <2> QED BY <1>15, <2>1, AskedMoved, Consts, Read DEF Asks, Inquiry, Outside, Workers, object
  <1>16. ASSUME NEW k \in Clicks, Heeds(k) PROVE AskedFirst'
    <2>1. Moves(k, "idle", None, "none")
      BY <1>16 DEF Heeds
    <2> QED BY <1>16, <2>1, AskedMoved DEF Heeds, Outside, Workers, object
  <1>17. ASSUME NEW k \in Clicks, OutcomeRecorded(k) PROVE AskedFirst'
    <2>1. \E place \in {"closing", "idle"} : Moves(k, place, None, "none")
      BY <1>17, OutcomeRecordedMoves
    <2>2. pending' \in {pending, None}
      BY <1>17, OutcomeRecordedData, DroppedTyped DEF Settled
    <2> QED BY <2>1, <2>2, AskedMoved DEF Workers
  <1>18. ASSUME NEW k \in Clicks, PendingExpired(k) PROVE AskedFirst'
    <2>1. Moves(k, "idle", None, "none")
      BY <1>18, PendingExpiredMoves
    <2> QED BY <1>18, <2>1, AskedMoved, PendingExpiredData, DroppedTyped DEF Workers
  <1>19. ASSUME NEW k \in Clicks, NEW o \in {"approve", "deny"}, Resolve(k, o) PROVE AskedFirst'
    <2>1. pending # None /\ pending.id \in Calls /\ pending' = pending
      BY <1>19, ResolveMoves DEF Resolve
    <2>2. PICK place \in {"expire", "outcome"}, as \in {"expired", o} :
            Moves(k, place, SetHumanOutcome(pending.id, as), "none")
      BY <1>19, ResolveMoves
    <2> DEFINE s == SetHumanOutcome(pending.id, as)
    <2>3. s.id \in Calls /\ Asked(s.id)
      <3>1. as \in Outcomes
        BY DEF Outcomes
      <3>2. s.id = pending.id
        BY <2>1, <3>1, Read
      <3> QED BY <2>1, <3>2 DEF AskedFirst
    <2> HIDE DEF s
    <2> QED BY <2>1, <2>2, <2>3, AskedMoved DEF s, Workers
  <1>20. ASSUME NEW w \in Workers, Execute(w) \/ ExecuteFails(w) PROVE AskedFirst'
    <2>1. PICK answer \in {"ok", "no", "error"} : Told(w, answer)
      BY <1>20, ExecuteMoves
    <2>2. pending' = pending
      BY <2>1 DEF Told, object
    <2>3. PICK place, s, r : Moves(w, place, s, r) /\ s \in {None, stmt[w]}
      BY <2>1 DEF Told
    <2> QED BY <2>2, <2>3, AskedMoved
  <1>21. CASE Evict
    BY <1>21, AskedFirstKilled DEF Evict
  <1>22. CASE Cron \/ Tick \/ UNCHANGED vars
    <2>1. pending' = pending /\ stmt' = stmt
      BY <1>22 DEF Cron, Tick, vars, object
    <2> QED BY <2>1, AskedAll DEF AskedFirst, Asked, StillAsked
  <1> QED
    BY <1>1, <1>2, <1>3, <1>4, <1>5, <1>6, <1>7, <1>8, <1>9, <1>10, <1>11, <1>12, <1>13, <1>14,
       <1>15, <1>16, <1>17, <1>18, <1>19, <1>20, <1>21, <1>22 DEF Step

\* What was asked keeps its answer; its row keeps its owner, and may only go.
LogKept(d) ==
  /\ faults' \in {faults, faults + 1}
  /\ recorded[d] \in Outcomes => recorded'[d] = recorded[d]
  /\ log[d] = None => log'[d] = None
  /\ log[d] # None /\ log[d].own /\ log'[d] # None => log'[d].own

LEMMA LogStays ==
  ASSUME TypeOK, Papers, Decisions, NEW d \in Calls, Asked(d), Step
  PROVE  LogKept(d)
  <1>1. CASE Start
    BY <1>1 DEF Start, history, LogKept
  <1>2. CASE Started
    BY <1>2 DEF Started, history, LogKept
  <1>3. CASE Defers \/ Overdue \/ Rested \/ Expired \/ Gone
    BY <1>3 DEF Defers, Overdue, Rested, Expired, Gone, Through, Outside, history, LogKept
  <1>4. ASSUME NEW w \in Clicks \cup {Alarm}, Cleared(w) \/ PurgesOn(w) PROVE LogKept(d)
    BY <1>4 DEF Cleared, PurgesOn, Outside, history, LogKept
  <1>5. ASSUME NEW k \in Calls, Chat(k) \/ ChatAnswered(k) \/ ChatJudged(k) \/ ChatLogged(k) PROVE LogKept(d)
    BY <1>5 DEF Chat, ChatAnswered, ChatJudged, ChatLogged, history, LogKept
  <1>6. ASSUME NEW k \in Calls \cup Clicks, Closing(k) PROVE LogKept(d)
    BY <1>6 DEF Closing, history, LogKept
  <1>7. ASSUME NEW k \in Clicks, Asks(k) \/ Heeds(k) PROVE LogKept(d)
    BY <1>7 DEF Asks, Heeds, Outside, history, LogKept
  <1>8. ASSUME NEW k \in Clicks, OutcomeRecorded(k) \/ PendingExpired(k) PROVE LogKept(d)
    BY <1>8 DEF OutcomeRecorded, PendingExpired, history, LogKept
  <1>9. ASSUME NEW k \in Clicks, NEW o \in {"approve", "deny"}, Resolve(k, o) PROVE LogKept(d)
    BY <1>9 DEF Resolve, history, LogKept
  <1>10. ASSUME NEW w \in Workers, Execute(w) \/ ExecuteFails(w) PROVE LogKept(d)
    <2>1. PICK answer \in {"ok", "no", "error"} : Told(w, answer)
      BY <1>10, ExecuteMoves
    <2>2. faults' \in {faults, faults + 1}
      BY <2>1 DEF Told
    <2>3. WroteNothing(d) \/ WroteDecision(w, d) \/ WroteOutcome(w, d)
      BY <2>1, ToldData
    <2>4. ~ WroteDecision(w, d)
      BY <2>1 DEF WroteDecision, Told, Asked
    <2>5. WroteOutcome(w, d) => recorded[d] \notin Outcomes
      BY DEF WroteOutcome, Decisions, Decision, Outcomes
    <2> QED BY <2>2, <2>3, <2>4, <2>5 DEF WroteNothing, WroteOutcome, LogKept
  <1>11. CASE Evict
    BY <1>11 DEF Evict, history, LogKept
  <1>12. CASE Cron
    <2>1. log'[d] \in {log[d], None}
      BY <1>12 DEF Cron, Purges, TypeOK
    <2> QED BY <1>12, <2>1 DEF Cron, history, LogKept
  <1>13. CASE Tick \/ UNCHANGED vars
    BY <1>13 DEF Tick, vars, history, LogKept
  <1> QED
    BY <1>1, <1>2, <1>3, <1>4, <1>5, <1>6, <1>7, <1>8, <1>9, <1>10, <1>11, <1>12, <1>13 DEF Step

LEMMA HeardKept ==
  ASSUME TypeOK, Papers, AskedFirst, Decisions, Step, NEW v \in Workers, HeardAt(v),
         pc'[v] = pc[v], stmt'[v] = stmt[v], reply'[v] = reply[v],
         pc[v] = "outcome" => ran'[stmt[v].id] = ran[stmt[v].id]
  PROVE  HeardAt(v)'
  <1>1. CASE pc[v] \notin {"outcome", "expire"}
    BY <1>1 DEF HeardAt
  <1>2. CASE pc[v] \in {"outcome", "expire"}
    <2> DEFINE d == stmt[v].id
    <2>1. /\ stmt[v] # None /\ stmt[v].op = "outcome"
          /\ pc[v] = "outcome" => stmt[v].as \in Outcomes
      BY <1>2 DEF Papers, Proper, Sending, OpOf, Outcomes
    <2>2. d \in Calls /\ Asked(d)
      BY <2>1, Outcome DEF AskedFirst
    <2>3. LogKept(d)
      BY <2>2, LogStays
    <2>4. faults' = 0 => faults = 0
      BY <2>3 DEF LogKept, TypeOK
    <2>5. faults # 0 => faults' # 0
      BY <2>3 DEF LogKept, TypeOK
    <2> HIDE DEF d
    <2>6. pc'[v] = "outcome" /\ reply'[v] = "ok" => recorded'[d] = stmt[v].as /\ ran'[d] = 0
      BY <2>1, <2>3 DEF HeardAt, LogKept, d
    <2>7. pc'[v] = "expire" /\ reply'[v] = "ok" => recorded'[d] = "expired"
      BY <2>3 DEF HeardAt, LogKept, Outcomes, d
    <2>8. pc'[v] = "expire" /\ reply'[v] = "no" /\ faults' = 0 => recorded'[d] = "expired" \/ log'[d] = None
      BY <2>3, <2>4 DEF HeardAt, LogKept, Outcomes, d
    <2>9. pc'[v] = "expire" /\ reply'[v] = "error" => faults' # 0
      BY <2>5 DEF HeardAt
    <2> QED BY <2>6, <2>7, <2>8, <2>9 DEF HeardAt, d
  <1> QED BY <1>1, <1>2

\* The handler that moves has heard nothing of its next statement.
LEMMA HeardMoved ==
  ASSUME TypeOK, Papers, AskedFirst, Decisions, Heard, Step,
         NEW w \in Workers, NEW STATE place, NEW STATE s, Moves(w, place, s, "none"),
         \A v \in Workers \ {w} : pc[v] = "outcome" => ran'[stmt[v].id] = ran[stmt[v].id]
  PROVE  Heard'
  <1>1. ASSUME NEW v \in Workers PROVE HeardAt(v)'
    <2>1. CASE v = w
      BY <2>1 DEF HeardAt, Moves
    <2>2. CASE v # w
      <3>1. pc'[v] = pc[v] /\ stmt'[v] = stmt[v] /\ reply'[v] = reply[v]
        BY <2>2 DEF Moves
      <3> QED BY <2>2, <3>1, HeardKept DEF Heard
    <2> QED BY <2>1, <2>2
  <1> QED BY <1>1 DEF Heard

LEMMA HeardStill ==
  ASSUME TypeOK, Papers, AskedFirst, Decisions, Heard, Step, UNCHANGED <<pc, stmt, reply, ran>>
  PROVE  Heard'
  BY HeardKept DEF Heard

LEMMA HeardKilled ==
  ASSUME TypeOK, Killed
  PROVE  Heard'
  BY KilledAll DEF Heard, HeardAt

LEMMA HeardNext ==
  ASSUME TypeOK, Papers, OneAtATime, AskedFirst, Decisions, Heard, Owned, InOrder, RanOnlyWhenAllowed, Step
  PROVE  Heard'
  <1>1. CASE Start
    <2>1. Moves(Opener, "start", InsertSession(now + SessionTtl), "none")
      BY <1>1, StartMoves
    <2> QED BY <1>1, <2>1, HeardMoved DEF Workers, history, Start
  <1>2. CASE Started
    <2>1. Moves(Opener, "done", None, "none")
      BY <1>2, StartedMoves
    <2> QED BY <1>2, <2>1, HeardMoved DEF Workers, history, Started
  <1>3. CASE Defers
    BY <1>3, HeardStill DEF Defers, Outside, history
  <1>4. CASE Overdue
    <2>1. Moves(Alarm, "expire", SetHumanOutcome(pending.id, "expired"), "none")
      BY <1>4 DEF Overdue
    <2> QED BY <1>4, <2>1, HeardMoved DEF Workers, history, Overdue, Outside
  <1>5. CASE Rested \/ Expired
    <2>1. Moves(Alarm, "idle", None, "none")
      BY <1>5 DEF Rested, Expired, Through
    <2> QED BY <1>5, <2>1, HeardMoved DEF Workers, history, Rested, Expired, Through, Outside
  <1>6. CASE Gone
    BY <1>6, HeardKilled DEF Gone, Destroy
  <1>7. ASSUME NEW w \in Clicks \cup {Alarm}, Cleared(w) PROVE Heard'
    <2>1. Moves(w, "purgeLog", Purge("purgeLog"), "none")
      BY <1>7 DEF Cleared
    <2> QED BY <1>7, <2>1, HeardMoved DEF Workers, history, Cleared, Outside
  <1>8. ASSUME NEW w \in Clicks \cup {Alarm}, PurgesOn(w) PROVE Heard'
    <2>1. Moves(w, "purgeRow", Purge("purgeRow"), "none")
      BY <1>8 DEF PurgesOn
    <2> QED BY <1>8, <2>1, HeardMoved DEF Workers, history, PurgesOn, Outside
  <1>9. ASSUME NEW k \in Calls, Chat(k) PROVE Heard'
    <2>1. Moves(k, "plan", None, "none")
      BY <1>9, ChatMoves
    <2> QED BY <1>9, <2>1, HeardMoved DEF Workers, history, Chat
  <1>10. ASSUME NEW k \in Calls, ChatAnswered(k) PROVE Heard'
    <2>1. Moves(k, "done", None, "none")
      BY <1>10, ChatAnsweredMoves
    <2> QED BY <1>10, <2>1, HeardMoved DEF Workers, history, ChatAnswered
  <1>11. ASSUME NEW k \in Calls, ChatJudged(k) PROVE Heard'
    <2>1. Moves(k, "insert", InsertDecision(k), "none")
      BY <1>11, ChatJudgedMoves
    <2> QED BY <1>11, <2>1, HeardMoved DEF Workers, history, ChatJudged
  <1>12. ASSUME NEW k \in Calls, ChatLogged(k) PROVE Heard'
    <2>1. PICK place \in {"closing", "done"} : Moves(k, place, None, "none")
      BY <1>12, ChatLoggedMoves
    <2>2. PICK turn, call : Logged(k, turn, call)
      BY <1>12, ChatLoggedData
    <2>3. ASSUME NEW v \in Workers, pc[v] = "outcome" PROVE ran'[stmt[v].id] = ran[stmt[v].id]
      <3>1. stmt[v] # None /\ stmt[v].op = "outcome"
        BY <2>3 DEF Papers, Proper, Sending, OpOf
      <3>2. stmt[v].id \in Calls /\ pc[stmt[v].id] = "done" /\ pc[k] = "insert"
        BY <1>12, <3>1, ChatLoggedMoves, Outcome DEF AskedFirst, Asked
      <3> QED BY <2>2, <3>2 DEF Logged, TypeOK
    <2> QED BY <2>1, <2>3, HeardMoved DEF Workers
  <1>13. ASSUME NEW k \in Calls \cup Clicks, Closing(k) PROVE Heard'
    <2>1. Moves(k, IF k \in Once THEN "done" ELSE "idle", None, "none")
      BY <1>13, ClosingMoves
    <2> QED BY <1>13, <2>1, HeardMoved DEF Workers, history, Closing
  <1>14. ASSUME NEW k \in Clicks, Asks(k) PROVE Heard'
    <2>1. PICK place \in {"model", "reclaim"}, s \in Statement :
            Inquiry(place, s) /\ Moves(k, place, s, "none")
      BY <1>14 DEF Asks
    <2> QED BY <1>14, <2>1, HeardMoved, Consts DEF Asks, Inquiry, Outside, Workers, history
  <1>15. ASSUME NEW k \in Clicks, Heeds(k) PROVE Heard'
    <2>1. Moves(k, "idle", None, "none")
      BY <1>15 DEF Heeds
    <2> QED BY <1>15, <2>1, HeardMoved DEF Heeds, Outside, Workers, history
  <1>16. ASSUME NEW k \in Clicks, OutcomeRecorded(k) PROVE Heard'
    <2>1. PICK place \in {"closing", "idle"} : Moves(k, place, None, "none")
      BY <1>16, OutcomeRecordedMoves
    <2>2. \A v \in Workers \ {k} : pc[v] # "outcome"
      BY <1>16, OutcomeRecordedMoves DEF OneAtATime, InTurn, Workers
    <2> QED BY <2>1, <2>2, HeardMoved DEF Workers
  <1>17. ASSUME NEW k \in Clicks, PendingExpired(k) PROVE Heard'
    <2>1. Moves(k, "idle", None, "none")
      BY <1>17, PendingExpiredMoves
    <2> QED BY <1>17, <2>1, HeardMoved DEF Workers, history, PendingExpired
  <1>18. ASSUME NEW k \in Clicks, NEW o \in {"approve", "deny"}, Resolve(k, o) PROVE Heard'
    <2>1. PICK place \in {"expire", "outcome"}, s \in Statement : Moves(k, place, s, "none")
      BY <1>18, ResolveMoves, Statements DEF Outcomes
    <2> QED BY <1>18, <2>1, HeardMoved DEF Resolve, history, Workers
  <1>19. ASSUME NEW w \in Workers, Execute(w) \/ ExecuteFails(w) PROVE Heard'
    <2>1. PICK answer \in {"ok", "no", "error"} : Told(w, answer)
      BY <1>19, ExecuteMoves
    <2>2. ran' = ran
      BY <2>1 DEF Told
    <2>3. ASSUME NEW v \in Workers, v # w PROVE HeardAt(v)'
      <3>1. pc'[v] = pc[v] /\ stmt'[v] = stmt[v] /\ reply'[v] = reply[v]
        BY <2>1, <2>3 DEF Told, Moves
      <3> QED BY <2>2, <3>1, HeardKept DEF Heard
    <2>4. HeardAt(w)'
      <3>1. CASE pc[w] \in Resting
        <4>1. pc'[w] \in Resting
          BY <2>1, <3>1 DEF Told
        <4> QED BY <4>1 DEF HeardAt, Resting
      <3>2. CASE pc[w] \notin Resting \cup {"outcome", "expire"}
        <4>1. pc'[w] \notin {"outcome", "expire"}
          BY <2>1, <3>2 DEF Told
        <4> QED BY <4>1 DEF HeardAt
      <3>3. CASE pc[w] \in {"outcome", "expire"}
        <4> DEFINE d == stmt[w].id
        <4>1. pc'[w] = pc[w] /\ stmt'[w] = stmt[w] /\ reply'[w] = answer
          BY <2>1, <3>3 DEF Told, Moves, Resting
        <4>2. /\ stmt[w] # None /\ stmt[w].op = "outcome"
              /\ pc[w] = "outcome" => stmt[w].as \in {"approve", "deny"}
              /\ pc[w] = "expire" => stmt[w].as = "expired"
          BY <3>3 DEF Papers, Proper, Sending, OpOf
        <4>3. d \in Calls /\ Asked(d)
          BY <4>2, Outcome DEF AskedFirst
        <4>4. answer = "ok" => recorded'[d] = stmt[w].as /\ recorded[d] = "none" /\ ran[d] = 0
          <5>1. answer = "ok" => WroteOutcome(w, d)
            BY <2>1, <4>2, <4>3, ToldData
          <5>2. WroteOutcome(w, d) => recorded[d] = "none"
            BY <4>3 DEF WroteOutcome, Decisions, Decision
          <5>3. recorded[d] = "none" => ran[d] = 0
            BY <4>3 DEF RanOnlyWhenAllowed, Asked, TypeOK
          <5> QED BY <5>1, <5>2, <5>3 DEF WroteOutcome
        <4>5. answer = "no" /\ faults = 0 /\ pc[w] = "expire" => recorded'[d] = "expired" \/ log'[d] = None
          <5>1. SUFFICES ASSUME answer = "no", faults = 0, pc[w] = "expire"
                         PROVE  recorded[d] = "expired" \/ log[d] = None
            BY <2>1, <4>3, ToldData
          <5>2. ~ Unanswered(stmt[w])
            BY <2>1, <4>2, <4>3, <5>1, ToldData
          <5>3. log[d] # None => log[d].outcome # "none"
            BY <4>2, <5>2 DEF Unanswered, Owned
          <5>4. Expiry(w, d)
            BY <4>2, <5>1 DEF Expiry
          <5>5. recorded[d] \notin {"approve", "deny"}
            BY <4>3, <5>1, <5>4 DEF InOrder, Expiring
          <5>6. log[d] # None => recorded[d] \in Outcomes
            <6>1. log[d] # None => log[d] \in LogRow /\ log[d].outcome = recorded[d]
              BY <4>3 DEF TypeOK, Decisions, Decision
            <6> QED BY <5>3, <6>1 DEF LogRow
          <5> QED BY <5>5, <5>6 DEF Outcomes
        <4>6. answer = "error" => faults' # 0
          BY <2>1 DEF Told, TypeOK
        <4>7. answer # "error" => faults' = faults
          BY <2>1 DEF Told
        <4> HIDE DEF d
        <4>8. pc'[w] = "outcome" /\ reply'[w] = "ok" => recorded'[d] = stmt'[w].as /\ ran'[d] = 0
          BY <2>2, <4>1, <4>4
        <4>9. pc'[w] = "expire" /\ reply'[w] = "ok" => recorded'[d] = "expired"
          BY <4>1, <4>2, <4>4
        <4>10. pc'[w] = "expire" /\ reply'[w] = "no" /\ faults' = 0 => recorded'[d] = "expired" \/ log'[d] = None
          BY <4>1, <4>5, <4>7
        <4> QED BY <4>1, <4>6, <4>8, <4>9, <4>10 DEF HeardAt, d
      <3> QED BY <3>1, <3>2, <3>3
    <2> QED BY <2>3, <2>4 DEF Heard
  <1>20. CASE Evict
    BY <1>20, HeardKilled DEF Evict
  <1>21. CASE Cron \/ Tick \/ UNCHANGED vars
    BY <1>21, HeardStill DEF Cron, Tick, vars, history
  <1> QED
    BY <1>1, <1>2, <1>3, <1>4, <1>5, <1>6, <1>7, <1>8, <1>9, <1>10, <1>11, <1>12, <1>13, <1>14,
       <1>15, <1>16, <1>17, <1>18, <1>19, <1>20, <1>21 DEF Step

\* A statement that stays, and one that is new.
OwnedStatement(s) == s # None /\ s.op = "outcome" /\ log'[s.id] # None => log'[s.id].own

LEMMA OwnedStays ==
  ASSUME TypeOK, Papers, AskedFirst, Decisions, Owned, Step, NEW w \in Workers
  PROVE  OwnedStatement(stmt[w])
  <1>1. SUFFICES ASSUME stmt[w] # None, stmt[w].op = "outcome", log'[stmt[w].id] # None
                 PROVE  log'[stmt[w].id].own
    BY DEF OwnedStatement
  <1>2. stmt[w].id \in Calls /\ Asked(stmt[w].id)
    BY <1>1, Outcome DEF AskedFirst
  <1>3. LogKept(stmt[w].id)
    BY <1>2, LogStays
  <1> QED BY <1>1, <1>3 DEF LogKept, Owned

LEMMA OwnedMoved ==
  ASSUME TypeOK, Papers, AskedFirst, Decisions, Owned, Step,
         desk'.open => desk.open,
         \A d \in Calls : log'[d] \in {log[d], None},
         NEW w \in Workers, NEW STATE place, NEW STATE s, NEW STATE r, Moves(w, place, s, r),
         s # None /\ w \in Calls /\ ~ s.own => ~ desk.open,
         OwnedStatement(s)
  PROVE  Owned'
  <1>1. \A d \in Calls : log'[d] # None /\ ~ log'[d].own => ~ desk'.open
    BY DEF Owned
  <1>2. \A d \in Calls : stmt'[d] # None /\ ~ stmt'[d].own => ~ desk'.open
    BY DEF Owned, Moves, Workers
  <1>3. \A v \in Workers : OwnedStatement(stmt'[v])
    BY OwnedStays DEF Moves
  <1> QED BY <1>1, <1>2, <1>3 DEF Owned, OwnedStatement

LEMMA OwnedKept ==
  ASSUME TypeOK, Papers, AskedFirst, Decisions, Owned, Step,
         desk'.open => desk.open,
         \A d \in Calls : log'[d] \in {log[d], None},
         \A w \in Workers : stmt'[w] \in {stmt[w], None}
  PROVE  Owned'
  <1>1. \A d \in Calls : log'[d] # None /\ ~ log'[d].own => ~ desk'.open
    BY DEF Owned
  <1>2. \A d \in Calls : stmt'[d] # None /\ ~ stmt'[d].own => ~ desk'.open
    BY DEF Owned, Workers
  <1>3. \A v \in Workers : OwnedStatement(stmt'[v])
    BY OwnedStays DEF OwnedStatement
  <1> QED BY <1>1, <1>2, <1>3 DEF Owned, OwnedStatement

\* The row of a call that waits belongs to the session.
LEMMA OwnedPending ==
  ASSUME TypeOK, Papers, AskedFirst, Decisions, Owned, Step, pending # None, desk.open, log' = log,
         NEW as \in Outcomes
  PROVE  OwnedStatement(SetHumanOutcome(pending.id, as))
  <1>1. pending.id \in Calls
    BY DEF TypeOK, Pending
  <1>2. SetHumanOutcome(pending.id, as).id = pending.id
    BY <1>1, Read
  <1> QED BY <1>1, <1>2 DEF OwnedStatement, Owned

LEMMA OwnedNext ==
  ASSUME TypeOK, Papers, Before, Shut, AskedFirst, Decisions, Owned, Step
  PROVE  Owned'
  <1>1. CASE Start
    <2>1. Moves(Opener, "start", InsertSession(now + SessionTtl), "none") /\ pc[Opener] = "idle"
      BY <1>1, StartMoves
    <2>2. \A d \in Calls : pc[d] = "idle" /\ stmt[d] = None
      BY <2>1, Consts DEF Before, Workers
    <2>3. \A d \in Calls : log'[d] = None /\ stmt'[d] = None
      BY <1>1, <2>1, <2>2, Consts DEF Decisions, Decision, Start, Moves, Workers
    <2>4. \A w \in Workers : OwnedStatement(stmt'[w])
      BY <2>1, Read, OwnedStays DEF OwnedStatement, Moves
    <2> QED BY <2>3, <2>4 DEF Owned, OwnedStatement
  <1>2. CASE Started
    <2>1. Moves(Opener, "done", None, "none")
      BY <1>2, StartedMoves
    <2>2. (desk'.open => desk.open) /\ \A d \in Calls : log'[d] \in {log[d], None}
      BY <1>2 DEF history, Started, Closed
    <2>3. OwnedStatement(None)
      BY Read, Consts DEF OwnedStatement
    <2> QED BY <2>1, <2>2, <2>3, OwnedMoved DEF Workers
  <1>3. CASE Defers
    BY <1>3, OwnedKept DEF Defers, Outside
  <1>4. CASE Overdue
    <2>1. Moves(Alarm, "expire", SetHumanOutcome(pending.id, "expired"), "none")
      BY <1>4 DEF Overdue
    <2>2. desk' = desk /\ log' = log /\ pending # None /\ desk.open
      BY <1>4 DEF Overdue, Outside, Shut
    <2>3. OwnedStatement(SetHumanOutcome(pending.id, "expired")) /\ Alarm \notin Calls
      BY <2>2, OwnedPending, Consts DEF Outcomes
    <2> QED BY <2>1, <2>2, <2>3, OwnedMoved DEF Workers
  <1>5. CASE Rested \/ Expired
    <2>1. Moves(Alarm, "idle", None, "none")
      BY <1>5 DEF Rested, Expired, Through
    <2>2. (desk'.open => desk.open) /\ \A d \in Calls : log'[d] \in {log[d], None}
      BY <1>5 DEF history, Rested, Expired, Through, Outside
    <2>3. OwnedStatement(None)
      BY Read, Consts DEF OwnedStatement
    <2> QED BY <2>1, <2>2, <2>3, OwnedMoved DEF Workers
  <1>6. CASE Gone
    <2>1. \A w \in Workers : stmt'[w] \in {stmt[w], None}
      BY <1>6, KilledAll DEF Gone, Destroy
    <2> QED BY <1>6, <2>1, OwnedKept DEF Gone, Destroy, Outside, Closed
  <1>7. ASSUME NEW w \in Clicks \cup {Alarm}, Cleared(w) PROVE Owned'
    <2>1. Moves(w, "purgeLog", Purge("purgeLog"), "none")
      BY <1>7 DEF Cleared
    <2>2. (desk'.open => desk.open) /\ \A d \in Calls : log'[d] \in {log[d], None}
      BY <1>7 DEF history, Cleared, Outside, Closed
    <2>3. w \notin Calls /\ OwnedStatement(Purge("purgeLog"))
      BY Read, Consts DEF OwnedStatement
    <2> QED BY <2>1, <2>2, <2>3, OwnedMoved DEF Workers
  <1>8. ASSUME NEW w \in Clicks \cup {Alarm}, PurgesOn(w) PROVE Owned'
    <2>1. Moves(w, "purgeRow", Purge("purgeRow"), "none")
      BY <1>8 DEF PurgesOn
    <2>2. (desk'.open => desk.open) /\ \A d \in Calls : log'[d] \in {log[d], None}
      BY <1>8 DEF history, PurgesOn, Outside, object
    <2>3. w \notin Calls /\ OwnedStatement(Purge("purgeRow"))
      BY Read, Consts DEF OwnedStatement
    <2> QED BY <2>1, <2>2, <2>3, OwnedMoved DEF Workers
  <1>9. ASSUME NEW k \in Calls, Chat(k) PROVE Owned'
    <2>1. Moves(k, "plan", None, "none")
      BY <1>9, ChatMoves
    <2>2. (desk'.open => desk.open) /\ \A d \in Calls : log'[d] \in {log[d], None}
      BY <1>9 DEF history, Chat
    <2>3. OwnedStatement(None)
      BY Read, Consts DEF OwnedStatement
    <2> QED BY <2>1, <2>2, <2>3, OwnedMoved DEF Workers
  <1>10. ASSUME NEW k \in Calls, ChatAnswered(k) PROVE Owned'
    <2>1. Moves(k, "done", None, "none")
      BY <1>10, ChatAnsweredMoves
    <2>2. (desk'.open => desk.open) /\ \A d \in Calls : log'[d] \in {log[d], None}
      BY <1>10 DEF history, ChatAnswered, TypeOK
    <2>3. OwnedStatement(None)
      BY Read, Consts DEF OwnedStatement
    <2> QED BY <2>1, <2>2, <2>3, OwnedMoved DEF Workers
  <1>11. ASSUME NEW k \in Calls, ChatJudged(k) PROVE Owned'
    <2> DEFINE s == InsertDecision(k)
    <2>1. Moves(k, "insert", s, "none")
      BY <1>11, ChatJudgedMoves
    <2>2. desk' = desk /\ log' = log
      BY <1>11 DEF ChatJudged, object
    <2>3. s.op # "outcome" /\ s.own = desk.open
      BY Read
    <2> HIDE DEF s
    <2>4. OwnedStatement(s)
      BY <2>3 DEF OwnedStatement
    <2> QED BY <2>1, <2>2, <2>3, <2>4, OwnedMoved DEF Workers
  <1>12. ASSUME NEW k \in Calls, ChatLogged(k) PROVE Owned'
    <2>1. PICK place \in {"closing", "done"} : Moves(k, place, None, "none")
      BY <1>12, ChatLoggedMoves
    <2>2. PICK turn, call : turn.open = desk.open /\ Logged(k, turn, call)
      BY <1>12, ChatLoggedData
    <2>3. OwnedStatement(None)
      BY DEF OwnedStatement
    <2> QED BY <2>1, <2>2, <2>3, OwnedMoved DEF Workers, Logged
  <1>13. ASSUME NEW k \in Calls \cup Clicks, Closing(k) PROVE Owned'
    <2>1. Moves(k, IF k \in Once THEN "done" ELSE "idle", None, "none")
      BY <1>13, ClosingMoves
    <2>2. (desk'.open => desk.open) /\ \A d \in Calls : log'[d] \in {log[d], None}
      BY <1>13 DEF history, Closing
    <2>3. OwnedStatement(None)
      BY Read, Consts DEF OwnedStatement
    <2> QED BY <2>1, <2>2, <2>3, OwnedMoved DEF Workers
  <1>14. ASSUME NEW k \in Clicks, Asks(k) PROVE Owned'
    <2>1. PICK place \in {"model", "reclaim"}, s \in Statement :
            Inquiry(place, s) /\ Moves(k, place, s, "none")
      BY <1>14 DEF Asks
    <2>2. (desk'.open => desk.open) /\ \A d \in Calls : log'[d] \in {log[d], None}
      BY <1>14 DEF Asks, Outside, history, object
    <2>3. k \notin Calls /\ OwnedStatement(s)
      BY <2>1, Consts DEF Inquiry, OwnedStatement
    <2> QED BY <2>1, <2>2, <2>3, OwnedMoved DEF Workers
  <1>15. ASSUME NEW k \in Clicks, Heeds(k) PROVE Owned'
    <2>1. Moves(k, "idle", None, "none")
      BY <1>15 DEF Heeds
    <2>2. (desk'.open => desk.open) /\ \A d \in Calls : log'[d] \in {log[d], None}
      BY <1>15 DEF Heeds, Outside, history, object
    <2>3. OwnedStatement(None)
      BY Read, Consts DEF OwnedStatement
    <2> QED BY <2>1, <2>2, <2>3, OwnedMoved DEF Workers
  <1>16. ASSUME NEW k \in Clicks, OutcomeRecorded(k) PROVE Owned'
    <2>1. PICK place \in {"closing", "idle"} : Moves(k, place, None, "none")
      BY <1>16, OutcomeRecordedMoves
    <2>2. OwnedStatement(None)
      BY DEF OwnedStatement
    <2> QED BY <1>16, <2>1, <2>2, OwnedMoved DEF Workers, OutcomeRecorded
  <1>17. ASSUME NEW k \in Clicks, PendingExpired(k) PROVE Owned'
    <2>1. Moves(k, "idle", None, "none")
      BY <1>17, PendingExpiredMoves
    <2>2. (desk'.open => desk.open) /\ \A d \in Calls : log'[d] \in {log[d], None}
      BY <1>17 DEF history, PendingExpired
    <2>3. OwnedStatement(None)
      BY Read, Consts DEF OwnedStatement
    <2> QED BY <2>1, <2>2, <2>3, OwnedMoved DEF Workers
  <1>18. ASSUME NEW k \in Clicks, NEW o \in {"approve", "deny"}, Resolve(k, o) PROVE Owned'
    <2>1. PICK place \in {"expire", "outcome"}, as \in {"expired", o} :
            Moves(k, place, SetHumanOutcome(pending.id, as), "none")
      BY <1>18, ResolveMoves
    <2>2. desk' = desk /\ log' = log /\ pending # None /\ desk.open
      BY <1>18, ResolveMoves DEF Resolve, history, Live
    <2>3. OwnedStatement(SetHumanOutcome(pending.id, as)) /\ k \notin Calls
      BY <2>2, OwnedPending, Consts DEF Outcomes
    <2> QED BY <2>1, <2>2, <2>3, OwnedMoved DEF Workers
  <1>19. ASSUME NEW w \in Workers, Execute(w) \/ ExecuteFails(w) PROVE Owned'
    <2>1. PICK answer \in {"ok", "no", "error"} : Told(w, answer)
      BY <1>19, ExecuteMoves
    <2>2. desk' = desk
      BY <2>1 DEF Told, object
    <2>3. \A v \in Workers : stmt'[v] \in {stmt[v], None}
      BY <2>1 DEF Told, Moves
    <2>4. ASSUME NEW d \in Calls, log'[d] # None, ~ log'[d].own PROVE ~ desk.open
      <3>1. WroteNothing(d) \/ WroteDecision(w, d) \/ WroteOutcome(w, d)
        BY <2>1, ToldData
      <3>2. CASE WroteNothing(d)
        BY <2>4, <3>2 DEF WroteNothing, Owned
      <3>3. CASE WroteDecision(w, d)
        BY <2>1, <2>4, <3>3 DEF WroteDecision, Owned, Told
      <3>4. CASE WroteOutcome(w, d)
        BY <2>4, <3>4 DEF WroteOutcome
      <3> QED BY <3>1, <3>2, <3>3, <3>4
    <2>5. \A d \in Calls : stmt'[d] # None /\ ~ stmt'[d].own => ~ desk'.open
      BY <2>2, <2>3 DEF Owned, Workers
    <2>6. \A v \in Workers : OwnedStatement(stmt'[v])
      BY <2>3, OwnedStays DEF OwnedStatement
    <2> QED BY <2>2, <2>4, <2>5, <2>6 DEF Owned, OwnedStatement
  <1>20. CASE Evict
    <2>1. \A w \in Workers : stmt'[w] \in {stmt[w], None}
      BY <1>20, KilledAll DEF Evict
    <2> QED BY <1>20, <2>1, OwnedKept DEF Evict
  <1>21. CASE Cron
    <2>1. \A d \in Calls : log'[d] \in {log[d], None}
      BY <1>21 DEF Cron, Purges, TypeOK
    <2> QED BY <1>21, <2>1, OwnedKept DEF Cron, object
  <1>22. CASE Tick \/ UNCHANGED vars
    BY <1>22, OwnedKept DEF Tick, vars, object
  <1> QED
    BY <1>1, <1>2, <1>3, <1>4, <1>5, <1>6, <1>7, <1>8, <1>9, <1>10, <1>11, <1>12, <1>13, <1>14,
       <1>15, <1>16, <1>17, <1>18, <1>19, <1>20, <1>21, <1>22 DEF Step

LEMMA RanNext ==
  ASSUME TypeOK, Papers, AskedFirst, Decisions, Heard, RanOnlyWhenAllowed, Step
  PROVE  RanOnlyWhenAllowed'
  <1>1. CASE Start
    BY <1>1 DEF Start, history, RanOnlyWhenAllowed
  <1>2. CASE Started
    BY <1>2 DEF Started, history, RanOnlyWhenAllowed
  <1>3. CASE Defers \/ Overdue \/ Rested \/ Expired \/ Gone
    BY <1>3 DEF Defers, Overdue, Rested, Expired, Gone, Through, Outside, history,
       RanOnlyWhenAllowed
  <1>4. ASSUME NEW w \in Clicks \cup {Alarm}, Cleared(w) \/ PurgesOn(w) PROVE RanOnlyWhenAllowed'
    BY <1>4 DEF Cleared, PurgesOn, Outside, history, RanOnlyWhenAllowed
  <1>5. ASSUME NEW k \in Calls, Chat(k) \/ ChatAnswered(k) PROVE RanOnlyWhenAllowed'
    BY <1>5 DEF Chat, ChatAnswered, history, RanOnlyWhenAllowed
  <1>6. ASSUME NEW k \in Calls, ChatJudged(k) PROVE RanOnlyWhenAllowed'
    <2>1. \A d \in Calls : d # k => verdict'[d] = verdict[d]
      BY <1>6 DEF ChatJudged, TypeOK
    <2>2. ran[k] = 0
      BY <1>6, ChatJudgedMoves DEF Decisions, Decision
    <2> QED BY <1>6, <2>1, <2>2 DEF ChatJudged, RanOnlyWhenAllowed
  <1>7. ASSUME NEW k \in Calls, ChatLogged(k) PROVE RanOnlyWhenAllowed'
    <2>1. PICK turn, call : Logged(k, turn, call)
      BY <1>7, ChatLoggedData
    <2>2. CASE ~ (reply[k] = "ok" /\ verdict[k] = "allow")
      BY <2>1, <2>2 DEF Logged, RanOnlyWhenAllowed
    <2>3. CASE reply[k] = "ok" /\ verdict[k] = "allow"
      <3>1. pc[k] = "insert"
        BY <1>7, ChatLoggedMoves
      <3>2. ran[k] = 0 /\ recorded[k] = "none"
        BY <2>3, <3>1 DEF Decisions, Decision
      <3>3. ran' = [ran EXCEPT ![k] = ran[k] + 1]
        BY <2>1, <2>3 DEF Logged
      <3>4. verdict' = verdict /\ recorded' = recorded
        BY <2>1 DEF Logged
      <3>5. ran'[k] = 1 /\ \A e \in Calls : e # k => ran'[e] = ran[e]
        BY <3>2, <3>3 DEF TypeOK
      <3> QED BY <2>3, <3>2, <3>4, <3>5 DEF RanOnlyWhenAllowed
    <2> QED BY <2>2, <2>3
  <1>8. ASSUME NEW k \in Calls \cup Clicks, Closing(k) PROVE RanOnlyWhenAllowed'
    BY <1>8 DEF Closing, history, RanOnlyWhenAllowed
  <1>9. ASSUME NEW k \in Clicks, Asks(k) \/ Heeds(k) PROVE RanOnlyWhenAllowed'
    BY <1>9 DEF Asks, Heeds, Outside, history, RanOnlyWhenAllowed
  <1>10. ASSUME NEW k \in Clicks, OutcomeRecorded(k) PROVE RanOnlyWhenAllowed'
    <2> DEFINE d == stmt[k].id
    <2>1. /\ Settled(k, d) /\ d \in Calls /\ stmt[k] # None /\ stmt[k].op = "outcome"
          /\ pc[k] = "outcome" /\ k \in Workers
      BY <1>10, OutcomeRecordedData, OutcomeRecordedMoves DEF Workers
    <2>2. verdict' = verdict /\ recorded' = recorded
      BY <2>1 DEF Settled
    <2>3. CASE ~ (reply[k] = "ok" /\ stmt[k].as = "approve")
      BY <2>1, <2>2, <2>3 DEF Settled, RanOnlyWhenAllowed
    <2>4. CASE reply[k] = "ok" /\ stmt[k].as = "approve"
      <3>1. recorded[d] = "approve" /\ ran[d] = 0
        BY <2>1, <2>4 DEF Heard, HeardAt
      <3>2. verdict[d] = "ask"
        BY <2>1 DEF AskedFirst, Asked
      <3> HIDE DEF d
      <3>3. ran' = [ran EXCEPT ![d] = ran[d] + 1]
        BY <2>1, <2>4 DEF Settled
      <3>4. ran'[d] = 1 /\ \A e \in Calls : e # d => ran'[e] = ran[e]
        BY <2>1, <3>1, <3>3 DEF TypeOK
      <3> QED BY <2>1, <2>2, <3>1, <3>2, <3>4 DEF RanOnlyWhenAllowed
    <2> QED BY <2>3, <2>4
  <1>11. ASSUME NEW k \in Clicks, PendingExpired(k) PROVE RanOnlyWhenAllowed'
    BY <1>11 DEF PendingExpired, history, RanOnlyWhenAllowed
  <1>12. ASSUME NEW k \in Clicks, NEW o \in {"approve", "deny"}, Resolve(k, o) PROVE RanOnlyWhenAllowed'
    BY <1>12 DEF Resolve, history, RanOnlyWhenAllowed
  <1>13. ASSUME NEW w \in Workers, Execute(w) \/ ExecuteFails(w) PROVE RanOnlyWhenAllowed'
    <2>1. PICK answer \in {"ok", "no", "error"} : Told(w, answer)
      BY <1>13, ExecuteMoves
    <2>2. verdict' = verdict /\ ran' = ran /\ ran \in [Calls -> Nat]
      BY <2>1 DEF Told, TypeOK
    <2>3. ASSUME NEW d \in Calls, ran[d] > 0 PROVE recorded'[d] = recorded[d]
      <3>1. WroteNothing(d) \/ WroteDecision(w, d) \/ WroteOutcome(w, d)
        BY <2>1, ToldData
      <3>2. ~ WroteDecision(w, d)
        BY <2>1, <2>3 DEF WroteDecision, Told, Decisions, Decision
      <3>3. ~ WroteOutcome(w, d)
        <4>1. SUFFICES ASSUME WroteOutcome(w, d) PROVE FALSE
          OBVIOUS
        <4>2. recorded[d] = "none"
          BY <4>1 DEF WroteOutcome, Decisions, Decision
        <4>3. verdict[d] = "ask"
          BY <2>1, <4>1 DEF WroteOutcome, Told, AskedFirst, Asked
        <4> QED BY <2>3, <4>2, <4>3 DEF RanOnlyWhenAllowed
      <3> QED BY <3>1, <3>2, <3>3 DEF WroteNothing
    <2> QED BY <2>2, <2>3 DEF RanOnlyWhenAllowed
  <1>14. CASE Evict \/ Cron \/ Tick \/ UNCHANGED vars
    BY <1>14 DEF Evict, Cron, Tick, vars, history, RanOnlyWhenAllowed
  <1> QED
    BY <1>1, <1>2, <1>3, <1>4, <1>5, <1>6, <1>7, <1>8, <1>9, <1>10, <1>11, <1>12, <1>13, <1>14 DEF
       Step

\* A card that is taken away, or that is as it was, with the row of its call.
LEMMA CardsKept ==
  ASSUME TypeOK, CardMatchesAudit, faults' \in {faults, faults + 1}, recorded' = recorded,
         \A d \in Calls : log'[d] \in {log[d], None},
         \A d \in Calls : card'[d] = card[d] \/ card'[d] \in {"gone", "none"}
  PROVE  CardMatchesAudit'
  <1>1. faults' = 0 => faults = 0
    BY DEF TypeOK
  <1> QED BY <1>1 DEF CardMatchesAudit

\* A card that is marked.
LEMMA CardsMarked ==
  ASSUME TypeOK, CardMatchesAudit, faults' = faults, recorded' = recorded, log' = log,
         NEW STATE d, d \in Calls, NEW STATE o, MarkHuman(d, o),
         o \in {"approve", "deny"} => recorded[d] = o,
         o = "expired" /\ faults = 0 => recorded[d] = "expired" \/ log[d] = None
  PROVE  CardMatchesAudit'
  <1>1. \A e \in Calls : card'[e] = card[e] \/ (e = d /\ card'[e] = o)
    BY DEF MarkHuman, TypeOK
  <1> QED BY <1>1 DEF CardMatchesAudit

LEMMA CardsNext ==
  ASSUME TypeOK, Papers, AskedFirst, Decisions, Heard, CardMatchesAudit, Step
  PROVE  CardMatchesAudit'
  <1>1. CASE Start
    BY <1>1, CardsKept DEF Start, history
  <1>2. CASE Started
    BY <1>2, CardsKept DEF Started, history
  <1>3. CASE Defers \/ Overdue \/ Rested
    BY <1>3, CardsKept DEF Defers, Overdue, Rested, Through, Outside, history
  <1>4. CASE Expired
    <2> DEFINE d == stmt[Alarm].id
    <2>1. MarkHuman(d, "expired") /\ d \in Calls /\ Outside
      BY <1>4, ExpiredData
    <2>2. faults = 0 => recorded[d] = "expired" \/ log[d] = None
      <3>1. pc[Alarm] = "expire" /\ reply[Alarm] \in {"ok", "no", "error"} /\ Alarm \in Workers
        BY <1>4 DEF Expired, TypeOK, Workers
      <3> QED BY <3>1 DEF Heard, HeardAt
    <2> HIDE DEF d
    <2> QED BY <2>1, <2>2, CardsMarked DEF Outside, history
  <1>5. CASE Gone
    BY <1>5, CardsKept DEF Gone, Destroy, Outside, history
  <1>6. ASSUME NEW w \in Clicks \cup {Alarm}, Cleared(w) PROVE CardMatchesAudit'
    BY <1>6, CardsKept DEF Cleared, Outside, history
  <1>7. ASSUME NEW w \in Clicks \cup {Alarm}, PurgesOn(w) PROVE CardMatchesAudit'
    BY <1>7, CardsKept DEF PurgesOn, Outside, object, history
  <1>8. ASSUME NEW k \in Calls, Chat(k) \/ ChatAnswered(k) PROVE CardMatchesAudit'
    BY <1>8, CardsKept DEF Chat, ChatAnswered, history
  <1>9. ASSUME NEW k \in Calls, ChatJudged(k) PROVE CardMatchesAudit'
    BY <1>9, CardsKept DEF ChatJudged, object
  <1>10. ASSUME NEW k \in Calls, ChatLogged(k) PROVE CardMatchesAudit'
    <2>1. PICK turn, call : Logged(k, turn, call)
      BY <1>10, ChatLoggedData
    <2>2. \A d \in Calls : card'[d] = card[d] \/ card'[d] \in {"gone", "none"}
      BY <2>1 DEF Logged, TypeOK
    <2> QED BY <2>1, <2>2, CardsKept DEF Logged
  <1>11. ASSUME NEW k \in Calls \cup Clicks, Closing(k) PROVE CardMatchesAudit'
    BY <1>11, CardsKept DEF Closing, history
  <1>12. ASSUME NEW k \in Clicks, Asks(k) \/ Heeds(k) PROVE CardMatchesAudit'
    BY <1>12, CardsKept DEF Asks, Heeds, Outside, object, history
  <1>13. ASSUME NEW k \in Clicks, OutcomeRecorded(k) PROVE CardMatchesAudit'
    <2> DEFINE d == stmt[k].id
    <2>1. /\ Settled(k, d) /\ d \in Calls /\ stmt[k].as \in {"approve", "deny"}
          /\ pc[k] = "outcome" /\ k \in Workers
      BY <1>13, OutcomeRecordedData, OutcomeRecordedMoves DEF Workers
    <2>2. CASE reply[k] # "ok"
      BY <2>1, <2>2, CardsKept DEF Settled
    <2>3. CASE reply[k] = "ok"
      <3>1. recorded[d] = stmt[k].as
        BY <2>1, <2>3 DEF Heard, HeardAt
      <3>2. MarkHuman(d, stmt[k].as)
        BY <2>1, <2>3 DEF Settled
      <3> HIDE DEF d
      <3> QED BY <2>1, <3>1, <3>2, CardsMarked DEF Settled
    <2> QED BY <2>2, <2>3
  <1>14. ASSUME NEW k \in Clicks, PendingExpired(k) PROVE CardMatchesAudit'
    <2> DEFINE d == stmt[k].id
    <2>1. MarkHuman(d, "expired") /\ d \in Calls /\ Outside
      BY <1>14, PendingExpiredData
    <2>2. faults = 0 => recorded[d] = "expired" \/ log[d] = None
      <3>1. pc[k] = "expire" /\ reply[k] \in {"ok", "no", "error"} /\ k \in Workers
        BY <1>14, PendingExpiredMoves DEF TypeOK, Workers
      <3> QED BY <3>1 DEF Heard, HeardAt
    <2> HIDE DEF d
    <2> QED BY <2>1, <2>2, CardsMarked DEF Outside, history
  <1>15. ASSUME NEW k \in Clicks, NEW o \in {"approve", "deny"}, Resolve(k, o) PROVE CardMatchesAudit'
    BY <1>15, CardsKept DEF Resolve, history
  <1>16. ASSUME NEW w \in Workers, Execute(w) \/ ExecuteFails(w) PROVE CardMatchesAudit'
    <2>1. PICK answer \in {"ok", "no", "error"} : Told(w, answer)
      BY <1>16, ExecuteMoves
    <2>2. card' = card /\ (faults' = 0 => faults = 0)
      BY <2>1 DEF Told, object, TypeOK
    <2>3. ASSUME NEW d \in Calls
          PROVE  /\ card'[d] \in {"approve", "deny"} => recorded'[d] = card'[d]
                 /\ card'[d] = "expired" /\ faults' = 0 => recorded'[d] = "expired" \/ log'[d] = None
      <3>1. WroteNothing(d) \/ WroteDecision(w, d) \/ WroteOutcome(w, d)
        BY <2>1, ToldData
      <3>2. CASE WroteNothing(d)
        BY <2>2, <3>2 DEF WroteNothing, CardMatchesAudit
      <3>3. CASE WroteDecision(w, d)
        BY <2>1, <2>2, <3>3 DEF WroteDecision, Told, Decisions, Decision
      <3>4. CASE WroteOutcome(w, d)
        <4>1. log[d] # None /\ recorded[d] = "none"
          BY <3>4 DEF WroteOutcome, Decisions, Decision
        <4> QED BY <2>2, <4>1 DEF CardMatchesAudit
      <3> QED BY <3>1, <3>2, <3>3, <3>4
    <2> QED BY <2>3 DEF CardMatchesAudit
  <1>17. CASE Evict
    BY <1>17, CardsKept DEF Evict, history
  <1>18. CASE Cron
    <2>1. \A d \in Calls : log'[d] \in {log[d], None}
      BY <1>18 DEF Cron, Purges, TypeOK
    <2> QED BY <1>18, <2>1, CardsKept DEF Cron, object, history
  <1>19. CASE Tick \/ UNCHANGED vars
    BY <1>19, CardsKept DEF Tick, vars, object, history
  <1> QED
    BY <1>1, <1>2, <1>3, <1>4, <1>5, <1>6, <1>7, <1>8, <1>9, <1>10, <1>11, <1>12, <1>13, <1>14,
       <1>15, <1>16, <1>17, <1>18, <1>19 DEF Step

-----------------------------------------------------------------------------
(* Answers and expiries, in order *)

Ordered == Orphans /\ NeverBoth /\ Expiring /\ Answering

\* A step that sends no outcome and leaves no statement behind.
LEMMA OrderMoved ==
  ASSUME Ordered, ~ Over,
         NEW w \in Workers, NEW STATE place, NEW STATE s, NEW STATE r, Moves(w, place, s, r),
         s = None \/ (place \notin Resting /\ s.op # "outcome"),
         now' = now, recorded' = recorded, pending' \in {pending, None},
         pc[w] = "outcome" /\ reply[w] = "ok" => pending' = None \/ pending'.id # stmt[w].id
  PROVE  Ordered'
  <1>1. \A v \in Workers \ {w} : pc'[v] = pc[v] /\ stmt'[v] = stmt[v] /\ reply'[v] = reply[v]
    BY DEF Moves
  <1>2. pc'[w] = place /\ stmt'[w] = s
    BY DEF Moves
  <1>3. Orphans'
    <2>1. ASSUME NEW v \in Workers, stmt'[v] # None, pc'[v] \in Resting PROVE FALSE
      BY <1>1, <1>2, <2>1 DEF Ordered, Orphans
    <2> QED BY <2>1 DEF Orphans
  <1>4. \A v \in Workers, d \in Calls : (Expiry(v, d)' => Expiry(v, d)) /\ (Answer(v, d)' => Answer(v, d))
    BY <1>1, <1>2 DEF Expiry, Answer
  <1>5. NeverBoth' /\ Expiring'
    BY <1>4 DEF Ordered, NeverBoth, Expiring
  <1>6. Answering'
    <2>1. ASSUME NEW d \in Calls, pending' # None, pending'.id = d, recorded'[d] \in {"approve", "deny"}
          PROVE  \E v \in Workers : pc'[v] = "outcome" /\ Answer(v, d)' /\ reply'[v] = "ok"
      <3>1. PICK v \in Workers : pc[v] = "outcome" /\ Answer(v, d) /\ reply[v] = "ok"
        BY <2>1 DEF Ordered, Answering
      <3>2. v # w
        BY <2>1, <3>1 DEF Answer
      <3> QED BY <1>1, <3>1, <3>2 DEF Answer
    <2> QED BY <2>1 DEF Answering
  <1> QED BY <1>3, <1>5, <1>6 DEF Ordered

\* A step of the clock, the cron or the schedule.
LEMMA OrderStill ==
  ASSUME Ordered, TypeOK, UNCHANGED <<pc, stmt, reply, recorded, pending, desk>>,
         now' \in {now, now + 1}, sched' = sched \/ ~ Over
  PROVE  Ordered'
  <1>1. Over => Over'
    BY DEF Over, Quiet
  <1>2. \A v \in Workers, d \in Calls : (Expiry(v, d)' <=> Expiry(v, d)) /\ (Answer(v, d)' <=> Answer(v, d))
    BY DEF Expiry, Answer
  <1>3. Orphans'
    BY <1>1 DEF Ordered, Orphans
  <1>4. NeverBoth' /\ Answering'
    BY <1>2 DEF Ordered, NeverBoth, Answering
  <1>5. Expiring'
    <2>1. pending # None => pending.expires \in Nat
      BY DEF TypeOK, Pending
    <2>2. pending # None /\ pending.expires <= now => pending.expires <= now'
      BY <2>1 DEF TypeOK
    <2> QED BY <1>2, <2>2 DEF Ordered, Expiring
  <1> QED BY <1>3, <1>4, <1>5 DEF Ordered

\* Who has an answer on its way is in its turn, or the handlers are gone.
LEMMA AnswerInTurn ==
  ASSUME TypeOK, Papers, Ordered, ~ Over, NEW w \in Workers, NEW d, Answer(w, d)
  PROVE  pc[w] = "outcome"
  <1>1. stmt[w] # None /\ stmt[w].op = "outcome" /\ stmt[w].as # "expired"
    BY DEF Answer
  <1>2. pc[w] \notin Resting
    BY <1>1 DEF Ordered, Orphans
  <1>3. Proper(w, pc[w], stmt[w], reply[w]) /\ pc[w] \in Places
    BY DEF Papers, TypeOK
  <1>4. pc[w] \in Sending
    BY <1>1, <1>2, <1>3 DEF Proper, Places, Resting, Sending
  <1>5. OpOf[pc[w]] = "outcome" /\ pc[w] # "expire"
    BY <1>1, <1>3, <1>4 DEF Proper
  <1> QED BY <1>4, <1>5 DEF Sending, OpOf

\* The object is gone, and with it all but the statements already sent.
LEMMA OrderGone ==
  ASSUME TypeOK, Ordered, Gone
  PROVE  Ordered'
  <1>1. Killed /\ desk' = Closed /\ pending' = None /\ sched' = None /\ recorded' = recorded /\ pc[Opener] = "done"
    BY DEF Gone, Destroy, Outside, history
  <1>2. \A v \in Workers : pc'[v] \in Resting /\ stmt'[v] \in {stmt[v], None}
    BY <1>1, KilledAll
  <1>3. pc'[Opener] = "done"
    BY <1>1, KilledAll DEF Workers, Once
  <1>4. Over'
    BY <1>1, <1>2, <1>3 DEF Over, Quiet, Closed
  <1>5. \A v \in Workers, d \in Calls : (Expiry(v, d)' => Expiry(v, d)) /\ (Answer(v, d)' => Answer(v, d))
    BY <1>2 DEF Expiry, Answer
  <1>6. Orphans' /\ Answering'
    BY <1>1, <1>4 DEF Orphans, Answering
  <1>7. NeverBoth' /\ Expiring'
    BY <1>1, <1>5 DEF Ordered, NeverBoth, Expiring
  <1> QED BY <1>6, <1>7 DEF Ordered

\* A statement that expires the waiting call, which is overdue and unanswered.
LEMMA ExpirySent ==
  ASSUME TypeOK, Papers, OneAtATime, Ordered,
         NEW w \in Workers, NEW STATE place, NEW STATE s, Moves(w, place, s, "none"),
         place \notin Resting, s # None, s.op = "outcome", s.id = pending.id, s.as = "expired",
         pending # None, pending.id \in Calls, pending.expires <= now, ~ busy,
         pending' = pending, now' = now, recorded' = recorded
  PROVE  Ordered'
  <1>1. \A v \in Workers \ {w} : pc'[v] = pc[v] /\ stmt'[v] = stmt[v] /\ reply'[v] = reply[v]
    BY DEF Moves
  <1>2. pc'[w] = place /\ stmt'[w] = s /\ ~ Over
    BY DEF Moves, Over
  <1>3. \A v \in Workers : pc[v] # "outcome"
    BY DEF OneAtATime, InTurn
  <1>4. recorded[pending.id] \notin {"approve", "deny"} /\ \A v \in Workers : ~ Answer(v, pending.id)
    BY <1>2, <1>3, AnswerInTurn DEF Ordered, Answering
  <1>5. /\ \A v \in Workers, d \in Calls : Expiry(v, d)' => Expiry(v, d) \/ d = pending.id
        /\ \A v \in Workers, d \in Calls : Answer(v, d)' => Answer(v, d)
    BY <1>1, <1>2 DEF Expiry, Answer
  <1>6. Orphans'
    <2>1. ASSUME NEW v \in Workers, stmt'[v] # None, pc'[v] \in Resting PROVE FALSE
      BY <1>1, <1>2, <2>1 DEF Ordered, Orphans
    <2> QED BY <2>1 DEF Orphans
  <1>7. NeverBoth' /\ Expiring'
    BY <1>4, <1>5 DEF Ordered, NeverBoth, Expiring
  <1>8. Answering'
    BY <1>3 DEF Ordered, Answering
  <1> QED BY <1>6, <1>7, <1>8 DEF Ordered

\* A statement that answers the waiting call, which is not overdue.
LEMMA AnswerSent ==
  ASSUME TypeOK, Papers, OneAtATime, Ordered, NEW o \in {"approve", "deny"},
         NEW w \in Workers, NEW STATE place, NEW STATE s, Moves(w, place, s, "none"),
         place \notin Resting, s # None, s.op = "outcome", s.id = pending.id, s.as = o,
         pending # None, pending.id \in Calls, ~ (pending.expires <= now), ~ busy,
         pending' = pending, now' = now, recorded' = recorded
  PROVE  Ordered'
  <1>1. \A v \in Workers \ {w} : pc'[v] = pc[v] /\ stmt'[v] = stmt[v] /\ reply'[v] = reply[v]
    BY DEF Moves
  <1>2. pc'[w] = place /\ stmt'[w] = s /\ ~ Over
    BY DEF Moves, Over
  <1>3. \A v \in Workers : pc[v] # "outcome"
    BY DEF OneAtATime, InTurn
  <1>4. \A v \in Workers : ~ Expiry(v, pending.id)
    BY DEF Ordered, Expiring
  <1>5. /\ \A v \in Workers, d \in Calls : Expiry(v, d)' => Expiry(v, d)
        /\ \A v \in Workers, d \in Calls : Answer(v, d)' => Answer(v, d) \/ d = pending.id
    BY <1>1, <1>2 DEF Expiry, Answer
  <1>6. Orphans'
    <2>1. ASSUME NEW v \in Workers, stmt'[v] # None, pc'[v] \in Resting PROVE FALSE
      BY <1>1, <1>2, <2>1 DEF Ordered, Orphans
    <2> QED BY <2>1 DEF Orphans
  <1>7. NeverBoth' /\ Expiring'
    BY <1>4, <1>5 DEF Ordered, NeverBoth, Expiring
  <1>8. Answering'
    BY <1>3 DEF Ordered, Answering
  <1> QED BY <1>6, <1>7, <1>8 DEF Ordered

\* A new call waits.
LEMMA OrderWaits ==
  ASSUME Ordered, ~ Over, NEW k \in Calls,
         NEW w \in Workers, NEW STATE place, Moves(w, place, None, "none"),
         pending' # None, pending'.id = k, recorded[k] \notin {"approve", "deny"},
         \A v \in Workers : ~ Expiry(v, k),
         now' = now, recorded' = recorded
  PROVE  Ordered'
  <1>1. \A v \in Workers \ {w} : pc'[v] = pc[v] /\ stmt'[v] = stmt[v] /\ reply'[v] = reply[v]
    BY DEF Moves
  <1>2. pc'[w] = place /\ stmt'[w] = None
    BY DEF Moves
  <1>3. \A v \in Workers, d \in Calls : (Expiry(v, d)' => Expiry(v, d)) /\ (Answer(v, d)' => Answer(v, d))
    BY <1>1, <1>2 DEF Expiry, Answer
  <1>4. Orphans'
    <2>1. ASSUME NEW v \in Workers, stmt'[v] # None, pc'[v] \in Resting PROVE FALSE
      BY <1>1, <1>2, <2>1 DEF Ordered, Orphans
    <2> QED BY <2>1 DEF Orphans
  <1>5. NeverBoth' /\ Expiring'
    BY <1>3 DEF Ordered, NeverBoth, Expiring
  <1>6. Answering'
    BY DEF Answering
  <1> QED BY <1>4, <1>5, <1>6 DEF Ordered

\* A statement is executed.
LEMMA OrderTold ==
  ASSUME TypeOK, Papers, Decisions, Ordered, faults' = 0,
         NEW w \in Workers, NEW answer \in {"ok", "no", "error"}, Told(w, answer),
         UNCHANGED <<pc, now, pending, desk, sched>>
  PROVE  Ordered'
  <1>1. answer # "error" /\ reply[w] = "none" /\ stmt[w] # None
    BY DEF Told, TypeOK
  <1>2. \A v \in Workers \ {w} : stmt'[v] = stmt[v] /\ reply'[v] = reply[v]
    BY DEF Told, Moves
  <1>3. /\ pc[w] \in Resting => stmt'[w] = None
        /\ pc[w] \notin Resting => stmt'[w] = stmt[w] /\ reply'[w] = answer
    BY DEF Told, Moves
  <1>4. \A v \in Workers, d \in Calls : (Expiry(v, d)' => Expiry(v, d)) /\ (Answer(v, d)' => Answer(v, d))
    BY <1>2, <1>3 DEF Expiry, Answer
  <1>5. Over => Over'
    BY DEF Over, Quiet
  <1>6. Orphans'
    BY <1>2, <1>3, <1>5 DEF Ordered, Orphans
  <1>7. \A d \in Calls : recorded'[d] \in {"approve", "deny"} => recorded[d] = recorded'[d] \/ WroteOutcome(w, d)
    BY ToldData DEF WroteNothing, WroteDecision
  <1>8. \A d \in Calls : WroteOutcome(w, d) /\ recorded'[d] \in {"approve", "deny"} => Answer(w, d)
    BY <1>1 DEF WroteOutcome, Answer
  <1>9. NeverBoth'
    BY <1>4 DEF Ordered, NeverBoth
  <1>10. Expiring'
    BY <1>4, <1>7, <1>8 DEF Ordered, Expiring, NeverBoth
  <1>11. Answering'
    <2>1. ASSUME NEW d \in Calls, pending' # None, pending'.id = d, recorded'[d] \in {"approve", "deny"}
          PROVE  \E v \in Workers : pc'[v] = "outcome" /\ Answer(v, d)' /\ reply'[v] = "ok"
      <3>1. ~ Over
        BY <2>1 DEF Over
      <3>2. CASE WroteOutcome(w, d)
        <4>1. Answer(w, d) /\ pc[w] = "outcome"
          BY <1>8, <2>1, <3>1, <3>2, AnswerInTurn
        <4>2. answer = "ok"
          BY <1>1, <3>2, ToldData DEF WroteOutcome, Unanswered
        <4>3. stmt'[w] = stmt[w] /\ reply'[w] = "ok"
          BY <1>3, <4>1, <4>2 DEF Resting
        <4> QED BY <4>1, <4>3 DEF Answer
      <3>3. CASE ~ WroteOutcome(w, d)
        <4>1. recorded[d] \in {"approve", "deny"}
          BY <1>7, <2>1, <3>3
        <4>2. PICK v \in Workers : pc[v] = "outcome" /\ Answer(v, d) /\ reply[v] = "ok"
          BY <2>1, <4>1 DEF Ordered, Answering
        <4>3. v # w
          BY <1>1, <4>2
        <4> QED BY <1>2, <4>2, <4>3 DEF Answer
      <3> QED BY <3>2, <3>3
    <2> QED BY <2>1 DEF Answering
  <1> QED BY <1>6, <1>9, <1>10, <1>11 DEF Ordered

LEMMA OrderedNext ==
  ASSUME TypeOK, Papers, OneAtATime, AskedFirst, Decisions, Ordered, faults' = 0, Step
  PROVE  Ordered'
  <1>1. CASE Start
    <2>1. Moves(Opener, "start", InsertSession(now + SessionTtl), "none")
      BY <1>1, StartMoves
    <2>2. ~ Over
      BY <1>1, StartMoves DEF Over, Start
    <2>3. now' = now /\ recorded' = recorded /\ pending' \in {pending, None} /\ pc[Opener] # "outcome"
      BY <1>1, StartMoves DEF history, Start
    <2> QED BY <2>1, <2>2, <2>3, OrderMoved, Read DEF Workers, Resting
  <1>2. CASE Started
    <2>1. Moves(Opener, "done", None, "none")
      BY <1>2, StartedMoves
    <2>2. ~ Over
      BY <1>2, StartedMoves DEF Over
    <2>3. now' = now /\ recorded' = recorded /\ pending' \in {pending, None} /\ pc[Opener] # "outcome"
      BY <1>2, StartedMoves DEF history, Started
    <2> QED BY <2>1, <2>2, <2>3, OrderMoved, Read DEF Workers, Resting
  <1>3. CASE Defers
    <2>1. now' = now /\ recorded' = recorded /\ ~ Over
      BY <1>3 DEF Defers, Outside, history, Over
    <2> QED BY <1>3, <2>1, OrderStill DEF Defers
  <1>4. CASE Overdue
    <2> DEFINE e == pending.id
               s == SetHumanOutcome(e, "expired")
    <2>1. /\ Moves(Alarm, "expire", s, "none") /\ pending' = pending /\ pending # None /\ ~ busy
          /\ e \in Calls /\ pending.expires <= now /\ Alarm \in Workers
      BY <1>4 DEF Overdue, Workers
    <2>2. s.op = "outcome" /\ s.id = e /\ s.as = "expired" /\ s # None
      BY <2>1, Read DEF Outcomes
    <2>3. now' = now /\ recorded' = recorded
      BY <1>4 DEF Overdue, Outside, history
    <2> HIDE DEF s, e
    <2> QED BY <2>1, <2>2, <2>3, ExpirySent DEF e, Resting
  <1>5. CASE Rested
    <2>1. Moves(Alarm, "idle", None, "none")
      BY <1>5 DEF Rested, Through
    <2>2. ~ Over
      BY <1>5 DEF Over, Rested
    <2>3. now' = now /\ recorded' = recorded /\ pending' \in {pending, None} /\ pc[Alarm] # "outcome"
      BY <1>5 DEF history, Rested, Through, Outside
    <2> QED BY <2>1, <2>2, <2>3, OrderMoved, Read DEF Workers, Resting
  <1>6. CASE Expired
    <2>1. Moves(Alarm, "idle", None, "none")
      BY <1>6 DEF Expired, Through
    <2>2. ~ Over
      BY <1>6 DEF Over, Expired, Quiet, Resting, Workers
    <2>3. now' = now /\ recorded' = recorded /\ pending' \in {pending, None} /\ pc[Alarm] # "outcome"
      BY <1>6, ExpiredData, DroppedTyped DEF history, Expired, Outside
    <2> QED BY <2>1, <2>2, <2>3, OrderMoved, Read DEF Workers, Resting
  <1>7. CASE Gone
    BY <1>7, OrderGone
  <1>8. ASSUME NEW w \in Clicks \cup {Alarm}, Cleared(w) PROVE Ordered'
    <2>1. Moves(w, "purgeLog", Purge("purgeLog"), "none")
      BY <1>8 DEF Cleared
    <2>2. ~ Over
      BY <1>8 DEF Over, Cleared
    <2>3. now' = now /\ recorded' = recorded /\ pending' \in {pending, None} /\ pc[w] # "outcome"
      BY <1>8 DEF history, Cleared, Outside
    <2> QED BY <2>1, <2>2, <2>3, OrderMoved, Read DEF Workers, Resting
  <1>9. ASSUME NEW w \in Clicks \cup {Alarm}, PurgesOn(w) PROVE Ordered'
    <2>1. Moves(w, "purgeRow", Purge("purgeRow"), "none")
      BY <1>9 DEF PurgesOn
    <2>2. ~ Over
      BY <1>9 DEF Over, PurgesOn, Quiet, Resting, Workers
    <2>3. now' = now /\ recorded' = recorded /\ pending' \in {pending, None} /\ pc[w] # "outcome"
      BY <1>9 DEF history, PurgesOn, Outside, object
    <2> QED BY <2>1, <2>2, <2>3, OrderMoved, Read DEF Workers, Resting
  <1>10. ASSUME NEW k \in Calls, Chat(k) PROVE Ordered'
    <2>1. Moves(k, "plan", None, "none")
      BY <1>10, ChatMoves
    <2>2. ~ Over
      BY <1>10, ChatMoves DEF Over, Live
    <2>3. now' = now /\ recorded' = recorded /\ pending' \in {pending, None} /\ pc[k] # "outcome"
      BY <1>10, ChatMoves DEF history, Chat
    <2> QED BY <2>1, <2>2, <2>3, OrderMoved, Read DEF Workers, Resting
  <1>11. ASSUME NEW k \in Calls, ChatAnswered(k) PROVE Ordered'
    <2>1. Moves(k, "done", None, "none")
      BY <1>11, ChatAnsweredMoves
    <2>2. ~ Over
      BY <1>11, ChatAnsweredMoves DEF Over, Quiet, Resting, Workers
    <2>3. now' = now /\ recorded' = recorded /\ pending' \in {pending, None} /\ pc[k] # "outcome"
      BY <1>11, ChatAnsweredMoves DEF history, ChatAnswered
    <2> QED BY <2>1, <2>2, <2>3, OrderMoved, Read DEF Workers, Resting
  <1>12. ASSUME NEW k \in Calls, ChatJudged(k) PROVE Ordered'
    <2>1. Moves(k, "insert", InsertDecision(k), "none")
      BY <1>12, ChatJudgedMoves
    <2>2. ~ Over
      BY <1>12, ChatJudgedMoves DEF Over, Quiet, Resting, Workers
    <2>3. now' = now /\ recorded' = recorded /\ pending' \in {pending, None} /\ pc[k] # "outcome"
      BY <1>12, ChatJudgedMoves DEF history, ChatJudged, object
    <2> QED BY <2>1, <2>2, <2>3, OrderMoved, Read DEF Workers, Resting
  <1>13. ASSUME NEW k \in Calls, ChatLogged(k) PROVE Ordered'
    <2>1. PICK place \in {"closing", "done"} : Moves(k, place, None, "none") /\ pc[k] = "insert" /\ k \in Workers
      BY <1>13, ChatLoggedMoves DEF Workers
    <2>2. PICK turn, call : call # None /\ call.id = k /\ Logged(k, turn, call)
      BY <1>13, ChatLoggedData
    <2>3. ~ Over
      BY <2>1 DEF Over, Quiet, Resting
    <2>4. now' = now /\ recorded' = recorded
      BY <2>2 DEF Logged
    <2>5. CASE pending' = pending
      BY <2>1, <2>3, <2>4, <2>5, OrderMoved
    <2>6. CASE pending' # pending
      <3>1. pending' = call
        BY <2>2, <2>6 DEF Logged
      <3>2. recorded[k] \notin {"approve", "deny"}
        BY <2>1 DEF Decisions, Decision, Asked, Outcomes
      <3>3. \A v \in Workers : ~ Expiry(v, k)
        BY <2>1 DEF AskedFirst, Asked, Expiry
      <3> QED BY <2>1, <2>2, <2>3, <2>4, <3>1, <3>2, <3>3, OrderWaits
    <2> QED BY <2>5, <2>6
  <1>14. ASSUME NEW k \in Calls \cup Clicks, Closing(k) PROVE Ordered'
    <2>1. Moves(k, IF k \in Once THEN "done" ELSE "idle", None, "none")
      BY <1>14, ClosingMoves
    <2>2. ~ Over
      BY <1>14, ClosingMoves DEF Over, Quiet, Resting, Workers
    <2>3. now' = now /\ recorded' = recorded /\ pending' \in {pending, None} /\ pc[k] # "outcome"
      BY <1>14, ClosingMoves DEF history, Closing
    <2> QED BY <2>1, <2>2, <2>3, OrderMoved, Read DEF Workers, Resting
  <1>15. ASSUME NEW k \in Clicks, Asks(k) PROVE Ordered'
    <2>1. PICK place \in {"model", "reclaim"}, s \in Statement :
            Inquiry(place, s) /\ Moves(k, place, s, "none")
      BY <1>15 DEF Asks
    <2>2. ~ Over
      BY <1>15 DEF Asks, Over
    <2>3. now' = now /\ recorded' = recorded /\ pending' \in {pending, None} /\ pc[k] # "outcome"
      BY <1>15 DEF Asks, Outside, history, object
    <2>4. place \notin Resting /\ s.op # "outcome"
      BY <2>1 DEF Inquiry, Resting
    <2> QED BY <2>1, <2>2, <2>3, <2>4, OrderMoved DEF Workers
  <1>16. ASSUME NEW k \in Clicks, Heeds(k) PROVE Ordered'
    <2>1. Moves(k, "idle", None, "none")
      BY <1>16 DEF Heeds
    <2>2. ~ Over
      BY <1>16 DEF Heeds, Over, Quiet, Resting, Workers
    <2>3. now' = now /\ recorded' = recorded /\ pending' \in {pending, None} /\ pc[k] # "outcome"
      BY <1>16 DEF Heeds, Outside, history, object
    <2> QED BY <2>1, <2>2, <2>3, OrderMoved, Read DEF Workers, Resting
  <1>17. ASSUME NEW k \in Clicks, OutcomeRecorded(k) PROVE Ordered'
    <2>1. PICK place \in {"closing", "idle"} : Moves(k, place, None, "none")
      BY <1>17, OutcomeRecordedMoves
    <2>2. Settled(k, stmt[k].id) /\ pc[k] = "outcome" /\ k \in Workers
      BY <1>17, OutcomeRecordedData, OutcomeRecordedMoves DEF Workers
    <2>3. ~ Over
      BY <2>2 DEF Over, Quiet, Resting
    <2>4. now' = now /\ recorded' = recorded /\ pending' \in {pending, None}
      BY <2>2, DroppedTyped DEF Settled
    <2>5. reply[k] = "ok" => pending' = None \/ pending'.id # stmt[k].id
      BY <2>2, DroppedTyped DEF Settled
    <2> QED BY <2>1, <2>2, <2>3, <2>4, <2>5, OrderMoved
  <1>18. ASSUME NEW k \in Clicks, PendingExpired(k) PROVE Ordered'
    <2>1. Moves(k, "idle", None, "none")
      BY <1>18, PendingExpiredMoves
    <2>2. ~ Over
      BY <1>18, PendingExpiredMoves DEF Over, Quiet, Resting, Workers
    <2>3. now' = now /\ recorded' = recorded /\ pending' \in {pending, None} /\ pc[k] # "outcome"
      BY <1>18, PendingExpiredMoves, PendingExpiredData, DroppedTyped DEF history, PendingExpired
    <2> QED BY <2>1, <2>2, <2>3, OrderMoved, Read DEF Workers, Resting
  <1>19. ASSUME NEW k \in Clicks, NEW o \in {"approve", "deny"}, Resolve(k, o) PROVE Ordered'
    <2> DEFINE e == pending.id
    <2>1. /\ pending' = pending /\ pending # None /\ ~ busy /\ e \in Calls /\ k \in Workers
          /\ now' = now /\ recorded' = recorded
      BY <1>19, ResolveMoves DEF Resolve, history, Workers
    <2>2. CASE pending.expires <= now
      <3> DEFINE s == SetHumanOutcome(e, "expired")
      <3>1. Moves(k, "expire", s, "none")
        BY <1>19, <2>2, ResolveMoves DEF isPendingExpired
      <3>2. s.op = "outcome" /\ s.id = e /\ s.as = "expired" /\ s # None
        BY <2>1, Read DEF Outcomes
      <3> HIDE DEF s, e
      <3> QED BY <2>1, <2>2, <3>1, <3>2, ExpirySent DEF e, Resting
    <2>3. CASE ~ (pending.expires <= now)
      <3> DEFINE s == SetHumanOutcome(e, o)
      <3>1. Moves(k, "outcome", s, "none")
        BY <1>19, <2>3, ResolveMoves DEF isPendingExpired
      <3>2. s.op = "outcome" /\ s.id = e /\ s.as = o /\ s # None
        BY <2>1, Read DEF Outcomes
      <3> HIDE DEF s, e
      <3> QED BY <2>1, <2>3, <3>1, <3>2, AnswerSent DEF e, Resting
    <2> QED BY <2>2, <2>3
  <1>20. ASSUME NEW w \in Workers, Execute(w) \/ ExecuteFails(w) PROVE Ordered'
    <2>1. PICK answer \in {"ok", "no", "error"} : Told(w, answer)
      BY <1>20, ExecuteMoves
    <2>2. /\ UNCHANGED <<pc, now, pending, desk, sched>>
      BY <2>1 DEF Told, object
    <2> QED BY <2>1, <2>2, <1>20, OrderTold
  <1>21. CASE Evict
    <2>1. faults' # 0
      BY <1>21 DEF Evict, TypeOK
    <2> QED BY <2>1
  <1>22. CASE Cron \/ Tick \/ UNCHANGED vars
    BY <1>22, OrderStill DEF Cron, Tick, vars, object, history
  <1> QED
    BY <1>1, <1>2, <1>3, <1>4, <1>5, <1>6, <1>7, <1>8, <1>9, <1>10, <1>11, <1>12, <1>13, <1>14,
       <1>15, <1>16, <1>17, <1>18, <1>19, <1>20, <1>21, <1>22 DEF Step

-----------------------------------------------------------------------------
(* The schedule *)

LEMMA CoveredClosed ==
  ASSUME ~ desk'.open
  PROVE  Covered'
  BY DEF Covered, Live

\* The schedule stays, as time passes and a call stops waiting.
LEMMA CoveredKept ==
  ASSUME TypeOK, Covered, desk'.open = desk.open, desk'.ends = desk.ends, now' \in {now, now + 1},
         sched' = sched, pending' \in {pending, None}, cookie' = cookie, TwoAsked => TwoAsked'
  PROVE  Covered'
  <1>1. Live' => Live
    BY DEF Live, TypeOK
  <1>2. SUFFICES ASSUME Live, Live' PROVE Covered'
    BY <1>1 DEF Covered
  <1>3. cookie' => sched' # None \/ TwoAsked'
    BY <1>2 DEF Covered
  <1>4. sched' # None =>
          /\ sched' <= now' + 1 \/ sched' <= desk'.ends
          /\ pending' # None => sched' <= now' + 1 \/ sched' <= pending'.expires
    <2>1. sched # None => sched \in Nat /\ now \in Nat
      BY DEF TypeOK
    <2>2. sched # None /\ sched <= now + 1 => sched <= now' + 1
      BY <2>1
    <2> QED BY <1>2, <2>2 DEF Covered
  <1> QED BY <1>3, <1>4 DEF Covered

\* arm() sets the schedule, unless what is due is overdue.
LEMMA CoveredArmed ==
  ASSUME TypeOK, NEW STATE p, p \in Pending \cup {None}, NEW STATE d, d.ends \in Nat, Arm(p, d),
         pending' = p, desk'.ends = d.ends, now' = now,
         p # None /\ p.expires <= now => TwoAsked'
  PROVE  Covered'
  <1>1. /\ sched' # None => sched' > now /\ sched' <= d.ends /\ (p # None => sched' <= p.expires)
        /\ sched' = None => d.ends <= now \/ (p # None /\ p.expires <= now)
    BY Armed
  <1>2. SUFFICES ASSUME Live' PROVE Covered'
    BY DEF Covered
  <1>3. ~ (d.ends <= now)
    BY <1>2 DEF Live, TypeOK
  <1> QED BY <1>1, <1>3 DEF Covered

\* The call that still waits is another one than the call that was answered.
LEMMA AnotherWaits ==
  ASSUME TypeOK, Papers, AskedFirst, NEW w \in Workers, stmt[w] # None, stmt[w].op = "outcome",
         Dropped(stmt[w].id) # None, verdict' = verdict
  PROVE  TwoAsked'
  <1>1. pending # None /\ pending.id # stmt[w].id /\ pending.id \in Calls
    BY DroppedTyped DEF TypeOK, Pending
  <1>2. stmt[w].id \in Calls
    BY Outcome
  <1>3. verdict'[pending.id] = "ask" /\ verdict'[stmt[w].id] = "ask"
    BY <1>1 DEF AskedFirst, Asked
  <1> QED BY <1>1, <1>2, <1>3 DEF TwoAsked

LEMMA CoveredNext ==
  ASSUME TypeOK, Papers, Before, AskedFirst, Decisions, Covered, Step
  PROVE  Covered'
  <1>1. CASE Start
    <2>1. sched' = None /\ ~ cookie'
      BY <1>1, StartMoves DEF Start, Before
    <2> QED BY <2>1 DEF Covered
  <1>2. CASE Started
    <2>1. pending = None
      BY <1>2, StartedMoves DEF Before
    <2>2. CASE desk' = Closed
      BY <2>2, CoveredClosed DEF Closed
    <2>3. CASE desk' # Closed
      <3>1. Arm(pending, desk) /\ desk' = desk /\ pending' = pending /\ now' = now
        BY <1>2, <2>3 DEF Started
      <3>2. desk.ends \in Nat
        BY DEF TypeOK
      <3> QED BY <2>1, <3>1, <3>2, CoveredArmed
    <2> QED BY <2>2, <2>3
  <1>3. CASE Defers
    <2>1. sched' = now' + 1 /\ sched' # None
      BY <1>3, Consts DEF Defers, Outside, TypeOK
    <2>2. sched' \in Nat /\ now' \in Nat
      BY <1>3 DEF Defers, Outside, TypeOK
    <2>3. \A n, t \in Nat : t = n + 1 => t <= n + 1
      OBVIOUS
    <2>4. sched' <= now' + 1
      BY <2>1, <2>2, <2>3
    <2> QED BY <2>1, <2>4 DEF Covered
  <1>4. CASE Overdue
    BY <1>4, CoveredKept DEF Overdue, TwoAsked, history, Outside
  <1>5. CASE Rested
    <2>1. pending' = pending /\ desk' = desk /\ now' = now /\ pending \in Pending \cup {None} /\ desk.ends \in Nat
      BY <1>5 DEF Rested, Through, Outside, TypeOK
    <2>2. CASE Live
      BY <1>5, <2>1, <2>2, CoveredArmed DEF Rested, Through
    <2>3. CASE ~ Live
      BY <2>1, <2>3 DEF Covered, Live
    <2> QED BY <2>2, <2>3
  <1>6. CASE Expired
    <2> DEFINE p == Dropped(stmt[Alarm].id)
    <2>1. /\ stmt[Alarm] # None /\ stmt[Alarm].op = "outcome" /\ Alarm \in Workers
          /\ pending' = p /\ desk' = desk /\ now' = now /\ verdict' = verdict
          /\ p \in Pending \cup {None} /\ desk.ends \in Nat
      BY <1>6, ExpiredData, DroppedTyped DEF Outside, history, Workers, TypeOK
    <2>2. p # None => TwoAsked'
      BY <2>1, AnotherWaits
    <2>3. Live => Arm(p, desk)
      BY <1>6, ExpiredData
    <2> HIDE DEF p
    <2>4. CASE Live
      BY <2>1, <2>2, <2>3, <2>4, CoveredArmed
    <2>5. CASE ~ Live
      BY <2>1, <2>5 DEF Covered, Live
    <2> QED BY <2>4, <2>5
  <1>7. CASE Gone
    BY <1>7, CoveredClosed DEF Gone, Destroy, Closed
  <1>8. ASSUME NEW w \in Clicks \cup {Alarm}, Cleared(w) PROVE Covered'
    BY <1>8, CoveredClosed DEF Cleared, Closed
  <1>9. ASSUME NEW w \in Clicks \cup {Alarm}, PurgesOn(w) PROVE Covered'
    BY <1>9, CoveredKept DEF PurgesOn, TwoAsked, history, Outside, object
  <1>10. ASSUME NEW k \in Calls, Chat(k) PROVE Covered'
    BY <1>10, CoveredKept DEF Chat, TwoAsked, history
  <1>11. ASSUME NEW k \in Calls, ChatAnswered(k) PROVE Covered'
    <2>1. desk'.open = desk.open /\ desk'.ends = desk.ends
      BY <1>11 DEF ChatAnswered, TypeOK
    <2> QED BY <1>11, <2>1, CoveredKept DEF ChatAnswered, TwoAsked, history
  <1>12. ASSUME NEW k \in Calls, ChatJudged(k) PROVE Covered'
    <2>1. verdict[k] = "none"
      BY <1>12, ChatJudgedMoves DEF Decisions, Decision
    <2>2. \A d \in Calls : verdict[d] = "ask" => verdict'[d] = "ask"
      BY <1>12, <2>1 DEF ChatJudged, TypeOK
    <2>3. TwoAsked => TwoAsked'
      BY <2>2 DEF TwoAsked
    <2> QED BY <1>12, <2>3, CoveredKept DEF ChatJudged, object
  <1>13. ASSUME NEW k \in Calls, ChatLogged(k) PROVE Covered'
    <2>1. PICK turn, call :
            /\ turn.open = desk.open /\ turn.ends = desk.ends
            /\ call \in Pending /\ call.expires = now + PendingTtl
            /\ Logged(k, turn, call)
      BY <1>13, ChatLoggedData
    <2>2. /\ desk'.open = desk.open /\ desk'.ends = desk.ends /\ turn.ends \in Nat
          /\ now' = now /\ cookie' = cookie /\ verdict' = verdict
      BY <2>1 DEF Logged, TypeOK
    <2>3. CASE reply[k] = "ok" /\ verdict[k] = "ask"
      <3>1. pending' = call /\ Arm(call, turn)
        BY <2>1, <2>3 DEF Logged
      <3>2. ~ (call.expires <= now)
        BY <2>1, Consts DEF TypeOK
      <3> QED BY <2>1, <2>2, <3>1, <3>2, CoveredArmed
    <2>4. CASE ~ (reply[k] = "ok" /\ verdict[k] = "ask")
      BY <2>1, <2>2, <2>4, CoveredKept DEF Logged, TwoAsked
    <2> QED BY <2>3, <2>4
  <1>14. ASSUME NEW k \in Calls \cup Clicks, Closing(k) PROVE Covered'
    BY <1>14, CoveredKept DEF Closing, TwoAsked, history
  <1>15. ASSUME NEW k \in Clicks, Asks(k) \/ Heeds(k) PROVE Covered'
    BY <1>15, CoveredKept DEF Asks, Heeds, Outside, TwoAsked, history, object
  <1>16. ASSUME NEW k \in Clicks, OutcomeRecorded(k) PROVE Covered'
    <2> DEFINE p == Dropped(stmt[k].id)
    <2>1. /\ stmt[k] # None /\ stmt[k].op = "outcome" /\ k \in Workers /\ Settled(k, stmt[k].id)
          /\ p \in Pending \cup {None} /\ desk.ends \in Nat /\ p \in {pending, None}
      BY <1>16, OutcomeRecordedData, DroppedTyped DEF Workers, TypeOK
    <2>2. desk' = desk /\ now' = now /\ verdict' = verdict /\ cookie' = cookie
      BY <2>1 DEF Settled
    <2>3. CASE reply[k] = "ok"
      <3>1. pending' = p /\ Arm(p, desk)
        BY <2>1, <2>3 DEF Settled
      <3>2. p # None => TwoAsked'
        BY <2>1, <2>2, AnotherWaits
      <3> HIDE DEF p
      <3> QED BY <2>1, <2>2, <3>1, <3>2, CoveredArmed
    <2>4. CASE reply[k] # "ok"
      <3>1. pending' \in {pending, None} /\ sched' = sched
        BY <2>1, <2>4 DEF Settled
      <3> QED BY <2>2, <3>1, CoveredKept DEF TwoAsked
    <2> QED BY <2>3, <2>4
  <1>17. ASSUME NEW k \in Clicks, PendingExpired(k) PROVE Covered'
    <2> DEFINE p == Dropped(stmt[k].id)
    <2>1. /\ stmt[k] # None /\ stmt[k].op = "outcome" /\ k \in Workers
          /\ pending' = p /\ Arm(p, desk) /\ desk' = desk /\ now' = now /\ verdict' = verdict
          /\ p \in Pending \cup {None} /\ desk.ends \in Nat
      BY <1>17, PendingExpiredData, DroppedTyped DEF Outside, history, Workers, TypeOK
    <2>2. p # None => TwoAsked'
      BY <2>1, AnotherWaits
    <2> HIDE DEF p
    <2> QED BY <2>1, <2>2, CoveredArmed
  <1>18. ASSUME NEW k \in Clicks, NEW o \in {"approve", "deny"}, Resolve(k, o) PROVE Covered'
    BY <1>18, CoveredKept DEF Resolve, TwoAsked, history
  <1>19. ASSUME NEW w \in Workers, Execute(w) \/ ExecuteFails(w) PROVE Covered'
    <2>1. PICK answer \in {"ok", "no", "error"} : Told(w, answer)
      BY <1>19, ExecuteMoves
    <2> QED BY <2>1, CoveredKept DEF Told, object, TwoAsked
  <1>20. CASE Evict
    BY <1>20, CoveredKept DEF Evict, TwoAsked, history
  <1>21. CASE Cron \/ Tick \/ UNCHANGED vars
    BY <1>21, CoveredKept DEF Cron, Tick, vars, TwoAsked, history, object
  <1> QED
    BY <1>1, <1>2, <1>3, <1>4, <1>5, <1>6, <1>7, <1>8, <1>9, <1>10, <1>11, <1>12, <1>13, <1>14,
       <1>15, <1>16, <1>17, <1>18, <1>19, <1>20, <1>21 DEF Step

-----------------------------------------------------------------------------
(* The invariant *)

\* A failure is not forgotten.
LEMMA FailuresStay ==
  ASSUME TypeOK, Papers, Step, faults' = 0
  PROVE  faults = 0
  <1>1. faults' \in {faults, faults + 1}
    <2>1. CASE Start \/ Started \/ Defers \/ Overdue \/ Rested \/ Expired \/ Gone
      BY <2>1 DEF Start, Started, Defers, Overdue, Rested, Expired, Gone, Through, Outside
    <2>2. ASSUME NEW w \in Clicks \cup {Alarm}, Cleared(w) \/ PurgesOn(w)
          PROVE  faults' \in {faults, faults + 1}
      BY <2>2 DEF Cleared, PurgesOn, Outside
    <2>3. ASSUME NEW k \in Calls, Chat(k) \/ ChatAnswered(k) \/ ChatJudged(k) \/ ChatLogged(k)
          PROVE  faults' \in {faults, faults + 1}
      BY <2>3 DEF Chat, ChatAnswered, ChatJudged, ChatLogged
    <2>4. ASSUME NEW k \in Calls \cup Clicks, Closing(k)
          PROVE  faults' \in {faults, faults + 1}
      BY <2>4 DEF Closing
    <2>5. ASSUME NEW k \in Clicks,
                 Asks(k) \/ Heeds(k) \/ OutcomeRecorded(k) \/ PendingExpired(k)
          PROVE  faults' \in {faults, faults + 1}
      BY <2>5 DEF Asks, Heeds, Outside, OutcomeRecorded, PendingExpired
    <2>6. ASSUME NEW k \in Clicks, NEW o \in {"approve", "deny"}, Resolve(k, o)
          PROVE  faults' \in {faults, faults + 1}
      BY <2>6 DEF Resolve
    <2>7. ASSUME NEW w \in Workers, Execute(w) \/ ExecuteFails(w)
          PROVE  faults' \in {faults, faults + 1}
      BY <2>7 DEF Execute, ExecuteFails
    <2>8. CASE Evict \/ Cron \/ Tick \/ UNCHANGED vars
      BY <2>8 DEF Evict, Cron, Tick, vars
    <2> QED BY <2>1, <2>2, <2>3, <2>4, <2>5, <2>6, <2>7, <2>8 DEF Step
  <1> QED BY <1>1 DEF TypeOK

LEMMA InOrderNext ==
  ASSUME TypeOK, Papers, OneAtATime, AskedFirst, Decisions, InOrder, Step
  PROVE  InOrder'
  <1>1. SUFFICES ASSUME faults' = 0 PROVE Ordered'
    BY DEF InOrder, Ordered
  <1>2. Ordered
    BY <1>1, FailuresStay DEF InOrder, Ordered
  <1> QED BY <1>1, <1>2, OrderedNext

LEMMA InitIInv == Init => IInv
  <1> SUFFICES ASSUME Init PROVE IInv
    OBVIOUS
  <1>1. TypeOK
    <2>1. desk \in [open : BOOLEAN, ends : Nat, turns : 0..TurnLimit]
      BY ClosedTyped DEF Init
    <2>2. now \in Nat /\ faults \in Nat /\ {firing, busy, cookie} \subseteq BOOLEAN
      BY DEF Init
    <2>3. pc \in [Workers -> Places] /\ stmt \in [Workers -> Statement \cup {None}]
      BY DEF Init, Places, Resting
    <2>4. /\ reply \in [Workers -> {"none", "ok", "no", "error"}]
          /\ card \in [Calls -> Outcomes \cup {"gone", "none"}]
          /\ log \in [Calls -> LogRow \cup {None}]
      BY DEF Init
    <2>5. /\ verdict \in [Calls -> {"none", "allow", "deny", "ask"}]
          /\ recorded \in [Calls -> Outcomes \cup {"unlogged", "none"}]
          /\ ran \in [Calls -> Nat]
      BY DEF Init
    <2>6. /\ sched \in Nat \cup {None} /\ row \in Nat \cup {None} /\ pending \in Pending \cup {None}
          /\ sweep \in [next : {"row", "stale"}, at : Nat] \cup {None}
      BY DEF Init
    <2> QED BY <2>1, <2>2, <2>3, <2>4, <2>5, <2>6 DEF TypeOK
  <1>2. Papers
    BY DEF Init, Papers, Proper, Workers, Once, Sending
  <1>3. OneAtATime /\ RoomLeft /\ Before /\ Shut
    BY DEF Init, OneAtATime, InTurn, RoomLeft, Before, Shut, Closed, Workers
  <1>4. AskedFirst /\ Heard /\ Owned
    BY DEF Init, AskedFirst, Heard, HeardAt, Owned, Closed, Workers
  <1>5. Decisions
    BY DEF Init, Decisions, Decision, Outcomes, Workers
  <1>6. Orphans /\ NeverBoth /\ Expiring /\ Answering
    BY DEF Init, Orphans, NeverBoth, Expiring, Expiry, Answering, Answer
  <1>7. Covered /\ RanOnlyWhenAllowed /\ CardMatchesAudit
    BY DEF Init, Covered, Live, Closed, RanOnlyWhenAllowed, CardMatchesAudit
  <1> QED BY <1>1, <1>2, <1>3, <1>4, <1>5, <1>6, <1>7 DEF IInv, InOrder

LEMMA NextIInv == IInv /\ [Next]_vars => IInv'
  <1> SUFFICES ASSUME IInv, [Next]_vars PROVE IInv'
    OBVIOUS
  <1>1. /\ TypeOK /\ Papers /\ OneAtATime /\ RoomLeft /\ Before /\ Shut
        /\ AskedFirst /\ Decisions /\ Heard /\ Owned /\ InOrder /\ Covered
        /\ RanOnlyWhenAllowed /\ CardMatchesAudit
    BY DEF IInv
  <1>2. Step
    BY <1>1, Steps
  <1>3. TypeOK' /\ Papers'
    <2>1. Papers' /\ Handlers' /\ Shared'
      BY <1>1, <1>2, PapersNext, SharedNext
    <2> QED BY <2>1 DEF TypeOK, Handlers, Shared
  <1>4. OneAtATime' /\ RoomLeft' /\ Before' /\ Shut'
    BY <1>1, <1>2, TurnsNext, RoomNext, BeforeNext, ShutNext
  <1>5. Decisions'
    <2>1. ASSUME NEW d \in Calls PROVE Decision(d)'
      BY <1>1, <1>2, DecisionNext DEF Decisions
    <2> QED BY <2>1 DEF Decisions
  <1>6. AskedFirst' /\ Heard' /\ Owned'
    BY <1>1, <1>2, AskedFirstNext, HeardNext, OwnedNext
  <1>7. InOrder' /\ Covered'
    BY <1>1, <1>2, InOrderNext, CoveredNext
  <1>8. RanOnlyWhenAllowed' /\ CardMatchesAudit'
    BY <1>1, <1>2, RanNext, CardsNext
  <1> QED BY <1>3, <1>4, <1>5, <1>6, <1>7, <1>8 DEF IInv

LEMMA IInvCorrect == Spec => []IInv
  BY InitIInv, NextIInv, PTL DEF Spec

-----------------------------------------------------------------------------
(* What the desk promises *)

\* The state of the desk, its handlers and its rows have their types; the turns
\* stay within the limit although chat() checks them before it awaits the model
\* and counts the turn afterwards.
THEOREM TypeCorrect == Spec => []TypeOK
  <1>1. IInv => TypeOK
    BY DEF IInv
  <1> QED BY <1>1, IInvCorrect, PTL

\* #busy is up exactly while one chat or answered call is under way, whatever
\* other handlers, failures and evictions come between its awaits.
THEOREM OneTurnCorrect == Spec => []OneTurn
  <1>1. ASSUME IInv PROVE OneTurn
    <2> DEFINE turns == {k \in Workers : pc[k] \in {"plan", "insert", "outcome", "closing"}}
    <2>1. /\ \A v, w \in turns : v = w
          /\ busy <=> turns # {}
      BY <1>1 DEF IInv, OneAtATime, InTurn
    <2>2. CASE busy
      <3>1. PICK w : w \in turns
        BY <2>1, <2>2
      <3>2. turns = {w}
        BY <2>1, <3>1
      <3>3. Cardinality(turns) = 1
        BY <3>2, FS_Singleton
      <3> QED BY <2>2, <3>3 DEF OneTurn
    <2>3. CASE ~ busy
      <3>1. Cardinality(turns) = 0
        BY <2>1, <2>3, FS_EmptySet
      <3> QED BY <2>3, <3>1 DEF OneTurn
    <2> QED BY <2>2, <2>3
  <1> QED BY <1>1, IInvCorrect, PTL

\* A tool runs at most once, after its verdict is logged, and a call that waited
\* for a person only after the log holds the approval.
THEOREM RanOnlyWhenAllowedCorrect == Spec => []RanOnlyWhenAllowed
  <1>1. IInv => RanOnlyWhenAllowed
    BY DEF IInv
  <1> QED BY <1>1, IInvCorrect, PTL

\* A card shows what the audit row says the person answered; "expired" can be
\* shown without being logged only after a failure or a purge of the row.
THEOREM CardMatchesAuditCorrect == Spec => []CardMatchesAudit
  <1>1. IInv => CardMatchesAudit
    BY DEF IInv
  <1> QED BY <1>1, IInvCorrect, PTL

\* While a session lasts and no handler runs, arm() has left a schedule no later
\* than what is due next, as long as only one call has waited for a person.
THEOREM AlarmCoversCorrect == Spec => []AlarmCovers
  <1>1. ASSUME IInv PROVE AlarmCovers
    BY <1>1 DEF IInv, Covered, TwoAsked, AlarmCovers
  <1> QED BY <1>1, IInvCorrect, PTL

=============================================================================

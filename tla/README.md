# Verification of tech-demos

This directory holds TLA+ models of the programs in this repository that keep
state under concurrency, the TLC configurations that check them on small
instances, and TLAPS proofs for every value of the constants.

The repository is a hub and some two dozen independent Workers. Four of them
have a core that is an algorithm over shared state: **r2-drive**, a WebDAV drive
that exists for an hour and lives in three stores at once; **melody-auth**, whose
codes and refresh tokens are spent by requests that race in D1; **clef-gate**, a
Durable Object that lets a person approve a tool call before it runs; and
**pairlane**, a Durable Object that introduces two browsers over sockets that
outlive its memory. The modules are about these. The [inventory](#inventory) names every part,
the [plan](#plan) says what comes next.

## Inventory

### r2-drive (`src/demos/r2-drive`)

| part | state it keeps | operations | how it meets the others |
|---|---|---|---|
| lock table (`locks.ts`) | rows of SQLite: token, path, scope, depth, expiry | get, put, remove, list, count; `assertWritable`, `descendantBlocks`, `parseTimeout` | called by every mutating handler |
| WebDAV handlers (`webdav.ts`) | none of their own | GET, PUT, DELETE, MKCOL, PROPFIND, PROPPATCH, COPY, MOVE, LOCK, UNLOCK | locks, `GuardedBucket`, `takeUnits` |
| quota (`quota.ts`) | one SQLite row: bytes, files | `apply`, `GuardedBucket.put`, `GuardedBucket.delete` | R2 through `PrefixBucket`, the audit row in D1 |
| request budget (`requests.ts`) | one SQLite row: units used | `takeUnits` | `DriveObject.fetch`, `transfer` |
| mutex (`drive-session.ts`) | a chain of promises, `closed` | `handle`, `seal` | around every mutating handler, and the wipe |
| Durable Object (`drive.ts`, `drive-wipe.ts`) | `expiresAt`, the alarm, the current `DriveSession` | `schedule`, `deferAlarm`, `alarm`, `wipe`, `fetch` | D1, R2, the router by RPC |
| router (`router.ts`) | none | mint, verify, report, admin, session, DAV entry, `wipeDrive`, `wipeExpired` | D1, R2, the object |
| D1 (`repo.ts`) | drives, verifications, blocks, daily counters, audit rows | one statement per call | everything above |
| live log (`sockets.ts`) | sockets | hello, broadcast, close | `DriveObject` |

Hard behaviours: R2, D1 and the object's SQLite share no transaction; every
`await` lets another request in; the object may be evicted; four kinds of
processes wipe (alarm, cron, a request that touches an old drive, an operator);
a freeze may land at any point of a wipe; calls fail half way through a COPY.

What makes the parts correct:

- locks: one row per token, an exclusive lock is alone on its path, the caps
  hold, no lock outlives the drive by a second, nobody writes what someone else
  has locked, and nobody but its holder ends a live lock;
- quota: the counter equals what is stored between requests, the caps hold at
  every moment, what fails leaves no trace, every request is answered;
- lifecycle: a drive is wiped only when it is due or released, is empty for ever
  afterwards, keeps the time of its first freeze, keeps frozen evidence, and is
  wiped in the end;
- minting: one drive per email that is not wiped, one use per link, daily caps.

### melody-auth (`src/demos/melody-auth`)

| part | state it keeps | operations | how it meets the others |
|---|---|---|---|
| rows of D1 (`db.ts`, `store.ts`) | authorization codes, device grants, refresh tokens with their family, users | one statement or one batch per call | the only state the requests share |
| token endpoint (`grants.ts`) | none | redeem a code, rotate a refresh token, poll a device code | several statements per request, any other request in between |
| revocation, device pages (`device.ts`) | none | revoke a family, approve or deny a device | the same rows |
| federation (`userForFederation`) | none | hand an unverified account to the provider's user, dropping its grants | the same rows |
| cron | none | `purgeExpired`, one batch | the same rows |

Hard behaviours: a code or a token is read in one statement and spent in a later
one; a family is attached to its code only after it exists; a purge, a denial, a
revocation or a dead request may come at any of these points. What makes it
correct: a grant is spent once, never after its denial, and starts one family at
most; a family never has two tokens that can be rotated; who presents a spent
token ends the whole family, and a family that has ended stays so.

### clef-gate (`src/demos/clef-gate`)

| part | state it keeps | operations | how it meets the others |
|---|---|---|---|
| desk (`agent.ts`) | session, turns, one pending call, the schedule, `#busy`, the transcript | start, chat, resolve, view, setModel, forget, reclaim, expire | models over HTTP, audit log over D1 |
| audit log (`audit.ts`) | sessions and decisions in D1 | insert, set the human outcome, purge | the desk and the cron |
| Worker (`api.ts`, `index.ts`) | a cookie | routes to the desk, hourly purge | the desk, D1 |
| gate (`session.ts`, policies, planner) | none | verdicts, windows | called by chat |

Hard behaviours: while a handler waits for a model or for D1 other handlers of
the same object run; a person answers a call that expires at the same moment; an
update of the log takes effect and its answer is lost; the object restarts; a
session is cleared under a running turn. What makes it correct: a tool runs once
and only when the log says so, turns do not overlap, the card a person sees
agrees with the log, the schedule is set while anything waits, and what a session
wrote is purged.

### pairlane (`src/demos/pairlane`)

| part | state it keeps | operations | how it meets the others |
|---|---|---|---|
| room (`room.ts`, `admit.ts`) | in storage: creator, end, tape, line number; in memory: a copy and the lines not yet stored; on each socket: browser, role, budget, `silent` | create, fetch (join), message, close, error, alarm | the browsers over hibernating WebSockets |
| page (`app.ts`, `peer.ts`, `file.ts`) | role, the lines it shows, a WebRTC session | join, offer, answer, candidates, the file | the room, the other page |
| Worker (`api.ts`, `index.ts`) | none | create a room, connect | the room, the cap |
| daily cap (`cap-do.ts`, `cap.ts`) | rooms of the day, known ids | claim, refund, note, forget, known | the Worker |

Hard behaviours: a socket that is closed reports it later, and its browser may be
back on another one before; frames sent before the close still arrive; lines of
the tape live in memory until a batch is full, and the object may hibernate first;
the alarm may fail after it has closed everything. What makes it correct: at most
one browser per role, the pages know how many peers there are once things settle,
a signal reaches the other peer, a hibernation loses less than a batch, and the
room ends whoever stays.

### The other demos

| part | state | behaviour worth modelling |
|---|---|---|
| goodvibes, partyserver, edgechat | a room per Durable Object, hibernating sockets, alarms | join, leave and reconnect; rounds and timers; expiry |
| actor-lab | a Durable Object with a mailbox | one message at a time, fields persisted after each |
| cloudflare-os, personal-agent, lake-catalog, tanbase, apollo-desk, ask-the-hub | Durable Objects beside model or search services | approval before a tool runs; reminders; role checks |
| byok-playground, clairic-intake, company-brain, edge-browser, feedlog, memory-repo, omni-judge, repo-per-agent, resolve-hq, temp-email | D1 rows or none | request and response over a service |
| hub, packages/shared, _template, hello-dynamic | none | routing and rendering |

## Modules

| module | models | built on |
|---|---|---|
| `DriveTree` | the objects of a drive as the handlers see them: `PrefixBucket.head`, `listAll`, `hasCollection`, where a COPY puts a member | |
| `DriveLocks` | the lock table and every handler that reads or writes it, one action per handler | `DriveTree` |
| `DriveLocksProofs` | theorems about `DriveLocks` | `DriveLocks`, TLAPS |
| `DriveQuota` | `DriveObject.fetch`, the mutex, `GuardedBucket` and the COPY/MOVE loop, one action per call that may fail | `DriveTree` |
| `DriveQuotaProofs` | theorems about `DriveQuota` | `DriveQuota`, TLAPS |
| `DrivePromise` | what a drive promises, without processes | |
| `DriveLifecycle` | the row, the object, its session and alarm, the writers and the wipes, one action per step between two awaits; shown to implement `DrivePromise` | `DrivePromise` |
| `DriveLifecycleProofs` | theorems about `DriveLifecycle`, the refinement included | `DriveLifecycle`, TLAPS |
| `DriveMint` | mint, verify, the daily counters, links, the unique index, freezes, blocks and the kill switch over the drives of several emails, one action per D1 statement | |
| `DriveMintProofs` | theorems about `DriveMint` | `DriveMint`, TLAPS |
| `DriveMintRowsProofs` | theorems about its table of drives | `DriveMintProofs` |
| `GrantPromise` | what melody-auth promises of a grant and of a family of tokens, without requests | |
| `MelodyGrants` | codes, device codes, refresh tokens and families; every request as its sequence of D1 statements, the purge; shown to implement `GrantPromise` | `GrantPromise` |
| `MelodyGrantsProofs` | theorems about `MelodyGrants` | `MelodyGrants`, TLAPS |
| `GateDesk` | the desk of a session, its handlers between two awaits, its schedule, the D1 statements it sends, the hourly purge, restarts | |
| `GateDeskProofs` | theorems about `GateDesk` | `GateDesk`, TLAPS |
| `PairRoom` | the room of pairlane, one action per handler, with its sockets, its hibernation, its alarm, and what the pages were told | |
| `PairRoomProofs` | theorems about `PairRoom` | `PairRoom`, TLAPS |
| `MC...` | the small instances for TLC | |

### How they correspond to the code

**Paths** are sequences of names; the root of the drive is `<< >>`, the key
`""`. `objects[p]` is what R2 holds under the drive's prefix. As in
`PrefixBucket`, `head` of the root is always absent, even when a COPY to the
drive itself has stored something under the bare prefix. File contents are left
out; sizes appear in `DriveQuota` only.

**DriveLocks.** The handlers run one at a time (`DriveSession.exclusive`), so
each is one atomic action whose guard is the conjunction of the checks the code
makes before it changes anything. A refused request changes nothing and is a
stuttering step, with two exceptions that are actions: a LOCK that has already
stored its empty file, and a COPY or MOVE that stops after some members (`done`).
A request is the set of live tokens it presents. `request` is history for the
properties: the tokens of the last request, every path it wrote, and the
destination of a COPY or MOVE when nothing was stored there (`fresh`): below such
a destination the code checks no lock.

**DriveQuota.** `request[r].phase` follows `DriveObject.fetch`: budget and the
snapshot `before` on arrival, the queue, the handler, the report to D1. `tail`
is the chain of promises; `work` is the handler at its head with what it holds
in local variables. Each of `Reserve`, `Store`, `Audit`, `Undo`, `Restore`,
`CountDelete`, `Delete`, `Drop` ends at an await. `Faults` says which calls may
throw and whether the object may die; a call that throws has had no effect. `Crash`
forgets the tail, the handler and the requests and keeps what is in SQLite, R2 and
D1; a call that was under way has had its effect by then or never has. `flaw` is
history. A failed compensation, or a crash in the middle of a put, leaves a
reservation behind ("leak"), and so does an object copied onto the drive itself,
which is counted again whenever it is overwritten and not counted when it is
deleted. A MOVE whose source stays, and a crash after a deletion was counted, leave
objects the counter does not know of ("uncounted"). The bytes of a set of objects
are counted one by one, as the number of the pairs of an object and one of its bytes
(`Bytes`). `ReadDone` is the end of `DriveObject.fetch` for a request that changes
nothing: the second snapshot and whether usage is reported.

**DriveLifecycle.** Time counts from the insertion of the row. A wiper takes the
steps *look* (the row, and the time, in the order of the caller), *call* (the
RPC), *sealing* (queued behind writes), *clear* (`deletePrefix`), *mark*
(`markWiped`), *erase* (`deleteAll`, `session = null`), and for the Worker
*clear again* and *mark again*. Sessions are objects with identity because a
write keeps the one it was queued on. `unsealed` is history: a release found no
session, or could not erase the object, so clients may go on writing.

**DriveMint.** The tables of D1 are the state; `req[r]` is where a request to
`/api/mint` or `/api/verify` is and what it holds in local variables. A step is
one statement, or one call of the mail service, with the code from there to the
next await. The lookups that both handlers make are one action each; `Minters`
and `Verifiers` tell them apart where the code does: a mint goes on to the email
counter, a verify to the insertion, and a mint reads the date in the middle, a
verify before it is counted. `takeVerification` is two steps, `Select` and
`claim`. `sendEmail` may deliver and still report a failure. `order` and `lift`
stand for `/api/admin/mint`, `/api/admin/block` and `/api/admin/unblock`; with
`freeze` they also make up a report. `wipe` keeps of `wipeDrive` only the row it
marks, the rest is `DriveLifecycle`; `markWiped` is any other wiper, which may
mark any drive at any time, as an operator's release of an active drive does
(`router.ts:420-427`). `Dies` is a
failed statement, a rate limit that refuses (`deps.limit`), or a Worker that is
gone. Two parts are history and no guard reads them: `bars`, the orders against
a request in force ever since it came, and `sent`, the messages the service
accepted. `delivered` says whether anybody has the link. The rows of `drives` keep
the day their mint was counted on.

**MelodyGrants.** The tables of D1 are the state; `pc[r]` is the next statement
of a request, `at[r]` the clock it read when it started, `arg[r]` the code or
token it was sent, `fam[r]` the family it read or started. A step is one
statement or one batch (`DB.batch` is a transaction) with the code up to the next
await. `claimCode` is the update; `Replayed` the read that a lost claim makes,
`Claimed` the checks and the lookup of the user after a won one, `issueRefresh`
and `attachCodeFamily` the two statements that follow. A refused request rests.
A family is named by the number of its first token instead of a random UUID.
`purgeExpired` is the cron's batch; it takes an expired user's codes and tokens
with the user's row and none once that row is gone. `LockAccount` is the batch of
`userForFederation`. `known`, `root`, `spent` and `reused` are history: the
grants ever made, the grant a family came from, whether a request has seen that
what it presented was spent, and the families such a request was answered for.

**GateDesk.** `desk`, `pending` and `sched` are what the object persists, `busy`
and `firing` what it holds in memory, `card` the outcomes on the transcript's
cards. A D1 statement takes three steps: the handler sends it (`stmt`), D1
executes it (`Execute`), or fails before or after it took effect
(`ExecuteFails`), and the handler resumes (`Resumes`). Between them any other
handler runs, as the runtime lets events in while the object awaits D1 or a
model. `schedule()` and `cancelSchedule()` touch the object's storage only,
which lets nothing in, so `Arm` is part of the step that calls it. `destroy()`
of the agents library aborts the object: `Destroy` ends every handler, the
statements already sent stay. `Evict` does the same without erasing. `reclaim()`
is two steps when the desk still knows its session: the Worker has found no live
row, the desk asks D1 again (`Reclaim`), and destroys itself if the answer is the
same (`Reclaimed`); other handlers run between the two. The planner
and the gate are a nondeterministic verdict. A purge that would delete nothing
is left out, and the clock starts once the session's first handler has ended.
`TURN_LIMIT` (16) is below `SESSION_CAP` (60), so the audit log's own pruning
never deletes a row of a running session and is left out. `verdict`, `recorded`
and `ran` are history.

**PairRoom.** Time counts from the creation. A handler waits only for storage and
for `blockConcurrencyWhile`, and the runtime lets no other event in during either,
so a handler is one action, except that `fetch` and `webSocketClose` call
`announce` after `note` has let go: `owed` counts the handlers that stand there.
`cached` and `stored` are `meta` in memory and in storage; of the tape only the
line number is kept, since a line says nothing to any property. `ws[s]` is the
ready state of a socket and its attachment. Sockets deliver in order, so what a
page was told (`told`) and which lines it shows (`seen`) are set when the object
sends; both are dropped with the socket. `FrameCloses` stands for every way in
which a frame has its socket closed (expired, binary, too large, over the budget,
bad for the fifth time); whether the budget is used up is a choice. A bad frame
that is let pass, a signal without a partner and a request that is refused change
nothing. `Hibernate` needs every handler to have ended and forgets the memory.
Sockets are interchangeable and used once, so `fetch` takes any that is unused.
A room id is eight random characters of 31 and `CreateCap.note` refuses a
known one, so no room is created twice: `LastCreate` lets it happen at time 0
only. Storage may fail in three places: `setAlarm` after the `put` of `create`
(`CreateStops`: the Worker has the cap forget the id, so no browser gets in,
`forgotten`), the `put` of `note` (`PutFails`: an exception in
`blockConcurrencyWhile` ends the object, whose sockets and memory go with it), and
`deleteAll` of the alarm (`AlarmFails`). `missed`, `lost` and `handed` are history;
`handed` is the signal that the last step delivered: from which socket, to which,
and whether its sender's socket was live when the frame came.

## Runs

| run | question | bounds |
|---|---|---|
| `locks_table` | do the lock table, its caps and its expiry survive every sequence of requests? | a folder and its member, 3 tokens, 2 locks, 2 shared, timeouts longer than the drive's rest; 2 ticks to a second so that rounding shows |
| `locks_guard` | do COPY, MOVE and DELETE between trees respect exclusive locks, but for those left below a fresh destination? | two folders with a member each, 2 tokens |
| `quota_faults` | does the counter survive failures and a crash at every call, with a second request queued or reading? | two folders with members, the drive itself a destination too, sizes 1 and 2 under a cap of 2, 3 files, 2 units |
| `lifecycle` | does a drive keep its promise, does its alarm never get lost, is it wiped and every write answered in the end? | one drive, 1 writer, the alarm and one more wiper that is now the cron and now a request, 4 sessions, one failure |
| `lifecycle_frozen` | *violated*: is frozen evidence kept for 30 days? | no failure |
| `lifecycle_orphan` | *violated*: is a wiped drive empty? | no failure |
| `mint_mail` | how far can messages exceed the daily cap, and does a slow request wipe a drive that has been replaced, while others wipe and release? | 2 mints, 1 verify, one email, a cap of one message, 3 links, one death |
| `mint_link` | does a link work once, has an email one drive, do the day's cap and the orders of operators hold? | 1 mint, 2 verifies, one email, 2 links, one drive per day and two days, one frozen drive, orders about minting and a network, no death (a request that dies does nothing that one which waits for ever does not do) |
| `melody_grants` | do the tables keep what `GrantPromise` says, does rotation leave one live token, does reuse end a family? | one grant, a code or a device code, 2 requests at a time, 3 tokens, lifetimes of one tick, 2 ticks, requests that take up to 2 |
| `gate_turns` | do tools run as the log allows, do turns exclude each other, does the schedule hold, does a waiting call end, is every row purged? | one chat, 2 other requests at a time, sessions of 2 ticks, a window of 1, one restart or failed statement |
| `pair_room` | do seats, peer counts, signals and the tape survive joins, reloads, cut-offs, hibernation and failing storage, and does every room end? | 3 browsers, one of which opens the room, 3 sockets, one room, a batch and a tape of 2 lines, signals up to line 4, one call of storage that fails |
| `gate_freed` | *violated*: is the desk freed in the end? | one chat, one other request, no fault |

Why the bounds are enough: a lock conflict needs two clients, two levels and one
row in the way, a cap needs one row more than it allows; the third token lets a
table at its cap be asked for another lock. A quota error needs one request in
the handler and one to overlap with it; sizes 1 and 2 make a put grow, shrink or
overflow the cap. A lifecycle race needs one wiper that has decided and one
process that changes what it decided on; the one writer may come again, so a
write can be in flight, wait behind the seal, or arrive at a new session. The
second wiper changes its kind between wipes, and a cron and a request that wipe
at the same time take the same steps. Ttl and Keep of one tick put a decision
before, at and after the time. A mint race needs two requests of one email: two
mints for the email cap, two verifies for the link, the index and the mint cap;
`DayLength` of one tick lets midnight pass between any two steps, and a drive or
a link is over after one tick. Several emails never meet except in the two
counters, which one email fills as well. `MaxLinks`, `MaxFrozen`, `MaxDeaths`,
`LastFreeze`, `MaxTime` and `MaxFaults` only bound the search; `MaxTime` is late
enough for the last frozen drive to be due.

In `melody_grants` a race needs two requests of one grant or family, and three
tokens make a family, its child and one more: two redemptions, two rotations of
one token, a rotation beside a replay, a revocation or a purge. Two grants share
no row except the user's. In `gate_turns` a race needs one turn and two other
requests (a click, and a clearing or a second click) beside the schedule and the
cron; the window ends in the middle of the session, and `LastTurn` and `MaxTime`
leave a tick after its end for the purge. A second
call matters to two properties only. `AlarmCovers` is proved for any number. For
`WaitingEnds` the second call is in danger from the late answer of the first; that
was checked once with 2 calls, 1 click, a session of 3 ticks, a window of 1,
`LastTurn` 3, `MaxTime` 4 and no fault (642 000 states, no error), which is not
among the runs. In `pair_room` three browsers are the
two peers and one that is turned away or takes a free seat, three sockets let a
browser be back while its old socket is closing beside a partner; a batch of 2
can be left half full, a tape of 2 forgets a line, and `MaxLines` (4) lets lines
be lost and given out again. Which browser opens the room makes no difference to
the code, so `Creators` has one.

`locks_*` use symmetry under permutation of tokens or folders, `mint_*` under
permutation of mints and of verifies, `melody_grants` of requests, and none of
them checks liveness; `VIEW WithoutRequest` drops the history variable, which no guard
reads; `VIEW WithoutUnused` forgets whether a session nobody refers to was
closed, which `Arrive` resets. `CHECK_DEADLOCK FALSE` appears where the system
stops by itself: the drive has expired, its units are used up, its links are
used, or time has ended.

### What the violated runs show

- `lifecycle_frozen`: a wipe decides on a row and then acts, without a look at
  the row in between; a report or an admin freeze that lands after the decision
  does not stop it. `SAFETY.md:58` promises `frozen_at` plus 30 days.
- `lifecycle_orphan`: `DriveObject.wipe` seals only a session that exists. A
  release of a drive whose object was just loaded, with a PUT already past the
  router, leaves an object in a wiped drive. `SAFETY.md:14` promises that a wipe
  waits for the write in flight and that later ones get 410.
- `gate_freed`: a turn that is still running when its session ends makes
  `expire()` put itself off; the call it then logs makes `arm()` cancel the new
  schedule and set none, since the end is past. The object keeps its storage
  until the browser comes back. `README.md:109` of clef-gate says the schedule
  deletes it. The same lines of `arm()` act in a second way, seen without a run: when
  D1 answers the "expired" of an earlier call later than the whole window of the next
  one, `arm()` finds that one overdue and leaves it without a schedule until somebody
  acts. `AlarmCovers` names this exception (two calls have waited) and `WaitingEnds`
  asks for a schedule.

Also seen, without a run: a `COPY` that names the drive itself as its destination
(`destinationKey`, `paths.ts:83`) stores its first member under the bare prefix,
where `head` never finds it, and fails at the second; repeating it counts an object
twice, although `review.test.ts:49` says a failed collection copy leaves the quota
equal to the stored bytes (`quota_faults` makes such copies; `flaw` remembers them,
`NeverOverCap` shows that the counter is then too high and never too low);
`DriveObject.fetch` reads `before` when a request arrives and `after` while others
run, and two requests write in either order, so the usage in D1 may stay at a stale
or a transient value (`Report` in `DriveQuota`; the number is shown, no check reads
it); `verify` takes a slot of `DAILY_MINT_CAP` before the checks that may still
refuse the drive and gives none back, although `SAFETY.md:38` says the cap counts
drives created; DELETE of a folder leaves the rows of the locks below it, and a
`COPY` or `MOVE` by another client onto the name that is free now writes its
members with no look at them (`webdav.ts:397-410`), while a PUT of the same path
gets 423: `ExclusiveLockHolds` lets this case through by name, and without that
exception TLC finds the trace (the repository and RFC 4918 do not say which should
win); melody-auth's `test/refresh.test.ts:19`, about the function of
`codes.ts` that the Worker does not call, expects an expired token to fail "without a family
wipe", while `rotateRefreshAtomic` revokes the family then; a drive frozen for longer than its keep is neither
expired for `findExpiredByEmail` nor live for `findLiveByEmail`, yet it holds the
unique index, so `insertDrive` throws and verify answers 500 with the link spent
until the alarm or the cron has wiped the row; a lock may outlive the drive by less
than a second, because `parseTimeout`
grants at least one (`LockEndsWithDrive` states the exact bound). In pairlane,
lines lost by a hibernation have their numbers given out again and a page drops
them (`addTape`), although its `README.md:11` calls the side panel the tape of what
the object saw (`PanelComplete` says this is the only way to miss a line); a
frame queued on a socket that was closed is relayed to whoever is there then, so a
guest's last candidate may reach the guest who took the seat (`SignalsReachPartner`
allows this for a late frame only); and
when the answerer's tab is replaced, the offerer's `startOffer` returns because its
old channel is still set (`peer.ts:93`), so the new tab gets no offer.

## Fairness

`quota_faults` assumes weak fairness of the steps of a request that is under
way: R2, D1 and SQLite calls settle, with success or an error. Crashes come when
they like, or never. `lifecycle`
assumes that time passes, that writes and wipes that have started go on (bodies
are bounded by `readLimited` and the platform ends dead connections), and that
the cron starts again and again (`wrangler.jsonc`, every five minutes). No
fairness is assumed of clients, operators, `schedule`, the alarm, or eviction:
the drive ends even if its alarm was never set. `gate_turns` and `gate_freed`
assume that D1 answers a statement that was sent, that a handler goes on after an
answer (a model that does not answer is given up after 8 seconds), that a
schedule that is due fires, that the hourly cron runs and that time passes. They
assume nothing of the browser: nobody has to press a button or come back.
`pair_room` assumes that a handler comes to its end, that the alarm fires when it
is due and again until it succeeds, that a socket which is being closed reports it,
and that time passes; nobody has to join, hang up or send anything.

## Proofs

`DriveLocksProofs` proves, for every finite or infinite name space, token set,
clock and cap that satisfies the named assumptions:

- `TypeCorrect`, `LockTableCorrect`, `LockEndsWithDriveCorrect`: the invariants
  of `locks_table`;
- `ExclusiveLockHoldsCorrect`, `LiveLocksPersistCorrect`: its action properties.

Assumptions: `PathsAssumption` (paths are sequences of names, closed under
prefixes, with the root) and `BoundsAssumption` (the bounds are naturals, a
second has at least one tick).

Argument. `LockTable` is not inductive by itself: the caps are statements about
cardinalities, which need the table to be finite, and the rows to be lock
records with natural expiries. `TableInv` adds both. The table only changes in
three ways, and each has its lemma: expired rows go (`RowsRemoved`), a row is
replaced by one with the same token, path and scope (`RowReplaced`), a row with a
fresh token is added when `Grantable` allows it (`RowAdded`). For
`ExclusiveLockHolds`, `WritableOpens` says that `assertWritable` makes a request
present the token of any exclusive lock on a level above the path, since that
lock is alone there; `PrefixesOnOneLine` that two prefixes of one path are
prefixes of each other; `SubtreeOpens` combines them with `descendantBlocks` for
DELETE and for both ends of `transfer`. Of what a `transfer` makes below a fresh
destination nothing is checked but the destination itself: `LockAboveOrBelow` says
that a lock which covers such a member either covers the destination too, and is
open, or lies strictly below it, which is the exception of the property. `parseTimeout` needs only that
`(a \div b) * b <= a` (`DivFacts`).

`DriveQuotaProofs` proves, for every finite name space, any set of requests, any
sizes, destinations, caps and budget, and any choice of the calls that may fail:

- `TypeCorrect`, `CounterEqualsStoredCorrect`, `NeverOverCapCorrect`: the
  invariants of `quota_faults`;
- `FailureChangesNothingCorrect`: its action property.

Assumptions: `PathsAssumption` and the `BoundsAssumption` of `DriveQuota` (sizes,
caps and budget are naturals, destinations are paths, and there are finitely many
paths, so that what is stored has a sum).

Argument. `Bytes` is a cardinality, so the sum over two sets apart is the sum of the
sums (`WeightOfBoth`) without an induction; from it follows what a write and a
deletion do to the sum (`StoredWrote`, `StoredRemoved`). `CounterEqualsStored`
speaks of the time between requests only. `Balance` says for each step of a handler
what the counter holds on top of what is stored (`Held`): the reservation before the
write, what the put freed after it, less the credit of a MOVE whose source is still
there, less what a deletion has counted down already. It is an equality until
something was left behind, and an inequality after a leak. It needs four facts.
`Priced` says that the object at the key is still the one the handler looked at, or
the one it wrote; `Apart` that a transfer's source and destination do not overlap,
so that neither clearing the destination nor writing a member touches what is still
to be copied or credited; `RootFree` that the drive itself is no object as long as
nothing was copied there; `Returnable` that a counted deletion can be taken back,
since nobody else runs. A release that does not fit changes nothing and is only
logged: `ReleaseFits` and `Backed` show that every release fits where the counter is
to follow. For `NeverOverCap`, `Surplus` says that between the write and the audit
row the counter exceeds what is stored by what the put will release, less the credit
of a MOVE, which is the one amount by which the bucket can be above its caps. A
crash or a failed undo ends a handler where it stands: `AbandonedKeeps` shows that
the counter is then too high, never too low, unless something was counted ahead of
being done (`HeldBack`). For `FailureChangesNothing`, `Kept` says at each step of a
put how the bucket and the counter differ from those it found.

`DriveMintProofs` proves, for any number of requests, emails, networks, links
and any caps:

- `TypeCorrect`: the invariant of `mint_link`, which holds both daily counters
  under their caps;
- `OrdersHoldCorrect`, from `OrdersInv`: what a request has been found free of is
  not in `bars`, and `bars` is part of `orders`, so an order in force since the
  request came is still there when its lookup is made;
- `MailsNearCapCorrect`, from `MailInv`. The bound is not inductive, since a mint
  that has passed the check is not in it yet. Until a day's counter is full,
  every accepted message has been counted, is about to be, or belongs to a death
  (`Uncounted`). From then on no mint passes the check, and the messages sent and
  those that may still be sent (`Past`) are together at most the cap, the other
  mints, and the deaths. `MailCounted` is the step from one half to the other:
  the mint that fills the counter is in neither set afterwards.

Its assumption is `MintAssumption`: the two kinds of requests are disjoint and
finite in number, the caps and the length of a day are positive, the other
bounds are naturals, `Nobody` is neither an email nor a network. The types are
proved in two halves, tables and requests, which `Halves` puts together;
`OnFits`, `OnPassed` and `MailQuiet` say once what all steps that only move a
request on have in common.

`DriveMintRowsProofs` proves, from the same assumption, what concerns the table of
drives:

- `OneDrivePerEmailCorrect`, `LinkMintsOnceCorrect`, `DrivesWithinCapCorrect`: the
  other invariants of `mint_link`;
- `OnlyEndedWipedCorrect`: the action property of `mint_mail`.

Argument. `RowsNext` says how the table changes: a step keeps every row but for its
status (`KeepsRows`), or a verify puts one in (`Inserts`), which the unique index
allows only when the email has none that is not wiped; with that the one drive per
email is inductive. `RequestsMove` says how a verify moves: it goes away, selects a
link, claims one nobody has used, is counted below the cap, or stays where it is
with its link and its day. For `LinkMintsOnce`, `Spent` adds that a verify past its
claim holds a used link, that no two hold the same and that no drive has it already;
`LinksGrow` says that no row of the links goes back. For `DrivesWithinCap`,
`AllCounted` counts the verifies that may still insert together with the drives of
their day. `OnlyEndedWiped` speaks of the steps of mints and verifies;
the alarm, the cron and an operator's release are other steps, which may take the
row first. `WipesEnded` says that what a request is about to wipe was over when it
was looked up, which nothing undoes: `expires_at` never changes and the rows keep
their place.

`DriveLifecycleProofs` proves, for any finite number of requests and wipers and any
lifetimes:

- `TypeCorrect`, `AlarmCoversCorrect`: the invariants of `lifecycle`;
- `KeepsPromiseCorrect`: `DriveLifecycle` implements `DrivePromise`.

Assumption: `BoundsAssumption` (times and bounds natural, `Never` no time; requests
and wipers finite, distinct and fewer than the sessions, so that a new request can
always be given one that nobody uses; `Ttl <= Keep`: a frozen drive is kept longer
than an active one lives, 30 days against an hour).

Argument. `AlarmCovers` needs to know that the alarm's handler, when it finds the
drive not due, either finds it wiped or sets the alarm again. It does because no
alarm is ever set for a time before `Ttl` (`Rings`, where `Ttl <= Keep` is used: a
deferral is at least `Keep` away), so an active drive is due whenever the alarm
fires. `Ripe` says that whoever has decided to wipe had the right to, and that time
and releases do not take it away: `Due` of the promise, on every `Clear` and
`Retire`. The hard part of the refinement is that nobody writes to a wiped drive.
`Stopped` says it, unless a release left the object able to write: while a wipe has
emptied the drive and not yet marked it, or once the row is marked, either no write
will be let through again (`ForGood`: time is up, the schedule is gone, or nobody is
in flight and the row refuses newcomers), or the object's current session is sealed;
nobody writes; and whoever is queued will get 410 (`Still`). It stays true because a
seal runs at the head of its session's line: `InLine` says that the line holds each
of those who wait exactly once and that a writer is at its head, and `Current` that
nobody writes in any session but the object's own. `Fresh` covers the one window
in which the schedule appears afterwards: until verify has answered there are no
writers, and a release that empties the drive then finds no session, which is
`unsealed`.

`MelodyGrantsProofs` proves, for any number of codes, devices, requests and
tokens and any lifetimes:

- `TypeCorrect`, `OneLiveTokenCorrect`, `ReuseEndsFamilyCorrect`: the invariants
  of `melody_grants`;
- `KeepsPromiseCorrect`: `MelodyGrants` implements `GrantPromise`.

Assumptions: `MelodyConstants` (lifetimes positive, bounds natural, codes,
devices and numbers distinct) and `NoneIsNoRow`.

Argument. `IInv` joins the types with five facts: a request that is past a place
still holds what it read there (`Remembers`); a family exists from its first
token on and its number is not above `issued` (`FamiliesBegun`); a request that
will rotate or revoke names a family that has begun (`KnowsToken`); a grant that
some request has spent is no longer usable and no other request has spent it
(`OwedOnce`), which is what makes "starts one family" inductive: without it two
requests could be between their claim and their `issueRefresh`. `OneLiveToken`
and `ReuseEndsFamily` then follow step by step, `NewFamily` and `NewChild` being
the two ways a token comes into being. For the refinement every step is sorted
into few kinds: a claim or a consumption is `Spend`, `issueRefresh` is `Start`,
the two insertions are `Open`, an approval is `Approve`, and every other step
leaves the standing of each grant and the life of each family or ends it, which
is `Close` (`NarrowSteps`, `StandingsEnd`, `LivesEnd`, `EndsAreClose`).

`PairRoomProofs` proves the six invariants of `pair_room` (`TypeCorrect`,
`SeatsCorrect`, `SignalsReachPartnerCorrect`, `CountSettlesCorrect`,
`BatchBoundedCorrect`, `PanelCompleteCorrect`) for any number of browsers and
sockets, any batch, tape and lifetime. Its assumptions are `RoomConstants` (bounds
natural, `Ttl`, `TapeBatch` and `Second` positive, finitely many sockets, and
`LastCreate < Ttl`: no room is created a second time) and `NoneIsNoRoom`. Without
`LastCreate < Ttl` the argument for `Seats` fails: a room created anew over sockets
of the one that is over would have another creator than its offerer.

Argument. `RoomKept` says that the room in memory is the room in storage but for
the lines of the open batch, which `dirty` counts; `BatchBounded` follows from it
and the types. `NotYetOver` says that before the first lifetime has passed nothing
has ended, so the creation finds every socket unused. `OpenSeated` adds that an
open socket is never silent. With these `Seats` is inductive: a join replaces the
sockets of its own browser or finds its role free (`AdmitSeats`), every other step
only takes sockets away (`OthersThin`) and leaves the creator (`RunsOn`).
`SignalsReachPartner` is a statement about deliveries. `SeatKept` carries the role
of a socket from its admission to the last frame that may arrive on it, closing
sockets included, so a sender's role still says whether it is the creator's;
`PairAlone` turns `Seats` into "the two live sockets are the whole room"; and
`OnlyRelayHands` says that no other handler delivers.
`CountSettles` needs to know who corrects a wrong count: `CountOwed` says it is a
handler that has yet to announce, or a closing socket, not replaced, whose browser
is on no other. A close that reports nothing because its browser is back does no
harm, since the browser's join has announced since. For `PanelComplete`,
`LinesShown` says that until a line is lost no page shows a number above the
room's.

`GateDeskProofs` proves the five invariants of `gate_turns` (`TypeCorrect`,
`OneTurnCorrect`, `RanOnlyWhenAllowedCorrect`, `CardMatchesAuditCorrect`,
`AlarmCoversCorrect`) for any number of calls and clicks, any lifetimes and turn
limit and any number of failures. Its assumptions are `GateConstants` (the workers
distinct, lifetimes and limit positive, bounds natural) and `NoneIsNoRow`.

Argument. `Steps` brings the actions into a form in which the ways to clear the desk
and the ends of `expire()` stand side by side; each conjunct of `IInv` is then shown
to survive each of them. `Papers` says where a handler can be and which statement it
has sent there, so that an answer is read by the handler that asked. `OneAtATime` is
`OneTurn` without a cardinality, and `RoomLeft` says that whoever is between its
check of the turns and its count has a turn left, which holds because nobody else
counts meanwhile. `Decisions` follows a call through its life: judged, logged,
answered; `AskedFirst` adds that only a call that asked, and whose row was logged, waits
or is answered. `Heard` says what an answer of D1 means: "ok" that the log holds this
outcome and the tool has not run, "no" that something else is logged or the row is
gone. `Owned` is needed for that: a decision logged after its desk was cleared has no
session, so an outcome would not find it. `RanOnlyWhenAllowed` follows. For
`CardMatchesAudit`, `InOrder` says that without failures an answer and an expiry of
the same call are never under way together: `expire()` waits while a person's answer
is, and `resolve()` expires only what is overdue already; a statement that was left
behind belongs to a desk that is over. For `AlarmCovers`, `Covered` is what holds
between handlers and also while they run, `Before` and `Shut` say that a desk which
has not started or was cleared has no schedule, and `AnotherWaits` that a call which
waits when an earlier one is settled is the second that asked.

Not provable with the installed provers, and left to TLC: liveness
(`EveryRequestAnswered`, `EventuallyWiped`, `WritesEnd`, `WaitingEnds`,
`RowsPurged`, `RoomEnds`), anything with
`ENABLED`, and induction over data. No module declares a RECURSIVE operator. Every
other property of the passing runs has its theorem.

## What is not modelled

- what a request says: XML, If header parsing, content rules, passwords,
  cookies, Turnstile. They refuse requests, which in the models any request may
  be, or choose tokens;
- GET and PROPFIND bodies, ranges, ETags: reads change nothing, except that a
  read between two writes reports a usage to D1 (`Read`, `ReadDone`);
- a call of R2 or D1 that takes effect after the object that sent it has died and
  come back; crashes in `DriveLocks`, whose handlers are one step each;
- failed wipes that are half done inside `deletePrefix`: the next wipe starts
  over; purge of old rows 30 days after the wipe; the R2 lifecycle rule;
- the event log, the live log and its sockets;
- melody-auth: login sessions, pushed requests, consent, client credentials,
  token exchange, the poll interval, revocation of access tokens by `jti`, the
  key ring, what a JWT says. The `rotateRefreshToken` of `codes.ts` is not used by
  the Worker;
- clef-gate: what the planner and the policies decide, rate limits, the export of
  the audit log, the transcript apart from its cards. Nor a `destroy()` that fails
  midway, after which `wipe()` and `reclaim()` call `deleteAll` and do not abort
  (`agent.ts:294-296`, `541-543`): the desk is empty then as well, and what is left
  of a turn in flight is up to the agents library, whose tables are gone; it may
  log one more decision to D1, which the cron purges, before it throws;
- pairlane: the daily cap and the reserved ids of `CreateCap` (beyond that a failed
  creation is forgotten), a `put` of `create` that fails (nothing is stored and the
  id is forgotten), what a signal says and how it is checked, the frame budget, the WebRTC sessions and the file
  transfer of the pages;
- every other demo, until the plan reaches it.

## Plan

1. done: `DriveLocks` with proofs, `DriveQuota`, `DriveLifecycle` with
   `DrivePromise`;
2. done: `DriveMint` with proofs of its types, its orders and its email cap;
3. done: every invariant and action property of `DriveMint` proved, the types and
   the refinement of `DrivePromise` by `DriveLifecycle`; every invariant and the
   action property of `DriveQuota`;
4. done: `MelodyGrants` with `GrantPromise`, all its properties proved;
5. done: `GateDesk`, all its invariants proved;
6. done: `PairRoom` (pairlane), its invariants proved; next goodvibes and partyserver,
   sockets that come and go around rounds and a shared document; the mailbox of
   actor-lab; the sessions of pairlane's pages.

The runs together are to stay short enough to repeat on every change, so a new
question takes the place of one that another run answers nearly as well.

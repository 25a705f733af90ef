------------------------------- MODULE DriveMint -------------------------------
(***************************************************************************)
(* How an r2-drive is minted: POST /api/mint mails a link, POST            *)
(* /api/verify trades it for a drive, and operators freeze drives, block   *)
(* emails and networks and turn minting off meanwhile.                     *)
(*                                                                         *)
(* The requests share the tables of D1 and nothing else.  A step is one    *)
(* statement with the code from there to the next await; there is no       *)
(* transaction over two of them, and a request may die between any two.    *)
(* What a wipe does outside the table of drives is DriveLifecycle.         *)
(***************************************************************************)
EXTENDS Naturals, Sequences, FiniteSets

CONSTANTS
  Minters,    \* the /api/mint requests that may be in flight, used again
  Verifiers,  \* the /api/verify requests that may be in flight, used again
  Emails,     \* normalised addresses, as email_hmac
  Networks,   \* as network_hmac
  Kill,       \* the order of an operator that turns minting off
  Nobody,     \* neither an email nor a network
  EmailCap,   \* DAILY_EMAIL_CAP
  MintCap,    \* DAILY_MINT_CAP
  VerifyTtl,  \* VERIFY_TTL_MS
  Ttl,        \* DRIVE_TTL_MS
  Keep,       \* FROZEN_KEEP_MS
  DayLength,  \* a day
  MaxTime,    \* bound: where the clock stops
  MaxLinks,   \* bound: how many links are mailed
  MaxFrozen,  \* bound: how many drives are frozen at once
  MaxDeaths,  \* bound: how many requests die
  Orders      \* bound: the keys operators give orders about

Requests == Minters \cup Verifiers

ASSUME MintAssumption ==
  /\ Minters \cap Verifiers = {} /\ IsFiniteSet(Requests)
  /\ Nobody \notin Emails \cup Networks
  /\ EmailCap \in Nat \ {0} /\ MintCap \in Nat \ {0}
  /\ VerifyTtl \in Nat /\ Ttl \in Nat /\ Keep \in Nat
  /\ Orders \subseteq {Kill} \cup Emails \cup Networks
  /\ DayLength \in Nat \ {0} /\ MaxTime \in Nat /\ MaxLinks \in Nat
  /\ MaxFrozen \in Nat /\ MaxDeaths \in Nat

VARIABLES
  now,
  links,    \* the table verifications, in the order of insertion
  drives,   \* the table drives, in the order of insertion
  mailed,   \* the table email_daily
  minted,   \* the table mint_daily
  orders,   \* the table blocks, and Kill for mint_killed in settings
  req,      \* where each request is, and what it remembers
  sent,     \* history: how many messages sendEmail accepted, per day
  deaths    \* how many requests have died

vars == <<now, links, drives, mailed, minted, orders, req, sent, deaths>>

tables == <<links, drives, mailed, minted, orders>>

history == <<sent, deaths>>

Day(time) == time \div DayLength

Days == {Day(time) : time \in 0..MaxTime}

Away == [step |-> "away", email |-> Nobody, network |-> Nobody, bars |-> {},
         link |-> 0, drive |-> 0, day |-> 0, at |-> 0]

Goes(r, next) == req' = [req EXCEPT ![r] = next]

At(r, step) == req[r].step = step

-----------------------------------------------------------------------------
(* The queries of the repository *)

\* A drive is over: its hour, or the keep of a frozen one.
Ended(d, time) ==
  IF drives[d].status = "active" THEN drives[d].expiresAt <= time
  ELSE drives[d].frozenAt + Keep <= time

Unwiped(email) == {d \in DOMAIN drives : drives[d].email = email /\ drives[d].status # "wiped"}

ExpiredByEmail(email, time) == {d \in Unwiped(email) : drives[d].status = "active" /\ Ended(d, time)}

LiveByEmail(email, time) == {d \in Unwiped(email) : ~ Ended(d, time)}

\* Mutant: no unique index, insertDrive trusts the check before it.
SlotFreeOfLive(v) == LiveByEmail(req[v].email, req[v].at) = {}

\* idx_one_live_email
SlotFree(v) == Unwiped(req[v].email) = {}

\* Mutant: one more than the cap.
RoomAtCap(count, cap) == count <= cap

\* The guard of tryIncrementDaily.
Room(count, cap) == count < cap

Valid(i) == links[i].state = "unused" /\ now < links[i].expiresAt

-----------------------------------------------------------------------------
Init ==
  /\ now = 0
  /\ links = << >>
  /\ drives = << >>
  /\ mailed = [d \in Days |-> 0]
  /\ minted = [d \in Days |-> 0]
  /\ orders = {}
  /\ req = [r \in Requests |-> Away]
  /\ sent = [d \in Days |-> 0]
  /\ deaths = 0

Tick ==
  /\ now < MaxTime
  /\ now' = now + 1
  /\ UNCHANGED <<tables, req, history>>

-----------------------------------------------------------------------------
(* What only a mint does *)

\* A form that passed the human check.  bars is history: the orders against the
\* request that have been in force ever since it came.
Ask(m, email, network) ==
  /\ At(m, "away")
  /\ Goes(m, [Away EXCEPT !.step = "killed", !.email = email, !.network = network,
                          !.bars = orders \cap {Kill, email, network}])
  /\ UNCHANGED <<now, tables, history>>

\* Mutant: the cap is left to the count after the message.
capsLater(m) ==
  /\ At(m, "dailyCount")
  /\ Goes(m, [req[m] EXCEPT !.step = "record"])
  /\ UNCHANGED <<now, tables, history>>

dailyCount(m) ==
  /\ At(m, "dailyCount")
  /\ Goes(m, IF EmailCap <= mailed[req[m].day] THEN Away ELSE [req[m] EXCEPT !.step = "record"])
  /\ UNCHANGED <<now, tables, history>>

insertVerification(m) ==
  /\ At(m, "record")
  /\ Len(links) < MaxLinks
  /\ links' = Append(links, [email |-> req[m].email, network |-> req[m].network,
                             expiresAt |-> now + VerifyTtl, state |-> "unused",
                             delivered |-> FALSE])
  /\ Goes(m, [req[m] EXCEPT !.step = "send", !.link = Len(links) + 1])
  /\ UNCHANGED <<now, drives, mailed, minted, orders, history>>

\* A message that was delivered can still be reported as failed.
sendEmail(m, delivered, accepted) ==
  /\ At(m, "send")
  /\ accepted => delivered
  /\ links' = [links EXCEPT ![req[m].link].delivered = delivered]
  /\ Goes(m, [req[m] EXCEPT !.step = IF accepted THEN "countMail" ELSE "delete"])
  /\ sent' = IF accepted THEN [sent EXCEPT ![req[m].day] = @ + 1] ELSE sent
  /\ UNCHANGED <<now, drives, mailed, minted, orders, deaths>>

deleteVerification(m) ==
  /\ At(m, "delete")
  /\ links' = [links EXCEPT ![req[m].link].state = "deleted"]
  /\ Goes(m, Away)
  /\ UNCHANGED <<now, drives, mailed, minted, orders, history>>

\* tryIncrementDaily("email"): the answer differs, the link stays either way.
countMail(m) ==
  /\ At(m, "countMail")
  /\ mailed' = IF Room(mailed[req[m].day], EmailCap)
               THEN [mailed EXCEPT ![req[m].day] = @ + 1] ELSE mailed
  /\ Goes(m, Away)
  /\ UNCHANGED <<now, links, drives, minted, orders, history>>

-----------------------------------------------------------------------------
(* What only a verify does *)

\* The SELECT of takeVerification, for somebody who got the message.
Select(v, i) ==
  /\ At(v, "away")
  /\ links[i].delivered /\ Valid(i)
  /\ Goes(v, [Away EXCEPT !.step = "claim", !.link = i, !.email = links[i].email,
                          !.network = links[i].network,
                          !.bars = orders \cap {Kill, links[i].email, links[i].network}])
  /\ UNCHANGED <<now, tables, history>>

\* Mutant: the number of changed rows is not looked at.
claimAnyway(v) ==
  /\ At(v, "claim")
  /\ links' = [links EXCEPT ![req[v].link].state = IF @ = "unused" THEN "used" ELSE @]
  /\ Goes(v, [req[v] EXCEPT !.step = "countMint", !.day = Day(now)])
  /\ UNCHANGED <<now, drives, mailed, minted, orders, history>>

\* The UPDATE of takeVerification: of two that have selected a link one gets it.
claim(v) ==
  /\ At(v, "claim")
  /\ IF links[req[v].link].state = "unused"
     THEN /\ links' = [links EXCEPT ![req[v].link].state = "used"]
          /\ Goes(v, [req[v] EXCEPT !.step = "countMint", !.day = Day(now)])
     ELSE Goes(v, Away) /\ UNCHANGED links
  /\ UNCHANGED <<now, drives, mailed, minted, orders, history>>

\* Mutant: the count is only read, as a mint does.
readsTheCount(v) ==
  /\ At(v, "countMint")
  /\ Goes(v, IF Room(minted[req[v].day], MintCap) THEN [req[v] EXCEPT !.step = "killed"] ELSE Away)
  /\ UNCHANGED <<now, tables, history>>

\* tryIncrementDaily("mint")
countMint(v) ==
  /\ At(v, "countMint")
  /\ IF Room(minted[req[v].day], MintCap)
     THEN /\ minted' = [minted EXCEPT ![req[v].day] = @ + 1]
          /\ Goes(v, [req[v] EXCEPT !.step = "killed"])
     ELSE Goes(v, Away) /\ UNCHANGED minted
  /\ UNCHANGED <<now, links, drives, mailed, orders, history>>

\* The request ends here whether the row went in or the index refused it.
insertDrive(v) ==
  /\ At(v, "insert")
  /\ drives' = IF SlotFree(v)
               THEN Append(drives, [email |-> req[v].email, link |-> req[v].link,
                                    status |-> "active", frozenAt |-> 0,
                                    expiresAt |-> req[v].at + Ttl, day |-> req[v].day])
               ELSE drives
  /\ Goes(v, Away)
  /\ UNCHANGED <<now, links, mailed, minted, orders, history>>

-----------------------------------------------------------------------------
(* The checks both make, in this order *)

mintKilled(r) ==
  /\ At(r, "killed")
  /\ Goes(r, IF Kill \in orders THEN Away ELSE [req[r] EXCEPT !.step = "blockedEmail"])
  /\ UNCHANGED <<now, tables, history>>

\* Mutant: only the email is looked up.
blockedByEmail(r) ==
  \/ /\ At(r, "blockedEmail")
     /\ Goes(r, IF req[r].email \in orders THEN Away ELSE [req[r] EXCEPT !.step = "blockedNetwork"])
     /\ UNCHANGED <<now, tables, history>>
  \/ /\ At(r, "blockedNetwork")
     /\ Goes(r, [req[r] EXCEPT !.step = "expired"])
     /\ UNCHANGED <<now, tables, history>>

blocked(r) ==
  \/ /\ At(r, "blockedEmail")
     /\ Goes(r, IF req[r].email \in orders THEN Away ELSE [req[r] EXCEPT !.step = "blockedNetwork"])
     /\ UNCHANGED <<now, tables, history>>
  \/ /\ At(r, "blockedNetwork")
     /\ Goes(r, IF req[r].network \in orders THEN Away ELSE [req[r] EXCEPT !.step = "expired"])
     /\ UNCHANGED <<now, tables, history>>

\* A mint takes the date here, a verify took it before it was counted.
findExpiredByEmail(r) ==
  /\ At(r, "expired")
  /\ LET today   == IF r \in Minters THEN Day(now) ELSE req[r].day
         expired == ExpiredByEmail(req[r].email, now)
     IN  IF expired = {} THEN Goes(r, [req[r] EXCEPT !.step = "live", !.day = today])
         ELSE \E d \in expired :
                Goes(r, [req[r] EXCEPT !.step = "wipe", !.day = today, !.drive = d])
  /\ UNCHANGED <<now, tables, history>>

\* Mutant: whatever drive the email has by now.
wipesTheEmail(r) ==
  /\ At(r, "wipe")
  /\ drives' = [d \in DOMAIN drives |->
                  IF drives[d].email = req[r].email THEN [drives[d] EXCEPT !.status = "wiped"]
                  ELSE drives[d]]
  /\ Goes(r, [req[r] EXCEPT !.step = "live", !.drive = 0])
  /\ UNCHANGED <<now, links, mailed, minted, orders, history>>

\* wipeDrive, up to markWiped
wipe(r) ==
  /\ At(r, "wipe")
  /\ drives' = [drives EXCEPT ![req[r].drive].status = "wiped"]
  /\ Goes(r, [req[r] EXCEPT !.step = "live", !.drive = 0])
  /\ UNCHANGED <<now, links, mailed, minted, orders, history>>

findLiveByEmail(r) ==
  /\ At(r, "live")
  /\ Goes(r, IF LiveByEmail(req[r].email, now) # {} THEN Away
             ELSE IF r \in Minters THEN [req[r] EXCEPT !.step = "dailyCount"]
             ELSE [req[r] EXCEPT !.step = "insert", !.at = now])
  /\ UNCHANGED <<now, tables, history>>

\* The statement under way fails, a rate limit refuses, or the Worker is gone.
Dies(r) ==
  /\ ~ At(r, "away")
  /\ Goes(r, Away)
  /\ deaths < MaxDeaths
  /\ deaths' = deaths + 1
  /\ UNCHANGED <<now, tables, sent>>

-----------------------------------------------------------------------------
(* Operators and everybody else who freezes or wipes *)

\* A report or an operator freezes; a report then also blocks both keys.
freeze(d) ==
  /\ drives[d].status = "active"
  /\ Cardinality({f \in DOMAIN drives : drives[f].status = "frozen"}) < MaxFrozen
  /\ drives' = [drives EXCEPT ![d].status = "frozen", ![d].frozenAt = now]
  /\ UNCHANGED <<now, links, mailed, minted, orders, req, history>>

\* A wipe from elsewhere: the alarm, the cron or another request ends a drive that
\* is over, and an operator may release any drive, an active one included.
markWiped(d) ==
  /\ drives[d].status # "wiped"
  /\ drives' = [drives EXCEPT ![d].status = "wiped"]
  /\ UNCHANGED <<now, links, mailed, minted, orders, req, history>>

order(key) ==
  /\ key \notin orders
  /\ orders' = orders \cup {key}
  /\ UNCHANGED <<now, links, drives, mailed, minted, req, history>>

lift(key) ==
  /\ key \in orders
  /\ orders' = orders \ {key}
  /\ req' = [r \in Requests |-> [req[r] EXCEPT !.bars = @ \ {key}]]
  /\ UNCHANGED <<now, links, drives, mailed, minted, history>>

-----------------------------------------------------------------------------
MintStep(m) ==
  \/ \E email \in Emails, network \in Networks : Ask(m, email, network)
  \/ dailyCount(m) \/ insertVerification(m)
  \/ \E delivered, accepted \in BOOLEAN : sendEmail(m, delivered, accepted)
  \/ deleteVerification(m) \/ countMail(m)

VerifyStep(v) ==
  \/ \E i \in DOMAIN links : Select(v, i)
  \/ claim(v) \/ countMint(v) \/ insertDrive(v)

SharedStep(r) ==
  \/ mintKilled(r) \/ blocked(r)
  \/ findExpiredByEmail(r) \/ wipe(r) \/ findLiveByEmail(r)
  \/ Dies(r)

Next ==
  \/ Tick
  \/ \E m \in Minters : MintStep(m)
  \/ \E v \in Verifiers : VerifyStep(v)
  \/ \E r \in Requests : SharedStep(r)
  \/ \E d \in DOMAIN drives : freeze(d) \/ markWiped(d)
  \/ \E key \in Orders : order(key) \/ lift(key)

Spec == Init /\ [][Next]_vars

-----------------------------------------------------------------------------
(* Properties *)

Links == [email : Emails, network : Networks, expiresAt : 0..(MaxTime + VerifyTtl),
          state : {"unused", "used", "deleted"}, delivered : BOOLEAN]

Drives == [email : Emails, link : 0..MaxLinks, status : {"active", "frozen", "wiped"},
           frozenAt : 0..MaxTime, expiresAt : 0..(MaxTime + Ttl), day : Days]

Checks == {"killed", "blockedEmail", "blockedNetwork"}

Steps ==
  Checks \cup {"away", "dailyCount", "record", "send", "delete", "countMail",
               "claim", "countMint", "insert", "expired", "wipe", "live"}

\* The tables and the requests hold what they can hold; the two counters of a
\* day stay within their caps (the WHERE of tryIncrementDaily).
TypeOK ==
  /\ now \in 0..MaxTime
  /\ links \in Seq(Links) /\ Len(links) <= MaxLinks
  /\ drives \in Seq(Drives)
  /\ mailed \in [Days -> 0..EmailCap]
  /\ minted \in [Days -> 0..MintCap]
  /\ orders \subseteq Orders
  /\ req \in [Requests ->
       [step : Steps, email : Emails \cup {Nobody}, network : Networks \cup {Nobody},
        bars : SUBSET Orders, link : 0..MaxLinks,
        drive : Nat, day : Days, at : 0..MaxTime]]
  /\ \A r \in Requests : ~ At(r, "away") =>
       req[r].email \in Emails /\ req[r].network \in Networks
  /\ sent \in [Days -> Nat] /\ deaths \in 0..MaxDeaths

\* A link mints one drive however many verify requests carry it at once, and
\* whatever a mint that got a failure from sendEmail does to its row meanwhile.
LinkMintsOnce ==
  \A d, e \in DOMAIN drives : drives[d].link = drives[e].link => d = e

\* SAFETY.md: one non-wiped drive per email.  The check of verify before the
\* insertion is stale by then; the index decides.
OneDrivePerEmail == \A email \in Emails : Cardinality(Unwiped(email)) <= 1

\* No more drives go back to one day's count than DAILY_MINT_CAP, also when
\* midnight passes between the count and the insertion.
DrivesWithinCap ==
  \A day \in Days : Cardinality({d \in DOMAIN drives : drives[d].day = day}) <= MintCap

\* The cap on messages is read before sending and counted after it.  Requests
\* that overlap can exceed it, by at most one message for each of the others,
\* and by one for each request that died before it counted its message.
MailsNearCap ==
  \A day \in Days : sent[day] <= EmailCap + Cardinality(Minters) - 1 + deaths

\* An order that is in force from the arrival of a request on stops it: no link
\* is made and no drive is looked up, wiped or inserted for it.
OrdersHold ==
  \A r \in Requests : req[r].bars # {} => req[r].step \in Checks \cup {"claim", "countMint"}

\* A step of a mint or a verify wipes only what is over: one that found an expired
\* drive and is slow never touches the drive that replaced it.  An operator may
\* release an active drive (router.ts:420-427); that is no step of a request.
OnlyEndedWiped ==
  [][req' # req =>
       \A d \in DOMAIN drives :
         drives[d].status = "active" /\ drives'[d].status = "wiped" => Ended(d, now)]_vars

=============================================================================

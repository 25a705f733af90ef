---------------------------- MODULE DriveMintProofs ----------------------------
(***************************************************************************)
(* Proofs about DriveMint: type correctness, that orders hold, and how far *)
(* overlapping mints can exceed the cap on messages.                       *)
(***************************************************************************)
EXTENDS DriveMint, FiniteSetTheorems, TLAPS

-----------------------------------------------------------------------------
(* Type correctness, in two halves: the tables and the requests *)

Record ==
  [step : Steps, email : Emails \cup {Nobody}, network : Networks \cup {Nobody},
   bars : SUBSET Orders, link : 0..MaxLinks, drive : Nat, day : Days, at : 0..MaxTime]

\* What a request may remember: who it is for, unless it is away.
Fits(next) ==
  /\ next \in Record
  /\ next.step # "away" => next.email \in Emails /\ next.network \in Networks

RequestsFit == DOMAIN req = Requests /\ req = [r \in Requests |-> req[r]] /\ \A r \in Requests : Fits(req[r])

TablesFit ==
  /\ now \in 0..MaxTime
  /\ links \in Seq(Links) /\ Len(links) <= MaxLinks
  /\ drives \in Seq(Drives)
  /\ mailed \in [Days -> 0..EmailCap]
  /\ minted \in [Days -> 0..MintCap]
  /\ orders \subseteq Orders
  /\ sent \in [Days -> Nat] /\ deaths \in 0..MaxDeaths

\* One element of a table, or one counter, is replaced.
LEMMA SeqExcept ==
  ASSUME NEW S, NEW s \in Seq(S), NEW i, NEW e, i \in DOMAIN s => e \in S
  PROVE  [s EXCEPT ![i] = e] \in Seq(S) /\ Len([s EXCEPT ![i] = e]) = Len(s)
  <1>1. s \in [1..Len(s) -> S] /\ Len(s) \in Nat
    OBVIOUS
  <1>2. [s EXCEPT ![i] = e] \in [1..Len(s) -> S]
    BY <1>1
  <1> QED BY <1>1, <1>2

LEMMA SeqElement ==
  ASSUME NEW S, NEW s \in Seq(S)
  PROVE  /\ Len(s) \in Nat /\ DOMAIN s = 1..Len(s)
         /\ \A i \in DOMAIN s : s[i] \in S
         /\ \A e \in S : Append(s, e) \in Seq(S) /\ Len(Append(s, e)) = Len(s) + 1
  OBVIOUS

LEMMA CountRaised ==
  ASSUME NEW cap \in Nat, NEW counts \in [Days -> 0..cap], NEW day, counts[day] < cap
  PROVE  [counts EXCEPT ![day] = @ + 1] \in [Days -> 0..cap]
  <1>1. \A d \in Days : d = day => counts[d] + 1 \in 0..cap
    OBVIOUS
  <1> QED BY <1>1

LEMMA LinkRow ==
  ASSUME TablesFit
  PROVE  /\ \A i \in DOMAIN links : links[i] \in Links /\ i \in 0..MaxLinks
         /\ Len(links) \in Nat
  <1>1. links \in Seq(Links) /\ Len(links) <= MaxLinks /\ MaxLinks \in Nat
    BY MintAssumption DEF TablesFit
  <1>2. /\ Len(links) \in Nat /\ DOMAIN links = 1..Len(links)
        /\ \A i \in DOMAIN links : links[i] \in Links
    BY <1>1, SeqElement, Zenon
  <1> QED BY <1>1, <1>2

LEMMA LinkSet ==
  ASSUME TablesFit, NEW i, NEW row, i \in DOMAIN links => row \in Links,
         links' = [links EXCEPT ![i] = row]
  PROVE  links' \in Seq(Links) /\ Len(links') <= MaxLinks
  <1>1. links \in Seq(Links) /\ Len(links) <= MaxLinks
    BY DEF TablesFit
  <1>2. [links EXCEPT ![i] = row] \in Seq(Links)
    BY <1>1, SeqExcept, Zenon
  <1>3. Len([links EXCEPT ![i] = row]) = Len(links)
    BY <1>1
  <1> QED BY <1>1, <1>2, <1>3

LEMMA DriveRow ==
  ASSUME TablesFit
  PROVE  /\ \A d \in DOMAIN drives : drives[d] \in Drives /\ d \in Nat
  <1>1. drives \in Seq(Drives)
    BY DEF TablesFit
  <1>2. /\ Len(drives) \in Nat /\ DOMAIN drives = 1..Len(drives)
        /\ \A d \in DOMAIN drives : drives[d] \in Drives
    BY <1>1, SeqElement, Zenon
  <1> QED BY <1>2

LEMMA DriveSet ==
  ASSUME TablesFit, NEW d, NEW row, d \in DOMAIN drives => row \in Drives,
         drives' = [drives EXCEPT ![d] = row]
  PROVE  drives' \in Seq(Drives)
  <1>1. drives \in Seq(Drives)
    BY DEF TablesFit
  <1> QED BY <1>1, SeqExcept, Zenon

LEMMA Halves == TypeOK <=> TablesFit /\ RequestsFit
  <1>1. req \in [Requests -> Record] <=>
          DOMAIN req = Requests /\ req = [r \in Requests |-> req[r]] /\ \A r \in Requests : req[r] \in Record
    OBVIOUS
  <1> QED BY <1>1 DEF TypeOK, TablesFit, RequestsFit, Fits, Record, At

LEMMA DayFacts ==
  /\ 0 \in Days
  /\ \A time \in 0..MaxTime : Day(time) \in Days
  <1>1. Day(0) = 0 /\ 0 \in 0..MaxTime
    BY MintAssumption DEF Day
  <1>2. \A time \in 0..MaxTime : Day(time) \in Days
    BY DEF Days
  <1> QED BY <1>1, <1>2

LEMMA AwayFits == Fits(Away) /\ Away.step = "away"
  BY DayFacts, MintAssumption DEF Away, Fits, Record, Steps

\* A request goes on to its next step and may note something on the way.
LEMMA OnFits ==
  ASSUME NEW seen, Fits(seen), seen.step # "away", NEW step \in Steps
  PROVE  /\ Fits([seen EXCEPT !.step = step])
         /\ \A day \in Days :
              /\ Fits([seen EXCEPT !.step = step, !.day = day])
              /\ \A drive \in Nat : Fits([seen EXCEPT !.step = step, !.day = day, !.drive = drive])
         /\ \A link \in 0..MaxLinks : Fits([seen EXCEPT !.step = step, !.link = link])
         /\ \A drive \in Nat : Fits([seen EXCEPT !.step = step, !.drive = drive])
         /\ \A at \in 0..MaxTime : Fits([seen EXCEPT !.step = step, !.at = at])
  <1> USE DEF Fits, Record
  <1>1. Fits([seen EXCEPT !.step = step])
    OBVIOUS
  <1>2. ASSUME NEW day \in Days
        PROVE  Fits([seen EXCEPT !.step = step, !.day = day])
    OBVIOUS
  <1>3. ASSUME NEW day \in Days, NEW drive \in Nat
        PROVE  Fits([seen EXCEPT !.step = step, !.day = day, !.drive = drive])
    OBVIOUS
  <1>4. ASSUME NEW link \in 0..MaxLinks
        PROVE  Fits([seen EXCEPT !.step = step, !.link = link])
    OBVIOUS
  <1>5. ASSUME NEW drive \in Nat
        PROVE  Fits([seen EXCEPT !.step = step, !.drive = drive])
    OBVIOUS
  <1>6. ASSUME NEW at \in 0..MaxTime
        PROVE  Fits([seen EXCEPT !.step = step, !.at = at])
    OBVIOUS
  <1> HIDE DEF Fits, Record
  <1> QED BY <1>1, <1>2, <1>3, <1>4, <1>5, <1>6

LEMMA GoesFits ==
  ASSUME RequestsFit, NEW r \in Requests, NEW next, Fits(next), Goes(r, next)
  PROVE  RequestsFit'
  BY DEF RequestsFit, Goes

\* Who takes part, and where a step leads.
LEMMA Places ==
  /\ Minters \subseteq Requests /\ Verifiers \subseteq Requests
  /\ {"killed", "blockedEmail", "blockedNetwork", "dailyCount", "record", "send", "delete",
      "countMail", "claim", "countMint", "insert", "expired", "wipe", "live"} \subseteq Steps
  BY DEF Requests, Steps, Checks

LEMMA TypeInit == Init => TypeOK
  <1> SUFFICES ASSUME Init PROVE TablesFit /\ RequestsFit
    BY Halves
  <1>1. TablesFit
    BY MintAssumption DEF Init, TablesFit, Links, Drives
  <1>2. RequestsFit
    BY AwayFits DEF Init, RequestsFit
  <1> QED BY <1>1, <1>2

LEMMA TablesNext == TablesFit /\ RequestsFit /\ [Next]_vars => TablesFit'
  <1> SUFFICES ASSUME TablesFit, RequestsFit, [Next]_vars
               PROVE  TablesFit'
    OBVIOUS
  <1> USE MintAssumption DEF TablesFit
  <1>1. CASE UNCHANGED vars
    BY <1>1 DEF vars
  <1>2. CASE Tick
    BY <1>2 DEF Tick, tables, history
  <1>3. ASSUME NEW m \in Minters, MintStep(m)
        PROVE  TablesFit'
    <2>1. m \in Requests /\ Fits(req[m])
      BY Places DEF RequestsFit
    <2>2. ASSUME NEW email \in Emails, NEW network \in Networks, Ask(m, email, network)
          PROVE  TablesFit'
      BY <2>2 DEF Ask, tables, history
    <2>3. CASE dailyCount(m)
      BY <2>3 DEF dailyCount, tables, history
    <2>4. CASE insertVerification(m)
      <3> DEFINE row == [email |-> req[m].email, network |-> req[m].network,
                         expiresAt |-> now + VerifyTtl, state |-> "unused", delivered |-> FALSE]
      <3>1. row \in Links
        BY <2>1, <2>4 DEF Fits, Links, insertVerification, At
      <3> HIDE DEF row
      <3>2. links' = Append(links, row) /\ Len(links) < MaxLinks
        BY <2>4 DEF insertVerification, row
      <3>3. links' \in Seq(Links) /\ Len(links') <= MaxLinks
        BY <3>1, <3>2
      <3> QED BY <2>4, <3>3 DEF insertVerification, history
    <2>5. ASSUME NEW delivered \in BOOLEAN, NEW accepted \in BOOLEAN,
                 sendEmail(m, delivered, accepted)
          PROVE  TablesFit'
      <3> DEFINE row == [links[req[m].link] EXCEPT !.delivered = delivered]
      <3>1. links' = [links EXCEPT ![req[m].link] = row]
        BY <2>5 DEF sendEmail
      <3>2. req[m].link \in DOMAIN links => row \in Links
        BY LinkRow DEF Links
      <3> HIDE DEF row
      <3>3. links' \in Seq(Links) /\ Len(links') <= MaxLinks
        BY <3>1, <3>2, LinkSet
      <3>4. sent' \in [Days -> Nat]
        <4>1. \A day \in Days : sent[day] \in Nat /\ sent[day] + 1 \in Nat
          OBVIOUS
        <4> QED BY <2>5, <4>1 DEF sendEmail
      <3> QED BY <2>5, <3>3, <3>4 DEF sendEmail
    <2>6. CASE deleteVerification(m)
      <3> DEFINE row == [links[req[m].link] EXCEPT !.state = "deleted"]
      <3>1. links' = [links EXCEPT ![req[m].link] = row]
        BY <2>6 DEF deleteVerification
      <3>2. req[m].link \in DOMAIN links => row \in Links
        BY LinkRow DEF Links
      <3> HIDE DEF row
      <3>3. links' \in Seq(Links) /\ Len(links') <= MaxLinks
        BY <3>1, <3>2, LinkSet
      <3> QED BY <2>6, <3>3 DEF deleteVerification, history
    <2>7. CASE countMail(m)
      <3>1. mailed' \in [Days -> 0..EmailCap]
        BY <2>7, CountRaised DEF countMail, Room
      <3> QED BY <2>7, <3>1 DEF countMail, history
    <2> QED BY <1>3, <2>2, <2>3, <2>4, <2>5, <2>6, <2>7 DEF MintStep
  <1>4. ASSUME NEW v \in Verifiers, VerifyStep(v)
        PROVE  TablesFit'
    <2>1. v \in Requests /\ Fits(req[v])
      BY Places DEF RequestsFit
    <2>2. ASSUME NEW i \in DOMAIN links, Select(v, i)
          PROVE  TablesFit'
      BY <2>2 DEF Select, tables, history
    <2>3. CASE claim(v)
      <3> DEFINE row == [links[req[v].link] EXCEPT !.state = "used"]
      <3>1. links' = [links EXCEPT ![req[v].link] = row] \/ links' = links
        BY <2>3 DEF claim
      <3>2. req[v].link \in DOMAIN links => row \in Links
        BY LinkRow DEF Links
      <3> HIDE DEF row
      <3>3. links' \in Seq(Links) /\ Len(links') <= MaxLinks
        BY <3>1, <3>2, LinkSet
      <3> QED BY <2>3, <3>3 DEF claim, history
    <2>4. CASE countMint(v)
      <3>1. minted' \in [Days -> 0..MintCap]
        <4>1. \/ minted' = minted
              \/ /\ minted[req[v].day] < MintCap
                 /\ minted' = [minted EXCEPT ![req[v].day] = @ + 1]
          BY <2>4 DEF countMint, Room
        <4>2. MintCap \in Nat /\ minted \in [Days -> 0..MintCap]
          OBVIOUS
        <4> HIDE DEF TablesFit
        <4> QED BY <4>1, <4>2, CountRaised
      <3> QED BY <2>4, <3>1 DEF countMint, history
    <2>5. CASE insertDrive(v)
      <3> DEFINE row == [email |-> req[v].email, link |-> req[v].link,
                         status |-> "active", frozenAt |-> 0,
                         expiresAt |-> req[v].at + Ttl, day |-> req[v].day]
      <3>1. row \in Drives
        BY <2>1, <2>5 DEF Fits, Record, Drives, insertDrive, At
      <3> HIDE DEF row
      <3>2. drives' = Append(drives, row) \/ drives' = drives
        BY <2>5 DEF insertDrive, row
      <3>3. Append(drives, row) \in Seq(Drives)
        BY <3>1, SeqElement, Zenon DEF TablesFit
      <3>4. drives' \in Seq(Drives)
        BY <3>2, <3>3
      <3> QED BY <2>5, <3>4 DEF insertDrive, history
    <2> QED BY <1>4, <2>2, <2>3, <2>4, <2>5 DEF VerifyStep
  <1>5. ASSUME NEW r \in Requests, SharedStep(r)
        PROVE  TablesFit'
    <2>1. CASE mintKilled(r) \/ blocked(r) \/ findExpiredByEmail(r) \/ findLiveByEmail(r)
      BY <2>1 DEF mintKilled, blocked, findExpiredByEmail, findLiveByEmail, tables, history
    <2>2. CASE wipe(r)
      <3> DEFINE row == [drives[req[r].drive] EXCEPT !.status = "wiped"]
      <3>1. drives' = [drives EXCEPT ![req[r].drive] = row]
        BY <2>2 DEF wipe
      <3>2. req[r].drive \in DOMAIN drives => row \in Drives
        BY DriveRow DEF Drives
      <3> HIDE DEF row
      <3>3. drives' \in Seq(Drives)
        BY <3>1, <3>2, DriveSet
      <3> QED BY <2>2, <3>3 DEF wipe, history
    <2>3. CASE Dies(r)
      BY <2>3 DEF Dies, tables
    <2> QED BY <1>5, <2>1, <2>2, <2>3 DEF SharedStep
  <1>6. ASSUME NEW d \in DOMAIN drives, freeze(d) \/ markWiped(d)
        PROVE  TablesFit'
    <2> DEFINE frozen == [drives[d] EXCEPT !.status = "frozen", !.frozenAt = now]
               wiped == [drives[d] EXCEPT !.status = "wiped"]
    <2>1. frozen \in Drives /\ wiped \in Drives
      BY DriveRow DEF Drives
    <2>2. drives' = [drives EXCEPT ![d] = frozen] \/ drives' = [drives EXCEPT ![d] = wiped]
      BY <1>6 DEF freeze, markWiped
    <2> HIDE DEF frozen, wiped
    <2>3. drives' \in Seq(Drives)
      BY <2>1, <2>2, DriveSet
    <2> QED BY <1>6, <2>3 DEF freeze, markWiped, history
  <1>7. ASSUME NEW key \in Orders, order(key) \/ lift(key)
        PROVE  TablesFit'
    BY <1>7 DEF order, lift, history
  <1> QED BY <1>1, <1>2, <1>3, <1>4, <1>5, <1>6, <1>7 DEF Next

LEMMA RequestsNext == TablesFit /\ RequestsFit /\ [Next]_vars => RequestsFit'
  <1> SUFFICES ASSUME TablesFit, RequestsFit, [Next]_vars
               PROVE  RequestsFit'
    OBVIOUS
  <1> USE Places
  <1>1. ASSUME UNCHANGED req
        PROVE  RequestsFit'
    BY <1>1 DEF RequestsFit
  <1>2. ASSUME NEW m \in Minters, MintStep(m)
        PROVE  RequestsFit'
    <2>1. m \in Requests /\ Fits(req[m]) /\ Fits(Away)
      BY AwayFits DEF RequestsFit
    <2>2. ASSUME NEW email \in Emails, NEW network \in Networks, Ask(m, email, network)
          PROVE  RequestsFit'
      <3> DEFINE next == [Away EXCEPT !.step = "killed", !.email = email, !.network = network,
                                      !.bars = orders \cap {Kill, email, network}]
      <3>1. Fits(next)
        BY <2>1 DEF TablesFit, Fits, Record
      <3>2. Goes(m, next)
        BY <2>2 DEF Ask
      <3> HIDE DEF next
      <3> QED BY <2>1, <3>1, <3>2, GoesFits
    <2>3. CASE dailyCount(m)
      <3>1. Fits([req[m] EXCEPT !.step = "record"])
        BY <2>1, <2>3, OnFits DEF dailyCount, At
      <3> QED BY <2>1, <2>3, <3>1, GoesFits DEF dailyCount
    <2>4. CASE insertVerification(m)
      <3>1. Len(links) + 1 \in 0..MaxLinks
        BY <2>4, MintAssumption DEF insertVerification, TablesFit
      <3>2. Fits([req[m] EXCEPT !.step = "send", !.link = Len(links) + 1])
        BY <2>1, <2>4, <3>1, OnFits DEF insertVerification, At
      <3> QED BY <2>1, <2>4, <3>2, GoesFits DEF insertVerification
    <2>5. ASSUME NEW delivered \in BOOLEAN, NEW accepted \in BOOLEAN,
                 sendEmail(m, delivered, accepted)
          PROVE  RequestsFit'
      <3>1. /\ Fits([req[m] EXCEPT !.step = "countMail"])
            /\ Fits([req[m] EXCEPT !.step = "delete"])
        BY <2>1, <2>5, OnFits DEF sendEmail, At
      <3>2. Goes(m, [req[m] EXCEPT !.step = "countMail"]) \/ Goes(m, [req[m] EXCEPT !.step = "delete"])
        BY <2>5 DEF sendEmail
      <3> QED BY <2>1, <3>1, <3>2, GoesFits
    <2>6. CASE deleteVerification(m) \/ countMail(m)
      BY <2>1, <2>6, GoesFits DEF deleteVerification, countMail
    <2> QED BY <1>2, <2>2, <2>3, <2>4, <2>5, <2>6 DEF MintStep
  <1>3. ASSUME NEW v \in Verifiers, VerifyStep(v)
        PROVE  RequestsFit'
    <2>1. v \in Requests /\ Fits(req[v]) /\ Fits(Away) /\ now \in 0..MaxTime /\ Day(now) \in Days
      BY AwayFits, DayFacts DEF RequestsFit, TablesFit
    <2>2. ASSUME NEW i \in DOMAIN links, Select(v, i)
          PROVE  RequestsFit'
      <3> DEFINE next == [Away EXCEPT !.step = "claim", !.link = i, !.email = links[i].email,
                                      !.network = links[i].network,
                                      !.bars = orders \cap {Kill, links[i].email, links[i].network}]
      <3>1. links[i].email \in Emails /\ links[i].network \in Networks /\ i \in 0..MaxLinks
        BY LinkRow DEF Links
      <3>2. Fits(next)
        BY <2>1, <3>1 DEF TablesFit, Fits, Record
      <3>3. Goes(v, next)
        BY <2>2 DEF Select
      <3> HIDE DEF next
      <3> QED BY <2>1, <3>2, <3>3, GoesFits
    <2>3. CASE claim(v)
      <3>1. Fits([req[v] EXCEPT !.step = "countMint", !.day = Day(now)])
        BY <2>1, <2>3, OnFits DEF claim, At
      <3> QED BY <2>1, <2>3, <3>1, GoesFits DEF claim
    <2>4. CASE countMint(v)
      <3>1. Fits([req[v] EXCEPT !.step = "killed"])
        BY <2>1, <2>4, OnFits DEF countMint, At
      <3> QED BY <2>1, <2>4, <3>1, GoesFits DEF countMint
    <2>5. CASE insertDrive(v)
      BY <2>1, <2>5, GoesFits DEF insertDrive
    <2> QED BY <1>3, <2>2, <2>3, <2>4, <2>5 DEF VerifyStep
  <1>4. ASSUME NEW r \in Requests, SharedStep(r)
        PROVE  RequestsFit'
    <2>1. Fits(req[r]) /\ Fits(Away) /\ now \in 0..MaxTime /\ Day(now) \in Days
      BY AwayFits, DayFacts DEF RequestsFit, TablesFit
    <2>2. CASE mintKilled(r)
      <3>1. Fits([req[r] EXCEPT !.step = "blockedEmail"])
        BY <2>1, <2>2, OnFits DEF mintKilled, At
      <3> QED BY <2>1, <2>2, <3>1, GoesFits DEF mintKilled
    <2>3. CASE blocked(r)
      <3>1. Fits([req[r] EXCEPT !.step = "blockedNetwork"]) /\ Fits([req[r] EXCEPT !.step = "expired"])
        BY <2>1, <2>3, OnFits DEF blocked, At
      <3> QED BY <2>1, <2>3, <3>1, GoesFits DEF blocked
    <2>4. CASE findExpiredByEmail(r)
      <3> DEFINE today == IF r \in Minters THEN Day(now) ELSE req[r].day
      <3>1. today \in Days
        BY <2>1 DEF Fits, Record
      <3> HIDE DEF today
      <3>2. req[r].step # "away"
        BY <2>4 DEF findExpiredByEmail, At
      <3>3. \/ Goes(r, [req[r] EXCEPT !.step = "live", !.day = today])
            \/ \E d \in Nat : Goes(r, [req[r] EXCEPT !.step = "wipe", !.day = today, !.drive = d])
        <4>1. ExpiredByEmail(req[r].email, now) \subseteq Nat
          BY DEF ExpiredByEmail, Unwiped, TablesFit
        <4> QED BY <2>4, <4>1, Zenon DEF findExpiredByEmail, today
      <3> QED BY <2>1, <3>1, <3>2, <3>3, OnFits, GoesFits
    <2>5. CASE wipe(r)
      <3>1. Fits([req[r] EXCEPT !.step = "live", !.drive = 0])
        BY <2>1, <2>5, OnFits DEF wipe, At
      <3> QED BY <2>1, <2>5, <3>1, GoesFits DEF wipe
    <2>6. CASE findLiveByEmail(r)
      <3>1. Fits([req[r] EXCEPT !.step = "dailyCount"]) /\ Fits([req[r] EXCEPT !.step = "insert", !.at = now])
        BY <2>1, <2>6, OnFits DEF findLiveByEmail, At
      <3> QED BY <2>1, <2>6, <3>1, GoesFits DEF findLiveByEmail
    <2>7. CASE Dies(r)
      BY <2>1, <2>7, GoesFits DEF Dies
    <2> QED BY <1>4, <2>2, <2>3, <2>4, <2>5, <2>6, <2>7 DEF SharedStep
  <1>5. ASSUME NEW key \in Orders, lift(key)
        PROVE  RequestsFit'
    <2>1. \A r \in Requests : Fits([req[r] EXCEPT !.bars = @ \ {key}])
      BY DEF RequestsFit, Fits, Record
    <2> QED BY <1>5, <2>1 DEF lift, RequestsFit
  <1>6. \/ UNCHANGED req
        \/ \E m \in Minters : MintStep(m)
        \/ \E v \in Verifiers : VerifyStep(v)
        \/ \E r \in Requests : SharedStep(r)
        \/ \E key \in Orders : lift(key)
    BY DEF Next, vars, Tick, freeze, markWiped, order
  <1> QED BY <1>1, <1>2, <1>3, <1>4, <1>5, <1>6

\* The tables and the requests hold what they can hold, for every number of
\* requests, emails and links and every cap.
THEOREM TypeCorrect == Spec => []TypeOK
  <1>1. TypeOK /\ [Next]_vars => TypeOK'
    <2>1. TypeOK' <=> TablesFit' /\ RequestsFit'
      BY Halves, PTL
    <2> QED BY <2>1, Halves, TablesNext, RequestsNext
  <1> QED BY <1>1, TypeInit, PTL DEF Spec

-----------------------------------------------------------------------------
(* Orders: what a request has passed is no longer in force against it *)

Early == {"away", "claim", "countMint"}

Passed(next) ==
  /\ next.bars \subseteq {Kill, next.email, next.network}
  /\ next.step = "away" => next.bars = {}
  /\ next.step \notin Early \cup {"killed"} => Kill \notin next.bars
  /\ next.step \notin Early \cup {"killed", "blockedEmail"} => next.email \notin next.bars
  /\ next.step \notin Early \cup Checks => next.network \notin next.bars

OrdersInv ==
  \A r \in Requests : Passed(req[r]) /\ req[r].bars \subseteq orders

LEMMA AwayPassed == Passed(Away) /\ Away.bars = {}
  BY DEF Passed, Away

LEMMA GoesPassed ==
  ASSUME RequestsFit, OrdersInv, NEW r \in Requests, NEW next, Goes(r, next),
         Passed(next), next.bars \subseteq orders, UNCHANGED orders
  PROVE  OrdersInv'
  <1>1. \A q \in Requests : req'[q] = IF q = r THEN next ELSE req[q]
    BY DEF RequestsFit, Goes
  <1>2. \A q \in Requests : Passed(req'[q]) /\ req'[q].bars \subseteq orders
    BY <1>1 DEF OrdersInv
  <1> QED BY <1>2 DEF OrdersInv, Passed

\* A request that is past the checks stays so.
LEMMA OnPassed ==
  ASSUME NEW seen, Fits(seen), Passed(seen), seen.step \notin Early \cup Checks, NEW step \in Steps
  PROVE  /\ Passed([seen EXCEPT !.step = step])
         /\ \A day, drive :
              /\ Passed([seen EXCEPT !.step = step, !.day = day])
              /\ Passed([seen EXCEPT !.step = step, !.day = day, !.drive = drive])
              /\ Passed([seen EXCEPT !.step = step, !.drive = drive])
         /\ \A link : Passed([seen EXCEPT !.step = step, !.link = link])
         /\ \A at : Passed([seen EXCEPT !.step = step, !.at = at])
  <1>1. seen \in Record
    BY DEF Fits
  <1>2. ASSUME NEW next, next.bars = seen.bars, next.email = seen.email, next.network = seen.network
        PROVE  Passed(next)
    <2>1. Kill \notin seen.bars /\ seen.email \notin seen.bars /\ seen.network \notin seen.bars
      BY DEF Passed, Checks
    <2> QED BY <1>2, <2>1 DEF Passed
  <1>3. ASSUME NEW day, NEW drive
        PROVE  /\ Passed([seen EXCEPT !.step = step, !.day = day])
               /\ Passed([seen EXCEPT !.step = step, !.day = day, !.drive = drive])
               /\ Passed([seen EXCEPT !.step = step, !.drive = drive])
    BY <1>1, <1>2 DEF Record
  <1>4. ASSUME NEW link
        PROVE  Passed([seen EXCEPT !.step = step, !.link = link])
    BY <1>1, <1>2 DEF Record
  <1>5. ASSUME NEW at
        PROVE  Passed([seen EXCEPT !.step = step, !.at = at])
    BY <1>1, <1>2 DEF Record
  <1>6. Passed([seen EXCEPT !.step = step])
    BY <1>1, <1>2 DEF Record
  <1> QED BY <1>3, <1>4, <1>5, <1>6

LEMMA OrdersNext == RequestsFit /\ OrdersInv /\ [Next]_vars => OrdersInv'
  <1> SUFFICES ASSUME RequestsFit, OrdersInv, [Next]_vars
               PROVE  OrdersInv'
    OBVIOUS
  <1>1. ASSUME UNCHANGED req, orders \subseteq orders'
        PROVE  OrdersInv'
    BY <1>1 DEF OrdersInv, Passed
  <1>2. ASSUME NEW m \in Minters, MintStep(m)
        PROVE  OrdersInv'
    <2>1. /\ m \in Requests /\ Fits(req[m]) /\ req[m] \in Record
          /\ Passed(req[m]) /\ req[m].bars \subseteq orders
      BY Places DEF RequestsFit, OrdersInv, Fits
    <2>2. ASSUME NEW email \in Emails, NEW network \in Networks, Ask(m, email, network)
          PROVE  OrdersInv'
      <3> DEFINE next == [Away EXCEPT !.step = "killed", !.email = email, !.network = network,
                                      !.bars = orders \cap {Kill, email, network}]
      <3>1. Passed(next) /\ next.bars \subseteq orders
        BY DEF Passed, Away, Checks
      <3>2. Goes(m, next) /\ UNCHANGED orders
        BY <2>2 DEF Ask, tables
      <3> HIDE DEF next
      <3> QED BY <2>1, <3>1, <3>2, GoesPassed
    <2>3. CASE dailyCount(m)
      <3>1. Passed([req[m] EXCEPT !.step = "record"])
        BY <2>1, <2>3, Places, OnPassed DEF dailyCount, At, Early, Checks
      <3>2. [req[m] EXCEPT !.step = "record"].bars = req[m].bars
        BY <2>1 DEF Record
      <3> QED BY <2>1, <2>3, <3>1, <3>2, GoesPassed, AwayPassed DEF dailyCount, tables
    <2>4. CASE insertVerification(m)
      <3>1. Passed([req[m] EXCEPT !.step = "send", !.link = Len(links) + 1])
        BY <2>1, <2>4, Places, OnPassed DEF insertVerification, At, Early, Checks
      <3>2. [req[m] EXCEPT !.step = "send", !.link = Len(links) + 1].bars = req[m].bars
        BY <2>1 DEF Record
      <3> QED BY <2>1, <2>4, <3>1, <3>2, GoesPassed DEF insertVerification
    <2>5. ASSUME NEW delivered \in BOOLEAN, NEW accepted \in BOOLEAN,
                 sendEmail(m, delivered, accepted)
          PROVE  OrdersInv'
      <3>1. /\ Passed([req[m] EXCEPT !.step = "countMail"])
            /\ Passed([req[m] EXCEPT !.step = "delete"])
        BY <2>1, <2>5, Places, OnPassed DEF sendEmail, At, Early, Checks
      <3>2. /\ [req[m] EXCEPT !.step = "countMail"].bars = req[m].bars
            /\ [req[m] EXCEPT !.step = "delete"].bars = req[m].bars
        BY <2>1 DEF Record
      <3>3. /\ Goes(m, [req[m] EXCEPT !.step = "countMail"]) \/ Goes(m, [req[m] EXCEPT !.step = "delete"])
            /\ UNCHANGED orders
        BY <2>5 DEF sendEmail
      <3> QED BY <2>1, <3>1, <3>2, <3>3, GoesPassed
    <2>6. CASE deleteVerification(m) \/ countMail(m)
      BY <2>1, <2>6, GoesPassed, AwayPassed DEF deleteVerification, countMail
    <2> QED BY <1>2, <2>2, <2>3, <2>4, <2>5, <2>6 DEF MintStep
  <1>3. ASSUME NEW v \in Verifiers, VerifyStep(v)
        PROVE  OrdersInv'
    <2>1. /\ v \in Requests /\ Fits(req[v]) /\ req[v] \in Record
          /\ Passed(req[v]) /\ req[v].bars \subseteq orders
      BY Places DEF RequestsFit, OrdersInv, Fits
    <2>2. ASSUME NEW i \in DOMAIN links, Select(v, i)
          PROVE  OrdersInv'
      <3> DEFINE next == [Away EXCEPT !.step = "claim", !.link = i, !.email = links[i].email,
                                      !.network = links[i].network,
                                      !.bars = orders \cap {Kill, links[i].email, links[i].network}]
      <3>1. Passed(next) /\ next.bars \subseteq orders
        BY DEF Passed, Away, Early
      <3>2. Goes(v, next) /\ UNCHANGED orders
        BY <2>2 DEF Select, tables
      <3> HIDE DEF next
      <3> QED BY <2>1, <3>1, <3>2, GoesPassed
    <2>3. CASE claim(v)
      <3> DEFINE next == [req[v] EXCEPT !.step = "countMint", !.day = Day(now)]
      <3>1. Passed(next) /\ next.bars = req[v].bars
        BY <2>1 DEF Record, Passed, Early
      <3> QED BY <2>1, <2>3, <3>1, GoesPassed, AwayPassed DEF claim
    <2>4. CASE countMint(v)
      <3> DEFINE next == [req[v] EXCEPT !.step = "killed"]
      <3>1. Passed(next) /\ next.bars = req[v].bars
        BY <2>1 DEF Record, Passed, Early, Checks
      <3> QED BY <2>1, <2>4, <3>1, GoesPassed, AwayPassed DEF countMint
    <2>5. CASE insertDrive(v)
      BY <2>1, <2>5, GoesPassed, AwayPassed DEF insertDrive
    <2> QED BY <1>3, <2>2, <2>3, <2>4, <2>5 DEF VerifyStep
  <1>4. ASSUME NEW r \in Requests, SharedStep(r)
        PROVE  OrdersInv'
    <2>1. /\ Fits(req[r]) /\ req[r] \in Record
          /\ Passed(req[r]) /\ req[r].bars \subseteq orders
      BY DEF RequestsFit, OrdersInv, Fits
    <2>2. CASE mintKilled(r)
      <3> DEFINE next == [req[r] EXCEPT !.step = "blockedEmail"]
      <3>1. Kill \notin orders => Passed(next) /\ next.bars = req[r].bars
        BY <2>1 DEF Record, Passed, Early, Checks
      <3> QED BY <2>1, <2>2, <3>1, GoesPassed, AwayPassed DEF mintKilled, tables
    <2>3. CASE blocked(r)
      <3> DEFINE atNetwork == [req[r] EXCEPT !.step = "blockedNetwork"]
                 beyond == [req[r] EXCEPT !.step = "expired"]
      <3>1. At(r, "blockedEmail") /\ req[r].email \notin orders =>
              Passed(atNetwork) /\ atNetwork.bars = req[r].bars
        BY <2>1 DEF Record, Passed, Early, Checks, At
      <3>2. At(r, "blockedNetwork") /\ req[r].network \notin orders =>
              Passed(beyond) /\ beyond.bars = req[r].bars
        BY <2>1 DEF Record, Passed, Early, Checks, At
      <3>3. \/ Goes(r, Away)
            \/ At(r, "blockedEmail") /\ req[r].email \notin orders /\ Goes(r, atNetwork)
            \/ At(r, "blockedNetwork") /\ req[r].network \notin orders /\ Goes(r, beyond)
        BY <2>3 DEF blocked
      <3>4. UNCHANGED orders
        BY <2>3 DEF blocked, tables
      <3> HIDE DEF atNetwork, beyond
      <3> QED BY <2>1, <3>1, <3>2, <3>3, <3>4, GoesPassed, AwayPassed
    <2>4. CASE findExpiredByEmail(r)
      <3>1. req[r].step \notin Early \cup Checks /\ UNCHANGED orders
        BY <2>4 DEF findExpiredByEmail, At, Early, Checks, tables
      <3>2. \E day, d : \/ Goes(r, [req[r] EXCEPT !.step = "live", !.day = day])
                        \/ Goes(r, [req[r] EXCEPT !.step = "wipe", !.day = day, !.drive = d])
        BY <2>4, Zenon DEF findExpiredByEmail
      <3>3. PICK day, d : \/ Goes(r, [req[r] EXCEPT !.step = "live", !.day = day])
                          \/ Goes(r, [req[r] EXCEPT !.step = "wipe", !.day = day, !.drive = d])
        BY <3>2
      <3>4. /\ Passed([req[r] EXCEPT !.step = "live", !.day = day])
            /\ Passed([req[r] EXCEPT !.step = "wipe", !.day = day, !.drive = d])
        BY <2>1, <3>1, Places, OnPassed
      <3>5. /\ [req[r] EXCEPT !.step = "live", !.day = day].bars = req[r].bars
            /\ [req[r] EXCEPT !.step = "wipe", !.day = day, !.drive = d].bars = req[r].bars
        BY <2>1 DEF Record
      <3> QED BY <2>1, <3>1, <3>3, <3>4, <3>5, GoesPassed
    <2>5. CASE wipe(r)
      <3>1. Passed([req[r] EXCEPT !.step = "live", !.drive = 0])
        BY <2>1, <2>5, Places, OnPassed DEF wipe, At, Early, Checks
      <3>2. [req[r] EXCEPT !.step = "live", !.drive = 0].bars = req[r].bars
        BY <2>1 DEF Record
      <3> QED BY <2>1, <2>5, <3>1, <3>2, GoesPassed DEF wipe
    <2>6. CASE findLiveByEmail(r)
      <3>1. /\ Passed([req[r] EXCEPT !.step = "dailyCount"])
            /\ Passed([req[r] EXCEPT !.step = "insert", !.at = now])
        BY <2>1, <2>6, Places, OnPassed DEF findLiveByEmail, At, Early, Checks
      <3>2. /\ [req[r] EXCEPT !.step = "dailyCount"].bars = req[r].bars
            /\ [req[r] EXCEPT !.step = "insert", !.at = now].bars = req[r].bars
        BY <2>1 DEF Record
      <3> QED BY <2>1, <2>6, <3>1, <3>2, GoesPassed, AwayPassed DEF findLiveByEmail, tables
    <2>7. CASE Dies(r)
      BY <2>1, <2>7, GoesPassed, AwayPassed DEF Dies, tables
    <2> QED BY <1>4, <2>2, <2>3, <2>4, <2>5, <2>6, <2>7 DEF SharedStep
  <1>5. ASSUME NEW key \in Orders, lift(key)
        PROVE  OrdersInv'
    <2>1. \A r \in Requests : req[r] \in Record
      BY DEF RequestsFit, Fits
    <2>2. \A r \in Requests : req'[r] = [req[r] EXCEPT !.bars = @ \ {key}]
      BY <1>5 DEF lift
    <2>3. ASSUME NEW r \in Requests
          PROVE  Passed(req'[r]) /\ req'[r].bars \subseteq orders \ {key}
      <3>1. /\ req'[r].bars = req[r].bars \ {key} /\ req'[r].step = req[r].step
            /\ req'[r].email = req[r].email /\ req'[r].network = req[r].network
        BY <2>1, <2>2 DEF Record
      <3>2. Passed(req[r]) /\ req[r].bars \subseteq orders
        BY DEF OrdersInv
      <3> QED BY <3>1, <3>2 DEF Passed
    <2> QED BY <1>5, <2>3 DEF lift, OrdersInv, Passed
  <1>6. \/ UNCHANGED req /\ orders \subseteq orders'
        \/ \E m \in Minters : MintStep(m)
        \/ \E v \in Verifiers : VerifyStep(v)
        \/ \E r \in Requests : SharedStep(r)
        \/ \E key \in Orders : lift(key)
    BY DEF Next, vars, Tick, freeze, markWiped, order, tables
  <1> QED BY <1>1, <1>2, <1>3, <1>4, <1>5, <1>6

\* However many requests overlap and whenever operators give and lift orders, an
\* order in force since a request came stops it before it touches a table.
THEOREM OrdersHoldCorrect == Spec => []OrdersHold
  <1>1. Init => OrdersInv
    BY AwayPassed DEF Init, OrdersInv
  <1>2. TypeOK /\ OrdersInv /\ [Next]_vars => OrdersInv'
    BY Halves, OrdersNext
  <1>3. OrdersInv => OrdersHold
    <2> SUFFICES ASSUME OrdersInv, NEW r \in Requests, req[r].step \notin Checks \cup {"claim", "countMint"}
                 PROVE  req[r].bars = {}
      BY DEF OrdersHold
    <2>1. Passed(req[r])
      BY DEF OrdersInv
    <2>2. CASE req[r].step = "away"
      BY <2>1, <2>2 DEF Passed
    <2>3. CASE req[r].step # "away"
      BY <2>1, <2>3 DEF Passed, Early, Checks
    <2> QED BY <2>2, <2>3
  <1> QED BY <1>1, <1>2, <1>3, TypeCorrect, PTL DEF Spec

-----------------------------------------------------------------------------
(* The cap on messages: once it is reached nobody else gets past the check, *)
(* so what still goes out comes from the other requests in flight.          *)

\* The mints that have passed the check of a day, and those whose message went.
Past(day) == {m \in Minters : req[m].step \in {"record", "send"} /\ req[m].day = day}

Uncounted(day) == {m \in Minters : req[m].step = "countMail" /\ req[m].day = day}

MailInv(day) ==
  IF mailed[day] < EmailCap
  THEN sent[day] <= mailed[day] + Cardinality(Uncounted(day)) + deaths
  ELSE sent[day] + Cardinality(Past(day)) <= EmailCap + Cardinality(Minters) - 1 + deaths

\* What MailInv needs to know of the tables.
LEMMA MailNumbers ==
  ASSUME TablesFit, NEW day \in Days
  PROVE  /\ mailed[day] \in Nat /\ mailed[day] <= EmailCap
         /\ sent[day] \in Nat /\ deaths \in Nat /\ EmailCap \in Nat \ {0}
  BY MintAssumption DEF TablesFit

LEMMA MintersCounted ==
  /\ IsFiniteSet(Minters) /\ Cardinality(Minters) \in Nat
  /\ \A S \in SUBSET Minters : IsFiniteSet(S) /\ Cardinality(S) \in Nat
  /\ \A S, T \in SUBSET Minters :
       S \cap T = {} => Cardinality(S) + Cardinality(T) <= Cardinality(Minters)
  <1>1. IsFiniteSet(Requests) /\ Minters \subseteq Requests
    BY MintAssumption DEF Requests
  <1>2. IsFiniteSet(Minters)
    BY <1>1, FS_Subset
  <1>3. \A S \in SUBSET Minters : /\ IsFiniteSet(S) /\ Cardinality(S) \in Nat
                                  /\ Cardinality(S) <= Cardinality(Minters)
    BY <1>2, FS_Subset, FS_CardinalityType
  <1>4. ASSUME NEW S \in SUBSET Minters, NEW T \in SUBSET Minters, S \cap T = {}
        PROVE  Cardinality(S) + Cardinality(T) <= Cardinality(Minters)
    <2>1. Cardinality(S \cup T) = Cardinality(S) + Cardinality(T) - Cardinality(S \cap T)
      BY <1>3, FS_Union
    <2>2. Cardinality(S \cap T) = 0
      BY <1>4, FS_EmptySet
    <2>3. Cardinality(S \cup T) <= Cardinality(Minters) /\ S \cup T \in SUBSET Minters
      BY <1>3
    <2> QED BY <1>3, <2>1, <2>2, <2>3
  <1> QED BY <1>2, <1>3, <1>4, FS_CardinalityType

\* One mint moves: how the two sets of a day change.
LEMMA SetsMove ==
  ASSUME RequestsFit, NEW m \in Minters, NEW next, Goes(m, next), NEW day
  PROVE  /\ Past(day)' = IF next.step \in {"record", "send"} /\ next.day = day
                         THEN Past(day) \cup {m} ELSE Past(day) \ {m}
         /\ Uncounted(day)' = IF next.step = "countMail" /\ next.day = day
                              THEN Uncounted(day) \cup {m} ELSE Uncounted(day) \ {m}
  <1>1. \A q \in Minters : req'[q] = IF q = m THEN next ELSE req[q]
    BY Places DEF RequestsFit, Goes
  <1> QED BY <1>1 DEF Past, Uncounted

\* A step that changes neither set nor counter, or only a request's death.
LEMMA MailQuiet ==
  ASSUME TablesFit, NEW day \in Days, MailInv(day),
         Past(day)' \subseteq Past(day), Uncounted(day)' = Uncounted(day),
         mailed'[day] = mailed[day], sent'[day] = sent[day], deaths' \in Nat, deaths <= deaths'
  PROVE  MailInv(day)'
  <1>1. /\ Past(day) \in SUBSET Minters /\ Past(day)' \in SUBSET Minters
        /\ Uncounted(day) \in SUBSET Minters
    BY DEF Past, Uncounted
  <1>2. Cardinality(Past(day)') <= Cardinality(Past(day))
    BY <1>1, MintersCounted, FS_Subset
  <1> QED BY <1>1, <1>2, MintersCounted, MailNumbers DEF MailInv

\* The same for a mint that was in neither set and comes into neither.
LEMMA MailElsewhere ==
  ASSUME TablesFit, RequestsFit, NEW day \in Days, MailInv(day),
         NEW m \in Minters, NEW next, Goes(m, next),
         next.step \notin {"record", "send", "countMail"} \/ next.day # day,
         req[m].step # "countMail" \/ req[m].day # day,
         mailed'[day] = mailed[day], sent'[day] = sent[day], deaths' \in Nat, deaths <= deaths'
  PROVE  MailInv(day)'
  <1>1. Past(day)' = Past(day) \ {m} /\ Uncounted(day)' = Uncounted(day) \ {m}
    BY SetsMove
  <1>2. m \notin Uncounted(day)
    BY DEF Uncounted
  <1> QED BY <1>1, <1>2, MailQuiet

\* A message that was accepted is one more, and its mint changes sets.
LEMMA MailSent ==
  ASSUME TablesFit, RequestsFit, NEW m \in Minters, NEW accepted \in BOOLEAN,
         NEW delivered \in BOOLEAN, sendEmail(m, delivered, accepted),
         NEW day \in Days, MailInv(day)
  PROVE  MailInv(day)'
  <1>1. req[m] \in Record /\ req[m].step = "send"
    BY Places DEF RequestsFit, Fits, sendEmail, At
  <1>2. UNCHANGED <<mailed, deaths>> /\ deaths \in Nat
    BY MailNumbers DEF sendEmail
  <1>3. CASE ~ accepted \/ req[m].day # day
    <2> DEFINE next == [req[m] EXCEPT !.step = IF accepted THEN "countMail" ELSE "delete"]
    <2>1. Goes(m, next)
      BY DEF sendEmail
    <2>2. sent'[day] = sent[day]
      BY <1>3 DEF sendEmail, TablesFit
    <2>3. next.step \notin {"record", "send", "countMail"} \/ next.day # day
      BY <1>1, <1>3 DEF Record
    <2>4. /\ req[m].step # "countMail"
          /\ mailed'[day] = mailed[day] /\ deaths' \in Nat /\ deaths <= deaths'
      BY <1>1, <1>2
    <2> HIDE DEF next
    <2> QED BY <2>1, <2>2, <2>3, <2>4, MailElsewhere
  <1>4. CASE accepted /\ req[m].day = day
    <2> DEFINE next == [req[m] EXCEPT !.step = "countMail"]
    <2>1. next.step = "countMail" /\ next.day = day
      BY <1>1, <1>4 DEF Record
    <2>2. Goes(m, next)
      BY <1>4 DEF sendEmail
    <2> HIDE DEF next
    <2>3. Past(day)' = Past(day) \ {m} /\ Uncounted(day)' = Uncounted(day) \cup {m}
      BY <2>1, <2>2, SetsMove
    <2>4. m \in Past(day) /\ m \notin Uncounted(day)
      BY <1>1, <1>4 DEF Past, Uncounted
    <2>5. Past(day) \in SUBSET Minters /\ Uncounted(day) \in SUBSET Minters
      BY DEF Past, Uncounted
    <2>6. /\ Cardinality(Past(day)') = Cardinality(Past(day)) - 1
          /\ Cardinality(Uncounted(day)') = Cardinality(Uncounted(day)) + 1
      <3>1. IsFiniteSet(Past(day)) /\ IsFiniteSet(Uncounted(day))
        BY <2>5, MintersCounted
      <3>2. Cardinality(Past(day) \ {m}) = Cardinality(Past(day)) - 1
        BY <3>1, <2>4, FS_RemoveElement
      <3>3. Cardinality(Uncounted(day) \cup {m}) = Cardinality(Uncounted(day)) + 1
        BY <3>1, <2>4, FS_AddElement
      <3> QED BY <2>3, <3>2, <3>3
    <2>7. sent'[day] = sent[day] + 1
      BY <1>4 DEF sendEmail, TablesFit
    <2> QED BY <1>2, <2>5, <2>6, <2>7, MailNumbers, MintersCounted DEF MailInv
  <1> QED BY <1>3, <1>4

\* Counting the message that fills the day closes the check: what is left are
\* the other mints in flight.
LEMMA MailCounted ==
  ASSUME TablesFit, RequestsFit, NEW m \in Minters, countMail(m), NEW day \in Days, MailInv(day)
  PROVE  MailInv(day)'
  <1>1. req[m] \in Record /\ req[m].step = "countMail" /\ Goes(m, Away) /\ Away.step = "away"
    BY Places, AwayFits DEF RequestsFit, Fits, countMail, At
  <1>2. UNCHANGED <<sent, deaths>> /\ deaths \in Nat
    BY MailNumbers DEF countMail, history
  <1>3. CASE req[m].day # day
    <2>1. mailed'[day] = mailed[day]
      BY <1>3 DEF countMail, TablesFit
    <2> QED BY <1>1, <1>2, <1>3, <2>1, MailElsewhere
  <1>4. CASE req[m].day = day
    <2>1. Past(day)' = Past(day) \ {m} /\ Uncounted(day)' = Uncounted(day) \ {m}
      BY <1>1, SetsMove
    <2>2. m \notin Past(day) /\ m \in Uncounted(day) /\ Past(day) \cap Uncounted(day) = {}
      BY <1>1, <1>4 DEF Past, Uncounted
    <2>3. Past(day) \in SUBSET Minters /\ Uncounted(day) \in SUBSET Minters
      BY DEF Past, Uncounted
    <2>4. /\ Cardinality(Uncounted(day)') = Cardinality(Uncounted(day)) - 1
          /\ Past(day)' = Past(day)
      BY <2>1, <2>2, <2>3, MintersCounted, FS_RemoveElement
    <2>5. Cardinality(Past(day)) + Cardinality(Uncounted(day)) <= Cardinality(Minters)
      BY <2>2, <2>3, MintersCounted
    <2>6. mailed'[day] = IF mailed[day] < EmailCap THEN mailed[day] + 1 ELSE mailed[day]
      BY <1>4 DEF countMail, Room, TablesFit
    <2>7. /\ Cardinality(Past(day)) \in Nat /\ Cardinality(Uncounted(day)) \in Nat
          /\ Cardinality(Minters) \in Nat
      BY <2>3, MintersCounted
    <2> QED BY <1>2, <2>4, <2>5, <2>6, <2>7, MailNumbers DEF MailInv
  <1> QED BY <1>3, <1>4

\* A mint that dies before it counted its message is one more death.
LEMMA MailDies ==
  ASSUME TablesFit, RequestsFit, NEW m \in Minters, Dies(m), NEW day \in Days, MailInv(day)
  PROVE  MailInv(day)'
  <1>1. Goes(m, Away) /\ Away.step = "away" /\ UNCHANGED <<mailed, sent>>
    BY AwayFits DEF Dies, tables
  <1>2. deaths \in Nat /\ deaths' = deaths + 1
    BY MailNumbers DEF Dies
  <1>3. Past(day)' = Past(day) \ {m} /\ Uncounted(day)' = Uncounted(day) \ {m}
    BY <1>1, SetsMove
  <1>4. Past(day) \in SUBSET Minters /\ Uncounted(day) \in SUBSET Minters
    BY DEF Past, Uncounted
  <1>5. /\ Cardinality(Past(day)') <= Cardinality(Past(day))
        /\ Cardinality(Uncounted(day)') >= Cardinality(Uncounted(day)) - 1
        /\ Cardinality(Past(day)') \in Nat /\ Cardinality(Uncounted(day)') \in Nat
    <2>1. /\ IsFiniteSet(Past(day)) /\ Cardinality(Past(day)) \in Nat
          /\ IsFiniteSet(Uncounted(day)) /\ Cardinality(Uncounted(day)) \in Nat
          /\ Cardinality(Past(day) \ {m}) \in Nat /\ Cardinality(Uncounted(day) \ {m}) \in Nat
      BY <1>4, MintersCounted
    <2>2. \A S : IsFiniteSet(S) =>
            Cardinality(S \ {m}) = IF m \in S THEN Cardinality(S) - 1 ELSE Cardinality(S)
      BY FS_RemoveElement
    <2>3. Cardinality(Past(day) \ {m}) <= Cardinality(Past(day))
      BY <2>1, <2>2
    <2>4. Cardinality(Uncounted(day) \ {m}) >= Cardinality(Uncounted(day)) - 1
      BY <2>1, <2>2
    <2> QED BY <1>3, <2>1, <2>3, <2>4
  <1> QED BY <1>1, <1>2, <1>4, <1>5, MailNumbers, MintersCounted DEF MailInv

LEMMA MailNext ==
  ASSUME TablesFit, RequestsFit, [Next]_vars, NEW day \in Days, MailInv(day)
  PROVE  MailInv(day)'
  <1> deaths \in Nat
    BY MailNumbers
  \* Nobody's place changes, or only that of a verify.
  <1>1. ASSUME \A m \in Minters : req'[m].step = req[m].step /\ req'[m].day = req[m].day,
               UNCHANGED <<mailed, sent>>, deaths' \in Nat, deaths <= deaths'
        PROVE  MailInv(day)'
    <2>1. Past(day)' = Past(day) /\ Uncounted(day)' = Uncounted(day)
      BY <1>1 DEF Past, Uncounted
    <2> QED BY <1>1, <2>1, MailQuiet
  <1>2. ASSUME NEW v \in Verifiers, NEW next, Goes(v, next),
               UNCHANGED <<mailed, sent>>, deaths' \in Nat, deaths <= deaths'
        PROVE  MailInv(day)'
    <2>1. \A m \in Minters : req'[m] = req[m]
      BY <1>2, Places, MintAssumption DEF Goes, RequestsFit
    <2> QED BY <1>1, <1>2, <2>1
  <1>3. ASSUME NEW m \in Minters, MintStep(m)
        PROVE  MailInv(day)'
    <2>1. req[m] \in Record /\ Away.step = "away"
      BY Places, AwayFits DEF RequestsFit, Fits
    <2>2. ASSUME NEW email \in Emails, NEW network \in Networks, Ask(m, email, network)
          PROVE  MailInv(day)'
      <3> DEFINE next == [Away EXCEPT !.step = "killed", !.email = email, !.network = network,
                                      !.bars = orders \cap {Kill, email, network}]
      <3>1. next.step = "killed" /\ req[m].step = "away"
        BY <2>2 DEF Away, Ask, At
      <3>2. Goes(m, next) /\ UNCHANGED <<mailed, sent, deaths>>
        BY <2>2 DEF Ask, tables, history
      <3> HIDE DEF next
      <3> QED BY <3>1, <3>2, MailElsewhere
    <2>3. CASE dailyCount(m)
      <3>1. UNCHANGED <<mailed, sent, deaths>> /\ req[m].step = "dailyCount"
        BY <2>3 DEF dailyCount, tables, history, At
      <3>2. CASE EmailCap <= mailed[req[m].day]
        BY <2>1, <2>3, <3>1, <3>2, MailElsewhere DEF dailyCount
      <3>3. CASE ~ (EmailCap <= mailed[req[m].day])
        <4> DEFINE next == [req[m] EXCEPT !.step = "record"]
        <4>1. Goes(m, next)
          BY <2>3, <3>3 DEF dailyCount
        <4>2. next.day = req[m].day /\ next.step = "record"
          BY <2>1 DEF Record
        <4> HIDE DEF next
        <4>3. CASE req[m].day # day
          BY <3>1, <4>1, <4>2, <4>3, MailElsewhere
        <4>4. CASE req[m].day = day
          <5>1. Uncounted(day)' = Uncounted(day) \ {m} /\ m \notin Uncounted(day)
            BY <3>1, <4>1, <4>2, SetsMove DEF Uncounted
          <5>2. Uncounted(day)' = Uncounted(day)
            BY <5>1
          <5>3. mailed[day] < EmailCap
            BY <3>3, <4>4, MailNumbers
          <5> QED BY <3>1, <5>2, <5>3 DEF MailInv
        <4> QED BY <4>3, <4>4
      <3> QED BY <3>2, <3>3
    <2>4. CASE insertVerification(m)
      <3> DEFINE next == [req[m] EXCEPT !.step = "send", !.link = Len(links) + 1]
      <3>1. next.step = "send" /\ next.day = req[m].day /\ req[m].step = "record"
        BY <2>1, <2>4 DEF Record, insertVerification, At
      <3>2. Goes(m, next) /\ UNCHANGED <<mailed, sent, deaths>>
        BY <2>4 DEF insertVerification, history
      <3> HIDE DEF next
      <3>3. Past(day)' \subseteq Past(day) /\ Uncounted(day)' = Uncounted(day)
        BY <3>1, <3>2, SetsMove DEF Past, Uncounted
      <3> QED BY <3>2, <3>3, MailQuiet
    <2>5. ASSUME NEW delivered \in BOOLEAN, NEW accepted \in BOOLEAN,
                 sendEmail(m, delivered, accepted)
          PROVE  MailInv(day)'
      BY <2>5, MailSent
    <2>6. CASE deleteVerification(m)
      <3>1. Goes(m, Away) /\ UNCHANGED <<mailed, sent, deaths>> /\ req[m].step = "delete"
        BY <2>6 DEF deleteVerification, history, At
      <3> QED BY <2>1, <3>1, MailElsewhere
    <2>7. CASE countMail(m)
      BY <2>7, MailCounted
    <2> QED BY <1>3, <2>2, <2>3, <2>4, <2>5, <2>6, <2>7 DEF MintStep
  <1>4. ASSUME NEW v \in Verifiers, VerifyStep(v)
        PROVE  MailInv(day)'
    <2>1. UNCHANGED <<mailed, sent, deaths>> /\ \E next : Goes(v, next)
      BY <1>4, Zenon DEF VerifyStep, Select, claim, countMint, insertDrive, tables, history
    <2> QED BY <1>2, <2>1
  <1>5. ASSUME NEW r \in Requests, SharedStep(r), ~ Dies(r)
        PROVE  MailInv(day)'
    <2>1. UNCHANGED <<mailed, sent, deaths>>
      BY <1>5 DEF SharedStep, mintKilled, blocked, findExpiredByEmail, wipe, findLiveByEmail,
                  tables, history
    <2>2. req[r] \in Record /\ Away.step = "away" /\ req[r].step # "countMail"
      BY <1>5, AwayFits DEF RequestsFit, Fits, At,
         SharedStep, mintKilled, blocked, findExpiredByEmail, wipe, findLiveByEmail
    <2>3. ASSUME NEW next, Goes(r, next), next.step \notin {"record", "send", "countMail"}
          PROVE  MailInv(day)'
      <3>1. CASE r \in Minters
        BY <2>1, <2>2, <2>3, <3>1, MailElsewhere
      <3>2. CASE r \in Verifiers
        BY <1>2, <2>1, <2>3, <3>2
      <3> QED BY <3>1, <3>2 DEF Requests
    <2>4. ASSUME NEW step \in {"blockedEmail", "blockedNetwork", "expired", "dailyCount"},
                 Goes(r, [req[r] EXCEPT !.step = step])
          PROVE  MailInv(day)'
      <3>1. [req[r] EXCEPT !.step = step].step = step
        BY <2>2 DEF Record
      <3> QED BY <2>3, <2>4, <3>1
    <2>5. Goes(r, Away) => MailInv(day)'
      BY <2>2, <2>3
    <2>6. CASE mintKilled(r)
      BY <2>4, <2>5, <2>6 DEF mintKilled
    <2>7. CASE blocked(r)
      BY <2>4, <2>5, <2>7 DEF blocked
    <2>8. CASE findExpiredByEmail(r)
      <3>1. PICK today, d :
              \/ Goes(r, [req[r] EXCEPT !.step = "live", !.day = today])
              \/ Goes(r, [req[r] EXCEPT !.step = "wipe", !.day = today, !.drive = d])
        BY <2>8, Zenon DEF findExpiredByEmail
      <3>2. /\ [req[r] EXCEPT !.step = "live", !.day = today].step = "live"
            /\ [req[r] EXCEPT !.step = "wipe", !.day = today, !.drive = d].step = "wipe"
        BY <2>2 DEF Record
      <3> QED BY <2>3, <3>1, <3>2
    <2>9. CASE wipe(r)
      <3>1. [req[r] EXCEPT !.step = "live", !.drive = 0].step = "live"
        BY <2>2 DEF Record
      <3> QED BY <2>3, <2>9, <3>1 DEF wipe
    <2>10. CASE findLiveByEmail(r)
      <3>1. [req[r] EXCEPT !.step = "insert", !.at = now].step = "insert"
        BY <2>2 DEF Record
      <3> QED BY <2>3, <2>4, <2>5, <2>10, <3>1 DEF findLiveByEmail
    <2> QED BY <1>5, <2>6, <2>7, <2>8, <2>9, <2>10 DEF SharedStep
  <1>6. ASSUME NEW r \in Requests, Dies(r)
        PROVE  MailInv(day)'
    <2>1. Goes(r, Away) /\ UNCHANGED <<mailed, sent>> /\ deaths' = deaths + 1
      BY <1>6 DEF Dies, tables
    <2>2. CASE r \in Minters
      BY <1>6, <2>2, MailDies
    <2>3. CASE r \in Verifiers
      BY <1>2, <2>1, <2>3
    <2> QED BY <2>2, <2>3 DEF Requests
  <1>7. ASSUME NEW key \in Orders, lift(key)
        PROVE  MailInv(day)'
    <2>1. \A m \in Minters : req[m] \in Record /\ req'[m] = [req[m] EXCEPT !.bars = @ \ {key}]
      BY <1>7, Places DEF lift, RequestsFit, Fits
    <2>2. \A m \in Minters : req'[m].step = req[m].step /\ req'[m].day = req[m].day
      BY <2>1 DEF Record
    <2> QED BY <1>1, <1>7, <2>2 DEF lift, history
  <1>8. ASSUME UNCHANGED <<req, mailed, sent, deaths>>
        PROVE  MailInv(day)'
    BY <1>1, <1>8
  <1>9. \/ UNCHANGED <<req, mailed, sent, deaths>>
        \/ \E m \in Minters : MintStep(m)
        \/ \E v \in Verifiers : VerifyStep(v)
        \/ \E r \in Requests : SharedStep(r)
        \/ \E key \in Orders : lift(key)
    BY DEF Next, vars, Tick, freeze, markWiped, order, tables, history
  <1> QED BY <1>3, <1>4, <1>5, <1>6, <1>7, <1>8, <1>9

\* The cap that is read before sending and counted after it is exceeded by at
\* most one message for each other mint in flight, and one for each that died.
THEOREM MailsNearCapCorrect == Spec => []MailsNearCap
  <1> DEFINE Inv == \A day \in Days : MailInv(day)
  <1>1. Init => Inv
    <2> SUFFICES ASSUME Init, NEW day \in Days
                 PROVE  MailInv(day)
      OBVIOUS
    <2>1. Uncounted(day) = {}
      BY Places, AwayFits DEF Init, Uncounted
    <2>2. sent[day] = 0 /\ mailed[day] = 0 /\ deaths = 0 /\ 0 < EmailCap
      BY MintAssumption DEF Init
    <2> QED BY <2>1, <2>2, FS_EmptySet DEF MailInv
  <1>2. TablesFit /\ RequestsFit /\ Inv /\ [Next]_vars => Inv'
    <2> SUFFICES ASSUME TablesFit, RequestsFit, Inv, [Next]_vars, NEW day \in Days
                 PROVE  MailInv(day)'
      BY DEF Days, Day
    <2> QED BY MailNext
  <1>3. TablesFit /\ Inv => MailsNearCap
    <2> SUFFICES ASSUME TablesFit, Inv, NEW day \in Days
                 PROVE  sent[day] <= EmailCap + Cardinality(Minters) - 1 + deaths
      BY DEF MailsNearCap
    <2>1. Past(day) \in SUBSET Minters /\ Uncounted(day) \in SUBSET Minters
      BY DEF Past, Uncounted
    <2>2. /\ Cardinality(Past(day)) \in Nat /\ Cardinality(Uncounted(day)) \in Nat
          /\ Cardinality(Minters) \in Nat /\ Cardinality(Uncounted(day)) <= Cardinality(Minters)
      BY <2>1, MintersCounted, FS_Subset
    <2> QED BY <2>2, MailNumbers DEF MailInv
  <1> HIDE DEF Inv
  <1> QED BY <1>1, <1>2, <1>3, TypeCorrect, Halves, PTL DEF Spec

=============================================================================

------------------------- MODULE DriveMintRowsProofs -------------------------
(***************************************************************************)
(* Proofs about the table of drives in DriveMint: one drive per email and  *)
(* per link, a day's cap, and that only what is over is wiped.             *)
(***************************************************************************)
EXTENDS DriveMintProofs

-----------------------------------------------------------------------------
(* How the table changes *)

\* A row of another time: only its status has changed, and not back.
SameRow(old, new) ==
  /\ new.email = old.email /\ new.link = old.link /\ new.day = old.day
  /\ new.expiresAt = old.expiresAt
  /\ \/ new.status = old.status
     \/ new.status = "wiped"
     \/ new.status = "frozen" /\ old.status = "active"

KeepsRows ==
  DOMAIN drives' = DOMAIN drives /\ \A d \in DOMAIN drives : SameRow(drives[d], drives'[d])

\* A verify puts a row into the table.
Inserts(v) == insertDrive(v) /\ SlotFree(v)

LEMMA Inserted ==
  ASSUME TablesFit, NEW v, Inserts(v)
  PROVE  /\ DOMAIN drives' = DOMAIN drives \cup {Len(drives) + 1} /\ Len(drives) + 1 \notin DOMAIN drives
         /\ \A d \in DOMAIN drives : drives'[d] = drives[d]
         /\ drives'[Len(drives) + 1].email = req[v].email
         /\ drives'[Len(drives) + 1].link = req[v].link
         /\ drives'[Len(drives) + 1].day = req[v].day
  <1> DEFINE row == [email |-> req[v].email, link |-> req[v].link, status |-> "active",
                     frozenAt |-> 0, expiresAt |-> req[v].at + Ttl, day |-> req[v].day]
  <1>1. drives' = Append(drives, row) /\ drives \in Seq(Drives)
    BY DEF Inserts, insertDrive, TablesFit
  <1> HIDE DEF row
  <1>2. Len(drives) \in Nat /\ DOMAIN drives = 1..Len(drives)
    BY <1>1
  <1>3. /\ DOMAIN drives' = 1..(Len(drives) + 1)
        /\ \A d \in DOMAIN drives : drives'[d] = drives[d]
        /\ drives'[Len(drives) + 1] = row
    BY <1>1
  <1>4. row.email = req[v].email /\ row.link = req[v].link /\ row.day = req[v].day
    BY DEF row
  <1> QED BY <1>2, <1>3, <1>4

LEMMA RowSet ==
  ASSUME TablesFit, NEW d, NEW row, drives' = [drives EXCEPT ![d] = row],
         d \in DOMAIN drives => SameRow(drives[d], row)
  PROVE  KeepsRows
  BY DEF KeepsRows, SameRow

LEMMA RowsNext ==
  ASSUME TablesFit, [Next]_vars
  PROVE  KeepsRows \/ \E v \in Verifiers : Inserts(v)
  <1> USE DEF tables, history
  <1>1. ASSUME drives' = drives PROVE KeepsRows
    BY <1>1 DEF KeepsRows, SameRow
  <1>2. ASSUME NEW m \in Minters, MintStep(m) PROVE drives' = drives
    BY <1>2 DEF MintStep, Ask, dailyCount, insertVerification, sendEmail, deleteVerification, countMail
  <1>3. ASSUME NEW v \in Verifiers, VerifyStep(v) PROVE drives' = drives \/ Inserts(v)
    BY <1>3 DEF VerifyStep, Select, claim, countMint, insertDrive, Inserts
  <1>4. ASSUME NEW d, drives' = [drives EXCEPT ![d].status = "wiped"] PROVE KeepsRows
    <2> DEFINE row == [drives[d] EXCEPT !.status = "wiped"]
    <2>1. d \in DOMAIN drives => SameRow(drives[d], row)
      BY DriveRow DEF SameRow, Drives
    <2>2. drives' = [drives EXCEPT ![d] = row]
      BY <1>4
    <2> HIDE DEF row
    <2> QED BY <2>1, <2>2, RowSet
  <1>5. ASSUME NEW r \in Requests, SharedStep(r) PROVE KeepsRows
    <2>1. CASE wipe(r)
      BY <1>4, <2>1 DEF wipe
    <2>2. CASE drives' = drives
      BY <1>1, <2>2
    <2> QED BY <1>5, <2>1, <2>2
         DEF SharedStep, mintKilled, blocked, findExpiredByEmail, findLiveByEmail, Dies
  <1>6. ASSUME NEW d \in DOMAIN drives, freeze(d) PROVE KeepsRows
    <2> DEFINE row == [drives[d] EXCEPT !.status = "frozen", !.frozenAt = now]
    <2>1. SameRow(drives[d], row)
      BY <1>6, DriveRow DEF SameRow, Drives, freeze
    <2>2. drives' = [drives EXCEPT ![d] = row]
      BY <1>6 DEF freeze
    <2> HIDE DEF row
    <2> QED BY <2>1, <2>2, RowSet
  <1>7. ASSUME NEW d \in DOMAIN drives, markWiped(d) PROVE KeepsRows
    BY <1>4, <1>7 DEF markWiped
  <1>8. ASSUME Tick \/ UNCHANGED vars \/ \E key \in Orders : order(key) \/ lift(key)
        PROVE  drives' = drives
    BY <1>8 DEF Tick, vars, order, lift
  <1> QED BY <1>1, <1>2, <1>3, <1>5, <1>6, <1>7, <1>8 DEF Next

-----------------------------------------------------------------------------
(* One drive per email *)

OneSlot ==
  \A d, e \in DOMAIN drives :
    drives[d].email = drives[e].email /\ drives[d].status # "wiped" /\ drives[e].status # "wiped" => d = e

LEMMA OneSlotNext == TablesFit /\ OneSlot /\ [Next]_vars => OneSlot'
  <1> SUFFICES ASSUME TablesFit, OneSlot, [Next]_vars PROVE OneSlot'
    OBVIOUS
  <1>1. CASE KeepsRows
    <2>1. \A d \in DOMAIN drives : drives'[d].email = drives[d].email
            /\ (drives'[d].status # "wiped" => drives[d].status # "wiped")
      BY <1>1 DEF KeepsRows, SameRow
    <2> QED BY <1>1, <2>1 DEF KeepsRows, OneSlot
  <1>2. ASSUME NEW v \in Verifiers, Inserts(v) PROVE OneSlot'
    <2>1. \A d \in DOMAIN drives : drives[d].email = req[v].email => drives[d].status = "wiped"
      BY <1>2 DEF Inserts, SlotFree, Unwiped
    <2> DEFINE n == Len(drives) + 1
    <2>2. /\ DOMAIN drives' = DOMAIN drives \cup {n}
          /\ \A d \in DOMAIN drives : drives'[d] = drives[d]
          /\ drives'[n].email = req[v].email
      BY <1>2, Inserted, Zenon
    <2> HIDE DEF n
    <2> QED BY <2>1, <2>2 DEF OneSlot
  <1> QED BY <1>1, <1>2, RowsNext

\* One drive per email that is not wiped, whatever verifies race for it.
THEOREM OneDrivePerEmailCorrect == Spec => []OneDrivePerEmail
  <1>1. Init => OneSlot
    BY DEF Init, OneSlot
  <1>2. TypeOK /\ OneSlot /\ [Next]_vars => OneSlot'
    BY Halves, OneSlotNext
  <1>3. OneSlot => OneDrivePerEmail
    <2> SUFFICES ASSUME OneSlot, NEW email \in Emails PROVE Cardinality(Unwiped(email)) <= 1
      BY DEF OneDrivePerEmail
    <2>1. \A d, e \in Unwiped(email) : d = e
      BY DEF Unwiped, OneSlot
    <2>2. CASE Unwiped(email) = {}
      BY <2>2, FS_EmptySet
    <2>3. CASE Unwiped(email) # {}
      <3>1. PICK d \in Unwiped(email) : Unwiped(email) = {d}
        BY <2>1, <2>3
      <3>2. Cardinality({d}) = 1
        BY FS_Singleton
      <3> QED BY <3>1, <3>2
    <2> QED BY <2>2, <2>3
  <1> QED BY <1>1, <1>2, <1>3, TypeCorrect, PTL DEF Spec

-----------------------------------------------------------------------------
(* What the requests may do from one state to the next *)

\* A verify that has been counted.
Paid(r) == req[r].step \notin {"away", "claim", "countMint"}

Alone(r) == \A q \in Requests \ {r} : req'[q] = req[q]

\* Where a verify is afterwards, and what it brought with it.
Moves(v) ==
  \/ req'[v].step = "away"
  \/ req'[v].step = "claim" /\ req'[v].link \in DOMAIN links
  \/ /\ req'[v].step = "countMint" /\ req'[v].link = req[v].link
     /\ \/ req[v].step = "countMint"
        \/ /\ req[v].step = "claim" /\ Alone(v) /\ drives' = drives
           /\ links[req[v].link].state = "unused"
           /\ links' = [links EXCEPT ![req[v].link].state = "used"]
  \/ /\ Paid(v)' /\ req'[v].link = req[v].link /\ req'[v].day = req[v].day
     /\ \/ Paid(v)
        \/ /\ req[v].step = "countMint" /\ Alone(v) /\ drives' = drives
           /\ minted[req[v].day] < MintCap
           /\ minted' = [minted EXCEPT ![req[v].day] = @ + 1]

\* One request goes somewhere, the others stay.
LEMMA GoesAlone ==
  ASSUME RequestsFit, NEW r \in Requests, NEW next, Goes(r, next)
  PROVE  req'[r] = next /\ Alone(r)
  BY DEF RequestsFit, Goes, Alone

\* Verifies that were about to claim know a link.
KnowsLink == \A v \in Verifiers : req[v].step # "away" => req[v].link \in DOMAIN links

LEMMA StaysMoves ==
  ASSUME KnowsLink, NEW v \in Verifiers,
         req'[v].step = req[v].step, req'[v].link = req[v].link, req'[v].day = req[v].day
  PROVE  Moves(v)
  BY DEF KnowsLink, Moves, Paid

LEMMA VerifyMoves ==
  ASSUME TablesFit, RequestsFit, NEW v \in Verifiers, VerifyStep(v)
  PROVE  Moves(v) /\ Alone(v)
  <1>1. v \in Requests /\ req[v] \in Record
    BY Places DEF RequestsFit, Fits
  <1>2. Away.step = "away"
    BY DEF Away
  <1>3. ASSUME NEW i \in DOMAIN links, Select(v, i) PROVE Moves(v) /\ Alone(v)
    <2> DEFINE next == [Away EXCEPT !.step = "claim", !.link = i, !.email = links[i].email,
                                    !.network = links[i].network,
                                    !.bars = orders \cap {Kill, links[i].email, links[i].network}]
    <2>1. next.step = "claim" /\ next.link = i
      BY DEF Away
    <2>2. Goes(v, next)
      BY <1>3 DEF Select
    <2> HIDE DEF next
    <2> QED BY <1>1, <2>1, <2>2, GoesAlone DEF Moves
  <1>4. CASE claim(v)
    <2> DEFINE next == [req[v] EXCEPT !.step = "countMint", !.day = Day(now)]
    <2>1. next.step = "countMint" /\ next.link = req[v].link
      BY <1>1 DEF Record
    <2>2. CASE Goes(v, Away)
      BY <1>1, <1>2, <2>2, GoesAlone DEF Moves
    <2>3. CASE /\ Goes(v, next) /\ links[req[v].link].state = "unused"
               /\ links' = [links EXCEPT ![req[v].link].state = "used"]
      <3>1. req[v].step = "claim" /\ drives' = drives
        BY <1>4 DEF claim, At
      <3> HIDE DEF next
      <3> QED BY <1>1, <2>1, <2>3, <3>1, GoesAlone DEF Moves
    <2> QED BY <1>4, <2>2, <2>3 DEF claim
  <1>5. CASE countMint(v)
    <2> DEFINE next == [req[v] EXCEPT !.step = "killed"]
    <2>1. next.step = "killed" /\ next.link = req[v].link /\ next.day = req[v].day
      BY <1>1 DEF Record
    <2>2. CASE Goes(v, Away)
      BY <1>1, <1>2, <2>2, GoesAlone DEF Moves
    <2>3. CASE /\ Goes(v, next) /\ minted[req[v].day] < MintCap
               /\ minted' = [minted EXCEPT ![req[v].day] = @ + 1]
      <3>1. req[v].step = "countMint" /\ drives' = drives
        BY <1>5 DEF countMint, At
      <3> HIDE DEF next
      <3> QED BY <1>1, <2>1, <2>3, <3>1, GoesAlone DEF Moves, Paid
    <2> QED BY <1>5, <2>2, <2>3 DEF countMint, Room
  <1>6. CASE insertDrive(v)
    BY <1>1, <1>2, <1>6, GoesAlone DEF insertDrive, Moves
  <1> QED BY <1>3, <1>4, <1>5, <1>6 DEF VerifyStep

LEMMA SharedMoves ==
  ASSUME RequestsFit, NEW r \in Requests, SharedStep(r)
  PROVE  /\ Alone(r)
         /\ r \in Verifiers => Moves(r)
  <1>1. req[r] \in Record /\ (r \in Verifiers => r \notin Minters)
    BY MintAssumption DEF RequestsFit, Fits
  <1>2. Away.step = "away"
    BY DEF Away
  \* A counted verify goes on.
  <1>3. ASSUME NEW next, Goes(r, next),
               r \in Verifiers => /\ next.link = req[r].link /\ next.day = req[r].day
                                 /\ next.step \notin {"away", "claim", "countMint"} /\ Paid(r)
        PROVE  Alone(r) /\ (r \in Verifiers => Moves(r))
    BY <1>3, GoesAlone DEF Moves, Paid
  <1>4. CASE Goes(r, Away)
    BY <1>2, <1>4, GoesAlone DEF Moves
  <1>5. CASE mintKilled(r)
    <2> DEFINE next == [req[r] EXCEPT !.step = "blockedEmail"]
    <2>1. next.link = req[r].link /\ next.day = req[r].day /\ next.step = "blockedEmail" /\ Paid(r)
      BY <1>1, <1>5 DEF Record, mintKilled, At, Paid
    <2>2. Goes(r, Away) \/ Goes(r, next)
      BY <1>5 DEF mintKilled
    <2> HIDE DEF next
    <2> QED BY <1>3, <1>4, <2>1, <2>2
  <1>6. CASE blocked(r)
    <2> DEFINE atNetwork == [req[r] EXCEPT !.step = "blockedNetwork"]
               beyond == [req[r] EXCEPT !.step = "expired"]
    <2>1. /\ atNetwork.link = req[r].link /\ atNetwork.day = req[r].day /\ atNetwork.step = "blockedNetwork"
          /\ beyond.link = req[r].link /\ beyond.day = req[r].day /\ beyond.step = "expired"
      BY <1>1 DEF Record
    <2>2. Paid(r)
      BY <1>6 DEF blocked, At, Paid
    <2>3. Goes(r, Away) \/ Goes(r, atNetwork) \/ Goes(r, beyond)
      BY <1>6 DEF blocked
    <2> HIDE DEF atNetwork, beyond
    <2> QED BY <1>3, <1>4, <2>1, <2>2, <2>3
  <1>7. CASE findExpiredByEmail(r)
    <2>1. PICK day, d :
            /\ r \in Verifiers => day = req[r].day
            /\ \/ Goes(r, [req[r] EXCEPT !.step = "live", !.day = day])
               \/ Goes(r, [req[r] EXCEPT !.step = "wipe", !.day = day, !.drive = d])
      <3> DEFINE today == IF r \in Minters THEN Day(now) ELSE req[r].day
      <3>1. r \in Verifiers => today = req[r].day
        BY <1>1
      <3>2. \/ Goes(r, [req[r] EXCEPT !.step = "live", !.day = today])
            \/ \E d : Goes(r, [req[r] EXCEPT !.step = "wipe", !.day = today, !.drive = d])
        BY <1>7, Zenon DEF findExpiredByEmail, today
      <3> HIDE DEF today
      <3> QED BY <3>1, <3>2
    <2> DEFINE lives == [req[r] EXCEPT !.step = "live", !.day = day]
               wipes == [req[r] EXCEPT !.step = "wipe", !.day = day, !.drive = d]
    <2>2. /\ lives.link = req[r].link /\ lives.day = day /\ lives.step = "live"
          /\ wipes.link = req[r].link /\ wipes.day = day /\ wipes.step = "wipe"
      BY <1>1 DEF Record
    <2>3. Paid(r)
      BY <1>7 DEF findExpiredByEmail, At, Paid
    <2>4. Goes(r, lives) \/ Goes(r, wipes)
      BY <2>1
    <2> HIDE DEF lives, wipes
    <2> QED BY <1>3, <2>1, <2>2, <2>3, <2>4
  <1>8. CASE wipe(r)
    <2> DEFINE next == [req[r] EXCEPT !.step = "live", !.drive = 0]
    <2>1. next.link = req[r].link /\ next.day = req[r].day /\ next.step = "live" /\ Paid(r)
      BY <1>1, <1>8 DEF Record, wipe, At, Paid
    <2>2. Goes(r, next)
      BY <1>8 DEF wipe
    <2> HIDE DEF next
    <2> QED BY <1>3, <2>1, <2>2
  <1>9. CASE findLiveByEmail(r)
    <2> DEFINE counts == [req[r] EXCEPT !.step = "dailyCount"]
               inserts == [req[r] EXCEPT !.step = "insert", !.at = now]
    <2>1. /\ counts.link = req[r].link /\ counts.day = req[r].day /\ counts.step = "dailyCount"
          /\ inserts.link = req[r].link /\ inserts.day = req[r].day /\ inserts.step = "insert"
      BY <1>1 DEF Record
    <2>2. Paid(r)
      BY <1>9 DEF findLiveByEmail, At, Paid
    <2>3. Goes(r, Away) \/ Goes(r, counts) \/ Goes(r, inserts)
      BY <1>9 DEF findLiveByEmail
    <2> HIDE DEF counts, inserts
    <2> QED BY <1>3, <1>4, <2>1, <2>2, <2>3
  <1> QED BY <1>4, <1>5, <1>6, <1>7, <1>8, <1>9 DEF SharedStep, Dies

LEMMA MintAlone ==
  ASSUME RequestsFit, NEW m \in Minters, MintStep(m)
  PROVE  Alone(m)
  <1>1. \E next : Goes(m, next)
    BY DEF MintStep, Ask, dailyCount, insertVerification, sendEmail, deleteVerification, countMail
  <1> QED BY <1>1, GoesAlone, Places

LEMMA RequestsMove ==
  ASSUME TablesFit, RequestsFit, KnowsLink, [Next]_vars
  PROVE  \A v \in Verifiers : Moves(v)
  <1> USE Places
  <1>0. \A v \in Verifiers : v \notin Minters
    BY MintAssumption
  <1>1. ASSUME req' = req PROVE \A v \in Verifiers : Moves(v)
    BY <1>1, StaysMoves
  <1>2. ASSUME NEW r \in Requests, Alone(r), r \in Verifiers => Moves(r)
        PROVE  \A v \in Verifiers : Moves(v)
    <2>1. \A v \in Verifiers \ {r} : req'[v] = req[v]
      BY <1>2 DEF Alone
    <2> QED BY <1>2, <2>1, StaysMoves
  <1>3. ASSUME NEW key \in Orders, lift(key) PROVE \A v \in Verifiers : Moves(v)
    <2>1. \A v \in Verifiers : req'[v] = [req[v] EXCEPT !.bars = @ \ {key}] /\ req[v] \in Record
      BY <1>3 DEF lift, RequestsFit, Fits
    <2>2. \A v \in Verifiers : req'[v].step = req[v].step /\ req'[v].link = req[v].link
                               /\ req'[v].day = req[v].day
      BY <2>1 DEF Record
    <2> QED BY <2>2, StaysMoves
  <1>4. ASSUME NEW m \in Minters, MintStep(m) PROVE \A v \in Verifiers : Moves(v)
    BY <1>0, <1>2, <1>4, MintAlone
  <1>5. ASSUME NEW v \in Verifiers, VerifyStep(v) PROVE \A w \in Verifiers : Moves(w)
    BY <1>2, <1>5, VerifyMoves
  <1>6. ASSUME NEW r \in Requests, SharedStep(r) PROVE \A v \in Verifiers : Moves(v)
    BY <1>2, <1>6, SharedMoves
  <1>7. ASSUME \/ Tick \/ UNCHANGED vars \/ \E key \in Orders : order(key)
               \/ \E d \in DOMAIN drives : freeze(d) \/ markWiped(d)
        PROVE  req' = req
    BY <1>7 DEF Tick, vars, order, freeze, markWiped
  <1> QED BY <1>1, <1>3, <1>4, <1>5, <1>6, <1>7 DEF Next

-----------------------------------------------------------------------------
(* One drive per link *)

\* No row of verifications goes, and none is unused again.
LinksGrow ==
  /\ DOMAIN links \subseteq DOMAIN links'
  /\ \A i \in DOMAIN links : links[i].state # "unused" => links'[i].state # "unused"

LEMMA LinkStays ==
  ASSUME TablesFit, NEW i, NEW row, links' = [links EXCEPT ![i] = row],
         i \in DOMAIN links /\ links[i].state # "unused" => row.state # "unused"
  PROVE  LinksGrow
  BY DEF LinksGrow

LEMMA LinksNext ==
  ASSUME TablesFit, [Next]_vars
  PROVE  LinksGrow
  <1> USE DEF tables, history
  <1>1. ASSUME links' = links PROVE LinksGrow
    BY <1>1 DEF LinksGrow
  <1>2. ASSUME NEW i, NEW state, links' = [links EXCEPT ![i].state = state], state # "unused"
        PROVE  LinksGrow
    <2> DEFINE row == [links[i] EXCEPT !.state = state]
    <2>1. i \in DOMAIN links => row.state # "unused"
      BY <1>2, LinkRow DEF Links
    <2>2. links' = [links EXCEPT ![i] = row]
      BY <1>2
    <2> HIDE DEF row
    <2> QED BY <2>1, <2>2, LinkStays
  <1>3. ASSUME NEW m \in Minters, insertVerification(m) PROVE LinksGrow
    <2>1. PICK row : links' = Append(links, row)
      BY <1>3 DEF insertVerification
    <2>2. links \in Seq(Links)
      BY DEF TablesFit
    <2>3. DOMAIN links' = 1..(Len(links) + 1) /\ DOMAIN links = 1..Len(links) /\ Len(links) \in Nat
          /\ \A i \in DOMAIN links : links'[i] = links[i]
      BY <2>1, <2>2
    <2> QED BY <2>3 DEF LinksGrow
  <1>4. ASSUME NEW m \in Minters, NEW delivered \in BOOLEAN, NEW accepted \in BOOLEAN,
               sendEmail(m, delivered, accepted)
        PROVE  LinksGrow
    <2> DEFINE i == req[m].link
               row == [links[i] EXCEPT !.delivered = delivered]
    <2>1. i \in DOMAIN links => row.state = links[i].state
      BY LinkRow DEF Links
    <2>2. links' = [links EXCEPT ![i] = row]
      BY <1>4 DEF sendEmail
    <2> HIDE DEF row
    <2> QED BY <2>1, <2>2, LinkStays
  <1>5. ASSUME NEW m \in Minters, MintStep(m) PROVE LinksGrow
    <2>1. CASE deleteVerification(m)
      BY <1>2, <2>1 DEF deleteVerification
    <2>2. CASE links' = links
      BY <1>1, <2>2
    <2> QED BY <1>3, <1>4, <1>5, <2>1, <2>2 DEF MintStep, Ask, dailyCount, countMail
  <1>6. ASSUME NEW v \in Verifiers, VerifyStep(v) PROVE LinksGrow
    <2>1. CASE claim(v)
      BY <1>1, <1>2, <2>1 DEF claim
    <2>2. CASE links' = links
      BY <1>1, <2>2
    <2> QED BY <1>6, <2>1, <2>2 DEF VerifyStep, Select, countMint, insertDrive
  <1>7. ASSUME NEW r \in Requests, SharedStep(r) PROVE links' = links
    BY <1>7 DEF SharedStep, mintKilled, blocked, findExpiredByEmail, wipe, findLiveByEmail, Dies
  <1>8. ASSUME \/ Tick \/ UNCHANGED vars \/ \E key \in Orders : order(key) \/ lift(key)
               \/ \E d \in DOMAIN drives : freeze(d) \/ markWiped(d)
        PROVE  links' = links
    BY <1>8 DEF Tick, vars, order, lift, freeze, markWiped
  <1> QED BY <1>1, <1>5, <1>6, <1>7, <1>8 DEF Next

\* A verify that has claimed its link.
Holds(v) == req[v].step \notin {"away", "claim"}

\* A link is spent by one verify, and afterwards by the drive it minted.
Spent ==
  /\ KnowsLink
  /\ \A v \in Verifiers : Holds(v) => links[req[v].link].state # "unused"
  /\ \A v, w \in Verifiers : Holds(v) /\ Holds(w) /\ req[v].link = req[w].link => v = w
  /\ \A d \in DOMAIN drives : drives[d].link \in DOMAIN links /\ links[drives[d].link].state # "unused"
  /\ \A d \in DOMAIN drives, v \in Verifiers : Holds(v) => drives[d].link # req[v].link
  /\ LinkMintsOnce

\* The claim that succeeds.
Claims(v) ==
  /\ req[v].step = "claim" /\ req'[v].link = req[v].link /\ Alone(v) /\ drives' = drives
  /\ links[req[v].link].state = "unused"
  /\ links' = [links EXCEPT ![req[v].link].state = "used"]

LEMMA HoldsNext ==
  ASSUME TablesFit, RequestsFit, KnowsLink, [Next]_vars, NEW v \in Verifiers
  PROVE  /\ req'[v].step # "away" => req'[v].link \in DOMAIN links'
         /\ Holds(v)' => req'[v].link = req[v].link /\ (Holds(v) \/ Claims(v))
  <1>1. Moves(v)
    BY RequestsMove
  <1>2. Holds(v)' => req'[v].link = req[v].link /\ (Holds(v) \/ Claims(v))
    BY <1>1 DEF Moves, Holds, Claims, Paid
  <1>3. req'[v].step # "away" => req'[v].link \in DOMAIN links
    BY <1>1, <1>2 DEF Moves, KnowsLink, Paid, Holds
  <1> QED BY <1>2, <1>3, LinksNext DEF LinksGrow

LEMMA SpentNext == TablesFit /\ RequestsFit /\ Spent /\ [Next]_vars => Spent'
  <1> SUFFICES ASSUME TablesFit, RequestsFit, Spent, [Next]_vars PROVE Spent'
    OBVIOUS
  <1>0. KnowsLink /\ KnowsLink' /\ LinksGrow
    BY HoldsNext, LinksNext DEF Spent, KnowsLink
  <1>1. ASSUME NEW c \in Verifiers, Claims(c) PROVE Spent'
    <2>1. drives' = drives /\ \A v \in Verifiers \ {c} : req'[v] = req[v]
      BY <1>1, Places DEF Claims, Alone
    <2>2. req'[c].link = req[c].link /\ req[c].link \in DOMAIN links
          /\ links[req[c].link].state = "unused"
      BY <1>0, <1>1 DEF Claims, KnowsLink
    <2>3. links'[req[c].link].state # "unused"
      BY <1>1, <2>2, LinkRow DEF Claims, Links
    <2>4. \A v \in Verifiers : Holds(v)' => req'[v].link = req[v].link /\ (v = c \/ Holds(v))
      BY <2>1, <2>2 DEF Holds
    <2>5. \A v \in Verifiers : Holds(v)' => links'[req'[v].link].state # "unused"
      BY <1>0, <2>2, <2>3, <2>4 DEF Spent, LinksGrow, KnowsLink, Holds
    <2>6. \A v, w \in Verifiers : Holds(v)' /\ Holds(w)' /\ req'[v].link = req'[w].link => v = w
      BY <2>2, <2>4 DEF Spent
    <2>7. \A d \in DOMAIN drives' :
            drives'[d].link \in DOMAIN links' /\ links'[drives'[d].link].state # "unused"
      BY <1>0, <2>1 DEF Spent, LinksGrow
    <2>8. \A d \in DOMAIN drives', v \in Verifiers : Holds(v)' => drives'[d].link # req'[v].link
      BY <2>1, <2>2, <2>4 DEF Spent
    <2>9. LinkMintsOnce'
      BY <2>1 DEF Spent, LinkMintsOnce
    <2> QED BY <1>0, <2>5, <2>6, <2>7, <2>8, <2>9 DEF Spent
  <1>2. ASSUME \A v \in Verifiers : ~ Claims(v) PROVE Spent'
    <2>1. \A v \in Verifiers : Holds(v)' => Holds(v) /\ req'[v].link = req[v].link
      BY <1>0, <1>2, HoldsNext
    <2>2. \A v \in Verifiers : Holds(v)' => links'[req'[v].link].state # "unused"
      BY <1>0, <2>1 DEF Spent, LinksGrow, KnowsLink, Holds
    <2>3. \A v, w \in Verifiers : Holds(v)' /\ Holds(w)' /\ req'[v].link = req'[w].link => v = w
      BY <2>1 DEF Spent
    <2>4. CASE KeepsRows
      <3>1. \A d \in DOMAIN drives' : d \in DOMAIN drives /\ drives'[d].link = drives[d].link
        BY <2>4 DEF KeepsRows, SameRow
      <3>2. \A d \in DOMAIN drives' :
              drives'[d].link \in DOMAIN links' /\ links'[drives'[d].link].state # "unused"
        BY <1>0, <3>1 DEF Spent, LinksGrow
      <3>3. \A d \in DOMAIN drives', v \in Verifiers : Holds(v)' => drives'[d].link # req'[v].link
        BY <2>1, <3>1 DEF Spent
      <3>4. LinkMintsOnce'
        BY <3>1 DEF Spent, LinkMintsOnce
      <3> QED BY <1>0, <2>2, <2>3, <3>2, <3>3, <3>4 DEF Spent
    <2>5. ASSUME NEW i \in Verifiers, Inserts(i) PROVE Spent'
      <3> DEFINE n == Len(drives) + 1
      <3>1. /\ DOMAIN drives' = DOMAIN drives \cup {n}
            /\ \A d \in DOMAIN drives : drives'[d] = drives[d]
            /\ drives'[n].link = req[i].link
        BY <2>5, Inserted, Zenon
      <3>2. Holds(i)
        BY <2>5 DEF Inserts, insertDrive, At, Holds
      <3>3. ~ Holds(i)'
        BY <2>5, Places, GoesAlone DEF Inserts, insertDrive, Holds, Away
      <3> HIDE DEF n
      <3>4. req[i].link \in DOMAIN links /\ links[req[i].link].state # "unused"
            /\ \A d \in DOMAIN drives : drives[d].link # req[i].link
        BY <3>2 DEF Spent, KnowsLink, Holds
      <3>5. \A d \in DOMAIN drives' :
              drives'[d].link \in DOMAIN links' /\ links'[drives'[d].link].state # "unused"
        BY <1>0, <3>1, <3>4 DEF Spent, LinksGrow
      <3>6. \A d \in DOMAIN drives', v \in Verifiers : Holds(v)' => drives'[d].link # req'[v].link
        BY <2>1, <3>1, <3>2, <3>3 DEF Spent
      <3>7. LinkMintsOnce'
        BY <3>1, <3>4 DEF Spent, LinkMintsOnce
      <3> QED BY <1>0, <2>2, <2>3, <3>5, <3>6, <3>7 DEF Spent
    <2> QED BY <2>4, <2>5, RowsNext
  <1> QED BY <1>1, <1>2

\* A link mints one drive, however many verifies carry it and whatever the
\* mint that made it does meanwhile.
THEOREM LinkMintsOnceCorrect == Spec => []LinkMintsOnce
  <1>1. Init => Spent
    BY Places DEF Init, Spent, KnowsLink, Holds, LinkMintsOnce, Away
  <1>2. TypeOK /\ Spent /\ [Next]_vars => Spent'
    BY Halves, SpentNext
  <1>3. Spent => LinkMintsOnce
    BY DEF Spent
  <1> QED BY <1>1, <1>2, <1>3, TypeCorrect, PTL DEF Spec

-----------------------------------------------------------------------------
(* A day's cap *)

DrivesOf(day) == {d \in DOMAIN drives : drives[d].day = day}

PaidFor(day) == {v \in Verifiers : Paid(v) /\ req[v].day = day}

\* Every drive of a day, and every verify that may still insert one, was counted.
AllCounted ==
  \A day \in Days : Cardinality(DrivesOf(day)) + Cardinality(PaidFor(day)) <= minted[day]

\* The count that succeeds.
Counts(v) ==
  /\ req[v].step = "countMint" /\ req'[v].day = req[v].day /\ Alone(v) /\ drives' = drives
  /\ minted' = [minted EXCEPT ![req[v].day] = @ + 1]

LEMMA PaidNext ==
  ASSUME TablesFit, RequestsFit, KnowsLink, [Next]_vars, NEW v \in Verifiers
  PROVE  Paid(v)' => req'[v].day = req[v].day /\ (Paid(v) \/ Counts(v))
  BY RequestsMove DEF Moves, Paid, Counts

LEMMA MintedNext ==
  ASSUME TablesFit, [Next]_vars, NEW day \in Days
  PROVE  minted'[day] >= minted[day]
  <1> USE DEF tables, history
  <1>1. minted \in [Days -> 0..MintCap] /\ MintCap \in Nat
    BY MintAssumption DEF TablesFit
  <1>2. ASSUME minted' = minted PROVE minted'[day] >= minted[day]
    BY <1>1, <1>2
  <1>3. ASSUME NEW other, minted' = [minted EXCEPT ![other] = @ + 1] PROVE minted'[day] >= minted[day]
    BY <1>1, <1>3
  <1>4. ASSUME NEW m \in Minters, MintStep(m) PROVE minted' = minted
    BY <1>4 DEF MintStep, Ask, dailyCount, insertVerification, sendEmail, deleteVerification, countMail
  <1>5. ASSUME NEW v \in Verifiers, VerifyStep(v)
        PROVE  minted' = minted \/ \E other : minted' = [minted EXCEPT ![other] = @ + 1]
    BY <1>5 DEF VerifyStep, Select, claim, countMint, insertDrive
  <1>6. ASSUME NEW r \in Requests, SharedStep(r) PROVE minted' = minted
    BY <1>6 DEF SharedStep, mintKilled, blocked, findExpiredByEmail, wipe, findLiveByEmail, Dies
  <1>7. ASSUME \/ Tick \/ UNCHANGED vars \/ \E key \in Orders : order(key) \/ lift(key)
               \/ \E d \in DOMAIN drives : freeze(d) \/ markWiped(d)
        PROVE  minted' = minted
    BY <1>7 DEF Tick, vars, order, lift, freeze, markWiped
  <1> QED BY <1>2, <1>3, <1>4, <1>5, <1>6, <1>7 DEF Next

LEMMA DaySets ==
  ASSUME TablesFit, NEW day \in Days
  PROVE  /\ IsFiniteSet(DrivesOf(day)) /\ Cardinality(DrivesOf(day)) \in Nat
         /\ IsFiniteSet(PaidFor(day)) /\ Cardinality(PaidFor(day)) \in Nat
         /\ minted[day] \in 0..MintCap
  <1>1. Len(drives) \in Nat /\ DOMAIN drives = 1..Len(drives)
    BY SeqElement DEF TablesFit
  <1>2. IsFiniteSet(DOMAIN drives)
    BY <1>1, FS_Interval
  <1>3. IsFiniteSet(Verifiers)
    BY MintAssumption, FS_Subset DEF Requests
  <1>4. IsFiniteSet(DrivesOf(day)) /\ IsFiniteSet(PaidFor(day))
    BY <1>2, <1>3, FS_Subset DEF DrivesOf, PaidFor
  <1> QED BY <1>4, FS_CardinalityType DEF TablesFit

LEMMA AllCountedNext == TablesFit /\ TablesFit' /\ RequestsFit /\ KnowsLink /\ AllCounted /\ [Next]_vars => AllCounted'
  <1> SUFFICES ASSUME TablesFit, TablesFit', RequestsFit, KnowsLink, AllCounted, [Next]_vars,
                      NEW day \in Days
               PROVE  Cardinality(DrivesOf(day)') + Cardinality(PaidFor(day)') <= minted'[day]
    BY DEF AllCounted
  <1> USE DaySets
  <1>1. /\ IsFiniteSet(DrivesOf(day)) /\ Cardinality(DrivesOf(day)) \in Nat
        /\ IsFiniteSet(PaidFor(day)) /\ Cardinality(PaidFor(day)) \in Nat
        /\ minted \in [Days -> 0..MintCap] /\ MintCap \in Nat
        /\ Cardinality(DrivesOf(day)) + Cardinality(PaidFor(day)) <= minted[day]
    BY MintAssumption DEF AllCounted, TablesFit
  <1>2. Cardinality(DrivesOf(day)') \in Nat /\ Cardinality(PaidFor(day)') \in Nat
        /\ minted' \in [Days -> 0..MintCap]
    <2>1. minted' \in [Days -> 0..MintCap] /\ Len(drives') \in Nat /\ DOMAIN drives' = 1..Len(drives')
      BY SeqElement DEF TablesFit
    <2>2. IsFiniteSet(DOMAIN drives') /\ IsFiniteSet(Verifiers)
      BY <2>1, FS_Interval, MintAssumption, FS_Subset DEF Requests
    <2>3. IsFiniteSet(DrivesOf(day)') /\ IsFiniteSet(PaidFor(day)')
      BY <2>2, FS_Subset DEF DrivesOf, PaidFor
    <2> QED BY <2>1, <2>3, FS_CardinalityType
  <1>3. ASSUME NEW c \in Verifiers, Counts(c)
        PROVE  Cardinality(DrivesOf(day)') + Cardinality(PaidFor(day)') <= minted'[day]
    <2>1. DrivesOf(day)' = DrivesOf(day)
      BY <1>3 DEF Counts, DrivesOf
    <2>2. \A v \in Verifiers \ {c} : req'[v] = req[v]
      BY <1>3, Places DEF Counts, Alone
    <2>3. CASE req[c].day = day
      <3>1. PaidFor(day)' \subseteq PaidFor(day) \cup {c}
        BY <2>2 DEF PaidFor, Paid
      <3>2. Cardinality(PaidFor(day)') <= Cardinality(PaidFor(day)) + 1
        <4>1. IsFiniteSet(PaidFor(day) \cup {c})
              /\ Cardinality(PaidFor(day) \cup {c}) <= Cardinality(PaidFor(day)) + 1
              /\ Cardinality(PaidFor(day) \cup {c}) \in Nat
          <5> DEFINE S == PaidFor(day)
          <5>1. IsFiniteSet(S) /\ Cardinality(S) \in Nat
            BY <1>1
          <5> HIDE DEF S
          <5>2. IsFiniteSet(S \cup {c})
                /\ Cardinality(S \cup {c}) = IF c \in S THEN Cardinality(S) ELSE Cardinality(S) + 1
            BY <5>1, FS_AddElement
          <5>3. IsFiniteSet(S \cup {c}) /\ Cardinality(S \cup {c}) <= Cardinality(S) + 1
                /\ Cardinality(S \cup {c}) \in Nat
            BY <5>1, <5>2
          <5> QED BY <5>3 DEF S
        <4> QED BY <1>1, <1>2, <3>1, <4>1, FS_Subset
      <3>3. minted'[day] = minted[day] + 1
        BY <1>1, <1>3, <2>3 DEF Counts
      <3> QED BY <1>1, <1>2, <2>1, <3>2, <3>3
    <2>4. CASE req[c].day # day
      <3>1. PaidFor(day)' \subseteq PaidFor(day)
        BY <1>3, <2>2, <2>4 DEF PaidFor, Paid, Counts
      <3>2. Cardinality(PaidFor(day)') <= Cardinality(PaidFor(day))
        BY <1>1, <3>1, FS_Subset
      <3>3. minted'[day] >= minted[day]
        BY MintedNext
      <3> QED BY <1>1, <1>2, <2>1, <3>2, <3>3
    <2> QED BY <2>3, <2>4
  <1>4. ASSUME \A v \in Verifiers : ~ Counts(v)
        PROVE  Cardinality(DrivesOf(day)') + Cardinality(PaidFor(day)') <= minted'[day]
    <2>1. \A v \in Verifiers : Paid(v)' => Paid(v) /\ req'[v].day = req[v].day
      BY <1>4, PaidNext
    <2>2. PaidFor(day)' \subseteq PaidFor(day)
      BY <2>1 DEF PaidFor
    <2>3. Cardinality(PaidFor(day)') <= Cardinality(PaidFor(day))
      BY <1>1, <2>2, FS_Subset
    <2>4. minted'[day] >= minted[day]
      BY MintedNext
    <2>5. ASSUME DrivesOf(day)' = DrivesOf(day)
          PROVE  Cardinality(DrivesOf(day)') + Cardinality(PaidFor(day)') <= minted'[day]
      BY <1>1, <1>2, <2>3, <2>4, <2>5
    <2>6. CASE KeepsRows
      BY <2>5, <2>6 DEF KeepsRows, SameRow, DrivesOf
    <2>7. ASSUME NEW i \in Verifiers, Inserts(i)
          PROVE  Cardinality(DrivesOf(day)') + Cardinality(PaidFor(day)') <= minted'[day]
      <3> DEFINE n == Len(drives) + 1
      <3>1. /\ DOMAIN drives' = DOMAIN drives \cup {n} /\ n \notin DOMAIN drives
            /\ \A d \in DOMAIN drives : drives'[d] = drives[d]
            /\ drives'[n].day = req[i].day
        BY <2>7, Inserted, Zenon
      <3> HIDE DEF n
      <3>2. CASE req[i].day # day
        <4>1. DrivesOf(day)' = DrivesOf(day)
          BY <3>1, <3>2 DEF DrivesOf
        <4> QED BY <2>5, <4>1
      <3>3. CASE req[i].day = day
        <4>1. DrivesOf(day)' = DrivesOf(day) \cup {n} /\ n \notin DrivesOf(day)
          BY <3>1, <3>3 DEF DrivesOf
        <4>2. Cardinality(DrivesOf(day)') = Cardinality(DrivesOf(day)) + 1
          BY <1>1, <4>1, FS_AddElement
        <4>3. i \in PaidFor(day)
          BY <2>7, <3>3 DEF Inserts, insertDrive, At, Paid, PaidFor
        <4>4. i \notin PaidFor(day)'
          BY <2>7, Places, GoesAlone DEF Inserts, insertDrive, Paid, PaidFor, Away
        <4>5. Cardinality(PaidFor(day) \ {i}) = Cardinality(PaidFor(day)) - 1
              /\ IsFiniteSet(PaidFor(day) \ {i})
          BY <1>1, <4>3, FS_RemoveElement
        <4>6. Cardinality(PaidFor(day)') <= Cardinality(PaidFor(day)) - 1
          BY <2>2, <4>4, <4>5, FS_Subset
        <4> QED BY <1>1, <1>2, <2>4, <4>2, <4>6
      <3> QED BY <3>2, <3>3
    <2> QED BY <2>6, <2>7, RowsNext
  <1> QED BY <1>3, <1>4

\* No more drives go back to a day's count than its cap, whenever they are inserted.
THEOREM DrivesWithinCapCorrect == Spec => []DrivesWithinCap
  <1>1. Init => AllCounted /\ Spent
    <2> SUFFICES ASSUME Init PROVE AllCounted /\ Spent
      OBVIOUS
    <2>1. Spent
      BY Places DEF Init, Spent, KnowsLink, Holds, LinkMintsOnce, Away
    <2>2. \A day \in Days : DrivesOf(day) = {} /\ PaidFor(day) = {} /\ minted[day] = 0
      BY Places DEF Init, DrivesOf, PaidFor, Paid, Away
    <2> QED BY <2>1, <2>2, FS_EmptySet DEF AllCounted
  <1>2. TypeOK /\ TypeOK' /\ AllCounted /\ Spent /\ [Next]_vars => AllCounted' /\ Spent'
    <2>1. TypeOK' => TablesFit'
      BY DEF TypeOK, TablesFit
    <2> QED BY <2>1, Halves, SpentNext, AllCountedNext DEF Spent
  <1>3. TypeOK /\ AllCounted => DrivesWithinCap
    <2> SUFFICES ASSUME TypeOK, AllCounted, NEW day \in Days
                 PROVE  Cardinality(DrivesOf(day)) <= MintCap
      BY DEF DrivesWithinCap, DrivesOf
    <2>1. TablesFit
      BY Halves
    <2>2. Cardinality(DrivesOf(day)) \in Nat /\ Cardinality(PaidFor(day)) \in Nat
          /\ minted[day] \in 0..MintCap
          /\ Cardinality(DrivesOf(day)) + Cardinality(PaidFor(day)) <= minted[day]
      BY <2>1, DaySets DEF AllCounted
    <2> QED BY <2>2, MintAssumption
  <1> QED BY <1>1, <1>2, <1>3, TypeCorrect, PTL DEF Spec

-----------------------------------------------------------------------------
(* Only what is over is wiped *)

\* What a request is about to wipe was over when it was looked up.
WipesEnded ==
  \A r \in Requests : At(r, "wipe") =>
    req[r].drive \in DOMAIN drives /\ drives[req[r].drive].expiresAt <= now

\* A request that goes, and not to the wipe.
Elsewhere(r) == \E next : Goes(r, next) /\ next.step # "wipe"

LEMMA GoesElsewhere ==
  ASSUME RequestsFit, NEW r \in Requests, NEW step, step # "wipe",
         Goes(r, Away) \/ Goes(r, [req[r] EXCEPT !.step = step])
  PROVE  Elsewhere(r)
  <1> DEFINE next == [req[r] EXCEPT !.step = step]
  <1>1. next.step = step /\ Away.step = "away"
    BY DEF RequestsFit, Fits, Record, Away
  <1> HIDE DEF next
  <1>2. CASE Goes(r, next)
    BY <1>1, <1>2 DEF Elsewhere
  <1>3. CASE Goes(r, Away)
    BY <1>1, <1>3 DEF Elsewhere
  <1>4. Goes(r, Away) \/ Goes(r, next)
    BY DEF next
  <1> QED BY <1>2, <1>3, <1>4

LEMMA MintElsewhere ==
  ASSUME RequestsFit, NEW m \in Minters, MintStep(m)
  PROVE  Elsewhere(m)
  <1>1. req[m] \in Record
    BY Places DEF RequestsFit, Fits
  <1>2. Away.step # "wipe"
    BY DEF Away
  <1>3. ASSUME NEW email, NEW network, Ask(m, email, network) PROVE Elsewhere(m)
    <2> DEFINE next == [Away EXCEPT !.step = "killed", !.email = email, !.network = network,
                                    !.bars = orders \cap {Kill, email, network}]
    <2>1. next.step = "killed"
      BY DEF Away
    <2>2. Goes(m, next)
      BY <1>3 DEF Ask
    <2> HIDE DEF next
    <2> QED BY <2>1, <2>2 DEF Elsewhere
  <1>4. CASE dailyCount(m)
    BY <1>4, GoesElsewhere, Places DEF dailyCount
  <1>5. CASE insertVerification(m)
    <2> DEFINE next == [req[m] EXCEPT !.step = "send", !.link = Len(links) + 1]
    <2>1. next.step = "send"
      BY <1>1 DEF Record
    <2>2. Goes(m, next)
      BY <1>5 DEF insertVerification
    <2> HIDE DEF next
    <2> QED BY <2>1, <2>2 DEF Elsewhere
  <1>6. ASSUME NEW delivered, NEW accepted, sendEmail(m, delivered, accepted) PROVE Elsewhere(m)
    <2> DEFINE step == IF accepted THEN "countMail" ELSE "delete"
    <2>1. Goes(m, [req[m] EXCEPT !.step = step])
      BY <1>6 DEF sendEmail
    <2>2. step # "wipe"
      OBVIOUS
    <2> HIDE DEF step
    <2> QED BY <2>1, <2>2, GoesElsewhere, Places
  <1>7. CASE deleteVerification(m) \/ countMail(m)
    BY <1>2, <1>7 DEF deleteVerification, countMail, Elsewhere
  <1> QED BY <1>3, <1>4, <1>5, <1>6, <1>7 DEF MintStep

LEMMA VerifyElsewhere ==
  ASSUME RequestsFit, NEW v \in Verifiers, VerifyStep(v)
  PROVE  Elsewhere(v)
  <1>1. req[v] \in Record
    BY Places DEF RequestsFit, Fits
  <1>2. Away.step # "wipe"
    BY DEF Away
  <1>3. ASSUME NEW i, Select(v, i) PROVE Elsewhere(v)
    <2> DEFINE next == [Away EXCEPT !.step = "claim", !.link = i, !.email = links[i].email,
                                    !.network = links[i].network,
                                    !.bars = orders \cap {Kill, links[i].email, links[i].network}]
    <2>1. next.step = "claim"
      BY DEF Away
    <2>2. Goes(v, next)
      BY <1>3 DEF Select
    <2> HIDE DEF next
    <2> QED BY <2>1, <2>2 DEF Elsewhere
  <1>4. CASE claim(v)
    <2> DEFINE next == [req[v] EXCEPT !.step = "countMint", !.day = Day(now)]
    <2>1. next.step = "countMint"
      BY <1>1 DEF Record
    <2>2. Goes(v, Away) \/ Goes(v, next)
      BY <1>4 DEF claim
    <2> HIDE DEF next
    <2> QED BY <1>2, <2>1, <2>2 DEF Elsewhere
  <1>5. CASE countMint(v)
    BY <1>5, GoesElsewhere, Places DEF countMint
  <1>6. CASE insertDrive(v)
    BY <1>2, <1>6 DEF insertDrive, Elsewhere
  <1> QED BY <1>3, <1>4, <1>5, <1>6 DEF VerifyStep

\* A request goes to the wipe with a drive that is over.
Finds(r) ==
  /\ Alone(r) /\ now' = now /\ drives' = drives
  /\ \E d \in DOMAIN drives : drives[d].expiresAt <= now /\ req'[r].drive = d

LEMMA SharedFinds ==
  ASSUME RequestsFit, NEW r \in Requests, SharedStep(r)
  PROVE  Elsewhere(r) \/ Finds(r)
  <1> USE DEF tables
  <1>1. req[r] \in Record
    BY DEF RequestsFit, Fits
  <1>2. Away.step # "wipe"
    BY DEF Away
  <1>3. CASE mintKilled(r)
    BY <1>3, GoesElsewhere DEF mintKilled
  <1>4. CASE blocked(r)
    BY <1>4, GoesElsewhere DEF blocked
  <1>5. CASE findExpiredByEmail(r)
    <2> DEFINE today == IF r \in Minters THEN Day(now) ELSE req[r].day
               lives == [req[r] EXCEPT !.step = "live", !.day = today]
    <2>1. CASE Goes(r, lives)
      <3>1. lives.step # "wipe"
        BY <1>1 DEF Record
      <3> QED BY <2>1, <3>1 DEF Elsewhere
    <2>2. ASSUME NEW d \in ExpiredByEmail(req[r].email, now),
                 Goes(r, [req[r] EXCEPT !.step = "wipe", !.day = today, !.drive = d])
          PROVE  Finds(r)
      <3> DEFINE wipes == [req[r] EXCEPT !.step = "wipe", !.day = today, !.drive = d]
      <3>1. wipes.drive = d
        BY <1>1 DEF Record
      <3>2. Goes(r, wipes)
        BY <2>2
      <3>3. d \in DOMAIN drives /\ drives[d].expiresAt <= now
        BY <2>2 DEF ExpiredByEmail, Unwiped, Ended
      <3>4. now' = now /\ drives' = drives
        BY <1>5 DEF findExpiredByEmail
      <3> HIDE DEF wipes
      <3> QED BY <3>1, <3>2, <3>3, <3>4, GoesAlone DEF Finds
    <2> QED BY <1>5, <2>1, <2>2, Zenon DEF findExpiredByEmail
  <1>6. CASE wipe(r)
    <2> DEFINE next == [req[r] EXCEPT !.step = "live", !.drive = 0]
    <2>1. next.step = "live"
      BY <1>1 DEF Record
    <2>2. Goes(r, next)
      BY <1>6 DEF wipe
    <2> HIDE DEF next
    <2> QED BY <2>1, <2>2 DEF Elsewhere
  <1>7. CASE findLiveByEmail(r)
    <2> DEFINE inserts == [req[r] EXCEPT !.step = "insert", !.at = now]
    <2>1. inserts.step = "insert"
      BY <1>1 DEF Record
    <2>2. \/ Goes(r, Away) \/ Goes(r, [req[r] EXCEPT !.step = "dailyCount"])
          \/ Goes(r, inserts)
      BY <1>7 DEF findLiveByEmail
    <2> HIDE DEF inserts
    <2>3. CASE Goes(r, inserts)
      BY <2>1, <2>3 DEF Elsewhere
    <2> QED BY <2>2, <2>3, GoesElsewhere
  <1>8. CASE Dies(r)
    BY <1>2, <1>8 DEF Dies, Elsewhere
  <1> QED BY <1>3, <1>4, <1>5, <1>6, <1>7, <1>8 DEF SharedStep

\* A request is at the wipe because it was there, or has just found a drive.
LEMMA WipeComes ==
  ASSUME RequestsFit, [Next]_vars, NEW r \in Requests, req'[r].step = "wipe"
  PROVE  \/ req[r].step = "wipe" /\ req'[r].drive = req[r].drive
         \/ Finds(r)
  <1> USE Places
  <1> DEFINE Stays == req[r].step = "wipe" /\ req'[r].drive = req[r].drive
  <1>1. ASSUME NEW q \in Requests, Elsewhere(q) PROVE Stays
    BY <1>1, GoesAlone DEF Elsewhere, Alone
  <1>2. ASSUME NEW q \in Requests, Finds(q) PROVE Stays \/ Finds(r)
    BY <1>2 DEF Finds, Alone
  <1>3. ASSUME NEW key \in Orders, lift(key) PROVE Stays
    <2>1. req'[r] = [req[r] EXCEPT !.bars = @ \ {key}] /\ req[r] \in Record
      BY <1>3 DEF lift, RequestsFit, Fits
    <2> QED BY <2>1 DEF Record
  <1>4. CASE req' = req
    BY <1>4
  <1>5. ASSUME \/ Tick \/ UNCHANGED vars \/ \E key \in Orders : order(key)
               \/ \E d \in DOMAIN drives : freeze(d) \/ markWiped(d)
        PROVE  req' = req
    BY <1>5 DEF Tick, vars, order, freeze, markWiped
  <1> HIDE DEF Stays
  <1>6. Stays \/ Finds(r)
    BY <1>1, <1>2, <1>3, <1>4, <1>5, MintElsewhere, VerifyElsewhere, SharedFinds DEF Next, Stays
  <1> QED BY <1>6 DEF Stays

LEMMA ClockNext ==
  ASSUME TablesFit, [Next]_vars
  PROVE  now \in Nat /\ now' \in Nat /\ now <= now'
  <1> USE DEF tables, history
  <1>1. now \in Nat
    BY MintAssumption DEF TablesFit
  <1>2. CASE Tick
    BY <1>1, <1>2 DEF Tick
  <1>3. ASSUME NEW m \in Minters, MintStep(m) PROVE now' = now
    BY <1>3 DEF MintStep, Ask, dailyCount, insertVerification, sendEmail, deleteVerification, countMail
  <1>4. ASSUME NEW v \in Verifiers, VerifyStep(v) PROVE now' = now
    BY <1>4 DEF VerifyStep, Select, claim, countMint, insertDrive
  <1>5. ASSUME NEW r \in Requests, SharedStep(r) PROVE now' = now
    BY <1>5 DEF SharedStep, mintKilled, blocked, findExpiredByEmail, wipe, findLiveByEmail, Dies
  <1>6. ASSUME \/ UNCHANGED vars \/ \E key \in Orders : order(key) \/ lift(key)
               \/ \E d \in DOMAIN drives : freeze(d) \/ markWiped(d)
        PROVE  now' = now
    BY <1>6 DEF vars, order, lift, freeze, markWiped
  <1> QED BY <1>1, <1>2, <1>3, <1>4, <1>5, <1>6 DEF Next

LEMMA WipesEndedNext == TablesFit /\ RequestsFit /\ WipesEnded /\ [Next]_vars => WipesEnded'
  <1> SUFFICES ASSUME TablesFit, RequestsFit, WipesEnded, [Next]_vars,
                      NEW r \in Requests, req'[r].step = "wipe"
               PROVE  req'[r].drive \in DOMAIN drives' /\ drives'[req'[r].drive].expiresAt <= now'
    BY DEF WipesEnded, At
  <1>1. \A d \in DOMAIN drives :
          d \in DOMAIN drives' /\ drives'[d].expiresAt = drives[d].expiresAt /\ drives[d].expiresAt \in Nat
    <2>1. \A d \in DOMAIN drives : drives[d].expiresAt \in Nat
      BY DriveRow, MintAssumption DEF Drives
    <2>2. CASE KeepsRows
      BY <2>1, <2>2 DEF KeepsRows, SameRow
    <2>3. ASSUME NEW v \in Verifiers, Inserts(v)
          PROVE  \A d \in DOMAIN drives : d \in DOMAIN drives' /\ drives'[d] = drives[d]
      BY <2>3, Inserted, Zenon
    <2> QED BY <2>1, <2>2, <2>3, RowsNext
  <1>2. PICK d \in DOMAIN drives : req'[r].drive = d /\ drives[d].expiresAt <= now
    BY WipeComes DEF Finds, WipesEnded, At
  <1> QED BY <1>1, <1>2, ClockNext

\* Who turns a row into a wiped one.
LEMMA WipedBy ==
  ASSUME TablesFit, [Next]_vars, NEW d \in DOMAIN drives,
         drives[d].status = "active", drives'[d].status = "wiped"
  PROVE  \/ markWiped(d)
         \/ \E r \in Requests : wipe(r) /\ req[r].drive = d
  <1> USE DEF tables, history
  <1>1. ASSUME drives' = drives PROVE FALSE
    BY <1>1
  <1>2. ASSUME NEW e, NEW row, drives' = [drives EXCEPT ![e] = row] PROVE e = d /\ row.status = "wiped"
    BY <1>2
  <1>3. ASSUME NEW m \in Minters, MintStep(m) PROVE FALSE
    BY <1>1, <1>3 DEF MintStep, Ask, dailyCount, insertVerification, sendEmail, deleteVerification, countMail
  <1>4. ASSUME NEW v \in Verifiers, VerifyStep(v) PROVE FALSE
    <2>1. CASE Inserts(v)
      <3>1. drives'[d] = drives[d]
        BY <2>1, Inserted, Zenon
      <3> QED BY <3>1
    <2>2. CASE drives' = drives
      BY <1>1, <2>2
    <2> QED BY <1>4, <2>1, <2>2 DEF VerifyStep, Select, claim, countMint, insertDrive, Inserts
  <1>5. ASSUME NEW r \in Requests, SharedStep(r) PROVE wipe(r) /\ req[r].drive = d
    <2>1. CASE wipe(r)
      BY <1>2, <2>1 DEF wipe
    <2>2. CASE drives' = drives
      BY <1>1, <2>2
    <2> QED BY <1>5, <2>1, <2>2
         DEF SharedStep, mintKilled, blocked, findExpiredByEmail, findLiveByEmail, Dies
  <1>6. ASSUME NEW e \in DOMAIN drives, freeze(e) PROVE FALSE
    <2> DEFINE row == [drives[e] EXCEPT !.status = "frozen", !.frozenAt = now]
    <2>1. row.status = "frozen"
      BY DriveRow DEF Drives
    <2>2. drives' = [drives EXCEPT ![e] = row]
      BY <1>6 DEF freeze
    <2> HIDE DEF row
    <2> QED BY <1>2, <2>1, <2>2
  <1>7. ASSUME NEW e \in DOMAIN drives, markWiped(e) PROVE e = d
    BY <1>2, <1>7 DEF markWiped
  <1>8. ASSUME Tick \/ UNCHANGED vars \/ \E key \in Orders : order(key) \/ lift(key)
        PROVE  FALSE
    BY <1>1, <1>8 DEF Tick, vars, order, lift
  <1> QED BY <1>3, <1>4, <1>5, <1>6, <1>7, <1>8 DEF Next

\* No step of a mint or verify request wipes an active drive that is not over,
\* however long ago the request looked the drive up.
THEOREM OnlyEndedWipedCorrect == Spec => OnlyEndedWiped
  <1>1. Init => WipesEnded
    BY DEF Init, WipesEnded, At, Away
  <1>2. TypeOK /\ WipesEnded /\ [Next]_vars => WipesEnded'
    BY Halves, WipesEndedNext
  <1>3. TypeOK /\ WipesEnded /\ [Next]_vars =>
          [req' # req =>
             \A d \in DOMAIN drives :
               drives[d].status = "active" /\ drives'[d].status = "wiped" => Ended(d, now)]_vars
    <2> SUFFICES ASSUME TypeOK, WipesEnded, [Next]_vars, req' # req, NEW d \in DOMAIN drives,
                        drives[d].status = "active", drives'[d].status = "wiped"
                 PROVE  drives[d].expiresAt <= now
      BY DEF Ended
    <2>1. TablesFit
      BY Halves
    <2>2. ~ markWiped(d)
      BY DEF markWiped
    <2>3. ASSUME NEW r \in Requests, wipe(r), req[r].drive = d PROVE drives[d].expiresAt <= now
      BY <2>3 DEF wipe, WipesEnded
    <2> QED BY <2>1, <2>2, <2>3, WipedBy
  <1> QED BY <1>1, <1>2, <1>3, TypeCorrect, PTL DEF Spec, OnlyEndedWiped

=============================================================================

-------------------------- MODULE DriveLifecycleProofs --------------------------
(***************************************************************************)
(* Proofs about DriveLifecycle: its types, that the alarm covers the drive *)
(* and that the drive keeps DrivePromise.                                  *)
(***************************************************************************)
EXTENDS DriveLifecycle, FiniteSetTheorems, TLAPS

-----------------------------------------------------------------------------
(* The inductive invariant *)

Kinds == {"alarm", "sweep", "visit", "release"}

Statuses == {"active", "frozen", "wiped"}

Working == {"call", "clear", "mark", "erase", "clear again", "mark again"}

\* What a row can be: a frozen one has its time.
Rows ==
  {r \in [status : Statuses, frozenAt : {Never} \cup 0..LastFreeze] :
     /\ r.status = "frozen" => r.frozenAt # Never
     /\ r.frozenAt # Never => r.frozenAt <= MaxTime}

Places ==
  {Away} \cup [step : {"admitted"}]
    \cup [step : {"queued", "writing"}, session : Sessions, scheduled : BOOLEAN]

Stations ==
  {Away} \cup [step : {"look"}, kind : Kinds, row : Rows, at : 0..MaxTime]
    \cup [step : {"sealing"}, kind : Kinds, session : Sessions]
    \cup [step : Working, kind : Kinds]

\* The types, with the records of the requests spelled out.
Shapes ==
  /\ now \in 0..MaxTime
  /\ row \in Rows
  /\ holds \in BOOLEAN /\ scheduled \in BOOLEAN
  /\ verify \in {"running", "answered", "failed"}
  /\ released \in BOOLEAN /\ unsealed \in BOOLEAN
  /\ session \in Sessions \cup {"null"}
  /\ closed \subseteq Sessions
  /\ tail \in [Sessions -> Seq(Writers \cup Wipers)]
  /\ writer \in [Writers -> Places]
  /\ wiper \in [Wipers -> Stations]
  /\ faults \in 0..MaxFaults

\* No alarm is set for a time before the drive is over, and only the alarm's
\* handler works for the alarm.
Rings ==
  /\ alarm \in {Never} \cup Times /\ (alarm # Never => Ttl <= alarm)
  /\ deferral \in {Never} \cup Times /\ (deferral # Never => Ttl <= deferral)
  /\ wiper[Alarm] # Away => wiper[Alarm].kind = "alarm"
  /\ wiper[Alarm].step = "look" => Ttl <= wiper[Alarm].at

Decided(w) == wiper[w].step \notin {"away", "look"}

\* Who has decided to wipe had the right to, which nothing takes away.
Ripe ==
  /\ \A w \in Wipers : wiper[w].step = "look" => wiper[w].at <= now
  /\ \A w \in Wipers : Decided(w) => IF wiper[w].kind = "release" THEN released ELSE Ttl <= now

NoWriters == \A p \in Writers : writer[p] = Away

\* Until verify has answered nobody can write, so a release finds no session.
Fresh ==
  verify # "answered" =>
    /\ NoWriters /\ session = "null"
    /\ \A w \in Wipers : wiper[w].step # "sealing"
    /\ \A w \in Wipers :
         Decided(w) /\ wiper[w].step # "call" /\ wiper[w].kind = "release" => unsealed

Waits(x, s) ==
  \/ x \in Writers /\ writer[x].step \in {"queued", "writing"} /\ writer[x].session = s
  \/ x \in Wipers /\ wiper[x].step = "sealing" /\ wiper[x].session = s

\* The tail of a session is the line of those who wait in it, and the one that
\* writes is at its head.
InLine ==
  \A s \in Sessions :
    /\ \A i \in 1..Len(tail[s]) : Waits(tail[s][i], s)
    /\ \A i, j \in 1..Len(tail[s]) : tail[s][i] = tail[s][j] => i = j
    /\ \A p \in Writers : Waits(p, s) => \E i \in 1..Len(tail[s]) : tail[s][i] = p
    /\ \A p \in Writers : Waits(p, s) /\ writer[p].step = "writing" => tail[s][1] = p

\* No write will be let through any more.
ForGood == Ttl <= now \/ ~ scheduled \/ (row.status = "wiped" /\ NoWriters)

\* Nobody writes, and those in line will be refused.
Still ==
  \A p \in Writers : writer[p].step # "writing" /\ (writer[p].step = "queued" => refused(p))

Clearing == \E w \in Wipers : wiper[w].step \in {"clear", "mark"}

AtErase == \E w \in Wipers : wiper[w].step = "erase"

Wiped == row.status = "wiped"

AtMark == \E w \in Wipers : wiper[w].step = "mark"

\* What a wipe that empties the drive has stopped stays stopped.
Shut == Clearing => ForGood \/ session \in closed

ShutAfter == Wiped => ForGood \/ (session \in closed /\ AtErase)

Silent == Clearing \/ Wiped => Still

Sealing ==
  \A w \in Wipers : wiper[w].step = "sealing" => wiper[w].session = session \/ (ForGood /\ Still)

Current ==
  \A p \in Writers : writer[p].step \in {"queued", "writing"} =>
    writer[p].session = session \/ (writer[p].step = "queued" /\ refused(p))

Emptied == Wiped \/ AtMark => ~ holds

\* Unless a release left the object able to write.
Stopped == ~ unsealed => Shut /\ ShutAfter /\ Silent /\ Sealing /\ Current /\ Emptied

\* The storage is erased after the row is marked.
MarkedFirst ==
  \A w \in Wipers : wiper[w].step \in {"erase", "clear again", "mark again"} => Wiped

IInv == Shapes /\ Rings /\ AlarmCovers /\ Ripe /\ Fresh /\ InLine /\ MarkedFirst /\ Stopped

-----------------------------------------------------------------------------
(* Records, and who moves *)

LEMMA Bounds ==
  /\ Never \notin Nat /\ Ttl \in Nat /\ Keep \in Nat /\ Ttl <= Keep
  /\ MaxTime \in Nat /\ LastFreeze \in Nat /\ MaxFaults \in Nat
  /\ Alarm \in Wipers /\ Alarm \notin Crons /\ Alarm \notin Visitors
  /\ Visitors \subseteq Wipers
  /\ \A p \in Writers : p \notin Wipers
  /\ "null" \notin Sessions
  BY BoundsAssumption DEF Wipers

LEMMA Goer ==
  ASSUME Shapes, NEW w \in Wipers, NEW next, Goes(w, next)
  PROVE  /\ wiper'[w] = next
         /\ \A v \in Wipers \ {w} : wiper'[v] = wiper[v]
         /\ next \in Stations => wiper' \in [Wipers -> Stations]
  BY DEF Shapes, Goes

LEMMA Mover ==
  ASSUME Shapes, NEW p \in Writers, NEW next, Moves(p, next)
  PROVE  /\ writer'[p] = next
         /\ \A q \in Writers \ {p} : writer'[q] = writer[q]
         /\ next \in Places => writer' \in [Writers -> Places]
  BY DEF Shapes, Moves

\* Where a wiper is says what it remembers.
LEMMA Station ==
  ASSUME Shapes, NEW w \in Wipers
  PROVE  /\ wiper[w].step = "away" <=> wiper[w] = Away
         /\ wiper[w] \in Stations
         /\ wiper[w].step \in {"away", "look", "sealing"} \cup Working
         /\ wiper[w].step \in Working => wiper[w] \in [step : Working, kind : Kinds]
         /\ wiper[w].step = "look" =>
              wiper[w].kind \in Kinds /\ wiper[w].row \in Rows /\ wiper[w].at \in 0..MaxTime
         /\ wiper[w].step = "sealing" => wiper[w].kind \in Kinds /\ wiper[w].session \in Sessions
  <1>1. wiper[w] \in Stations
    BY DEF Shapes
  <1>2. Away.step = "away"
    BY DEF Away
  <1>3. CASE wiper[w] = Away
    BY <1>1, <1>2, <1>3 DEF Working
  <1>4. CASE wiper[w] \in [step : {"look"}, kind : Kinds, row : Rows, at : 0..MaxTime]
    <2>1. /\ wiper[w].step = "look" /\ wiper[w].kind \in Kinds
          /\ wiper[w].row \in Rows /\ wiper[w].at \in 0..MaxTime
      BY <1>4
    <2> QED BY <1>1, <1>2, <2>1 DEF Working
  <1>5. CASE wiper[w] \in [step : {"sealing"}, kind : Kinds, session : Sessions]
    <2>1. wiper[w].step = "sealing" /\ wiper[w].kind \in Kinds /\ wiper[w].session \in Sessions
      BY <1>5
    <2> QED BY <1>1, <1>2, <2>1 DEF Working
  <1>6. CASE wiper[w] \in [step : Working, kind : Kinds]
    <2>1. wiper[w].step \in Working
      BY <1>6
    <2> QED BY <1>1, <1>2, <1>6, <2>1 DEF Working
  <1> QED BY <1>1, <1>3, <1>4, <1>5, <1>6 DEF Stations

LEMMA Place ==
  ASSUME Shapes, NEW p \in Writers
  PROVE  /\ writer[p].step = "away" <=> writer[p] = Away
         /\ writer[p] \in Places
         /\ writer[p].step \in {"away", "admitted", "queued", "writing"}
         /\ writer[p].step \in {"queued", "writing"} =>
              writer[p] \in [step : {"queued", "writing"}, session : Sessions, scheduled : BOOLEAN]
  <1>1. writer[p] \in Places
    BY DEF Shapes
  <1>2. CASE writer[p] = Away
    BY <1>1, <1>2 DEF Away
  <1>3. CASE writer[p] \in [step : {"admitted"}]
    BY <1>1, <1>3 DEF Away
  <1>4. CASE writer[p] \in [step : {"queued", "writing"}, session : Sessions, scheduled : BOOLEAN]
    BY <1>1, <1>4 DEF Away
  <1> QED BY <1>1, <1>2, <1>3, <1>4 DEF Places

\* A wiper that works goes on with its work.
LEMMA GoesOn ==
  ASSUME Shapes, NEW w \in Wipers, wiper[w].step \in Working, NEW step \in Working
  PROVE  /\ [wiper[w] EXCEPT !.step = step] \in Stations
         /\ [wiper[w] EXCEPT !.step = step].step = step
         /\ [wiper[w] EXCEPT !.step = step].kind = wiper[w].kind
  <1>1. wiper[w] \in [step : Working, kind : Kinds]
    BY Station
  <1> QED BY <1>1 DEF Stations

LEMMA KindOnly ==
  ASSUME NEW kind \in Kinds, NEW step \in Working
  PROVE  [step |-> step, kind |-> kind] \in Stations
  BY DEF Stations

LEMMA TailOf ==
  ASSUME NEW S, NEW q \in Seq(S), q # << >>
  PROVE  /\ Len(q) \in Nat /\ Len(q) >= 1 /\ Head(q) = q[1]
         /\ Tail(q) \in Seq(S) /\ Len(Tail(q)) = Len(q) - 1
         /\ \A i \in 1..Len(Tail(q)) : Tail(q)[i] = q[i + 1]
  OBVIOUS

LEMMA AppendTo ==
  ASSUME NEW S, NEW q \in Seq(S), NEW e \in S
  PROVE  /\ Len(q) \in Nat
         /\ Append(q, e) \in Seq(S) /\ Len(Append(q, e)) = Len(q) + 1
         /\ \A i \in 1..Len(q) : Append(q, e)[i] = q[i]
         /\ Append(q, e)[Len(q) + 1] = e
  OBVIOUS

LEMMA TailType ==
  ASSUME Shapes, NEW s \in Sessions
  PROVE  tail[s] \in Seq(Writers \cup Wipers)
  BY DEF Shapes

\* A request without a session finds one: every other is waited in by somebody
\* else, and there are more sessions than requests.
LEMMA SomeUnused ==
  ASSUME Shapes, InLine, session = "null"
  PROVE  \E s \in Sessions : Unused(s)
  <1> SUFFICES ASSUME \A s \in Sessions : tail[s] # << >>
               PROVE  FALSE
    BY Bounds DEF Unused
  <1> DEFINE first == [s \in Sessions |-> tail[s][1]]
  <1>1. \A s \in Sessions : first[s] \in Writers \cup Wipers /\ Waits(first[s], s)
    <2> SUFFICES ASSUME NEW s \in Sessions
                 PROVE  tail[s][1] \in Writers \cup Wipers /\ Waits(tail[s][1], s)
      OBVIOUS
    <2>1. Len(tail[s]) \in Nat /\ Len(tail[s]) >= 1
      BY TailOf, TailType, Zenon
    <2>2. Waits(tail[s][1], s)
      BY <2>1 DEF InLine
    <2> QED BY <2>2 DEF Waits
  <1>2. \A x, s, t : Waits(x, s) /\ Waits(x, t) => s = t
    BY Bounds DEF Waits
  <1>3. first \in Injection(Sessions, Writers \cup Wipers)
    BY <1>1, <1>2 DEF Injection, IsInjective
  <1>4. IsFiniteSet(Writers) /\ IsFiniteSet(Wipers)
        /\ Cardinality(Writers) + Cardinality(Wipers) < Cardinality(Sessions)
    BY BoundsAssumption
  <1>5. /\ IsFiniteSet(Writers \cup Wipers)
        /\ Cardinality(Writers \cup Wipers) <= Cardinality(Writers) + Cardinality(Wipers)
    <2>1. Cardinality(Writers \cup Wipers) =
            Cardinality(Writers) + Cardinality(Wipers) - Cardinality(Writers \cap Wipers)
          /\ IsFiniteSet(Writers \cup Wipers) /\ IsFiniteSet(Writers \cap Wipers)
      BY <1>4, FS_Union, FS_Subset
    <2> QED BY <1>4, <2>1, FS_CardinalityType
  <1>6. IsFiniteSet(Sessions) /\ Cardinality(Sessions) <= Cardinality(Writers \cup Wipers)
    BY <1>3, <1>5, FS_Injection
  <1> QED BY <1>4, <1>5, <1>6, FS_CardinalityType

\* The session a request comes to.
LEMMA Arrival ==
  ASSUME Shapes, InLine, NEW p \in Writers, Arrive(p)
  PROVE  \E s \in Sessions :
           /\ session' = s
           /\ \/ session = s /\ closed' = closed
              \/ session = "null" /\ Unused(s) /\ closed' = closed \ {s}
           /\ tail' = [tail EXCEPT ![s] = Append(@, p)]
           /\ Moves(p, [step |-> "queued", session |-> s, scheduled |-> scheduled])
  <1> DEFINE new == CHOOSE t \in Sessions : Unused(t)
             s == IF session # "null" THEN session ELSE new
  <1>1. session = "null" => new \in Sessions /\ Unused(new)
    BY SomeUnused
  <1> HIDE DEF new
  <1>2. s \in Sessions
    BY <1>1 DEF Shapes
  <1>3. /\ session' = s
        /\ closed' = IF session # "null" THEN closed ELSE closed \ {s}
        /\ tail' = [tail EXCEPT ![s] = Append(@, p)]
        /\ Moves(p, [step |-> "queued", session |-> s, scheduled |-> scheduled])
    BY DEF Arrive, new
  <1> QED BY <1>1, <1>2, <1>3

-----------------------------------------------------------------------------
(* The types *)

LEMMA FrozenRow ==
  ASSUME Shapes, Freeze
  PROVE  Frozen \in Rows
  <1> DEFINE since == IF row.frozenAt = Never THEN now ELSE row.frozenAt
  <1>1. /\ since \in {Never} \cup 0..LastFreeze /\ since # Never
        /\ since # Never => since <= MaxTime
    BY Bounds DEF Shapes, Rows, Freeze
  <1>2. Frozen = [status |-> "frozen", frozenAt |-> since]
    BY DEF Frozen
  <1> HIDE DEF since
  <1> QED BY <1>1, <1>2 DEF Rows, Statuses

LEMMA RowWiped ==
  ASSUME Shapes
  PROVE  [row EXCEPT !.status = "wiped"] \in Rows /\ [row EXCEPT !.status = "wiped"].status = "wiped"
         /\ [row EXCEPT !.status = "wiped"].frozenAt = row.frozenAt
  BY DEF Shapes, Rows, Statuses

\* Only the writers and their lines change.
LEMMA WriterShapes ==
  ASSUME Shapes, InLine, NEW p \in Writers, Admit(p) \/ WriterStep(p)
  PROVE  Shapes'
  <1> USE DEF history
  <1>1. p \in Writers \cup Wipers /\ Away \in Places
    BY DEF Places
  <1>2. CASE Admit(p)
    <2>1. [step |-> "admitted"] \in Places
      BY DEF Places
    <2> QED BY <1>2, <2>1, Mover DEF Admit, Shapes, object
  <1>3. ASSUME Leaves(p), writer[p].step \in {"queued", "writing"}, tail[writer[p].session] # << >>
        PROVE  writer' \in [Writers -> Places] /\ tail' \in [Sessions -> Seq(Writers \cup Wipers)]
    <2>1. writer[p].session \in Sessions
      BY <1>3, Place
    <2>2. Tail(tail[writer[p].session]) \in Seq(Writers \cup Wipers)
      BY <1>3, <2>1, TailOf, TailType
    <2> QED BY <1>1, <1>3, <2>1, <2>2, Mover DEF Leaves, Shapes
  <1>4. CASE Arrive(p)
    <2>1. PICK s \in Sessions :
             /\ session' = s
             /\ \/ session = s /\ closed' = closed
                \/ session = "null" /\ Unused(s) /\ closed' = closed \ {s}
             /\ tail' = [tail EXCEPT ![s] = Append(@, p)]
             /\ Moves(p, [step |-> "queued", session |-> s, scheduled |-> scheduled])
      BY <1>4, Arrival
    <2>2. Append(tail[s], p) \in Seq(Writers \cup Wipers)
      BY <1>1, AppendTo, TailType
    <2>3. [step |-> "queued", session |-> s, scheduled |-> scheduled] \in Places
      BY DEF Places, Shapes
    <2>4. writer' \in [Writers -> Places]
      BY <2>1, <2>3, Mover
    <2> QED BY <1>4, <2>1, <2>2, <2>4 DEF Arrive, Shapes
  <1>5. CASE dispatch(p)
    <2>1. CASE Leaves(p)
      BY <1>3, <1>5, <2>1 DEF dispatch, Runs, Shapes
    <2>2. CASE Moves(p, [writer[p] EXCEPT !.step = "writing"]) /\ UNCHANGED tail
      <3>1. [writer[p] EXCEPT !.step = "writing"] \in Places
        BY <1>5, Place DEF dispatch, Places
      <3> QED BY <1>5, <2>2, <3>1, Mover DEF dispatch, Shapes
    <2> QED BY <1>5, <2>1, <2>2 DEF dispatch
  <1>6. CASE Land(p)
    <2>1. tail[writer[p].session] # << >>
      <3>1. writer[p].session \in Sessions /\ Waits(p, writer[p].session)
        BY <1>6, Place DEF Land, Waits
      <3>2. \E i \in 1..Len(tail[writer[p].session]) : tail[writer[p].session][i] = p
        BY <3>1 DEF InLine
      <3> QED BY <3>2
    <2> QED BY <1>3, <1>6, <2>1 DEF Land, Shapes
  <1> QED BY <1>2, <1>4, <1>5, <1>6 DEF WriterStep

\* Until a frozen row is wiped.
LEMMA UntilTimes ==
  ASSUME NEW r \in Rows, r.status = "frozen"
  PROVE  Until(r) \in Times /\ Ttl <= Until(r)
  <1>1. r.frozenAt \in 0..LastFreeze /\ r.frozenAt <= MaxTime
    BY DEF Rows
  <1>2. Until(r) = r.frozenAt + Keep
    BY <1>1, Bounds DEF Until
  <1> QED BY <1>1, <1>2, Bounds DEF Times

\* What begins a wipe.
LEMMA BeginsLook ==
  ASSUME Shapes, NEW w \in Wipers, NEW kind \in Kinds, Begins(w, kind)
  PROVE  /\ wiper[w] = Away
         /\ wiper'[w] = [step |-> "look", kind |-> kind, row |-> row, at |-> now]
         /\ wiper' \in [Wipers -> Stations]
         /\ \A v \in Wipers \ {w} : wiper'[v] = wiper[v]
  <1>1. [step |-> "look", kind |-> kind, row |-> row, at |-> now] \in Stations
    BY DEF Stations, Shapes
  <1> QED BY <1>1, Goer DEF Begins

\* Where the step of a wipe leads.
Onward(w) ==
  /\ wiper' \in [Wipers -> Stations]
  /\ \A v \in Wipers \ {w} : wiper'[v] = wiper[v]
  /\ \/ wiper'[w] = Away
     \/ wiper'[w].step \in Working \cup {"sealing"} /\ wiper'[w].kind = wiper[w].kind

LEMMA OnwardTo ==
  ASSUME Shapes, NEW w \in Wipers, NEW next \in Stations, Goes(w, next),
         next = Away \/ (next.step \in Working \cup {"sealing"} /\ next.kind = wiper[w].kind)
  PROVE  Onward(w)
  BY Goer DEF Onward

LEMMA OnwardNew ==
  ASSUME Shapes, NEW w \in Wipers, wiper[w].step # "away", NEW step \in Working,
         Goes(w, [step |-> step, kind |-> wiper[w].kind])
  PROVE  Onward(w)
  <1> DEFINE next == [step |-> step, kind |-> wiper[w].kind]
  <1>1. wiper[w].kind \in Kinds
    BY Station
  <1>2. next \in Stations /\ next.step \in Working /\ next.kind = wiper[w].kind
    BY <1>1, KindOnly
  <1> HIDE DEF next
  <1>3. Goes(w, next)
    BY DEF next
  <1> QED BY <1>2, <1>3, OnwardTo

LEMMA OnwardOn ==
  ASSUME Shapes, NEW w \in Wipers, wiper[w].step \in Working, NEW step \in Working,
         Goes(w, [wiper[w] EXCEPT !.step = step])
  PROVE  Onward(w)
  BY GoesOn, OnwardTo

LEMMA OnwardAway ==
  ASSUME Shapes, NEW w \in Wipers, Goes(w, Away)
  PROVE  Onward(w)
  BY OnwardTo DEF Stations

LEMMA WiperGoes ==
  ASSUME Shapes, NEW w \in Wipers, WiperStep(w) \/ WipeFails(w)
  PROVE  Onward(w) /\ wiper[w].step # "away"
  <1> USE DEF Working
  <1>1. wiper[w].step # "away"
    BY DEF WiperStep, WipeFails, Decide, Call, Sealed, Clear, Mark, Erase
  <1>2. CASE Decide(w)
    BY <1>1, <1>2, OnwardNew, OnwardAway DEF Decide
  <1>3. CASE Call(w)
    <2>1. CASE session # "null" /\ Goes(w, [step |-> "sealing", kind |-> wiper[w].kind, session |-> session])
      <3> DEFINE next == [step |-> "sealing", kind |-> wiper[w].kind, session |-> session]
      <3>1. wiper[w].kind \in Kinds
        BY <1>3, Station DEF Call
      <3>2. next \in Stations /\ next.step = "sealing" /\ next.kind = wiper[w].kind
        BY <2>1, <3>1 DEF Stations, Shapes
      <3> HIDE DEF next
      <3>3. Goes(w, next)
        BY <2>1 DEF next
      <3> QED BY <1>1, <3>2, <3>3, OnwardTo
    <2> QED BY <1>1, <1>3, <2>1, OnwardNew DEF Call, seal
  <1>4. CASE Sealed(w)
    BY <1>1, <1>4, OnwardNew DEF Sealed
  <1>5. CASE Clear(w)
    <2> DEFINE to == IF wiper[w].step = "clear" THEN "mark" ELSE "mark again"
    <2>1. Goes(w, [wiper[w] EXCEPT !.step = to]) /\ to \in Working /\ wiper[w].step \in Working
      BY <1>5 DEF Clear
    <2> HIDE DEF to
    <2> QED BY <1>1, <2>1, OnwardOn
  <1>6. CASE Mark(w)
    BY <1>1, <1>6, OnwardOn, OnwardAway DEF Mark
  <1>7. CASE Erase(w)
    BY <1>1, <1>7, OnwardOn, OnwardAway DEF Erase
  <1>8. CASE WipeFails(w)
    BY <1>1, <1>8, OnwardAway DEF WipeFails
  <1> QED BY <1>2, <1>3, <1>4, <1>5, <1>6, <1>7, <1>8 DEF WiperStep

LEMMA WiperShapes ==
  ASSUME Shapes, NEW w \in Wipers, WiperStep(w) \/ WipeFails(w)
  PROVE  Shapes'
  <1> USE DEF history, object
  <1>1. wiper' \in [Wipers -> Stations]
    BY WiperGoes DEF Onward
  <1>2. CASE Decide(w)
    <2>1. released' \in BOOLEAN
      BY <1>2 DEF Decide
    <2> QED BY <1>1, <1>2, <2>1 DEF Decide, Shapes
  <1>3. CASE Call(w)
    <2>1. unsealed' \in BOOLEAN
      BY <1>3 DEF Call
    <2>2. tail' \in [Sessions -> Seq(Writers \cup Wipers)] /\ closed' = closed
      <3>1. CASE UNCHANGED tail
        BY <1>3, <3>1 DEF Call, seal, Shapes
      <3>2. CASE session # "null" /\ tail' = [tail EXCEPT ![session] = Append(@, w)]
        <4>1. session \in Sessions
          BY <3>2 DEF Shapes
        <4>2. Append(tail[session], w) \in Seq(Writers \cup Wipers)
          BY <4>1, AppendTo, TailType
        <4> QED BY <1>3, <3>2, <4>1, <4>2 DEF Call, seal, Shapes
      <3> QED BY <1>3, <3>1, <3>2 DEF Call, seal
    <2> QED BY <1>1, <1>3, <2>1, <2>2 DEF Call, Shapes
  <1>4. CASE Sealed(w)
    <2>1. wiper[w].session \in Sessions /\ tail[wiper[w].session] # << >>
      BY <1>4, Station DEF Sealed, Runs
    <2>2. Tail(tail[wiper[w].session]) \in Seq(Writers \cup Wipers)
      BY <2>1, TailOf, TailType
    <2> QED BY <1>1, <1>4, <2>1, <2>2 DEF Sealed, Shapes
  <1>5. CASE Clear(w)
    BY <1>1, <1>5 DEF Clear, Shapes
  <1>6. CASE Mark(w)
    BY <1>1, <1>6, RowWiped DEF Mark, Shapes
  <1>7. CASE Erase(w)
    BY <1>1, <1>7 DEF Erase, Shapes
  <1>8. CASE WipeFails(w)
    <2>1. faults' \in 0..MaxFaults
      <3>1. faults < MaxFaults /\ faults' = faults + 1
        BY <1>8 DEF WipeFails
      <3> QED BY <3>1, Bounds DEF Shapes
    <2>2. unsealed' \in BOOLEAN
      BY <1>8 DEF WipeFails
    <2> QED BY <1>1, <1>8, <2>1, <2>2 DEF WipeFails, Shapes
  <1> QED BY <1>2, <1>3, <1>4, <1>5, <1>6, <1>7, <1>8 DEF WiperStep

\* The kinds of steps: those of the writers, those of the wipers, and the rest.
Rest ==
  \/ Tick \/ Schedule \/ ScheduleFails \/ Report \/ AdminFreeze \/ DeferAlarm
  \/ Evict \/ UNCHANGED vars

Starts(w) ==
  \/ w = Alarm /\ AlarmFires
  \/ Sweep(w) \/ Visit(w)

LEMMA Steps ==
  ASSUME [Next]_vars
  PROVE  \/ Rest
         \/ \E p \in Writers : Admit(p) \/ WriterStep(p)
         \/ \E w \in Wipers : Starts(w)
         \/ \E w \in Wipers : WiperStep(w) \/ WipeFails(w)
  BY Bounds DEF Next, Rest, Starts

LEMMA StartLook ==
  ASSUME Shapes, NEW w \in Wipers, Starts(w)
  PROVE  \E kind \in Kinds :
           /\ wiper[w] = Away
           /\ wiper'[w] = [step |-> "look", kind |-> kind, row |-> row, at |-> now]
           /\ wiper' \in [Wipers -> Stations]
           /\ \A v \in Wipers \ {w} : wiper'[v] = wiper[v]
           /\ (w = Alarm) <=> (kind = "alarm")
           /\ kind = "alarm" => alarm # Never /\ alarm <= now
           /\ alarm' = IF kind = "alarm" THEN Never ELSE alarm
           /\ UNCHANGED <<now, row, holds, scheduled, session, closed, tail, writer, deferral, faults, verify, history>>
  <1> USE DEF object, Kinds
  <1>1. CASE AlarmFires /\ w = Alarm
    BY <1>1, BeginsLook DEF AlarmFires
  <1>2. CASE Sweep(w)
    BY <1>2, BeginsLook DEF Sweep
  <1>3. CASE Visit(w)
    <2>1. w # Alarm
      BY <1>3, Bounds DEF Visit
    <2> QED BY <1>3, <2>1, BeginsLook DEF Visit
  <1> QED BY <1>1, <1>2, <1>3 DEF Starts

LEMMA ShapesNext == Shapes /\ InLine /\ [Next]_vars => Shapes'
  <1> SUFFICES ASSUME Shapes, InLine, [Next]_vars PROVE Shapes'
    OBVIOUS
  <1> USE DEF history, object
  <1>1. CASE Tick
    BY <1>1, Bounds DEF Tick, Shapes
  <1>2. CASE Schedule \/ ScheduleFails
    BY <1>2 DEF Schedule, ScheduleFails, Shapes
  <1>3. CASE Report \/ AdminFreeze
    BY <1>3, FrozenRow DEF Report, AdminFreeze, Freeze, Shapes
  <1>4. CASE DeferAlarm
    BY <1>4 DEF DeferAlarm, Shapes
  <1>5. CASE Evict
    BY <1>5 DEF Evict, Shapes
  <1>6. CASE UNCHANGED vars
    BY <1>6 DEF vars, Shapes
  <1>7. ASSUME NEW w \in Wipers, Starts(w) PROVE Shapes'
    BY <1>7, StartLook DEF Shapes
  <1> QED BY <1>1, <1>2, <1>3, <1>4, <1>5, <1>6, <1>7, Steps, WriterShapes, WiperShapes DEF Rest

\* What each step of a wipe does to the wiper.
LEMMA DecideGoes ==
  ASSUME Shapes, NEW w \in Wipers, Decide(w)
  PROVE  wiper[w].step = "look" /\ (wiper'[w] = Away \/ wiper'[w].step = "call")
  <1>1. CASE Goes(w, Away)
    BY <1>1, Goer DEF Decide
  <1>2. CASE Goes(w, [step |-> "call", kind |-> wiper[w].kind])
    BY <1>2, Goer DEF Decide
  <1> QED BY <1>1, <1>2 DEF Decide

LEMMA CallGoes ==
  ASSUME Shapes, NEW w \in Wipers, Call(w)
  PROVE  \/ session = "null" /\ wiper'[w].step = "clear" /\ UNCHANGED <<tail, closed>>
         \/ /\ session \in Sessions
            /\ wiper'[w].step = "sealing" /\ wiper'[w].session = session
            /\ tail' = [tail EXCEPT ![session] = Append(@, w)] /\ UNCHANGED closed
  BY Goer DEF Call, seal, Shapes

LEMMA SealedGoes ==
  ASSUME Shapes, NEW w \in Wipers, Sealed(w)
  PROVE  wiper'[w].step = "clear"
  BY Goer DEF Sealed

LEMMA ClearGoes ==
  ASSUME Shapes, NEW w \in Wipers, Clear(w)
  PROVE  \/ wiper[w].step = "clear" /\ wiper'[w].step = "mark"
         \/ wiper[w].step = "clear again" /\ wiper'[w].step = "mark again"
  <1> DEFINE to == IF wiper[w].step = "clear" THEN "mark" ELSE "mark again"
  <1>1. Goes(w, [wiper[w] EXCEPT !.step = to]) /\ to \in Working /\ wiper[w].step \in Working
    BY DEF Clear, Working
  <1>2. wiper'[w].step = to
    <2> HIDE DEF to
    <2>1. wiper'[w] = [wiper[w] EXCEPT !.step = to]
      BY <1>1, Goer
    <2>2. [wiper[w] EXCEPT !.step = to].step = to
      BY <1>1, GoesOn
    <2> QED BY <2>1, <2>2
  <1> QED BY <1>2 DEF Clear

LEMMA MarkGoes ==
  ASSUME Shapes, NEW w \in Wipers, Mark(w)
  PROVE  /\ \/ wiper[w].step = "mark" /\ wiper'[w].step = "erase"
            \/ wiper[w].step = "mark again" /\ wiper'[w] = Away
         /\ row' \in Rows /\ row'.status = "wiped" /\ row'.frozenAt = row.frozenAt
  <1>1. row' \in Rows /\ row'.status = "wiped" /\ row'.frozenAt = row.frozenAt
    BY RowWiped DEF Mark
  <1>2. CASE wiper[w].step = "mark"
    <2>1. Goes(w, [wiper[w] EXCEPT !.step = "erase"])
      BY <1>2 DEF Mark
    <2> QED BY <1>1, <1>2, <2>1, Goer, GoesOn DEF Working
  <1>3. CASE wiper[w].step = "mark again"
    BY <1>1, <1>3, Goer DEF Mark
  <1> QED BY <1>2, <1>3 DEF Mark

LEMMA EraseGoes ==
  ASSUME Shapes, NEW w \in Wipers, Erase(w)
  PROVE  wiper[w].step = "erase" /\ (wiper'[w] = Away \/ wiper'[w].step = "clear again")
  <1>1. CASE Goes(w, Away)
    BY <1>1, Goer DEF Erase
  <1>2. CASE Goes(w, [wiper[w] EXCEPT !.step = "clear again"])
    BY <1>2, Goer, GoesOn DEF Erase, Working
  <1> QED BY <1>1, <1>2 DEF Erase

-----------------------------------------------------------------------------
(* The alarm *)

\* A step of a wipe turns the alarm only when it is the alarm's own.
LEMMA RingsNext == Shapes /\ InLine /\ Rings /\ Ripe /\ [Next]_vars => Rings'
  <1> SUFFICES ASSUME Shapes, InLine, Rings, Ripe, [Next]_vars PROVE Rings'
    OBVIOUS
  <1> USE Bounds DEF history, object
  <1>0. Alarm \in Wipers /\ now \in Nat /\ now <= MaxTime
    BY DEF Shapes
  <1>1. ASSUME alarm' \in {alarm, Ttl, deferral}, deferral' \in {deferral, Never, now + Keep},
               wiper'[Alarm] = wiper[Alarm]
        PROVE  Rings'
    <2>1. Ttl \in Times /\ now + Keep \in Times /\ Ttl <= now + Keep /\ Ttl <= Ttl
      BY <1>0 DEF Times
    <2> QED BY <1>1, <2>1 DEF Rings, Times
  <1>2. CASE Rest
    BY <1>1, <1>2
       DEF Rest, Tick, Schedule, ScheduleFails, Report, AdminFreeze, Freeze, DeferAlarm, Evict, vars
  <1>3. ASSUME NEW p \in Writers, Admit(p) \/ WriterStep(p) PROVE Rings'
    BY <1>1, <1>3 DEF Admit, WriterStep, Arrive, dispatch, Land
  <1>4. ASSUME NEW w \in Wipers, Starts(w) PROVE Rings'
    <2>1. PICK kind \in Kinds :
           /\ wiper'[w] = [step |-> "look", kind |-> kind, row |-> row, at |-> now]
           /\ \A v \in Wipers \ {w} : wiper'[v] = wiper[v]
           /\ (w = Alarm) <=> (kind = "alarm")
           /\ kind = "alarm" => alarm # Never /\ alarm <= now
           /\ alarm' = IF kind = "alarm" THEN Never ELSE alarm
           /\ deferral' = deferral
      BY <1>4, StartLook
    <2>2. CASE w # Alarm
      BY <1>1, <1>0, <2>1, <2>2
    <2>3. CASE w = Alarm
      <3>1. Ttl <= now
        BY <1>0, <2>1, <2>3 DEF Rings, Times
      <3> QED BY <2>1, <2>3, <3>1 DEF Rings
    <2> QED BY <2>2, <2>3
  <1>5. ASSUME NEW w \in Wipers, WiperStep(w) \/ WipeFails(w) PROVE Rings'
    <2>1. Onward(w) /\ deferral' = deferral
      BY <1>5, WiperGoes DEF WiperStep, WipeFails, Decide, Call, Sealed, Clear, Mark, Erase
    <2>2. /\ wiper'[Alarm] # Away => wiper'[Alarm].kind = "alarm"
          /\ wiper'[Alarm].step = "look" => Ttl <= wiper'[Alarm].at
      <3>1. CASE w # Alarm
        BY <1>0, <2>1, <3>1 DEF Onward, Rings
      <3>2. CASE w = Alarm
        <4>1. wiper[w] # Away
          BY <1>5, WiperGoes DEF Away
        <4>2. Away.step = "away"
          BY DEF Away
        <4> QED BY <2>1, <3>2, <4>1, <4>2 DEF Onward, Rings, Working
      <3> QED BY <3>1, <3>2
    <2>3. alarm' \in {Never} \cup Times /\ (alarm' # Never => Ttl <= alarm')
      <3>1. CASE alarm' = alarm
        BY <3>1 DEF Rings
      <3>2. CASE row.status = "frozen" /\ alarm' = Until(row)
        BY <3>2, UntilTimes DEF Shapes
      <3>3. CASE WipeFails(w) /\ w = Alarm /\ alarm' = now
        <4>1. Ttl <= now
          <5>1. wiper[w].step \in {"clear", "mark", "erase", "clear again", "mark again"}
            BY <3>3 DEF WipeFails
          <5>2. wiper[w].kind = "alarm"
            BY <3>3, <5>1, Station DEF Rings
          <5> QED BY <5>1, <5>2 DEF Ripe, Decided
        <4> QED BY <1>0, <3>3, <4>1 DEF Times
      <3> QED BY <1>5, <3>1, <3>2, <3>3
           DEF WiperStep, WipeFails, Decide, defer, Call, Sealed, Clear, Mark, Erase
    <2> QED BY <2>1, <2>2, <2>3 DEF Rings
  <1> QED BY <1>2, <1>3, <1>4, <1>5, Steps

LEMMA AlarmCoversNext ==
  Shapes /\ InLine /\ Rings /\ AlarmCovers /\ MarkedFirst /\ [Next]_vars => AlarmCovers'
  <1> SUFFICES ASSUME Shapes, InLine, Rings, AlarmCovers, MarkedFirst, [Next]_vars PROVE AlarmCovers'
    OBVIOUS
  <1> USE Bounds DEF history, object
  <1>0. Alarm \in Wipers
    OBVIOUS
  <1>1. ASSUME scheduled' => scheduled, row'.status # "wiped" => row.status # "wiped",
               alarm # Never => alarm' # Never, wiper[Alarm] # Away => wiper'[Alarm] # Away
        PROVE  AlarmCovers'
    BY <1>1 DEF AlarmCovers
  <1>2. CASE Rest
    <2>1. CASE Schedule
      BY <2>1 DEF Schedule, AlarmCovers
    <2>2. CASE DeferAlarm
      BY <1>1, <2>2 DEF DeferAlarm, Rings, Times
    <2>3. CASE Tick \/ ScheduleFails \/ Evict \/ UNCHANGED vars
      <3>1. scheduled' = scheduled /\ row' = row /\ alarm' = alarm /\ wiper' = wiper
        BY <2>3 DEF Tick, ScheduleFails, Evict, vars
      <3> QED BY <1>1, <3>1
    <2>4. CASE Report \/ AdminFreeze
      <3>1. scheduled' = scheduled /\ row.status # "wiped" /\ alarm' = alarm /\ wiper' = wiper
        BY <2>4 DEF Report, AdminFreeze, Freeze
      <3> QED BY <1>1, <3>1
    <2> QED BY <1>2, <2>1, <2>2, <2>3, <2>4 DEF Rest
  <1>3. ASSUME NEW p \in Writers, Admit(p) \/ WriterStep(p) PROVE AlarmCovers'
    BY <1>1, <1>3 DEF Admit, WriterStep, Arrive, dispatch, Land
  <1>4. ASSUME NEW w \in Wipers, Starts(w) PROVE AlarmCovers'
    <2>1. PICK kind \in Kinds :
           /\ wiper[w] = Away
           /\ wiper'[w] = [step |-> "look", kind |-> kind, row |-> row, at |-> now]
           /\ \A v \in Wipers \ {w} : wiper'[v] = wiper[v]
           /\ (w = Alarm) <=> (kind = "alarm")
           /\ alarm' = IF kind = "alarm" THEN Never ELSE alarm
           /\ scheduled' = scheduled /\ row' = row
      BY <1>4, StartLook
    <2>2. CASE w # Alarm
      BY <1>0, <1>1, <2>1, <2>2
    <2>3. CASE w = Alarm
      <3>1. wiper'[Alarm].step = "look" /\ Away.step = "away"
        BY <2>1, <2>3 DEF Away
      <3> QED BY <3>1 DEF AlarmCovers
    <2> QED BY <2>2, <2>3
  <1>5. ASSUME NEW w \in Wipers, WiperStep(w) \/ WipeFails(w) PROVE AlarmCovers'
    <2>1. Onward(w) /\ wiper[w].step # "away"
      BY <1>5, WiperGoes
    <2>2. CASE w # Alarm
      <3>1. wiper'[Alarm] = wiper[Alarm]
        BY <1>0, <2>1, <2>2 DEF Onward
      <3>2. (scheduled' => scheduled) /\ (row'.status # "wiped" => row.status # "wiped")
        <4>1. CASE Mark(w)
          BY <4>1, RowWiped DEF Mark
        <4>2. CASE Erase(w)
          BY <4>2 DEF Erase
        <4>3. CASE scheduled' = scheduled /\ row' = row
          BY <4>3
        <4> QED BY <1>5, <4>1, <4>2, <4>3 DEF WiperStep, WipeFails, Decide, Call, Sealed, Clear
      <3>3. alarm # Never => alarm' # Never
        <4>1. CASE Decide(w)
          <5>1. row.status = "frozen" => Until(row) \in Nat
            BY UntilTimes DEF Shapes, Times
          <5> QED BY <4>1, <5>1 DEF Decide, defer
        <4> QED BY <1>5, <2>2, <4>1 DEF WiperStep, WipeFails, Call, Sealed, Clear, Mark, Erase
      <3> QED BY <1>1, <3>1, <3>2, <3>3
    <2>3. CASE w = Alarm
      <3>1. wiper[w].kind = "alarm"
        BY <1>0, <2>1, <2>3, Station DEF Rings
      <3>2. CASE wiper'[w] # Away
        BY <2>3, <3>2 DEF AlarmCovers
      <3>3. CASE Decide(w)
        <4>1. CASE row.status = "active"
          <5>1. wiper[w].at >= Ttl /\ wiper[w].at \in Nat
            BY <1>0, <2>3, <3>3, Station DEF Decide, Rings
          <5>2. wipeDue(row, wiper[w].at)
            BY <4>1, <5>1 DEF wipeDue
          <5>3. Goes(w, [step |-> "call", kind |-> "alarm"])
            BY <3>1, <3>3, <5>2 DEF Decide
          <5>4. wiper'[w].step = "call" /\ Away.step = "away"
            BY <5>3, Goer DEF Away
          <5> QED BY <3>2, <5>4
        <4>2. CASE row.status = "frozen"
          <5>1. Until(row) \in Nat
            BY <4>2, UntilTimes DEF Shapes, Times
          <5>2. alarm' = Until(row) \/ wiper'[w].step = "call"
            <6>1. CASE Goes(w, [step |-> "call", kind |-> "alarm"])
              BY <6>1, Goer
            <6>2. CASE defer(w)
              BY <3>1, <4>2, <6>2 DEF defer
            <6> QED BY <3>1, <3>3, <6>1, <6>2 DEF Decide
          <5>3. Away.step = "away"
            BY DEF Away
          <5> QED BY <3>2, <5>1, <5>2, <5>3 DEF AlarmCovers
        <4>3. CASE row.status = "wiped"
          BY <3>3, <4>3 DEF Decide, AlarmCovers
        <4> QED BY <4>1, <4>2, <4>3 DEF Shapes, Rows, Statuses
      <3>4. CASE Mark(w)
        BY <3>4, RowWiped DEF Mark, AlarmCovers
      <3>5. CASE Erase(w)
        BY <3>5 DEF Erase, AlarmCovers
      <3>6. CASE WipeFails(w)
        <4>1. alarm' = IF alarm = Never THEN now ELSE alarm
          BY <2>3, <3>6 DEF WipeFails
        <4> QED BY <4>1 DEF AlarmCovers, Shapes
      <3>7. CASE Call(w) \/ Sealed(w) \/ Clear(w)
        <4>1. alarm' = alarm /\ scheduled' = scheduled /\ row' = row
          BY <3>7 DEF Call, Sealed, Clear
        <4>2. wiper'[w].step \in {"sealing", "clear", "mark", "mark again"}
          <5>1. CASE Call(w)
            BY <5>1, CallGoes
          <5>2. CASE Sealed(w)
            BY <5>2, SealedGoes
          <5>3. CASE Clear(w)
            BY <5>3, ClearGoes
          <5> QED BY <3>7, <5>1, <5>2, <5>3
        <4>3. Away.step = "away"
          BY DEF Away
        <4> QED BY <3>2, <4>2, <4>3
      <3> QED BY <1>5, <3>3, <3>4, <3>5, <3>6, <3>7 DEF WiperStep
    <2> QED BY <2>2, <2>3
  <1> QED BY <1>2, <1>3, <1>4, <1>5, Steps

-----------------------------------------------------------------------------
(* Who may wipe, and what comes before what *)

LEMMA DueRipe ==
  ASSUME NEW r \in Rows, NEW at \in Nat, wipeDue(r, at)
  PROVE  Ttl <= at
  <1>1. CASE r.status = "frozen"
    BY <1>1, UntilTimes, Bounds DEF wipeDue, Times
  <1> QED BY <1>1 DEF wipeDue

\* What is decided is right when it is decided.
LEMMA DecideRipe ==
  ASSUME Shapes, Ripe, NEW w \in Wipers, Decide(w)
  PROVE  \/ wiper'[w] = Away
         \/ wiper'[w].step = "call" /\ wiper'[w].kind = wiper[w].kind
            /\ IF wiper'[w].kind = "release" THEN released' ELSE Ttl <= now
  <1>1. CASE Goes(w, Away)
    BY <1>1, Goer
  <1>2. CASE Goes(w, [step |-> "call", kind |-> wiper[w].kind])
    <2> DEFINE next == [step |-> "call", kind |-> wiper[w].kind]
    <2>1. next.step = "call" /\ next.kind = wiper[w].kind /\ next # Away
      BY DEF Away
    <2>2. wiper'[w] = next
      BY <1>2, Goer
    <2> HIDE DEF next
    <2>3. /\ wiper[w].step = "look" /\ wiper[w].kind \in Kinds /\ wiper[w].row \in Rows
          /\ wiper[w].at \in Nat /\ wiper[w].at <= now /\ now \in Nat /\ row \in Rows
      BY Station DEF Decide, Ripe, Shapes
    <2>4. CASE wiper[w].kind = "release"
      <3>1. wiper[w].row.status # "wiped" => released'
        BY <2>4 DEF Decide
      <3>2. wiper[w].row.status # "wiped"
        <4>1. ~ Goes(w, Away)
          BY <2>1, <2>2, Goer
        <4> QED BY <2>4, <4>1 DEF Decide
      <3> QED BY <2>1, <2>2, <2>4, <3>1, <3>2
    <2>5. CASE wiper[w].kind # "release"
      <3>1. wipeDue(row, wiper[w].at) \/ wipeDue(wiper[w].row, now)
        <4>1. ~ Goes(w, Away)
          BY <2>1, <2>2, Goer
        <4>2. wiper[w].kind \in {"alarm", "sweep", "visit"}
          BY <2>3, <2>5 DEF Kinds
        <4> QED BY <4>1, <4>2 DEF Decide
      <3>2. Ttl <= now
        BY <2>3, <3>1, DueRipe, Bounds
      <3> QED BY <2>1, <2>2, <2>5, <3>2
    <2> QED BY <2>4, <2>5
  <1> QED BY <1>1, <1>2 DEF Decide

LEMMA ClockAndRelease ==
  ASSUME Shapes, [Next]_vars
  PROVE  now \in Nat /\ now' \in Nat /\ now <= now' /\ (released => released') /\ (unsealed => unsealed')
  <1> USE DEF history, object
  <1>1. now \in Nat
    BY DEF Shapes
  <1>2. CASE Rest
    <2>1. CASE Tick
      BY <1>1, <2>1 DEF Tick
    <2>2. CASE now' = now /\ released' = released /\ unsealed' = unsealed
      BY <1>1, <2>2
    <2> QED BY <1>2, <2>1, <2>2
         DEF Rest, Schedule, ScheduleFails, Report, AdminFreeze, Freeze, DeferAlarm, Evict, vars
  <1>3. ASSUME NEW p \in Writers, Admit(p) \/ WriterStep(p)
        PROVE  now' = now /\ released' = released /\ unsealed' = unsealed
    BY <1>3 DEF Admit, WriterStep, Arrive, dispatch, Land
  <1>4. ASSUME NEW w \in Wipers, Starts(w)
        PROVE  now' = now /\ released' = released /\ unsealed' = unsealed
    BY <1>4, StartLook
  <1>5. ASSUME NEW w \in Wipers, WiperStep(w) \/ WipeFails(w)
        PROVE  now' = now /\ (released => released') /\ (unsealed => unsealed')
    <2>1. CASE Decide(w)
      BY <2>1 DEF Decide
    <2>2. CASE Call(w)
      BY <2>2 DEF Call
    <2>3. CASE WipeFails(w)
      BY <2>3 DEF WipeFails
    <2>4. CASE Sealed(w) \/ Clear(w) \/ Mark(w) \/ Erase(w)
      <3>1. now' = now /\ released' = released /\ unsealed' = unsealed
        BY <2>4 DEF Sealed, Clear, Mark, Erase
      <3> QED BY <3>1
    <2> QED BY <1>5, <2>1, <2>2, <2>3, <2>4 DEF WiperStep
  <1> QED BY <1>1, <1>2, <1>3, <1>4, <1>5, Steps

LEMMA RipeNext == Shapes /\ Ripe /\ [Next]_vars => Ripe'
  <1> SUFFICES ASSUME Shapes, Ripe, [Next]_vars PROVE Ripe'
    OBVIOUS
  <1> USE DEF history, object
  <1>0. Away.step = "away" /\ Ttl \in Nat
    BY Bounds DEF Away
  <1>1. /\ now \in Nat /\ now' \in Nat /\ now <= now' /\ (released => released')
        /\ \A w \in Wipers : wiper[w].step = "look" => wiper[w].at \in Nat
    BY ClockAndRelease, Station, Bounds
  <1>2. ASSUME NEW w \in Wipers, \A v \in Wipers \ {w} : wiper'[v] = wiper[v],
               wiper'[w].step = "look" => wiper'[w].at <= now',
               Decided(w)' => IF wiper'[w].kind = "release" THEN released' ELSE Ttl <= now'
        PROVE  Ripe'
    <2>1. \A v \in Wipers : wiper'[v].step = "look" => wiper'[v].at <= now'
      BY <1>1, <1>2 DEF Ripe
    <2>2. \A v \in Wipers : Decided(v)' => IF wiper'[v].kind = "release" THEN released' ELSE Ttl <= now'
      BY <1>0, <1>1, <1>2 DEF Ripe, Decided
    <2> QED BY <2>1, <2>2 DEF Ripe
  <1>3. ASSUME wiper' = wiper PROVE Ripe'
    <2>1. \A v \in Wipers : wiper[v].step = "look" => wiper[v].at <= now'
      BY <1>1 DEF Ripe
    <2>2. \A v \in Wipers : Decided(v) => IF wiper[v].kind = "release" THEN released' ELSE Ttl <= now'
      BY <1>0, <1>1 DEF Ripe, Decided
    <2> QED BY <1>3, <2>1, <2>2 DEF Ripe, Decided
  <1>4. CASE Rest
    BY <1>3, <1>4
       DEF Rest, Tick, Schedule, ScheduleFails, Report, AdminFreeze, Freeze, DeferAlarm, Evict, vars
  <1>5. ASSUME NEW p \in Writers, Admit(p) \/ WriterStep(p) PROVE Ripe'
    BY <1>3, <1>5 DEF Admit, WriterStep, Arrive, dispatch, Land
  <1>6. ASSUME NEW w \in Wipers, Starts(w) PROVE Ripe'
    <2>1. /\ wiper'[w].step = "look" /\ wiper'[w].at = now /\ now' = now
          /\ \A v \in Wipers \ {w} : wiper'[v] = wiper[v]
      <3>1. PICK kind \in Kinds :
              /\ wiper'[w] = [step |-> "look", kind |-> kind, row |-> row, at |-> now]
              /\ \A v \in Wipers \ {w} : wiper'[v] = wiper[v]
              /\ now' = now
        BY <1>6, StartLook
      <3> QED BY <3>1
    <2> QED BY <1>1, <1>2, <2>1 DEF Decided
  <1>7. ASSUME NEW w \in Wipers, WiperStep(w) \/ WipeFails(w) PROVE Ripe'
    <2>1. Onward(w) /\ wiper[w].step # "away"
      BY <1>7, WiperGoes
    <2>2. wiper'[w].step # "look"
      BY <1>0, <2>1 DEF Onward, Working
    <2>3. CASE Decide(w)
      BY <1>0, <1>1, <1>2, <2>1, <2>2, <2>3, DecideRipe DEF Onward, Decide, Decided
    <2>4. CASE ~ Decide(w)
      <3>1. Decided(w)
        BY <1>7, <2>4 DEF WiperStep, WipeFails, Call, Sealed, Clear, Mark, Erase, Decided
      <3> QED BY <1>0, <1>1, <1>2, <2>1, <2>2, <3>1 DEF Onward, Decided, Ripe
    <2> QED BY <2>3, <2>4
  <1> QED BY <1>4, <1>5, <1>6, <1>7, Steps

LEMMA MarkedFirstNext == Shapes /\ MarkedFirst /\ [Next]_vars => MarkedFirst'
  <1> SUFFICES ASSUME Shapes, MarkedFirst, [Next]_vars PROVE MarkedFirst'
    OBVIOUS
  <1> USE DEF history, object
  <1>0. Away.step = "away"
    BY DEF Away
  <1>1. ASSUME wiper' = wiper, Wiped => Wiped' PROVE MarkedFirst'
    BY <1>1 DEF MarkedFirst
  <1>2. CASE Rest
    <2>1. CASE row' = row /\ wiper' = wiper
      BY <1>1, <2>1 DEF Wiped
    <2>2. CASE ~ Wiped /\ wiper' = wiper
      BY <1>1, <2>2
    <2> QED BY <1>2, <2>1, <2>2
         DEF Rest, Tick, Schedule, ScheduleFails, Report, AdminFreeze, Freeze, DeferAlarm, Evict, vars, Wiped
  <1>3. ASSUME NEW p \in Writers, Admit(p) \/ WriterStep(p) PROVE MarkedFirst'
    <2>1. row' = row /\ wiper' = wiper
      BY <1>3 DEF Admit, WriterStep, Arrive, dispatch, Land
    <2> QED BY <1>1, <2>1 DEF Wiped
  <1>4. ASSUME NEW w \in Wipers, Starts(w) PROVE MarkedFirst'
    <2>1. PICK kind \in Kinds :
              /\ wiper'[w] = [step |-> "look", kind |-> kind, row |-> row, at |-> now]
              /\ \A v \in Wipers \ {w} : wiper'[v] = wiper[v]
              /\ row' = row
      BY <1>4, StartLook
    <2>2. wiper'[w].step = "look"
      BY <2>1
    <2> QED BY <2>1, <2>2 DEF MarkedFirst, Wiped
  <1>5. ASSUME NEW w \in Wipers, WiperStep(w) \/ WipeFails(w) PROVE MarkedFirst'
    <2>1. \A v \in Wipers \ {w} : wiper'[v] = wiper[v]
      BY <1>5, WiperGoes DEF Onward
    <2>2. Wiped => Wiped'
      <3>1. CASE row' = row
        BY <3>1 DEF Wiped
      <3>2. CASE Mark(w)
        BY <3>2, MarkGoes DEF Wiped
      <3> QED BY <1>5, <3>1, <3>2 DEF WiperStep, WipeFails, Decide, Call, Sealed, Clear, Erase
    <2>3. wiper'[w].step \in {"erase", "clear again", "mark again"} => Wiped'
      <3>1. CASE Decide(w)
        BY <1>0, <3>1, DecideGoes
      <3>2. CASE Call(w)
        BY <3>2, CallGoes
      <3>3. CASE Sealed(w)
        BY <3>3, SealedGoes
      <3>4. CASE Clear(w)
        BY <2>2, <3>4, ClearGoes DEF MarkedFirst
      <3>5. CASE Mark(w)
        BY <3>5, MarkGoes DEF Wiped
      <3>6. CASE Erase(w)
        BY <2>2, <3>6, EraseGoes DEF MarkedFirst
      <3>7. CASE WipeFails(w)
        BY <1>0, <3>7, Goer DEF WipeFails
      <3> QED BY <1>5, <3>1, <3>2, <3>3, <3>4, <3>5, <3>6, <3>7 DEF WiperStep
    <2> QED BY <2>1, <2>2, <2>3 DEF MarkedFirst
  <1> QED BY <1>2, <1>3, <1>4, <1>5, Steps

LEMMA FreshNext == Shapes /\ Fresh /\ [Next]_vars => Fresh'
  <1> SUFFICES ASSUME Shapes, Fresh, [Next]_vars, verify' # "answered" PROVE Fresh'
    BY DEF Fresh
  <1> USE DEF history, object
  <1>0. Away.step = "away"
    BY DEF Away
  <1>1. verify # "answered" /\ (unsealed => unsealed')
    <2>1. CASE verify' = verify
      BY <2>1, ClockAndRelease
    <2>2. CASE Schedule \/ ScheduleFails
      BY <2>2, ClockAndRelease DEF Schedule, ScheduleFails
    <2> QED BY <2>1, <2>2
         DEF Next, Tick, Report, AdminFreeze, Freeze, DeferAlarm, Admit, WriterStep, Arrive, dispatch, Land,
             AlarmFires, Sweep, Visit, WiperStep, WipeFails, Decide, Call, Sealed, Clear, Mark, Erase, Evict, vars
  <1>2. /\ \A p \in Writers : writer[p].step = "away" /\ writer[p] = Away
        /\ session = "null"
        /\ \A w \in Wipers : wiper[w].step # "sealing"
        /\ \A w \in Wipers :
             Decided(w) /\ wiper[w].step # "call" /\ wiper[w].kind = "release" => unsealed
    BY <1>0, <1>1 DEF Fresh, NoWriters
  <1>3. ASSUME writer' = writer, session' = session, wiper' = wiper PROVE Fresh'
    BY <1>1, <1>2, <1>3 DEF Fresh, NoWriters, Decided
  <1>4. CASE Rest
    <2>1. writer' = writer /\ wiper' = wiper /\ session' = session
      BY <1>2, <1>4 DEF Rest, Tick, Schedule, ScheduleFails, Report, AdminFreeze, Freeze, DeferAlarm, Evict, vars
    <2> QED BY <1>3, <2>1
  <1>5. ASSUME NEW p \in Writers, Admit(p) \/ WriterStep(p) PROVE Fresh'
    BY <1>1, <1>2, <1>5 DEF Admit, WriterStep, Arrive, dispatch, Land
  <1>6. ASSUME NEW w \in Wipers, Starts(w) PROVE Fresh'
    <2>1. PICK kind \in Kinds :
              /\ wiper'[w] = [step |-> "look", kind |-> kind, row |-> row, at |-> now]
              /\ \A v \in Wipers \ {w} : wiper'[v] = wiper[v]
              /\ writer' = writer /\ session' = session
      BY <1>6, StartLook
    <2>2. wiper'[w].step = "look"
      BY <2>1
    <2> QED BY <1>1, <1>2, <2>1, <2>2 DEF Fresh, NoWriters, Decided
  <1>7. ASSUME NEW w \in Wipers, WiperStep(w) \/ WipeFails(w) PROVE Fresh'
    <2>1. Onward(w) /\ writer' = writer
      BY <1>7, WiperGoes DEF WiperStep, WipeFails, Decide, Call, Sealed, Clear, Mark, Erase
    <2>2. session' = "null"
      BY <1>2, <1>7 DEF WiperStep, WipeFails, Decide, Call, Sealed, Clear, Mark, Erase
    <2>3. wiper'[w].step # "sealing"
      <3>1. CASE Decide(w)
        BY <1>0, <3>1, DecideGoes
      <3>2. CASE Call(w)
        BY <1>2, <3>2, CallGoes, Bounds
      <3>3. CASE Clear(w)
        BY <3>3, ClearGoes
      <3>4. CASE Mark(w)
        BY <1>0, <3>4, MarkGoes
      <3>5. CASE Erase(w)
        BY <1>0, <3>5, EraseGoes
      <3>6. CASE WipeFails(w)
        BY <1>0, <3>6, Goer DEF WipeFails
      <3> QED BY <1>2, <1>7, <3>1, <3>2, <3>3, <3>4, <3>5, <3>6 DEF WiperStep, Sealed
    <2>4. Decided(w)' /\ wiper'[w].step # "call" /\ wiper'[w].kind = "release" => unsealed'
      <3> SUFFICES ASSUME Decided(w)', wiper'[w].step # "call", wiper'[w].kind = "release"
                   PROVE  unsealed'
        OBVIOUS
      <3>1. wiper[w].kind = "release"
        BY <1>0, <2>1 DEF Onward, Decided
      <3>2. ~ Decide(w)
        <4>1. Decide(w) => wiper'[w] = Away \/ wiper'[w].step = "call"
          BY DecideGoes
        <4> QED BY <1>0, <4>1 DEF Decided
      <3>3. CASE Call(w)
        BY <1>2, <3>1, <3>3 DEF Call
      <3>4. CASE ~ Call(w)
        <4>1. Decided(w) /\ wiper[w].step # "call"
          BY <1>7, <3>2, <3>4 DEF WiperStep, WipeFails, Sealed, Clear, Mark, Erase, Decided
        <4> QED BY <1>1, <1>2, <3>1, <4>1
      <3> QED BY <3>3, <3>4
    <2> QED BY <1>1, <1>2, <2>1, <2>2, <2>3, <2>4 DEF Fresh, NoWriters, Onward, Decided
  <1> QED BY <1>4, <1>5, <1>6, <1>7, Steps

-----------------------------------------------------------------------------
(* The lines *)

Writing(p) == p \in Writers /\ writer[p].step = "writing"

LEMMA SameLines ==
  ASSUME InLine, tail' = tail,
         \A x, s : Waits(x, s)' <=> Waits(x, s),
         \A p \in Writers : \A s \in Sessions :
           Waits(p, s) /\ Writing(p)' => Writing(p) \/ tail[s][1] = p
  PROVE  InLine'
  BY DEF InLine, Writing

LEMMA LinesThen ==
  ASSUME \A t \in Sessions :
           /\ \A i \in 1..Len(tail'[t]) : \E y : tail'[t][i] = y /\ Waits(y, t)'
           /\ \A i, j \in 1..Len(tail'[t]) : tail'[t][i] = tail'[t][j] => i = j
           /\ \A p \in Writers : Waits(p, t)' => \E i \in 1..Len(tail'[t]) : tail'[t][i] = p
           /\ \A p \in Writers : Waits(p, t)' /\ Writing(p)' => tail'[t][1] = p
  PROVE  InLine'
  BY DEF InLine, Writing, Waits

LEMMA JoinsLine ==
  ASSUME Shapes, InLine, NEW x \in Writers \cup Wipers, NEW s \in Sessions,
         tail' = [tail EXCEPT ![s] = Append(@, x)],
         \A t : ~ Waits(x, t), \A t : Waits(x, t)' <=> t = s,
         \A y, t : y # x => (Waits(y, t)' <=> Waits(y, t)),
         ~ Writing(x)', \A y : Writing(y)' => Writing(y)
  PROVE  InLine'
  <1>1. /\ tail[s] \in Seq(Writers \cup Wipers) /\ Len(tail[s]) \in Nat
        /\ tail'[s] = Append(tail[s], x)
        /\ \A t \in Sessions \ {s} : tail'[t] = tail[t]
    BY TailType DEF Shapes
  <1>2. /\ Len(tail'[s]) = Len(tail[s]) + 1
        /\ \A i \in 1..Len(tail[s]) : tail'[s][i] = tail[s][i]
        /\ tail'[s][Len(tail[s]) + 1] = x
    BY <1>1, AppendTo
  <1>3. \A i \in 1..Len(tail[s]) : Waits(tail[s][i], s) /\ tail[s][i] # x
    BY DEF InLine
  <1> SUFFICES ASSUME NEW t \in Sessions
               PROVE  /\ \A i \in 1..Len(tail'[t]) : \E y : tail'[t][i] = y /\ Waits(y, t)'
                      /\ \A i, j \in 1..Len(tail'[t]) : tail'[t][i] = tail'[t][j] => i = j
                      /\ \A p \in Writers : Waits(p, t)' => \E i \in 1..Len(tail'[t]) : tail'[t][i] = p
                      /\ \A p \in Writers : Waits(p, t)' /\ Writing(p)' => tail'[t][1] = p
    BY LinesThen
  <1>4. CASE t # s
    <2>1. \A i \in 1..Len(tail[t]) : Waits(tail[t][i], t) /\ tail[t][i] # x
      BY DEF InLine
    <2>2. \A p \in Writers : Waits(p, t)' => p # x
      BY <1>4
    <2> QED BY <1>1, <1>4, <2>1, <2>2 DEF InLine, Writing
  <1>5. CASE t = s
    <2>1. \A i \in 1..Len(tail'[s]) : i \in 1..Len(tail[s]) \/ i = Len(tail[s]) + 1
      BY <1>1, <1>2
    <2>2. \A i \in 1..Len(tail'[s]) : \E y : tail'[s][i] = y /\ Waits(y, s)'
      BY <1>2, <1>3, <2>1
    <2>3. \A i, j \in 1..Len(tail'[s]) : tail'[s][i] = tail'[s][j] => i = j
      BY <1>2, <1>3, <2>1 DEF InLine
    <2>4. \A p \in Writers : Waits(p, s)' => \E i \in 1..Len(tail'[s]) : tail'[s][i] = p
      <3>1. Len(tail[s]) + 1 \in 1..Len(tail'[s]) /\ \A i \in 1..Len(tail[s]) : i \in 1..Len(tail'[s])
        BY <1>1, <1>2
      <3>2. \A p \in Writers : Waits(p, s) => \E i \in 1..Len(tail[s]) : tail[s][i] = p
        BY DEF InLine
      <3> QED BY <1>2, <3>1, <3>2
    <2>5. \A p \in Writers : Waits(p, s)' /\ Writing(p)' => tail'[s][1] = p
      <3> SUFFICES ASSUME NEW p \in Writers, Waits(p, s)', Writing(p)' PROVE tail'[s][1] = p
        OBVIOUS
      <3>1. p # x /\ Waits(p, s) /\ Writing(p)
        OBVIOUS
      <3>2. tail[s][1] = p /\ \E i \in 1..Len(tail[s]) : tail[s][i] = p
        BY <3>1 DEF InLine, Writing
      <3>3. 1 \in 1..Len(tail[s])
        BY <1>1, <3>2
      <3> QED BY <1>2, <3>2, <3>3
    <2> QED BY <1>5, <2>2, <2>3, <2>4, <2>5
  <1> QED BY <1>4, <1>5

LEMMA LeavesLine ==
  ASSUME Shapes, InLine, NEW x, NEW s \in Sessions, Runs(x, s),
         tail' = [tail EXCEPT ![s] = Tail(@)],
         \A t : ~ Waits(x, t)',
         \A y, t : y # x => (Waits(y, t)' <=> Waits(y, t)),
         \A y : Writing(y)' => Writing(y)
  PROVE  InLine'
  <1>1. /\ tail'[s] = Tail(tail[s]) /\ \A t \in Sessions \ {s} : tail'[t] = tail[t]
        /\ Len(tail[s]) \in Nat /\ Len(tail[s]) >= 1 /\ tail[s][1] = x
        /\ Len(tail'[s]) = Len(tail[s]) - 1
        /\ \A i \in 1..Len(tail'[s]) : tail'[s][i] = tail[s][i + 1]
    <2>1. tail[s] \in Seq(Writers \cup Wipers) /\ tail[s] # << >> /\ Head(tail[s]) = x
      BY TailType DEF Runs
    <2>2. tail'[s] = Tail(tail[s]) /\ \A t \in Sessions \ {s} : tail'[t] = tail[t]
      BY DEF Shapes
    <2>3. /\ Len(tail[s]) \in Nat /\ Len(tail[s]) >= 1 /\ Head(tail[s]) = tail[s][1]
          /\ Len(Tail(tail[s])) = Len(tail[s]) - 1
          /\ \A i \in 1..Len(Tail(tail[s])) : Tail(tail[s])[i] = tail[s][i + 1]
      BY <2>1, TailOf, Zenon
    <2> QED BY <2>1, <2>2, <2>3
  <1>2. 1 \in 1..Len(tail[s]) /\ Waits(x, s)
    BY <1>1 DEF InLine
  <1>3. \A y, t : Waits(y, t)' => y # x /\ Waits(y, t)
    OBVIOUS
  <1> SUFFICES ASSUME NEW t \in Sessions
               PROVE  /\ \A i \in 1..Len(tail'[t]) : \E y : tail'[t][i] = y /\ Waits(y, t)'
                      /\ \A i, j \in 1..Len(tail'[t]) : tail'[t][i] = tail'[t][j] => i = j
                      /\ \A p \in Writers : Waits(p, t)' => \E i \in 1..Len(tail'[t]) : tail'[t][i] = p
                      /\ \A p \in Writers : Waits(p, t)' /\ Writing(p)' => tail'[t][1] = p
    BY LinesThen
  <1>4. CASE t # s
    <2>1. \A i \in 1..Len(tail[t]) : tail[t][i] # x
      <3>1. \A y, u, v : Waits(y, u) /\ Waits(y, v) => u = v
        BY Bounds DEF Waits
      <3> QED BY <1>2, <1>4, <3>1 DEF InLine
    <2> QED BY <1>1, <1>3, <1>4, <2>1 DEF InLine, Writing
  <1>5. CASE t = s
    <2>1. \A i \in 1..Len(tail'[s]) : i + 1 \in 1..Len(tail[s]) /\ i + 1 # 1 /\ i \in Nat
      BY <1>1
    <2>2. \A i \in 1..Len(tail'[s]) : tail[s][i + 1] # x /\ Waits(tail[s][i + 1], s)
      BY <1>1, <1>2, <2>1 DEF InLine
    <2>3. \A i \in 1..Len(tail'[s]) : \E y : tail'[s][i] = y /\ Waits(y, s)'
      BY <1>1, <2>2
    <2>4. \A i, j \in 1..Len(tail'[s]) : tail'[s][i] = tail'[s][j] => i = j
      <3> SUFFICES ASSUME NEW i \in 1..Len(tail'[s]), NEW j \in 1..Len(tail'[s]), tail'[s][i] = tail'[s][j]
                   PROVE  i = j
        OBVIOUS
      <3>1. tail[s][i + 1] = tail[s][j + 1]
        BY <1>1
      <3>2. i + 1 = j + 1
        BY <2>1, <3>1 DEF InLine
      <3> QED BY <2>1, <3>2
    <2>5. \A p \in Writers : Waits(p, s)' => \E i \in 1..Len(tail'[s]) : tail'[s][i] = p
      <3> SUFFICES ASSUME NEW p \in Writers, Waits(p, s)' PROVE \E i \in 1..Len(tail'[s]) : tail'[s][i] = p
        OBVIOUS
      <3>1. PICK i \in 1..Len(tail[s]) : tail[s][i] = p
        BY <1>3 DEF InLine
      <3>2. i # 1
        BY <1>1, <1>3, <3>1
      <3>3. i - 1 \in 1..Len(tail'[s]) /\ (i - 1) + 1 = i
        BY <1>1, <3>2
      <3> QED BY <1>1, <3>1, <3>3
    <2>6. \A p \in Writers : Waits(p, s)' /\ Writing(p)' => tail'[s][1] = p
      <3> SUFFICES ASSUME NEW p \in Writers, Waits(p, s)', Writing(p)' PROVE FALSE
        OBVIOUS
      <3>1. tail[s][1] = p /\ p # x
        BY <1>3 DEF InLine, Writing
      <3> QED BY <1>1, <3>1
    <2>7. \A i \in 1..Len(tail'[t]) : \E y : tail'[t][i] = y /\ Waits(y, t)'
      BY <1>5, <2>3
    <2>8. \A i, j \in 1..Len(tail'[t]) : tail'[t][i] = tail'[t][j] => i = j
      BY <1>5, <2>4
    <2>9. \A p \in Writers : Waits(p, t)' => \E i \in 1..Len(tail'[t]) : tail'[t][i] = p
      BY <1>5, <2>5
    <2>10. \A p \in Writers : Waits(p, t)' /\ Writing(p)' => tail'[t][1] = p
      BY <1>5, <2>6
    <2> QED BY <2>7, <2>8, <2>9, <2>10
  <1> QED BY <1>4, <1>5

LEMMA InLineNext == Shapes /\ InLine /\ [Next]_vars => InLine'
  <1> SUFFICES ASSUME Shapes, InLine, [Next]_vars PROVE InLine'
    OBVIOUS
  <1> USE DEF history, object
  <1>0. Away.step = "away" /\ \A p \in Writers : p \notin Wipers
    BY Bounds DEF Away
  <1>1. ASSUME tail' = tail, writer' = writer, wiper' = wiper PROVE InLine'
    BY <1>1, SameLines DEF Waits, Writing
  <1>2. CASE Rest
    BY <1>1, <1>2
       DEF Rest, Tick, Schedule, ScheduleFails, Report, AdminFreeze, Freeze, DeferAlarm, Evict, vars
  \* A wiper that neither was in a line nor is.
  <1>3. ASSUME NEW w \in Wipers, \A v \in Wipers \ {w} : wiper'[v] = wiper[v],
               wiper[w].step # "sealing", wiper'[w].step # "sealing", writer' = writer, tail' = tail
        PROVE  InLine'
    <2>1. \A x, s : Waits(x, s)' <=> Waits(x, s)
      BY <1>3 DEF Waits
    <2>2. \A p \in Writers : Writing(p)' => Writing(p)
      BY <1>3 DEF Writing
    <2> QED BY <1>3, <2>1, <2>2, SameLines
  <1>4. ASSUME NEW w \in Wipers, Starts(w) PROVE InLine'
    <2>1. PICK kind \in Kinds :
            /\ wiper[w] = Away
            /\ wiper'[w] = [step |-> "look", kind |-> kind, row |-> row, at |-> now]
            /\ \A v \in Wipers \ {w} : wiper'[v] = wiper[v]
            /\ writer' = writer /\ tail' = tail
      BY <1>4, StartLook
    <2>2. wiper'[w].step = "look"
      BY <2>1
    <2> QED BY <1>0, <1>3, <2>1, <2>2
  <1>5. ASSUME NEW w \in Wipers, WiperStep(w) \/ WipeFails(w) PROVE InLine'
    <2>1. Onward(w)
      BY <1>5, WiperGoes
    <2>2. writer' = writer
      BY <1>5 DEF WiperStep, WipeFails, Decide, Call, Sealed, Clear, Mark, Erase
    <2>3. CASE Decide(w)
      BY <1>0, <1>3, <2>1, <2>2, <2>3, DecideGoes DEF Onward, Decide
    <2>4. CASE Call(w)
      <3>1. wiper[w].step = "call"
        BY <2>4 DEF Call
      <3>2. CASE wiper'[w].step = "clear" /\ tail' = tail
        BY <1>3, <2>1, <2>2, <3>1, <3>2 DEF Onward
      <3>3. CASE /\ session \in Sessions
                 /\ wiper'[w].step = "sealing" /\ wiper'[w].session = session
                 /\ tail' = [tail EXCEPT ![session] = Append(@, w)]
        <4>1. \A t : ~ Waits(w, t)
          BY <1>0, <3>1 DEF Waits
        <4>2. \A t : Waits(w, t)' <=> t = session
          BY <1>0, <3>3 DEF Waits
        <4>3. \A y, t : y # w => (Waits(y, t)' <=> Waits(y, t))
          BY <2>1, <2>2 DEF Waits, Onward
        <4>4. ~ Writing(w)' /\ \A y : Writing(y)' => Writing(y)
          BY <1>0, <2>2 DEF Writing
        <4> QED BY <3>3, <4>1, <4>2, <4>3, <4>4, JoinsLine
      <3> QED BY <2>4, <3>2, <3>3, CallGoes
    <2>5. CASE Sealed(w)
      <3>1. /\ wiper[w].session \in Sessions /\ Runs(w, wiper[w].session)
            /\ tail' = [tail EXCEPT ![wiper[w].session] = Tail(@)]
            /\ wiper'[w].step = "clear"
        BY <2>5, SealedGoes, Station DEF Sealed
      <3>2. \A t : ~ Waits(w, t)'
        BY <1>0, <3>1 DEF Waits
      <3>3. \A y, t : y # w => (Waits(y, t)' <=> Waits(y, t))
        BY <2>1, <2>2 DEF Waits, Onward
      <3>4. \A y : Writing(y)' => Writing(y)
        BY <2>2 DEF Writing
      <3> QED BY <3>1, <3>2, <3>3, <3>4, LeavesLine
    <2>6. CASE Clear(w)
      <3>1. tail' = tail
        BY <2>6 DEF Clear
      <3> QED BY <1>3, <2>1, <2>2, <2>6, <3>1, ClearGoes DEF Onward
    <2>7. CASE Mark(w)
      <3>1. tail' = tail
        BY <2>7 DEF Mark
      <3> QED BY <1>0, <1>3, <2>1, <2>2, <2>7, <3>1, MarkGoes DEF Onward
    <2>8. CASE Erase(w)
      <3>1. tail' = tail
        BY <2>8 DEF Erase
      <3> QED BY <1>0, <1>3, <2>1, <2>2, <2>8, <3>1, EraseGoes DEF Onward
    <2>9. CASE WipeFails(w)
      <3>1. tail' = tail /\ wiper[w].step # "sealing" /\ wiper'[w] = Away
        BY <2>9, Goer DEF WipeFails
      <3> QED BY <1>0, <1>3, <2>1, <2>2, <3>1 DEF Onward
    <2> QED BY <1>5, <2>3, <2>4, <2>5, <2>6, <2>7, <2>8, <2>9 DEF WiperStep
  <1>6. ASSUME NEW p \in Writers, Admit(p) \/ WriterStep(p) PROVE InLine'
    <2>1. wiper' = wiper
      BY <1>6 DEF Admit, WriterStep, Arrive, dispatch, Land
    <2>2. CASE Admit(p)
      <3>1. /\ tail' = tail /\ writer[p].step = "away" /\ writer'[p].step = "admitted"
            /\ \A q \in Writers \ {p} : writer'[q] = writer[q]
        BY <1>0, <2>2, Mover DEF Admit
      <3>2. \A x, s : Waits(x, s)' <=> Waits(x, s)
        BY <2>1, <3>1 DEF Waits
      <3>3. \A q \in Writers : Writing(q)' => Writing(q)
        BY <3>1 DEF Writing
      <3> QED BY <3>1, <3>2, <3>3, SameLines
    <2>3. CASE Arrive(p)
      <3>1. PICK s \in Sessions :
              /\ tail' = [tail EXCEPT ![s] = Append(@, p)]
              /\ Moves(p, [step |-> "queued", session |-> s, scheduled |-> scheduled])
        BY <2>3, Arrival
      <3>2. writer[p].step = "admitted" /\ writer'[p].step = "queued" /\ writer'[p].session = s
            /\ \A q \in Writers \ {p} : writer'[q] = writer[q]
        BY <2>3, <3>1, Mover DEF Arrive
      <3>3. \A t : ~ Waits(p, t)
        BY <1>0, <3>2 DEF Waits
      <3>4. \A t : Waits(p, t)' <=> t = s
        BY <1>0, <3>2 DEF Waits
      <3>5. \A y, t : y # p => (Waits(y, t)' <=> Waits(y, t))
        BY <2>1, <3>2 DEF Waits
      <3>6. ~ Writing(p)' /\ \A y : Writing(y)' => Writing(y)
        BY <3>2 DEF Writing
      <3> QED BY <3>1, <3>3, <3>4, <3>5, <3>6, JoinsLine
    <2>4. ASSUME Leaves(p), writer[p].step \in {"queued", "writing"}, Runs(p, writer[p].session)
          PROVE  InLine'
      <3>1. /\ writer[p].session \in Sessions
            /\ tail' = [tail EXCEPT ![writer[p].session] = Tail(@)]
            /\ writer'[p].step = "away"
            /\ \A q \in Writers \ {p} : writer'[q] = writer[q]
        BY <1>0, <2>4, Place, Mover DEF Leaves
      <3>2. \A t : ~ Waits(p, t)'
        BY <1>0, <3>1 DEF Waits
      <3>3. \A y, t : y # p => (Waits(y, t)' <=> Waits(y, t))
        BY <2>1, <3>1 DEF Waits
      <3>4. \A y : Writing(y)' => Writing(y)
        BY <3>1 DEF Writing
      <3> QED BY <2>4, <3>1, <3>2, <3>3, <3>4, LeavesLine
    <2>5. CASE dispatch(p)
      <3>1. CASE Leaves(p)
        BY <2>4, <2>5, <3>1 DEF dispatch
      <3>2. CASE Moves(p, [writer[p] EXCEPT !.step = "writing"]) /\ tail' = tail
        <4>1. /\ writer[p].step = "queued" /\ writer[p].session \in Sessions
              /\ writer'[p].step = "writing" /\ writer'[p].session = writer[p].session
              /\ \A q \in Writers \ {p} : writer'[q] = writer[q]
          BY <2>5, <3>2, Place, Mover DEF dispatch
        <4>2. tail[writer[p].session][1] = p
          <5>1. tail[writer[p].session] # << >> /\ Head(tail[writer[p].session]) = p
            BY <2>5 DEF dispatch, Runs
          <5> QED BY <4>1, <5>1, TailOf, TailType
        <4>3. \A x, s : Waits(x, s)' <=> Waits(x, s)
          BY <2>1, <4>1 DEF Waits
        <4>4. \A q \in Writers : \A s \in Sessions : Waits(q, s) /\ Writing(q)' => Writing(q) \/ tail[s][1] = q
          BY <1>0, <4>1, <4>2 DEF Writing, Waits
        <4> QED BY <3>2, <4>3, <4>4, SameLines
      <3> QED BY <2>5, <3>1, <3>2 DEF dispatch
    <2>6. CASE Land(p)
      <3>1. writer[p].step = "writing" /\ writer[p].session \in Sessions /\ Leaves(p)
        BY <2>6, Place DEF Land
      <3>2. Waits(p, writer[p].session)
        BY <3>1 DEF Waits
      <3>3. tail[writer[p].session][1] = p /\ tail[writer[p].session] # << >>
        BY <3>1, <3>2 DEF InLine
      <3>4. Runs(p, writer[p].session)
        BY <3>1, <3>3, TailOf, TailType DEF Runs
      <3> QED BY <2>4, <3>1, <3>4
    <2> QED BY <1>6, <2>2, <2>3, <2>5, <2>6 DEF WriterStep
  <1> QED BY <1>2, <1>4, <1>5, <1>6, Steps

-----------------------------------------------------------------------------
(* What is stopped stays stopped *)

\* A step that neither seals nor lets anybody in.
LEMMA Quiet ==
  ASSUME Shapes, Shapes', Shut, ShutAfter, Silent, Sealing, Current, Emptied,
         now <= now', scheduled' = scheduled, session' = session, closed' = closed,
         NoWriters /\ Wiped => NoWriters',
         \A p \in Writers : writer'[p] = writer[p] \/ writer'[p].step \notin {"queued", "writing"},
         \A v \in Wipers : wiper'[v].step = "sealing" =>
           wiper[v].step = "sealing" /\ wiper'[v].session = wiper[v].session,
         Clearing' => Clearing, Wiped' <=> Wiped, AtErase => AtErase' \/ ForGood,
         holds' => (holds /\ (AtMark' => AtMark)) \/ ~ (Clearing \/ Wiped)
  PROVE  Shut' /\ ShutAfter' /\ Silent' /\ Sealing' /\ Current' /\ Emptied'
  <1>1. ForGood => ForGood'
    <2>1. Ttl <= now => Ttl <= now'
      BY Bounds DEF Shapes
    <2> QED BY <2>1 DEF ForGood, Wiped
  <1>2. \A p \in Writers : writer'[p] = writer[p] => (refused(p) => refused(p)')
    <2>1. Ttl <= now => Ttl <= now'
      BY Bounds DEF Shapes
    <2> QED BY <2>1 DEF refused
  <1>3. Still => Still'
    BY <1>2 DEF Still
  <1>4. Shut'
    BY <1>1 DEF Shut
  <1>5. ShutAfter'
    BY <1>1 DEF ShutAfter
  <1>6. Silent'
    BY <1>3 DEF Silent
  <1>7. Sealing'
    BY <1>1, <1>3 DEF Sealing
  <1>8. Current'
    BY <1>2 DEF Current
  <1>9. AtMark' => Clearing'
    BY DEF AtMark, Clearing
  <1>10. Emptied'
    BY <1>9 DEF Emptied
  <1> QED BY <1>4, <1>5, <1>6, <1>7, <1>8, <1>10

\* One wiper moves, to or from a place that the invariant is not about.
LEMMA OneMoves ==
  ASSUME NEW w \in Wipers, \A v \in Wipers \ {w} : wiper'[v] = wiper[v]
  PROVE  /\ wiper'[w].step \notin {"clear", "mark"} \/ wiper[w].step \in {"clear", "mark"} =>
              (Clearing' => Clearing)
         /\ wiper[w].step # "erase" => (AtErase => AtErase')
         /\ wiper'[w].step # "mark" \/ wiper[w].step = "mark" => (AtMark' => AtMark)
         /\ wiper'[w].step # "sealing" =>
              \A v \in Wipers : wiper'[v].step = "sealing" =>
                wiper[v].step = "sealing" /\ wiper'[v].session = wiper[v].session
  <1>1. ASSUME wiper'[w].step \notin {"clear", "mark"} \/ wiper[w].step \in {"clear", "mark"}, Clearing'
        PROVE  Clearing
    <2>1. PICK v \in Wipers : wiper'[v].step \in {"clear", "mark"}
      BY <1>1 DEF Clearing
    <2> QED BY <1>1, <2>1 DEF Clearing
  <1>2. ASSUME wiper[w].step # "erase", AtErase
        PROVE  AtErase'
    <2>1. PICK v \in Wipers : wiper[v].step = "erase"
      BY <1>2 DEF AtErase
    <2>2. wiper'[v].step = "erase"
      BY <1>2, <2>1
    <2> QED BY <2>2 DEF AtErase
  <1>3. ASSUME wiper'[w].step # "mark" \/ wiper[w].step = "mark", AtMark'
        PROVE  AtMark
    <2>1. PICK v \in Wipers : wiper'[v].step = "mark"
      BY <1>3 DEF AtMark
    <2> QED BY <1>3, <2>1 DEF AtMark
  <1>4. ASSUME wiper'[w].step # "sealing"
        PROVE  \A v \in Wipers : wiper'[v].step = "sealing" =>
                 wiper[v].step = "sealing" /\ wiper'[v].session = wiper[v].session
    BY <1>4
  <1> QED BY <1>1, <1>2, <1>3, <1>4

\* The steps of nobody in particular.
LEMMA RestStopped ==
  ASSUME Shapes, Shapes', Ripe, Fresh, InLine, Stopped, ~ unsealed', Rest
  PROVE  Shut' /\ ShutAfter' /\ Silent' /\ Sealing' /\ Current' /\ Emptied'
  <1> USE DEF history, object
  <1>1. ~ unsealed
    BY DEF Rest, Tick, Schedule, ScheduleFails, Report, AdminFreeze, Freeze, DeferAlarm, Evict, vars
  <1>2. Shut /\ ShutAfter /\ Silent /\ Sealing /\ Current /\ Emptied
    BY <1>1 DEF Stopped
  <1>3. writer' = writer /\ wiper' = wiper /\ holds' = holds
    BY DEF Rest, Tick, Schedule, ScheduleFails, Report, AdminFreeze, Freeze, DeferAlarm, Evict, vars
  <1>4. /\ Clearing' <=> Clearing
        /\ AtErase' <=> AtErase
        /\ AtMark' <=> AtMark
        /\ NoWriters' <=> NoWriters
    BY <1>3 DEF Clearing, AtErase, AtMark, NoWriters
  <1>5. ASSUME now <= now', scheduled' = scheduled, session' = session, closed' = closed, Wiped' <=> Wiped
        PROVE  Shut' /\ ShutAfter' /\ Silent' /\ Sealing' /\ Current' /\ Emptied'
    BY <1>2, <1>3, <1>4, <1>5, Quiet
  <1>6. CASE Tick
    <2>1. now <= now'
      BY <1>6 DEF Tick, Shapes
    <2> QED BY <1>5, <1>6, <2>1 DEF Tick, Wiped
  <1>7. CASE ScheduleFails \/ DeferAlarm \/ UNCHANGED vars
    <2>1. now <= now'
      BY <1>7 DEF ScheduleFails, DeferAlarm, vars, Shapes
    <2> QED BY <1>5, <1>7, <2>1 DEF ScheduleFails, DeferAlarm, vars, Wiped
  <1>8. CASE Report \/ AdminFreeze
    <2>1. ~ Wiped /\ ~ Wiped' /\ now <= now'
      BY <1>8 DEF Report, AdminFreeze, Freeze, Frozen, Wiped, Shapes
    <2> QED BY <1>5, <1>8, <2>1 DEF Report, AdminFreeze, Freeze
  <1>9. CASE Schedule
    <2>1. verify # "answered" /\ UNCHANGED <<now, row, session, closed>>
      BY <1>9 DEF Schedule
    <2>2. NoWriters /\ \A w \in Wipers : wiper[w].step # "sealing"
      BY <2>1 DEF Fresh
    <2>3. Clearing => Ttl <= now
      <3> SUFFICES ASSUME NEW w \in Wipers, wiper[w].step \in {"clear", "mark"} PROVE Ttl <= now
        BY DEF Clearing
      <3>1. Decided(w) /\ wiper[w].step # "call"
        BY DEF Decided
      <3>2. wiper[w].kind # "release"
        BY <1>1, <2>1, <3>1 DEF Fresh
      <3> QED BY <3>1, <3>2 DEF Ripe
    <2>4. Shut'
      BY <1>4, <2>1, <2>3 DEF Shut, ForGood
    <2>5. ShutAfter'
      BY <1>4, <2>1, <2>2 DEF ShutAfter, ForGood, Wiped
    <2>6. \A p \in Writers : writer'[p].step = "away"
      BY <1>3, <2>2 DEF NoWriters, Away
    <2>7. Silent' /\ Current'
      BY <2>6 DEF Silent, Still, Current
    <2>8. Sealing'
      BY <1>3, <2>2 DEF Sealing
    <2>9. Emptied'
      BY <1>2, <1>3, <1>4, <2>1 DEF Emptied, Wiped
    <2> QED BY <2>4, <2>5, <2>7, <2>8, <2>9
  <1>10. CASE Evict
    <2>1. /\ session \in Sessions /\ tail[session] = << >>
          /\ \A w \in Wipers : wiper[w].step \notin {"sealing", "clear", "mark", "erase"}
          /\ UNCHANGED <<now, row, scheduled, closed>>
      BY <1>10 DEF Evict, Shapes
    <2>2. ~ Clearing /\ ~ AtErase
      BY <2>1 DEF Clearing, AtErase
    <2>3. ForGood' <=> ForGood
      BY <1>4, <2>1 DEF ForGood
    <2>4. \A p \in Writers : refused(p)' <=> refused(p)
      BY <1>3, <2>1 DEF refused
    <2>5. Still' <=> Still
      BY <1>3, <2>4 DEF Still
    <2>6. Shut' /\ ShutAfter' /\ Silent'
      BY <1>2, <1>4, <2>1, <2>2, <2>3, <2>5 DEF Shut, ShutAfter, Silent, Wiped
    <2>7. Sealing'
      BY <1>3, <2>1 DEF Sealing
    <2>8. Current'
      <3> SUFFICES ASSUME NEW p \in Writers, writer[p].step \in {"queued", "writing"}
                   PROVE  writer[p].step = "queued" /\ refused(p)
        BY <1>3, <2>4 DEF Current
      <3>1. writer[p].session # session
        <4> SUFFICES ASSUME writer[p].session = session PROVE FALSE
          OBVIOUS
        <4>1. Waits(p, session)
          BY DEF Waits
        <4>2. \E i \in 1..Len(tail[session]) : tail[session][i] = p
          BY <2>1, <4>1 DEF InLine
        <4> QED BY <2>1, <4>2
      <3> QED BY <1>2, <3>1 DEF Current
    <2>9. Emptied'
      BY <1>2, <1>3, <1>4, <2>1 DEF Emptied, Wiped
    <2> QED BY <2>6, <2>7, <2>8, <2>9
  <1> QED BY <1>6, <1>7, <1>8, <1>9, <1>10 DEF Rest

\* The steps of a request: whoever comes while a wipe goes on will be refused.
LEMMA WriterStopped ==
  ASSUME Shapes, Shapes', InLine, Stopped, ~ unsealed', NEW p \in Writers, Admit(p) \/ WriterStep(p)
  PROVE  Shut' /\ ShutAfter' /\ Silent' /\ Sealing' /\ Current' /\ Emptied'
  <1> USE DEF history, object
  <1>1. UNCHANGED <<now, row, scheduled, wiper>> /\ ~ unsealed
    BY DEF Admit, WriterStep, Arrive, dispatch, Land
  <1>2. Shut /\ ShutAfter /\ Silent /\ Sealing /\ Current /\ Emptied
    BY <1>1 DEF Stopped
  <1>3. /\ Clearing' <=> Clearing
        /\ AtErase' <=> AtErase
        /\ AtMark' <=> AtMark
        /\ Wiped' <=> Wiped
    BY <1>1 DEF Clearing, AtErase, AtMark, Wiped
  <1>4. now <= now' /\ Away.step = "away"
    BY <1>1 DEF Shapes, Away
  <1>5. \A v \in Wipers : wiper'[v].step = "sealing" =>
          wiper[v].step = "sealing" /\ wiper'[v].session = wiper[v].session
    BY <1>1
  <1>6. CASE Admit(p)
    <2>1. ~ Wiped /\ UNCHANGED <<session, closed, holds>>
      BY <1>6 DEF Admit, Wiped
    <2>2. writer'[p].step = "admitted" /\ \A q \in Writers \ {p} : writer'[q] = writer[q]
      BY <1>6, Mover DEF Admit
    <2>3. \A q \in Writers : writer'[q] = writer[q] \/ writer'[q].step \notin {"queued", "writing"}
      BY <2>2
    <2> QED BY <1>1, <1>2, <1>3, <1>4, <1>5, <2>1, <2>3, Quiet
  <1>7. ASSUME Leaves(p), UNCHANGED <<session, closed>>, holds' => holds \/ ~ (Clearing \/ Wiped)
        PROVE  Shut' /\ ShutAfter' /\ Silent' /\ Sealing' /\ Current' /\ Emptied'
    <2>1. writer'[p] = Away /\ \A q \in Writers \ {p} : writer'[q] = writer[q]
      BY <1>7, Mover DEF Leaves
    <2>2. \A q \in Writers : writer'[q] = writer[q] \/ writer'[q].step \notin {"queued", "writing"}
      BY <1>4, <2>1
    <2>3. NoWriters => NoWriters'
      BY <2>1 DEF NoWriters
    <2> QED BY <1>1, <1>2, <1>3, <1>4, <1>5, <1>7, <2>2, <2>3, Quiet
  <1>8. CASE Arrive(p)
    <2>1. PICK s \in Sessions :
            /\ session' = s
            /\ \/ session = s /\ closed' = closed
               \/ session = "null" /\ Unused(s) /\ closed' = closed \ {s}
            /\ Moves(p, [step |-> "queued", session |-> s, scheduled |-> scheduled])
      BY <1>8, Arrival
    <2>2. /\ writer'[p].step = "queued" /\ writer'[p].session = s /\ writer'[p].scheduled = scheduled
          /\ \A q \in Writers \ {p} : writer'[q] = writer[q]
      BY <2>1, Mover
    <2>3. writer[p].step = "admitted" /\ holds' = holds
      BY <1>8 DEF Arrive
    <2>4. ForGood => Ttl <= now \/ ~ scheduled
      BY <1>4, <2>3 DEF ForGood, NoWriters
    <2>5. ForGood => ForGood' /\ refused(p)'
      BY <1>1, <2>2, <2>4 DEF ForGood, refused
    <2>6. ASSUME NEW q \in Writers, q # p, writer[q].step = "queued", refused(q)
          PROVE  refused(q)'
      <3>1. CASE closed' = closed
        BY <1>1, <2>2, <2>6, <3>1 DEF refused
      <3>2. CASE Unused(s) /\ closed' = closed \ {s}
        <4>1. writer[q].session # s
          <5> SUFFICES ASSUME writer[q].session = s PROVE FALSE
            OBVIOUS
          <5>1. Waits(q, s)
            BY <2>6 DEF Waits
          <5>2. \E i \in 1..Len(tail[s]) : tail[s][i] = q
            BY <5>1 DEF InLine
          <5> QED BY <3>2, <5>2 DEF Unused
        <4> QED BY <1>1, <2>2, <2>6, <3>2, <4>1 DEF refused
      <3> QED BY <2>1, <3>1, <3>2
    <2>7. session \in closed => session \in closed' /\ session' = session /\ refused(p)'
      <3>1. session \in closed => session # "null"
        BY Bounds DEF Shapes
      <3> QED BY <2>1, <2>2, <3>1 DEF refused
    <2>8. Still /\ refused(p)' => Still'
      BY <2>2, <2>6 DEF Still
    <2>9. Shut' /\ ShutAfter'
      BY <1>2, <1>3, <2>5, <2>7 DEF Shut, ShutAfter
    <2>10. Silent'
      BY <1>2, <1>3, <2>5, <2>7, <2>8 DEF Silent, Shut, ShutAfter
    <2>11. Sealing'
      <3> SUFFICES ASSUME NEW w \in Wipers, wiper[w].step = "sealing"
                   PROVE  wiper[w].session = session' \/ (ForGood' /\ Still')
        BY <1>1 DEF Sealing
      <3>1. wiper[w].session = session \/ (ForGood /\ Still)
        BY <1>2 DEF Sealing
      <3>2. wiper[w].session \in Sessions
        BY Station
      <3>3. wiper[w].session = session => session' = session
        BY <2>1, <3>2, Bounds
      <3> QED BY <2>5, <2>8, <3>1, <3>3
    <2>12. Current'
      <3> SUFFICES ASSUME NEW q \in Writers, q # p, writer[q].step \in {"queued", "writing"}
                   PROVE  writer[q].session = session' \/ (writer[q].step = "queued" /\ refused(q)')
        BY <2>1, <2>2 DEF Current
      <3>1. writer[q].session = session \/ (writer[q].step = "queued" /\ refused(q))
        BY <1>2 DEF Current
      <3>2. writer[q].session \in Sessions
        BY Place
      <3>3. writer[q].session = session => session' = session
        BY <2>1, <3>2, Bounds
      <3> QED BY <2>6, <3>1, <3>3
    <2>13. Emptied'
      BY <1>2, <1>3, <2>3 DEF Emptied
    <2> QED BY <2>9, <2>10, <2>11, <2>12, <2>13
  <1>9. CASE dispatch(p)
    <2>0. UNCHANGED <<session, closed, holds>>
      BY <1>9 DEF dispatch
    <2>1. CASE Leaves(p)
      BY <1>7, <2>0, <2>1
    <2>2. CASE ~ refused(p) /\ Moves(p, [writer[p] EXCEPT !.step = "writing"])
      <3>1. writer[p].step = "queued"
        BY <1>9 DEF dispatch
      <3>2. /\ writer'[p].step = "writing" /\ writer'[p].session = writer[p].session
            /\ \A q \in Writers \ {p} : writer'[q] = writer[q]
        BY <2>2, <3>1, Mover, Place
      <3>3. ~ Still
        BY <2>2, <3>1 DEF Still
      <3>4. ~ Clearing /\ ~ Wiped
        BY <1>2, <3>3 DEF Silent
      <3>5. Shut' /\ ShutAfter' /\ Silent'
        BY <1>3, <3>4 DEF Shut, ShutAfter, Silent
      <3>6. Sealing'
        BY <1>1, <1>2, <2>0, <3>3 DEF Sealing
      <3>7. Current'
        <4>1. writer[p].session = session
          BY <1>2, <2>2, <3>1 DEF Current
        <4>2. \A q \in Writers \ {p} : refused(q)' <=> refused(q)
          BY <1>1, <2>0, <3>2 DEF refused
        <4> QED BY <1>2, <2>0, <3>2, <4>1, <4>2 DEF Current
      <3>8. Emptied'
        BY <1>2, <1>3, <2>0 DEF Emptied
      <3> QED BY <3>5, <3>6, <3>7, <3>8
    <2> QED BY <1>9, <2>1, <2>2 DEF dispatch
  <1>10. CASE Land(p)
    <2>1. ~ (Clearing \/ Wiped)
      BY <1>2, <1>10 DEF Land, Silent, Still
    <2> QED BY <1>7, <1>10, <2>1 DEF Land
  <1> QED BY <1>6, <1>8, <1>9, <1>10 DEF WriterStep

\* The steps of a wipe.
LEMMA WiperStopped ==
  ASSUME Shapes, Shapes', Ripe, InLine, MarkedFirst, Stopped, ~ unsealed',
         NEW w \in Wipers, WiperStep(w) \/ WipeFails(w)
  PROVE  Shut' /\ ShutAfter' /\ Silent' /\ Sealing' /\ Current' /\ Emptied'
  <1> USE DEF history, object
  <1>1. UNCHANGED <<now, writer>> /\ ~ unsealed /\ (NoWriters => NoWriters')
    <2>1. UNCHANGED <<now, writer>>
      BY DEF WiperStep, WipeFails, Decide, Call, Sealed, Clear, Mark, Erase
    <2>2. unsealed => unsealed'
      <3>1. CASE Call(w)
        BY <3>1 DEF Call
      <3>2. CASE WipeFails(w)
        BY <3>2 DEF WipeFails
      <3>3. CASE unsealed' = unsealed
        BY <3>3
      <3> QED BY <3>1, <3>2, <3>3 DEF WiperStep, Decide, Sealed, Clear, Mark, Erase
    <2> QED BY <2>1, <2>2 DEF NoWriters
  <1>2. Shut /\ ShutAfter /\ Silent /\ Sealing /\ Current /\ Emptied
    BY <1>1 DEF Stopped
  <1>3. \A v \in Wipers \ {w} : wiper'[v] = wiper[v]
    BY WiperGoes DEF Onward
  <1>4. now <= now' /\ Away.step = "away"
    BY <1>1 DEF Shapes, Away
  <1>5. \A q \in Writers : writer'[q] = writer[q] \/ writer'[q].step \notin {"queued", "writing"}
    BY <1>1
  <1>6. ASSUME scheduled' = scheduled, session' = session, closed' = closed,
               wiper'[w].step # "sealing", Wiped' <=> Wiped,
               wiper'[w].step \notin {"clear", "mark"} \/ wiper[w].step \in {"clear", "mark"},
               wiper[w].step # "erase" \/ ForGood,
               holds' => holds /\ (wiper'[w].step # "mark" \/ wiper[w].step = "mark")
        PROVE  Shut' /\ ShutAfter' /\ Silent' /\ Sealing' /\ Current' /\ Emptied'
    <2>1. /\ Clearing' => Clearing
          /\ AtErase => AtErase' \/ ForGood
          /\ holds' => holds /\ (AtMark' => AtMark)
          /\ \A v \in Wipers : wiper'[v].step = "sealing" =>
               wiper[v].step = "sealing" /\ wiper'[v].session = wiper[v].session
      BY <1>3, <1>6, OneMoves
    <2> QED BY <1>1, <1>2, <1>4, <1>5, <1>6, <2>1, Quiet
  \* Time or a missing schedule has ended the writes, and nobody is writing.
  <1>7. ASSUME ForGood', Still', wiper'[w].step # "mark", Wiped' <=> Wiped, holds' = holds
        PROVE  Shut' /\ ShutAfter' /\ Silent' /\ Sealing' /\ Current' /\ Emptied'
    <2>1. Shut' /\ ShutAfter' /\ Silent' /\ Sealing'
      BY <1>7 DEF Shut, ShutAfter, Silent, Sealing
    <2>2. Current'
      BY <1>7 DEF Current, Still
    <2>3. AtMark' => AtMark
      BY <1>3, <1>7, OneMoves
    <2> QED BY <1>2, <1>7, <2>1, <2>2, <2>3 DEF Emptied
  <1>8. CASE Decide(w)
    <2>1. wiper[w].step = "look" /\ wiper'[w].step \in {"away", "call"}
      BY <1>4, <1>8, DecideGoes
    <2> QED BY <1>6, <1>8, <2>1 DEF Decide, Wiped
  <1>9. CASE Call(w)
    <2>1. /\ wiper[w].step = "call" /\ UNCHANGED <<row, holds, scheduled, session>>
          /\ ~ (wiper[w].kind = "release" /\ session = "null")
      BY <1>9 DEF Call
    <2>2. CASE session = "null" /\ wiper'[w].step = "clear" /\ UNCHANGED closed
      <3>1. Ttl <= now
        BY <2>1, <2>2 DEF Ripe, Decided
      <3>2. \A p \in Writers : writer[p].step # "writing"
        BY <1>2, <2>2, Place, Bounds DEF Current
      <3>3. ForGood' /\ Still'
        BY <1>1, <3>1, <3>2 DEF ForGood, Still, refused
      <3> QED BY <1>7, <2>1, <2>2, <3>3 DEF Wiped
    <2>3. CASE wiper'[w].step = "sealing" /\ wiper'[w].session = session /\ UNCHANGED closed
      <3>1. /\ Clearing' => Clearing
            /\ AtErase => AtErase'
            /\ AtMark' => AtMark
        BY <1>3, <2>1, <2>3, OneMoves
      <3>2. ForGood => ForGood'
        BY <1>1, <2>1 DEF ForGood
      <3>3. \A p \in Writers : refused(p)' <=> refused(p)
        BY <1>1, <2>3 DEF refused
      <3>4. Still => Still'
        BY <1>1, <3>3 DEF Still
      <3>5. Shut' /\ ShutAfter' /\ Silent'
        BY <1>2, <2>1, <2>3, <3>1, <3>2, <3>4 DEF Shut, ShutAfter, Silent, Wiped
      <3>6. Sealing'
        BY <1>2, <1>3, <2>1, <2>3, <3>2, <3>4 DEF Sealing
      <3>7. Current'
        BY <1>1, <1>2, <2>1, <3>3 DEF Current
      <3>8. Emptied'
        BY <1>2, <2>1, <3>1 DEF Emptied, Wiped
      <3> QED BY <3>5, <3>6, <3>7, <3>8
    <2> QED BY <1>9, <2>2, <2>3, CallGoes
  <1>10. CASE Sealed(w)
    <2> DEFINE s == wiper[w].session
    <2>1. /\ wiper[w].step = "sealing" /\ s \in Sessions /\ Runs(w, s)
          /\ closed' = closed \cup {s} /\ wiper'[w].step = "clear"
          /\ UNCHANGED <<row, holds, scheduled, session>>
      BY <1>10, Station, SealedGoes DEF Sealed
    <2>2. \A q \in Writers : refused(q) => refused(q)'
      BY <1>1, <2>1 DEF refused
    <2>3. Still => Still'
      BY <1>1, <2>2 DEF Still
    <2>4. ForGood => ForGood'
      BY <1>1, <2>1 DEF ForGood
    <2>5. Still' /\ (ForGood \/ s = session)
      <3>1. s = session \/ (ForGood /\ Still)
        BY <1>2, <2>1 DEF Sealing
      <3>2. ASSUME s = session, NEW q \in Writers, writer[q].step = "writing"
            PROVE  FALSE
        <4>1. writer[q].session = s
          BY <1>2, <3>2 DEF Current
        <4>2. tail[s][1] = q
          BY <2>1, <3>2, <4>1 DEF InLine, Waits
        <4>3. tail[s] # << >> /\ Head(tail[s]) = w
          BY <2>1 DEF Runs
        <4>4. Head(tail[s]) = tail[s][1]
          BY <2>1, <4>3, TailOf, TailType
        <4> QED BY <4>2, <4>3, <4>4, Bounds
      <3>3. ASSUME s = session, NEW q \in Writers, writer[q].step = "queued"
            PROVE  refused(q)'
        <4>1. writer[q].session = s \/ refused(q)
          BY <1>2, <3>3 DEF Current
        <4> QED BY <1>1, <2>1, <2>2, <4>1 DEF refused
      <3>4. s = session => Still'
        BY <1>1, <3>2, <3>3 DEF Still
      <3> QED BY <2>3, <3>1, <3>4
    <2> HIDE DEF s
    <2>6. /\ AtErase => AtErase'
          /\ AtMark' => AtMark
      BY <1>3, <2>1, OneMoves
    <2>7. Shut' /\ ShutAfter' /\ Silent'
      BY <1>2, <2>1, <2>4, <2>5, <2>6 DEF Shut, ShutAfter, Silent, Wiped
    <2>8. Sealing'
      BY <1>2, <1>3, <2>1, <2>4, <2>5 DEF Sealing
    <2>9. Current'
      BY <1>1, <1>2, <2>1, <2>2 DEF Current
    <2>10. Emptied'
      BY <1>2, <2>1, <2>6 DEF Emptied, Wiped
    <2> QED BY <2>7, <2>8, <2>9, <2>10
  <1>11. CASE Clear(w)
    <2>1. holds' = FALSE /\ UNCHANGED <<row, scheduled, session, closed>>
      BY <1>11 DEF Clear
    <2> QED BY <1>6, <1>11, <2>1, ClearGoes DEF Wiped
  <1>12. CASE Mark(w)
    <2>0. UNCHANGED <<holds, scheduled, session, closed>> /\ Wiped'
      BY <1>12, MarkGoes DEF Mark, Wiped
    <2>1. CASE wiper[w].step = "mark again" /\ wiper'[w] = Away
      <3>1. Wiped
        BY <2>1 DEF MarkedFirst
      <3> QED BY <1>4, <1>6, <2>0, <2>1, <3>1
    <2>2. CASE wiper[w].step = "mark" /\ wiper'[w].step = "erase"
      <3>1. Clearing /\ AtErase' /\ AtMark
        BY <2>2 DEF Clearing, AtErase, AtMark
      <3>2. ForGood => ForGood'
        BY <1>1, <2>0 DEF ForGood, Wiped
      <3>3. \A p \in Writers : refused(p)' <=> refused(p)
        BY <1>1, <2>0 DEF refused
      <3>4. Still => Still'
        BY <1>1, <3>3 DEF Still
      <3>5. Shut' /\ ShutAfter' /\ Silent'
        BY <1>2, <2>0, <3>1, <3>2, <3>4 DEF Shut, ShutAfter, Silent
      <3>6. Sealing'
        BY <1>2, <1>3, <2>0, <2>2, <3>2, <3>4 DEF Sealing
      <3>7. Current'
        BY <1>1, <1>2, <2>0, <3>3 DEF Current
      <3>8. Emptied'
        BY <1>2, <2>0, <3>1 DEF Emptied
      <3> QED BY <3>5, <3>6, <3>7, <3>8
    <2> QED BY <1>12, <2>1, <2>2, MarkGoes
  <1>13. CASE Erase(w)
    <2>1. /\ wiper[w].step = "erase" /\ wiper'[w].step \in {"away", "clear again"}
          /\ scheduled' = FALSE /\ UNCHANGED <<row, holds, closed>>
      BY <1>4, <1>13, EraseGoes DEF Erase
    <2>2. Still
      BY <1>2, <2>1 DEF MarkedFirst, Silent
    <2>3. \A p \in Writers : refused(p)' <=> refused(p)
      BY <1>1, <2>1 DEF refused
    <2>4. ForGood' /\ Still'
      BY <1>1, <2>1, <2>2, <2>3 DEF ForGood, Still
    <2> QED BY <1>7, <2>1, <2>4 DEF Wiped
  <1>14. CASE WipeFails(w)
    <2>1. /\ wiper'[w] = Away /\ Decided(w)
          /\ UNCHANGED <<row, holds, scheduled, session, closed>>
          /\ ~ (wiper[w].kind = "release" /\ wiper[w].step = "erase")
      BY <1>14, Goer DEF WipeFails, Decided
    <2>2. wiper[w].step = "erase" => ForGood
      BY <2>1 DEF Ripe, ForGood
    <2> QED BY <1>4, <1>6, <2>1, <2>2 DEF Wiped
  <1> QED BY <1>8, <1>9, <1>10, <1>11, <1>12, <1>13, <1>14 DEF WiperStep

LEMMA StoppedNext ==
  Shapes /\ Ripe /\ Fresh /\ InLine /\ MarkedFirst /\ Stopped /\ [Next]_vars => Stopped'
  <1> SUFFICES ASSUME Shapes, Ripe, Fresh, InLine, MarkedFirst, Stopped, [Next]_vars, ~ unsealed'
               PROVE  Shut' /\ ShutAfter' /\ Silent' /\ Sealing' /\ Current' /\ Emptied'
    BY DEF Stopped
  <1>1. Shapes'
    BY ShapesNext
  <1>2. ASSUME NEW w \in Wipers, Starts(w)
        PROVE  Shut' /\ ShutAfter' /\ Silent' /\ Sealing' /\ Current' /\ Emptied'
    <2>1. PICK kind \in Kinds :
            /\ wiper[w] = Away
            /\ wiper'[w] = [step |-> "look", kind |-> kind, row |-> row, at |-> now]
            /\ \A v \in Wipers \ {w} : wiper'[v] = wiper[v]
            /\ UNCHANGED <<now, row, holds, scheduled, session, closed, writer, unsealed>>
      BY <1>2, StartLook DEF history
    <2>2. wiper[w].step = "away" /\ wiper'[w].step = "look"
      BY <2>1 DEF Away
    <2>3. /\ Clearing' => Clearing
          /\ AtErase => AtErase'
          /\ AtMark' => AtMark
          /\ \A v \in Wipers : wiper'[v].step = "sealing" =>
               wiper[v].step = "sealing" /\ wiper'[v].session = wiper[v].session
      BY <2>1, <2>2, OneMoves
    <2>4. /\ Shut /\ ShutAfter /\ Silent /\ Sealing /\ Current /\ Emptied
          /\ now <= now' /\ (Wiped' <=> Wiped) /\ (NoWriters => NoWriters')
          /\ \A q \in Writers : writer'[q] = writer[q]
      BY <2>1 DEF Stopped, Shapes, Wiped, NoWriters
    <2> QED BY <1>1, <2>1, <2>3, <2>4, Quiet
  <1> QED BY <1>1, <1>2, Steps, RestStopped, WriterStopped, WiperStopped

-----------------------------------------------------------------------------
(* The invariant *)

LEMMA IInvInit == Init => IInv
  <1> SUFFICES ASSUME Init PROVE IInv
    OBVIOUS
  <1> USE Bounds DEF Init
  <1>1. Away.step = "away" /\ Away \in Places /\ Away \in Stations
    BY DEF Away, Places, Stations
  <1>2. /\ \A p \in Writers : writer[p] = Away
        /\ \A w \in Wipers : wiper[w] = Away
        /\ \A s \in Sessions : tail[s] = << >>
    OBVIOUS
  <1>3. Shapes
    <2>1. row \in Rows
      BY DEF Rows, Statuses
    <2>2. writer \in [Writers -> Places] /\ wiper \in [Wipers -> Stations]
      BY <1>1
    <2>3. tail \in [Sessions -> Seq(Writers \cup Wipers)]
      OBVIOUS
    <2>4. now \in 0..MaxTime /\ faults \in 0..MaxFaults
      OBVIOUS
    <2>5. session \in Sessions \cup {"null"} /\ closed \subseteq Sessions
      OBVIOUS
    <2>6. holds \in BOOLEAN /\ scheduled \in BOOLEAN /\ released \in BOOLEAN /\ unsealed \in BOOLEAN
      OBVIOUS
    <2>7. verify \in {"running", "answered", "failed"}
      OBVIOUS
    <2> QED BY <2>1, <2>2, <2>3, <2>4, <2>5, <2>6, <2>7 DEF Shapes
  <1>4. Rings /\ AlarmCovers
    BY <1>1, <1>2 DEF Rings, AlarmCovers
  <1>5. Ripe /\ MarkedFirst
    BY <1>1, <1>2 DEF Ripe, MarkedFirst, Decided
  <1>6. Fresh
    BY <1>1, <1>2 DEF Fresh, NoWriters, Decided
  <1>7. InLine
    BY <1>1, <1>2 DEF InLine, Waits
  <1>8. Stopped
    BY <1>1, <1>2 DEF Stopped, Shut, ShutAfter, Silent, Sealing, Current, Emptied, Clearing, Wiped, AtMark
  <1> QED BY <1>3, <1>4, <1>5, <1>6, <1>7, <1>8 DEF IInv

LEMMA IInvNext == IInv /\ [Next]_vars => IInv'
  BY ShapesNext, RingsNext, AlarmCoversNext, RipeNext, FreshNext, InLineNext, MarkedFirstNext, StoppedNext
     DEF IInv

LEMMA IInvCorrect == Spec => []IInv
  BY IInvInit, IInvNext, PTL DEF Spec

\* The row, the object and the handlers hold what they can hold.
THEOREM TypeCorrect == Spec => []TypeOK
  <1>1. IInv => TypeOK
    <2> SUFFICES ASSUME IInv PROVE TypeOK
      OBVIOUS
    <2> USE DEF IInv
    <2>1. row \in [status : {"active", "frozen", "wiped"}, frozenAt : {Never} \cup 0..LastFreeze]
      BY DEF Shapes, Rows, Statuses
    <2>2. \A p \in Writers : writer[p].step \in {"away", "admitted", "queued", "writing"}
      BY Place
    <2>3. \A w \in Wipers : wiper[w].step \in {"away", "look", "sealing"} \cup Working
      BY Station
    <2> QED BY <2>1, <2>2, <2>3 DEF Shapes, Rings, TypeOK, Working
  <1> QED BY <1>1, IInvCorrect, PTL

\* A drive whose schedule call succeeded always has its alarm, or the handler
\* of its alarm is at work, until it is wiped.
THEOREM AlarmCoversCorrect == Spec => []AlarmCovers
  <1>1. IInv => AlarmCovers
    BY DEF IInv
  <1> QED BY <1>1, IInvCorrect, PTL

-----------------------------------------------------------------------------
(* The promise *)

LEMMA PromiseInit == Init => Promise!Init
  BY DEF Init, Promise!Init

\* Whoever works on a wipe had the right to.
LEMMA WorkDue ==
  ASSUME Shapes, Ripe, NEW w \in Wipers, Decided(w)
  PROVE  Promise!Due /\ (wiper[w].kind = "release" => released = TRUE)
  <1>1. now >= Ttl \/ released
    BY Bounds DEF Ripe, Shapes
  <1> QED BY <1>1 DEF Ripe, Promise!Due, Shapes

LEMMA PromiseWiper ==
  ASSUME IInv, NEW w \in Wipers, WiperStep(w) \/ WipeFails(w)
  PROVE  [Promise!Next]_(Promise!vars)
  <1> USE DEF history, object
  <1>1. Shapes /\ Ripe /\ MarkedFirst /\ Stopped /\ released \in BOOLEAN /\ unsealed \in BOOLEAN
    BY DEF IInv, Shapes
  \* A step that gives the drive up, or leaves it to its writers.
  <1>2. ASSUME UNCHANGED <<now, row, holds>>, released' = TRUE, unsealed' = unsealed \/ unsealed' = released
        PROVE  Promise!Next
    BY <1>2 DEF Promise!Next, Promise!Release
  <1>3. ASSUME UNCHANGED <<now, row, holds, released, unsealed>>
        PROVE  UNCHANGED Promise!vars
    BY <1>3 DEF Promise!vars
  <1>4. CASE Decide(w)
    <2>1. UNCHANGED <<now, row, holds, unsealed>> /\ (released' = TRUE \/ released' = released)
      BY <1>1, <1>4 DEF Decide
    <2> QED BY <1>2, <1>3, <2>1
  <1>5. ASSUME UNCHANGED <<now, row, holds, released>>, Decided(w), NEW fact \in BOOLEAN,
               unsealed' = (unsealed \/ (wiper[w].kind = "release" /\ fact))
        PROVE  [Promise!Next]_(Promise!vars)
    <2>1. CASE unsealed' = unsealed
      BY <1>3, <1>5, <2>1
    <2>2. CASE wiper[w].kind = "release" /\ unsealed' = TRUE
      <3>1. released = TRUE
        BY <1>1, <1>5, <2>2, WorkDue
      <3> QED BY <1>2, <1>5, <2>2, <3>1
    <2> QED BY <1>1, <1>5, <2>1, <2>2
  <1>6. CASE Call(w)
    BY <1>5, <1>6 DEF Call, Decided
  <1>7. CASE WipeFails(w)
    BY <1>5, <1>7 DEF WipeFails, Decided
  <1>8. CASE Sealed(w)
    BY <1>3, <1>8 DEF Sealed
  <1>9. CASE Erase(w)
    BY <1>3, <1>9 DEF Erase
  <1>10. CASE Clear(w)
    <2>1. Decided(w) /\ holds' = FALSE /\ UNCHANGED <<now, row, released, unsealed>>
      BY <1>10 DEF Clear, Decided
    <2> QED BY <1>1, <2>1, WorkDue DEF Promise!Next, Promise!Clear
  <1>11. CASE Mark(w)
    <2>1. /\ wiper[w].step \in {"mark", "mark again"} /\ UNCHANGED <<now, holds, released, unsealed>>
          /\ row'.status = "wiped" /\ row'.frozenAt = row.frozenAt
      BY <1>1, <1>11, MarkGoes DEF Mark
    <2>2. Decided(w)
      BY <2>1 DEF Decided
    <2>3. ~ holds \/ unsealed
      BY <1>1, <2>1 DEF Stopped, Emptied, AtMark, MarkedFirst
    <2> QED BY <1>1, <2>1, <2>2, <2>3, WorkDue DEF Promise!Next, Promise!Retire
  <1> QED BY <1>4, <1>6, <1>7, <1>8, <1>9, <1>10, <1>11 DEF WiperStep

LEMMA PromiseNext ==
  ASSUME IInv, [Next]_vars
  PROVE  [Promise!Next]_(Promise!vars)
  <1> USE DEF history, object
  <1>1. Shapes /\ Stopped
    BY DEF IInv
  <1>2. CASE Tick
    BY <1>2 DEF Tick, Promise!Next, Promise!Tick
  <1>3. CASE Report \/ AdminFreeze
    <2>1. row.status # "wiped" /\ row' = Frozen /\ UNCHANGED <<now, released, unsealed, holds>>
      BY <1>3 DEF Report, AdminFreeze, Freeze
    <2>2. row'.status = "frozen" /\ row'.frozenAt = IF row.frozenAt = Never THEN now ELSE row.frozenAt
      BY <2>1 DEF Frozen
    <2> QED BY <2>1, <2>2 DEF Promise!Next, Promise!Freeze
  <1>4. CASE Schedule \/ ScheduleFails \/ DeferAlarm \/ Evict \/ UNCHANGED vars
    BY <1>4 DEF Schedule, ScheduleFails, DeferAlarm, Evict, vars, Promise!vars
  <1>5. ASSUME NEW p \in Writers, Admit(p) \/ WriterStep(p)
        PROVE  [Promise!Next]_(Promise!vars)
    <2>1. CASE Admit(p) \/ Arrive(p) \/ dispatch(p)
      BY <2>1 DEF Admit, Arrive, dispatch, Promise!vars
    <2>2. CASE Land(p)
      <3>1. writer[p].step = "writing" /\ holds' \in BOOLEAN /\ UNCHANGED <<now, row, released, unsealed>>
        BY <2>2 DEF Land
      <3>2. ~ Wiped \/ unsealed
        BY <1>1, <3>1 DEF Stopped, Silent, Still
      <3> QED BY <3>1, <3>2 DEF Promise!Next, Promise!Write, Wiped
    <2> QED BY <1>5, <2>1, <2>2 DEF WriterStep
  <1>6. ASSUME NEW w \in Wipers, Starts(w)
        PROVE  [Promise!Next]_(Promise!vars)
    <2>1. UNCHANGED <<now, row, holds, history>>
      BY <1>1, <1>6, StartLook
    <2> QED BY <2>1 DEF Promise!vars
  <1> QED BY <1>2, <1>3, <1>4, <1>5, <1>6, Steps, PromiseWiper DEF Rest

\* However alarm, cron, requests, freezes and writes interleave, and wherever a
\* wipe fails, the drive keeps DrivePromise: wiped only after its hour or a
\* release, emptied before, and never written to again unless a release left
\* the object able to.
THEOREM KeepsPromiseCorrect == Spec => ImplementsPromise
  BY IInvCorrect, PromiseInit, PromiseNext, PTL DEF Spec, ImplementsPromise, Promise!Spec

=================================================================================

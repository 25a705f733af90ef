------------------------------ MODULE PairRoom ------------------------------
(***************************************************************************)
(* pairlane: the Durable Object that introduces two browsers.  It holds    *)
(* the room in storage and a copy in memory, one alarm, and hibernating    *)
(* WebSockets whose attachments are the seats.                             *)
(*                                                                         *)
(* A handler awaits storage and blockConcurrencyWhile only, and neither    *)
(* lets another event in; after note() another event may come before the   *)
(* handler's announce().  Socket messages arrive in order, so what a page  *)
(* shows is settled when the object sends it.  A put that fails inside     *)
(* blockConcurrencyWhile ends the object and every socket of it.           *)
(***************************************************************************)
EXTENDS Integers, FiniteSets

CONSTANTS
  Peers,       \* browser ids (cid)
  Creators,    \* bound: those that may open the room, which treats all alike
  Sockets,     \* the sockets that may ever be accepted
  Ttl,         \* ROOM_TTL_MS
  MaxPeers,    \* MAX_PEERS
  TapeLimit,   \* TAPE_LIMIT
  TapeBatch,   \* TAPE_BATCH
  Second,      \* ticks to a second
  LastCreate,  \* no room is created later; an id is random, so never used again
  MaxLines,    \* bound: the line number up to which signals are relayed
  MaxFaults,   \* bound on alarms, creations and puts that fail
  MaxTime,     \* bound on the clock
  None

ASSUME RoomConstants ==
  /\ {Ttl, TapeBatch, Second} \subseteq Nat \ {0}
  /\ {MaxPeers, TapeLimit, LastCreate, MaxLines, MaxFaults, MaxTime} \subseteq Nat
  /\ LastCreate < Ttl /\ Creators \subseteq Peers /\ IsFiniteSet(Sockets) /\ None \notin Nat \cup Peers

VARIABLES
  now,
  stored, cached,    \* the room in storage, and its copy in memory
  dirty, lastFlush,  \* lines not yet stored, and when the room was last stored
  alarmAt,           \* the alarm, or None
  ws,                \* each socket: its readyState and its attachment
  owed,              \* handlers that have noted a line and not announced yet
  told,              \* the last count of peers each page was sent
  seen,              \* the line numbers each page shows;
                     \* of a page whose socket is not live neither is kept
  forgotten,         \* create() failed, and CreateCap forgot the id
  faults

\* Kept for the properties only: whether a page dropped a line, whether lines were
\* lost with the copy in memory, and the signal that the last step delivered.
VARIABLES missed, lost, handed

room == <<stored, cached, dirty, lastFlush, alarmAt>>
history == <<missed, lost>>
vars == <<now, room, ws, owed, told, seen, forgotten, faults, history, handed>>

Roles == {"offerer", "answerer"}
Room == [expires : Nat, creator : Peers, seq : Nat]
Socket == [state : {"unused", "open", "closing", "closed"}, cid : Peers \cup {None},
           role : Roles \cup {None}, silent : BOOLEAN]
Count == [peers : Nat, ready : BOOLEAN]
Signal == [from : Sockets, to : Sockets, late : BOOLEAN]

ASSUME NoneIsNoRoom == None \notin Room \cup Count \cup Signal

Unused == [state |-> "unused", cid |-> None, role |-> None, silent |-> FALSE]
Gone == [Unused EXCEPT !.state = "closed"]

\* A lastFlushAt of zero lies long before any time.
LongAgo == -Second

Init ==
  /\ now = 0 /\ stored = None /\ cached = None /\ dirty = 0 /\ lastFlush = LongAgo
  /\ alarmAt = None /\ ws = [s \in Sockets |-> Unused] /\ owed = 0
  /\ told = [s \in Sockets |-> None] /\ seen = [s \in Sockets |-> {}]
  /\ forgotten = FALSE /\ faults = 0 /\ handed = None
  /\ missed = FALSE /\ lost = FALSE

-----------------------------------------------------------------------------
(* What the handlers share. *)

\* loadMeta()
Meta == IF cached # None THEN cached ELSE stored

isExpired == now >= Meta.expires
Running == Meta # None /\ ~isExpired

\* live() of given sockets.
Seated(sockets) == {s \in Sockets : sockets[s].state = "open" /\ ~sockets[s].silent}
Live == Seated(ws)

\* The socket s is closed at this end, or by the browser.
Closes(s) ==
  /\ ws' = [ws EXCEPT ![s].state = "closing"]
  /\ told' = [told EXCEPT ![s] = None] /\ seen' = [seen EXCEPT ![s] = {}]
  /\ handed' = None

\* The tape: the last lines.
Tape(seq) == {n \in 1..seq : n + TapeLimit > seq}

\* What announce() tells of given sockets.
Counted(sockets) ==
  [peers |-> Cardinality(Seated(sockets)),
   ready |-> Roles \subseteq {sockets[s].role : s \in Seated(sockets)}]

Announced(sockets) ==
  [s \in Sockets |-> IF s \in Seated(sockets) THEN Counted(sockets) ELSE None]

\* A page drops a line whose number it shows already (addTape).
Shows(n, rows, pages) ==
  /\ seen' = [s \in Sockets |-> IF s \in rows THEN pages[s] \cup {n} ELSE {}]
  /\ missed' = (missed \/ \E s \in rows : n \in pages[s])

\* Mutant: the batch is never counted.
FlushesWhenStale(mode) == mode = "now" \/ now - lastFlush >= Second

\* When note() writes the room to storage.
Flushes(mode) ==
  mode = "now" \/ dirty + 1 >= TapeBatch \/ now - lastFlush >= Second

\* Mutant: the number of a line is not kept.
sameEvent(m) == m

nextEvent(m) == [m EXCEPT !.seq = @ + 1]

\* Mutant: the count of lines goes on when the room is stored.
noteCountsOn(rows, pages, mode) ==
  LET noted == nextEvent(Meta)
  IN /\ cached' = noted
     /\ Shows(noted.seq, rows, pages)
     /\ IF Flushes(mode) THEN stored' = noted /\ lastFlush' = now
        ELSE UNCHANGED <<stored, lastFlush>>
     /\ dirty' = dirty + 1
     /\ UNCHANGED <<now, alarmAt, forgotten, faults, lost>>

\* note(): the line is numbered, sent to rows, and stored now or in a batch.
note(rows, pages, mode) ==
  LET noted == nextEvent(Meta)
  IN /\ cached' = noted
     /\ Shows(noted.seq, rows, pages)
     /\ IF Flushes(mode)
        THEN stored' = noted /\ dirty' = 0 /\ lastFlush' = now
        ELSE dirty' = dirty + 1 /\ UNCHANGED <<stored, lastFlush>>
     /\ UNCHANGED <<now, alarmAt, forgotten, faults, lost>>

-----------------------------------------------------------------------------
(* The handlers. *)

\* create() up to its put.
Makes(c) ==
  /\ ~Running
  /\ now <= LastCreate
  /\ LET made == [expires |-> now + Ttl, creator |-> c, seq |-> 0]
     IN stored' = made /\ cached' = made
  /\ dirty' = 0 /\ lastFlush' = now /\ handed' = None
  /\ UNCHANGED <<now, ws, owed, told, seen, history>>

create(c) ==
  /\ Makes(c)
  /\ alarmAt' = now + Ttl
  /\ UNCHANGED <<forgotten, faults>>

\* setAlarm() fails after the put: the worker forgets the id, nobody ever joins.
CreateStops(c) ==
  /\ Makes(c)
  /\ forgotten' = TRUE
  /\ faults < MaxFaults /\ faults' = faults + 1
  /\ UNCHANGED alarmAt

\* The live sockets of a browser.
Taken(c) == {s \in Live : ws[s].cid = c}

\* Mutant: a second browser takes any seat that is left.
admitAnyRole(c) ==
  LET role == IF c = Meta.creator THEN "offerer" ELSE "answerer"
  IN IF Taken(c) # {} THEN {ws[s].role : s \in Taken(c)}
     ELSE IF Cardinality(Live) >= MaxPeers THEN {} ELSE {role}

\* The role c is admitted to, none when the room is full for it.
admit(c) ==
  LET role == IF c = Meta.creator THEN "offerer" ELSE "answerer"
  IN IF Taken(c) # {} THEN {ws[s].role : s \in Taken(c)}
     ELSE IF Cardinality(Live) >= MaxPeers \/ \E s \in Live : ws[s].role = role
     THEN {} ELSE {role}

\* The sockets once s is accepted: the older one of the same browser falls silent.
Entered(s, c, role) == [t \in Sockets |->
  IF t = s THEN [state |-> "open", cid |-> c, role |-> role, silent |-> FALSE]
  ELSE IF t \in Taken(c) THEN [ws[t] EXCEPT !.state = "closing", !.silent = TRUE]
  ELSE ws[t]]

\* What the pages know then: the hello counts the new socket.
Welcomed(s, c, sockets) == [t \in Sockets |->
  IF t = s THEN [peers |-> Cardinality(Seated(sockets)), ready |-> FALSE]
  ELSE IF t \in Taken(c) THEN None ELSE told[t]]

\* A browser that connects finds the id, the room, and a seat.
Connects(c) ==
  /\ \E t \in Sockets : ws[t].state = "unused"
  /\ ~forgotten /\ Running
  /\ admit(c) # {}

fetch(c) ==
  LET s == CHOOSE t \in Sockets : ws[t].state = "unused"
  IN /\ Connects(c)
     /\ \E role \in admit(c) :
          /\ ws' = Entered(s, c, role)
          /\ told' = Welcomed(s, c, ws')
          /\ note(Seated(ws'), [seen EXCEPT ![s] = Tape(Meta.seq)], "now")
     /\ owed' = owed + 1 /\ handed' = None

\* The rest of fetch() and webSocketClose() after note().
announce ==
  /\ owed > 0
  /\ owed' = owed - 1
  /\ told' = Announced(ws) /\ handed' = None
  /\ UNCHANGED <<now, room, ws, seen, forgotten, faults, history>>

\* A frame may have arrived before its socket was closed.
Arrives(s) == ws[s].state \in {"open", "closing"} /\ ~ws[s].silent

\* The frame comes too late, is no signalling, or is over the budget.
FrameCloses(s) ==
  /\ Arrives(s)
  /\ Closes(s)
  /\ cached' = Meta
  /\ UNCHANGED <<now, stored, dirty, lastFlush, alarmAt, owed, forgotten, faults, history>>

\* Mutant: any other socket will do.
OthersButSelf(s) == Live \ {s}

\* The live sockets of other browsers.
Others(s) == {t \in Live : ws[t].cid # ws[s].cid}

\* A signal that fits its sender's role is for the other peer.
Relayed(s) ==
  /\ Arrives(s)
  /\ Running
  /\ Meta.seq < MaxLines
  /\ Others(s) # {}

\* The first that live() lists gets it, which may be any.
Relay(s) ==
  /\ Relayed(s)
  /\ \E t \in Others(s) :
       handed' = [from |-> s, to |-> t, late |-> s \notin Live]
  /\ note(Live, seen, "batch")
  /\ UNCHANGED <<ws, owed, told>>

\* Mutant: nobody leaves while somebody stays.
StillAnyone(s) == Live # {}

\* The browser is back on another socket.
Still(s) == Taken(ws[s].cid) # {}

\* A browser that left the room is noted.
Leaves(s) == ws[s].state = "closing" /\ ~ws[s].silent /\ Running /\ ~Still(s)

webSocketClose(s) ==
  /\ ws[s].state = "closing"
  /\ ws' = [ws EXCEPT ![s] = Gone] /\ handed' = None
  /\ \/ /\ ws[s].silent
        /\ UNCHANGED <<now, room, owed, seen, forgotten, faults, history>>
     \/ /\ ~ws[s].silent
        /\ ~Leaves(s)
        /\ cached' = Meta
        /\ UNCHANGED <<now, stored, dirty, lastFlush, alarmAt, owed, seen, forgotten, faults,
                      history>>
     \/ /\ Leaves(s)
        /\ note(Live, seen, "now")
        /\ owed' = owed + 1
  /\ UNCHANGED told

webSocketError(s) ==
  /\ ws[s].state \in {"open", "closing"}
  /\ ws' = [ws EXCEPT ![s] = Gone]
  /\ told' = Announced([ws EXCEPT ![s] = Gone])
  /\ seen' = [seen EXCEPT ![s] = {}] /\ handed' = None
  /\ UNCHANGED <<now, room, owed, forgotten, faults, history>>

\* No page is connected.
Blank ==
  /\ told' = [s \in Sockets |-> None] /\ seen' = [s \in Sockets |-> {}]

\* Mutant: the pages are told, their sockets stay.
EndedOpen == ws

Ended == [s \in Sockets |-> IF s \in Live THEN [ws[s] EXCEPT !.state = "closing"] ELSE ws[s]]

\* What alarm() does before it empties the storage.
Ends ==
  /\ alarmAt # None /\ now >= alarmAt
  /\ IF Meta # None
     THEN /\ ws' = Ended
          /\ missed' = (missed \/ \E s \in Live : nextEvent(Meta).seq \in seen[s])
          /\ Blank
     ELSE UNCHANGED <<ws, missed, told, seen>>
  /\ cached' = None /\ dirty' = 0 /\ handed' = None
  /\ UNCHANGED <<now, lastFlush, owed, forgotten, lost>>

alarm ==
  /\ Ends
  /\ stored' = None /\ alarmAt' = None
  /\ UNCHANGED faults

-----------------------------------------------------------------------------
(* The runtime and the browsers. *)

\* deleteAll() fails: the alarm comes again.
AlarmFails ==
  /\ Ends
  /\ faults < MaxFaults /\ faults' = faults + 1
  /\ UNCHANGED <<stored, alarmAt>>

\* note() cannot store the room: the runtime ends the object, with its sockets
\* and what it had in memory; the next event finds a new one.
PutFails ==
  /\ \/ \E c \in Peers : Connects(c)
     \/ \E s \in Sockets : Leaves(s) \/ (Relayed(s) /\ Flushes("batch"))
  /\ faults < MaxFaults /\ faults' = faults + 1
  /\ cached' = None /\ dirty' = 0 /\ lastFlush' = LongAgo /\ owed' = 0 /\ handed' = None
  /\ ws' = [s \in Sockets |-> IF ws[s] = Unused THEN Unused ELSE Gone]
  /\ Blank
  /\ UNCHANGED <<now, stored, alarmAt, forgotten, history>>

\* An object without events leaves memory; its sockets stay.
Hibernate ==
  /\ owed = 0 /\ cached # None
  /\ cached' = None /\ dirty' = 0 /\ lastFlush' = LongAgo
  /\ lost' = (lost \/ cached # stored) /\ handed' = None
  /\ UNCHANGED <<now, stored, alarmAt, ws, owed, told, seen, forgotten, faults, missed>>

\* The browser closes; the event comes later.
HangUp(s) ==
  /\ ws[s].state = "open"
  /\ Closes(s)
  /\ UNCHANGED <<now, room, owed, forgotten, faults, history>>

Tick ==
  /\ now < MaxTime
  /\ now' = now + 1 /\ handed' = None
  /\ UNCHANGED <<room, ws, owed, told, seen, forgotten, faults, history>>

-----------------------------------------------------------------------------

Next ==
  \/ \E c \in Creators : create(c) \/ CreateStops(c)
  \/ \E c \in Peers : fetch(c)
  \/ \E s \in Sockets :
       FrameCloses(s) \/ Relay(s) \/ webSocketClose(s) \/ webSocketError(s) \/ HangUp(s)
  \/ announce \/ alarm \/ AlarmFails \/ PutFails \/ Hibernate \/ Tick

Spec == Init /\ [][Next]_vars

\* Handlers come to their end, a due alarm fires until it succeeds, a socket
\* that is being closed reports it, and time passes; no browser has to act.
FairSpec ==
  /\ Spec
  /\ WF_vars(Tick) /\ WF_vars(announce) /\ WF_vars(alarm \/ AlarmFails)
  /\ \A s \in Sockets : WF_vars(webSocketClose(s))

-----------------------------------------------------------------------------
(* What the room promises. *)

\* The type of the state.
TypeOK ==
  /\ now \in Nat /\ owed \in Nat /\ dirty \in 0..(TapeBatch - 1) /\ faults \in Nat
  /\ stored \in Room \cup {None} /\ cached \in Room \cup {None}
  /\ lastFlush \in Int /\ alarmAt \in Nat \cup {None}
  /\ ws \in [Sockets -> Socket]
  /\ told \in [Sockets -> Count \cup {None}]
  /\ seen \in [Sockets -> SUBSET Nat]
  /\ forgotten \in BOOLEAN
  /\ missed \in BOOLEAN /\ lost \in BOOLEAN /\ handed \in Signal \cup {None}

\* However browsers join, reload, open a second tab, are closed for a bad frame
\* and come back while the old socket is still closing: no two live sockets
\* have the same browser or the same role, and the offerer is the creator.
Seats ==
  /\ \A s, t \in Live : s # t => ws[s].cid # ws[t].cid /\ ws[s].role # ws[t].role
  /\ Running => \A s \in Live : (ws[s].role = "offerer") = (ws[s].cid = Meta.creator)

\* A signal is delivered to another browser than its sender's; only the creator's
\* are offers.  The sender in its seat and the receiver are the two that are live,
\* in different roles; a frame that arrives after its socket was closed reaches
\* whoever is there, and may go from the guest who left to the guest who came.
SignalsReachPartner ==
  handed # None =>
    LET sender == ws[handed.from]
        receiver == ws[handed.to]
    IN /\ handed.to \in Live /\ receiver.cid # sender.cid
       /\ (sender.role = "offerer") = (sender.cid = Meta.creator)
       /\ ~handed.late => Live = {handed.from, handed.to} /\ receiver.role # sender.role
       /\ receiver.role = sender.role => receiver.role = "answerer"

\* Once every closing socket has reported and every handler has announced, the
\* pages of a running room know how many peers it has and whether both are in.
CountSettles ==
  Running /\ owed = 0 /\ (\A s \in Sockets : ws[s].state # "closing") =>
    \A s \in Live : told[s] = Counted(ws)

\* Memory is less than a batch of lines ahead of storage ("Accepted tape lines
\* are written in batches", room.ts), so a hibernation loses fewer than that.
BatchBounded ==
  Running => stored # None /\ Meta.seq - stored.seq < TapeBatch

\* A page misses a line of the tape only after lines were lost from memory: their
\* numbers are given out again, and addTape drops a number it shows already.
PanelComplete == missed => lost

\* Every room ends, whoever stays connected: storage is emptied and every socket
\* is closed ("drops both sockets", README.md of pairlane).  A room whose creation
\* failed before its alarm was set stays stored; nobody knows its id.
RoomEnds ==
  <>[](/\ stored = None \/ forgotten
       /\ \A s \in Sockets : ws[s].state \in {"unused", "closed"})

=============================================================================

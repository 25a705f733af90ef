--------------------------- MODULE PairRoomProofs ---------------------------
(***************************************************************************)
(* Proofs about PairRoom: its invariants for any number of browsers and    *)
(* sockets, any batch, tape and lifetime.                                  *)
(***************************************************************************)
EXTENDS PairRoom, FiniteSetTheorems, TLAPS

-----------------------------------------------------------------------------
(* Type correctness. *)

\* RoomConstants, one constant at a time.
LEMMA Bounds ==
  /\ Ttl \in Nat /\ TapeBatch \in Nat /\ Second \in Nat /\ Ttl > 0 /\ TapeBatch > 0 /\ Second > 0
  /\ TapeLimit \in Nat /\ LastCreate \in Nat /\ LastCreate < Ttl
  /\ None \notin Nat /\ None \notin Peers /\ None \notin Room /\ None \notin Count
  /\ None \notin Signal /\ Creators \subseteq Peers
  <1>1. /\ Ttl \in Nat \ {0} /\ TapeBatch \in Nat \ {0} /\ Second \in Nat \ {0}
        /\ TapeLimit \in Nat /\ LastCreate \in Nat
    BY RoomConstants
  <1> QED BY <1>1, RoomConstants, NoneIsNoRoom

\* What announce() tells is a count.
LEMMA CountedType ==
  ASSUME NEW sockets
  PROVE  Counted(sockets) \in Count /\ Cardinality(Seated(sockets)) \in Nat
  <1>1. Seated(sockets) \subseteq Sockets
    BY DEF Seated
  <1>2. Cardinality(Seated(sockets)) \in Nat
    BY <1>1, RoomConstants, FS_Subset, FS_CardinalityType
  <1> QED BY <1>2 DEF Counted, Count

LEMMA AnnouncedType ==
  ASSUME NEW sockets
  PROVE  Announced(sockets) \in [Sockets -> Count \cup {None}]
  BY CountedType DEF Announced

\* The room that a handler works on.
LEMMA MetaType ==
  ASSUME TypeOK
  PROVE  Meta \in Room \cup {None} /\ (Meta # None => Meta \in Room)
  BY DEF TypeOK, Meta

\* A line is noted.
LEMMA NoteType ==
  ASSUME TypeOK, Running, NEW rows, NEW pages \in [Sockets -> SUBSET Nat], NEW mode,
         note(rows, pages, mode)
  PROVE  /\ now' \in Nat /\ dirty' \in 0..(TapeBatch - 1) /\ faults' \in Nat
         /\ stored' \in Room \cup {None} /\ cached' \in Room \cup {None}
         /\ lastFlush' \in Int /\ alarmAt' \in Nat \cup {None}
         /\ seen' \in [Sockets -> SUBSET Nat] /\ missed' \in BOOLEAN /\ lost' \in BOOLEAN
         /\ forgotten' \in BOOLEAN
  <1> DEFINE noted == nextEvent(Meta)
  <1>1. Meta \in Room
    BY MetaType DEF Running
  <1>2. noted \in Room /\ noted.seq \in Nat
    BY <1>1 DEF nextEvent, Room
  <1> HIDE DEF noted
  <1>3. cached' = noted /\ Shows(noted.seq, rows, pages)
        /\ UNCHANGED <<now, alarmAt, forgotten, faults, lost>>
    BY DEF note, noted
  <1>4. \/ stored' = noted /\ dirty' = 0 /\ lastFlush' = now
        \/ ~Flushes(mode) /\ dirty' = dirty + 1 /\ UNCHANGED <<stored, lastFlush>>
    BY DEF note, noted
  <1>5. dirty' \in 0..(TapeBatch - 1)
    BY <1>4, Bounds DEF Flushes, TypeOK
  <1>6. seen' \in [Sockets -> SUBSET Nat] /\ missed' \in BOOLEAN
    BY <1>2, <1>3 DEF Shows, TypeOK
  <1> QED BY <1>2, <1>3, <1>4, <1>5, <1>6 DEF TypeOK

\* A join, on the socket that is taken for it.
Joins(s, c, role) ==
  /\ ws[s].state = "unused" /\ Running
  /\ ws' = Entered(s, c, role)
  /\ told' = Welcomed(s, c, ws')
  /\ note(Seated(ws'), [seen EXCEPT ![s] = Tape(Meta.seq)], "now")
  /\ owed' = owed + 1 /\ handed' = None

LEMMA FetchJoins ==
  ASSUME NEW c, fetch(c)
  PROVE  \E s \in Sockets : \E role \in admit(c) : Joins(s, c, role)
  <1> DEFINE s == CHOOSE t \in Sockets : ws[t].state = "unused"
  <1>1. s \in Sockets /\ ws[s].state = "unused"
    BY DEF fetch, Connects
  <1>2. PICK role \in admit(c) : Joins(s, c, role)
    BY <1>1 DEF fetch, Connects, Joins
  <1> QED BY <1>1, <1>2

LEMMA AdmitType ==
  ASSUME TypeOK, NEW c, NEW role \in admit(c)
  PROVE  role \in Roles \cup {None}
  BY DEF admit, Taken, TypeOK, Live, Seated, Socket, Roles

LEMMA EnteredType ==
  ASSUME TypeOK, NEW s, NEW c \in Peers, NEW role \in Roles \cup {None}
  PROVE  Entered(s, c, role) \in [Sockets -> Socket]
  <1>1. ASSUME NEW t \in Sockets PROVE [ws[t] EXCEPT !.state = "closing", !.silent = TRUE] \in Socket
    BY DEF TypeOK, Socket
  <1>2. [state |-> "open", cid |-> c, role |-> role, silent |-> FALSE] \in Socket
    BY DEF Socket
  <1> QED BY <1>1, <1>2 DEF Entered, TypeOK

LEMMA WelcomedType ==
  ASSUME TypeOK, NEW s, NEW c, NEW sockets
  PROVE  Welcomed(s, c, sockets) \in [Sockets -> Count \cup {None}]
  <1>1. [peers |-> Cardinality(Seated(sockets)), ready |-> FALSE] \in Count
    BY CountedType DEF Count
  <1> QED BY <1>1 DEF Welcomed, TypeOK

\* The invariant TypeOK holds of the initial states and through every step.
LEMMA TypeInit == Init => TypeOK
  <1> SUFFICES ASSUME Init PROVE TypeOK
    OBVIOUS
  <1>1. Unused \in Socket /\ LongAgo \in Int
    BY Bounds DEF Unused, Socket, LongAgo
  <1>2. ws \in [Sockets -> Socket] /\ told \in [Sockets -> Count \cup {None}]
    BY <1>1 DEF Init
  <1>3. seen \in [Sockets -> SUBSET Nat]
    BY DEF Init
  <1>4. dirty \in 0..(TapeBatch - 1) /\ lastFlush \in Int
    BY <1>1, Bounds DEF Init
  <1> QED BY <1>2, <1>3, <1>4 DEF Init, TypeOK

LEMMA TypeNext == TypeOK /\ [Next]_vars => TypeOK'
  <1> SUFFICES ASSUME TypeOK, [Next]_vars PROVE TypeOK'
    OBVIOUS
  <1> USE DEF room, history
  <1>1. ASSUME NEW c \in Creators, create(c) \/ CreateStops(c) PROVE TypeOK'
    <2>1. [expires |-> now + Ttl, creator |-> c, seq |-> 0] \in Room
      BY Bounds DEF Room, TypeOK
    <2>2. /\ stored' \in Room /\ cached' \in Room /\ dirty' = 0 /\ lastFlush' = now /\ handed' = None
          /\ UNCHANGED <<now, ws, owed, told, seen, history>>
      BY <1>1, <2>1 DEF create, CreateStops, Makes
    <2>3. alarmAt' \in Nat \cup {None} /\ forgotten' \in BOOLEAN /\ faults' \in Nat
      <3>1. CASE create(c)
        BY <3>1, Bounds DEF create, TypeOK
      <3>2. CASE CreateStops(c)
        BY <3>2, Bounds DEF CreateStops, TypeOK
      <3> QED BY <1>1, <3>1, <3>2
    <2> QED BY <2>2, <2>3, Bounds DEF TypeOK
  <1>2. ASSUME NEW c \in Peers, fetch(c) PROVE TypeOK'
    <2>1. PICK s \in Sockets, role \in admit(c) : Joins(s, c, role)
      BY <1>2, FetchJoins
    <2>2. role \in Roles \cup {None}
      BY <2>1, AdmitType
    <2>3. ws' \in [Sockets -> Socket]
      BY <2>1, <2>2, EnteredType DEF Joins
    <2>4. told' \in [Sockets -> Count \cup {None}]
      BY <2>1, WelcomedType DEF Joins
    <2>5. [seen EXCEPT ![s] = Tape(Meta.seq)] \in [Sockets -> SUBSET Nat]
      BY DEF TypeOK, Tape
    <2> DEFINE pages == [seen EXCEPT ![s] = Tape(Meta.seq)]
    <2>6. Running /\ note(Seated(ws'), pages, "now") /\ owed' = owed + 1 /\ handed' = None
      BY <2>1 DEF Joins
    <2> HIDE DEF pages
    <2>7. pages \in [Sockets -> SUBSET Nat]
      BY <2>5 DEF pages
    <2> QED BY <2>3, <2>4, <2>6, <2>7, NoteType DEF TypeOK
  <1>3. ASSUME NEW s \in Sockets, FrameCloses(s) PROVE TypeOK'
    BY <1>3, MetaType DEF FrameCloses, Closes, TypeOK, Socket
  <1>4. ASSUME NEW s \in Sockets, Relay(s) PROVE TypeOK'
    <2>1. /\ Running /\ note(Live, seen, "batch") /\ UNCHANGED <<ws, owed, told>>
          /\ handed' \in Signal
      BY <1>4 DEF Relay, Relayed, Others, Live, Seated, Signal
    <2> QED BY <2>1, NoteType DEF TypeOK
  <1>5. ASSUME NEW s \in Sockets, webSocketClose(s) PROVE TypeOK'
    <2>1. ws' \in [Sockets -> Socket] /\ told' = told /\ handed' = None
      BY <1>5, Bounds DEF webSocketClose, TypeOK, Gone, Unused, Socket
    <2>2. CASE Running /\ note(Live, seen, "now") /\ owed' = owed + 1
      BY <2>1, <2>2, NoteType DEF TypeOK
    <2>3. CASE UNCHANGED <<now, room, owed, seen, forgotten, faults, history>>
      BY <2>1, <2>3 DEF TypeOK
    <2>4. CASE cached' = Meta
               /\ UNCHANGED <<now, stored, dirty, lastFlush, alarmAt, owed, seen, forgotten, faults,
                              history>>
      BY <2>1, <2>4, MetaType DEF TypeOK
    <2> QED BY <1>5, <2>2, <2>3, <2>4 DEF webSocketClose, Leaves
  <1>6. ASSUME NEW s \in Sockets, webSocketError(s) PROVE TypeOK'
    BY <1>6, AnnouncedType DEF webSocketError, TypeOK, Gone, Unused, Socket
  <1>7. ASSUME NEW s \in Sockets, HangUp(s) PROVE TypeOK'
    BY <1>7 DEF HangUp, Closes, TypeOK, Socket
  <1>8. ASSUME announce PROVE TypeOK'
    BY <1>8, AnnouncedType DEF announce, TypeOK
  <1>9. ASSUME Ends PROVE
          /\ ws' \in [Sockets -> Socket] /\ told' \in [Sockets -> Count \cup {None}]
          /\ seen' \in [Sockets -> SUBSET Nat] /\ missed' \in BOOLEAN
          /\ cached' = None /\ dirty' = 0 /\ handed' = None
          /\ UNCHANGED <<now, lastFlush, owed, forgotten, lost>>
    <2>1. Ended \in [Sockets -> Socket]
      BY DEF Ended, TypeOK, Socket
    <2> QED BY <1>9, <2>1 DEF Ends, Blank, TypeOK
  <1>10. ASSUME alarm PROVE TypeOK'
    BY <1>9, <1>10, Bounds DEF alarm, TypeOK
  <1>11. ASSUME AlarmFails PROVE TypeOK'
    BY <1>9, <1>11, Bounds DEF AlarmFails, TypeOK
  <1>12. ASSUME Hibernate PROVE TypeOK'
    BY <1>12, Bounds DEF Hibernate, TypeOK, LongAgo
  <1>13. ASSUME Tick PROVE TypeOK'
    BY <1>13 DEF Tick, TypeOK
  <1>14. ASSUME UNCHANGED vars PROVE TypeOK'
    BY <1>14 DEF vars, TypeOK
  <1>15. ASSUME PutFails PROVE TypeOK'
    <2>1. ws' \in [Sockets -> Socket]
      BY <1>15, Bounds DEF PutFails, Gone, Unused, Socket
    <2> QED BY <1>15, <2>1, Bounds DEF PutFails, Blank, TypeOK, LongAgo
  <1> QED
    BY <1>1, <1>2, <1>3, <1>4, <1>5, <1>6, <1>7, <1>8, <1>10, <1>11, <1>12, <1>13, <1>14, <1>15
    DEF Next

\* The type of the state, for any number of browsers and sockets.
THEOREM TypeCorrect == Spec => []TypeOK
  BY TypeInit, TypeNext, PTL DEF Spec

-----------------------------------------------------------------------------
(* The room in memory and in storage. *)

\* Memory and storage hold the same room; they differ in the lines of a batch.
RoomKept ==
  /\ stored = None => cached = None
  /\ cached = None => dirty = 0
  /\ cached # None =>
       /\ cached.expires = stored.expires /\ cached.creator = stored.creator
       /\ cached.seq = stored.seq + dirty

LEMMA MetaFacts ==
  ASSUME TypeOK, RoomKept
  PROVE  /\ Meta = None <=> stored = None
         /\ stored # None =>
              /\ Meta \in Room /\ stored \in Room
              /\ Meta.expires = stored.expires /\ Meta.creator = stored.creator
              /\ Meta.seq = stored.seq + dirty
  <1>1. stored # None => stored \in Room /\ stored.seq + 0 = stored.seq
    BY DEF TypeOK, Room
  <1>2. cached # None => cached \in Room
    BY DEF TypeOK
  <1> QED BY <1>1, <1>2 DEF RoomKept, Meta

\* A line changes the number of the room and nothing else about it.
LEMMA NoteKeeps ==
  ASSUME TypeOK, RoomKept, Running, NEW rows, NEW pages, NEW mode, note(rows, pages, mode)
  PROVE  /\ RoomKept' /\ stored # None /\ stored' # None
         /\ Meta' = nextEvent(Meta) /\ Meta'.seq = Meta.seq + 1
         /\ Meta'.creator = Meta.creator /\ Meta'.expires = Meta.expires
         /\ stored'.expires = stored.expires
         /\ UNCHANGED <<now, alarmAt, lost>>
  <1> DEFINE noted == nextEvent(Meta)
  <1>1. stored # None /\ Meta \in Room /\ stored \in Room
    BY MetaFacts DEF Running
  <1>2. /\ noted \in Room /\ noted.expires = Meta.expires /\ noted.creator = Meta.creator
        /\ noted.seq = Meta.seq + 1 /\ noted # None
    BY <1>1, Bounds DEF nextEvent, Room
  <1>3. /\ Meta.expires = stored.expires /\ Meta.creator = stored.creator
        /\ Meta.seq = stored.seq + dirty /\ dirty \in Nat /\ stored.seq \in Nat
    BY <1>1, MetaFacts, Bounds DEF TypeOK, Room
  <1>4. noted = nextEvent(Meta)
    OBVIOUS
  <1> HIDE DEF noted
  <1>5. cached' = noted /\ UNCHANGED <<now, alarmAt, lost>>
    BY <1>4 DEF note
  <1>6. Meta' = noted
    BY <1>2, <1>5 DEF Meta
  <1>7. CASE stored' = noted /\ dirty' = 0
    BY <1>1, <1>2, <1>3, <1>4, <1>5, <1>6, <1>7 DEF RoomKept
  <1>8. CASE stored' = stored /\ dirty' = dirty + 1
    BY <1>1, <1>2, <1>3, <1>4, <1>5, <1>6, <1>8 DEF RoomKept
  <1> QED BY <1>4, <1>7, <1>8 DEF note

\* The steps that note a line, and those that leave the room alone.
Notes == Running /\ \E rows, pages, mode : note(rows, pages, mode)

Rests == UNCHANGED <<stored, dirty>> /\ cached' \in {cached, Meta}

LEMMA RestsKeeps ==
  ASSUME TypeOK, RoomKept, Rests
  PROVE  RoomKept' /\ Meta' = Meta
  <1>1. CASE cached' = cached
    BY <1>1 DEF Rests, RoomKept, Meta
  <1>2. CASE cached' = Meta /\ cached = None
    <2>1. dirty = 0 /\ Meta = stored
      BY <1>2 DEF RoomKept, Meta
    <2>2. stored # None => stored.seq = stored.seq + 0
      BY DEF TypeOK, Room
    <2> QED BY <1>2, <2>1, <2>2 DEF Rests, RoomKept, Meta
  <1>3. CASE cached' = Meta /\ cached # None
    BY <1>3 DEF Rests, RoomKept, Meta
  <1> QED BY <1>1, <1>2, <1>3 DEF Rests

\* What each handler does to the room.
LEMMA Kinds ==
  /\ \A c \in Peers : fetch(c) => Notes
  /\ \A s \in Sockets :
       /\ Relay(s) => Notes
       /\ webSocketClose(s) => Notes \/ (Rests /\ UNCHANGED <<now, alarmAt, lost, owed, seen>>)
       /\ FrameCloses(s) \/ webSocketError(s) \/ HangUp(s) =>
            Rests /\ UNCHANGED <<now, alarmAt, lost, owed>>
  /\ announce => Rests /\ UNCHANGED <<now, alarmAt, lost, ws, seen>>
  <1> USE DEF Notes, Rests, room, history
  <1>1. ASSUME NEW c \in Peers, fetch(c) PROVE Notes
    BY <1>1, FetchJoins DEF Joins
  <1>2. ASSUME NEW s \in Sockets, Relay(s) PROVE Notes
    BY <1>2 DEF Relay, Relayed
  <1>3. ASSUME NEW s \in Sockets, webSocketClose(s)
        PROVE  Notes \/ (Rests /\ UNCHANGED <<now, alarmAt, lost, owed, seen>>)
    <2>1. note(Live, seen, "now") => \E rows, pages, mode : note(rows, pages, mode)
      OBVIOUS
    <2> QED BY <1>3, <2>1 DEF webSocketClose, Leaves
  <1>4. ASSUME NEW s \in Sockets, FrameCloses(s) \/ webSocketError(s) \/ HangUp(s)
        PROVE  Rests /\ UNCHANGED <<now, alarmAt, lost, owed>>
    BY <1>4 DEF FrameCloses, webSocketError, HangUp
  <1>5. announce => Rests /\ UNCHANGED <<now, alarmAt, lost, ws, seen>>
    BY DEF announce
  <1> QED BY <1>1, <1>2, <1>3, <1>4, <1>5

LEMMA KeptNext == TypeOK /\ RoomKept /\ [Next]_vars => RoomKept'
  <1> SUFFICES ASSUME TypeOK, RoomKept, [Next]_vars PROVE RoomKept'
    OBVIOUS
  <1> USE DEF room, history
  <1>1. ASSUME NEW c \in Creators, create(c) \/ CreateStops(c) PROVE RoomKept'
    <2> DEFINE made == [expires |-> now + Ttl, creator |-> c, seq |-> 0]
    <2>1. made \in Room /\ made.seq = made.seq + 0 /\ made # None
      BY Bounds DEF Room, TypeOK
    <2>2. stored' = made /\ cached' = made /\ dirty' = 0
      BY <1>1 DEF create, CreateStops, Makes
    <2> HIDE DEF made
    <2> QED BY <2>1, <2>2 DEF RoomKept
  <1>2. ASSUME Notes PROVE RoomKept'
    BY <1>2, NoteKeeps DEF Notes
  <1>3. ASSUME Rests PROVE RoomKept'
    BY <1>3, RestsKeeps
  <1>4. ASSUME alarm \/ AlarmFails \/ PutFails \/ Hibernate PROVE RoomKept'
    BY <1>4 DEF alarm, AlarmFails, PutFails, Hibernate, Ends, RoomKept
  <1>5. ASSUME Tick \/ UNCHANGED vars PROVE RoomKept'
    BY <1>5 DEF Tick, vars, RoomKept
  <1> QED BY <1>1, <1>2, <1>3, <1>4, <1>5, Kinds DEF Next

-----------------------------------------------------------------------------
(* No room is made a second time: none is over before a lifetime has passed. *)

NotYetOver ==
  /\ stored # None => stored.expires >= Ttl
  /\ alarmAt # None => alarmAt >= Ttl
  /\ now < Ttl /\ stored = None => \A s \in Sockets : ws[s] = Unused /\ seen[s] = {}

\* A put fails only while there is a room.
LEMMA PutFailsRuns ==
  ASSUME TypeOK, RoomKept, PutFails
  PROVE  Running /\ stored # None
  <1>1. Running
    BY DEF PutFails, Connects, Leaves, Relayed
  <1> QED BY <1>1, MetaFacts DEF Running

LEMMA OverNext == TypeOK /\ RoomKept /\ NotYetOver /\ [Next]_vars => NotYetOver'
  <1> SUFFICES ASSUME TypeOK, RoomKept, NotYetOver, [Next]_vars PROVE NotYetOver'
    OBVIOUS
  <1> USE DEF room, history
  <1>1. ASSUME NEW c \in Creators, create(c) \/ CreateStops(c) PROVE NotYetOver'
    <2>1. stored' # None /\ stored'.expires = now + Ttl /\ alarmAt' \in {alarmAt, now + Ttl}
      BY <1>1, Bounds DEF create, CreateStops, Makes, Room, TypeOK
    <2> QED BY <2>1, Bounds DEF NotYetOver, TypeOK
  <1>2. ASSUME Notes PROVE NotYetOver'
    BY <1>2, NoteKeeps DEF Notes, NotYetOver
  <1>3. ASSUME NEW s \in Sockets, ws[s].state # "unused",
               UNCHANGED <<now, alarmAt, stored>>
        PROVE  NotYetOver'
    BY <1>3 DEF NotYetOver, Unused
  <1>4. ASSUME NEW s \in Sockets,
               FrameCloses(s) \/ webSocketClose(s) \/ webSocketError(s) \/ HangUp(s)
        PROVE  NotYetOver'
    <2>1. ws[s].state # "unused"
      BY <1>4 DEF FrameCloses, webSocketClose, webSocketError, HangUp, Arrives, Leaves
    <2>2. Notes \/ UNCHANGED <<now, alarmAt, stored>>
      BY <1>4, Kinds DEF Rests
    <2> QED BY <1>2, <1>3, <2>1, <2>2
  <1>5. ASSUME announce PROVE NotYetOver'
    BY <1>5 DEF announce, NotYetOver
  <1>6. ASSUME alarm \/ AlarmFails PROVE NotYetOver'
    <2>1. now >= Ttl /\ now' = now
      BY <1>6, Bounds DEF alarm, AlarmFails, Ends, NotYetOver, TypeOK
    <2>2. (stored' = None /\ alarmAt' = None) \/ UNCHANGED <<stored, alarmAt>>
      BY <1>6 DEF alarm, AlarmFails
    <2> QED BY <2>1, <2>2, Bounds DEF NotYetOver, TypeOK
  <1>7. ASSUME Hibernate \/ UNCHANGED vars PROVE NotYetOver'
    BY <1>7 DEF Hibernate, vars, NotYetOver
  <1>8. ASSUME Tick PROVE NotYetOver'
    BY <1>8, Bounds DEF Tick, NotYetOver, TypeOK
  <1>9. ASSUME PutFails PROVE NotYetOver'
    BY <1>9, PutFailsRuns DEF PutFails, NotYetOver
  <1> QED BY <1>1, <1>2, <1>4, <1>5, <1>6, <1>7, <1>8, <1>9, Kinds DEF Next

-----------------------------------------------------------------------------
(* Who sits where. *)

\* An open socket has a seat and has not been replaced.
OpenSeated ==
  \A s \in Sockets : ws[s].state = "open" =>
    ~ws[s].silent /\ ws[s].role \in Roles /\ ws[s].cid \in Peers

Seating == TypeOK /\ RoomKept /\ NotYetOver /\ OpenSeated /\ Seats

\* The first creation finds no socket.
LEMMA CreatesFirst ==
  ASSUME TypeOK, RoomKept, NotYetOver, NEW c, create(c) \/ CreateStops(c)
  PROVE  \A s \in Sockets : ws[s] = Unused /\ seen[s] = {}
  <1>1. ~Running /\ now < Ttl
    BY Bounds DEF create, CreateStops, Makes, TypeOK
  <1>2. stored = None
    BY <1>1, MetaFacts, Bounds DEF Running, isExpired, NotYetOver, TypeOK, Room
  <1> QED BY <1>1, <1>2 DEF NotYetOver

\* What changes for sockets in every step that is no join.
Thins == \A s \in Sockets : ws'[s].state = "open" => ws'[s] = ws[s]

LEMMA OthersThin ==
  ASSUME TypeOK, [Next]_vars, \A c \in Peers : ~fetch(c)
  PROVE  Thins
  <1> USE DEF room, history
  <1>1. ASSUME NEW s \in Sockets, ws' = [ws EXCEPT ![s] = Gone] PROVE Thins
    BY <1>1 DEF TypeOK, Thins, Gone
  <1>2. ASSUME NEW s \in Sockets, Closes(s) PROVE Thins
    BY <1>2 DEF TypeOK, Thins, Closes, Socket
  <1>3. ASSUME NEW s \in Sockets,
               FrameCloses(s) \/ HangUp(s) \/ webSocketClose(s) \/ webSocketError(s)
        PROVE  Thins
    BY <1>1, <1>2, <1>3 DEF FrameCloses, HangUp, webSocketClose, webSocketError
  <1>4. ASSUME Ends PROVE Thins
    BY <1>4 DEF Ends, Ended, Thins, TypeOK, Socket
  <1>5. ASSUME ws' = ws PROVE Thins
    BY <1>5 DEF Thins
  <1>6. ASSUME NEW s \in Sockets, Relay(s) PROVE ws' = ws
    BY <1>6 DEF Relay
  <1>7. ASSUME NEW c \in Creators, create(c) \/ CreateStops(c) PROVE ws' = ws
    BY <1>7 DEF create, CreateStops, Makes
  <1>8. ASSUME announce \/ Hibernate \/ Tick \/ UNCHANGED vars PROVE ws' = ws
    BY <1>8 DEF announce, Hibernate, Tick, vars
  <1>9. ASSUME alarm \/ AlarmFails PROVE Thins
    BY <1>4, <1>9 DEF alarm, AlarmFails
  <1>10. ASSUME PutFails PROVE Thins
    BY <1>10 DEF PutFails, Thins, Unused, Gone
  <1> QED BY <1>3, <1>5, <1>6, <1>7, <1>8, <1>9, <1>10 DEF Next

\* What changes for the room in every step that does not create it.
LEMMA RunsOn ==
  ASSUME TypeOK, RoomKept, [Next]_vars, \A c \in Creators : ~create(c) /\ ~CreateStops(c), Running'
  PROVE  Running /\ Meta'.creator = Meta.creator
  <1> USE DEF room, history
  <1>1. CASE Notes
    BY <1>1, NoteKeeps DEF Notes
  <1>2. CASE Rests /\ now' = now
    BY <1>2, RestsKeeps DEF Running, isExpired
  <1>3. CASE alarm
    BY <1>3 DEF alarm, Ends, Running, Meta
  <1>4. CASE (AlarmFails \/ PutFails \/ Hibernate) /\ cached' = None /\ stored' = stored /\ now' = now
    <2>1. Meta' = stored
      BY <1>4 DEF Meta
    <2> QED BY <1>4, <2>1, MetaFacts DEF Running, isExpired
  <1>5. CASE Tick \/ UNCHANGED vars
    <2>1. Meta' = Meta /\ now' \in {now, now + 1}
      BY <1>5 DEF Tick, vars, Meta
    <2>2. Meta # None => Meta.expires \in Nat
      BY MetaType DEF Room
    <2> QED BY <2>1, <2>2 DEF Running, isExpired, TypeOK
  <1>6. ASSUME AlarmFails \/ PutFails \/ Hibernate
        PROVE  cached' = None /\ stored' = stored /\ now' = now
    BY <1>6 DEF AlarmFails, PutFails, Hibernate, Ends
  <1> QED BY <1>1, <1>2, <1>3, <1>4, <1>5, <1>6, Kinds DEF Next

\* After a join the others are as they were, but for the socket it replaces.
LEMMA JoinSeats ==
  ASSUME TypeOK, NEW s \in Sockets, NEW c \in Peers, NEW role, Joins(s, c, role)
  PROVE  /\ ws'[s] = [state |-> "open", cid |-> c, role |-> role, silent |-> FALSE]
         /\ \A t \in Sockets \ {s} : ws'[t].state = "open" => ws'[t] = ws[t] /\ t \notin Taken(c)
  <1>1. ws' = Entered(s, c, role)
    BY DEF Joins
  <1>2. ASSUME NEW t \in Sockets \ {s}, t \in Taken(c) PROVE ws'[t].state = "closing"
    BY <1>1, <1>2 DEF Entered, TypeOK, Socket
  <1>3. ASSUME NEW t \in Sockets \ {s}, t \notin Taken(c) PROVE ws'[t] = ws[t]
    BY <1>1, <1>3 DEF Entered
  <1> QED BY <1>1, <1>2, <1>3 DEF Entered

LEMMA AdmitSeats ==
  ASSUME Seating, Running, NEW c \in Peers, NEW role \in admit(c)
  PROVE  /\ role \in Roles
         /\ (role = "offerer") = (c = Meta.creator)
         /\ \A t \in Live \ Taken(c) : ws[t].role # role /\ ws[t].cid # c
  <1>1. CASE Taken(c) # {}
    <2>1. PICK u \in Taken(c) : role = ws[u].role
      BY <1>1 DEF admit
    <2>2. u \in Live /\ ws[u].cid = c
      BY <2>1 DEF Taken
    <2>3. role \in Roles
      BY <2>1, <2>2 DEF Seating, OpenSeated, Live, Seated
    <2>4. (role = "offerer") = (c = Meta.creator)
      BY <2>1, <2>2 DEF Seating, Seats
    <2>5. ASSUME NEW t \in Live \ Taken(c) PROVE ws[t].role # role /\ ws[t].cid # c
      BY <2>1, <2>2, <2>5 DEF Seating, Seats, Taken
    <2> QED BY <2>3, <2>4, <2>5
  <1>2. CASE Taken(c) = {}
    <2>1. role = (IF c = Meta.creator THEN "offerer" ELSE "answerer")
          /\ \A t \in Live : ws[t].role # role
      BY <1>2 DEF admit
    <2>2. \A t \in Live : ws[t].cid # c
      BY <1>2 DEF Taken
    <2> QED BY <2>1, <2>2 DEF Roles
  <1> QED BY <1>1, <1>2

LEMMA SeatingNext == Seating /\ [Next]_vars => Seating'
  <1> SUFFICES ASSUME Seating, [Next]_vars PROVE Seating'
    OBVIOUS
  <1> USE DEF room, history
  <1>1. TypeOK' /\ RoomKept' /\ NotYetOver'
    BY TypeNext, KeptNext, OverNext DEF Seating
  <1>2. ASSUME NEW c \in Peers, fetch(c) PROVE OpenSeated' /\ Seats'
    <2>1. PICK s \in Sockets, role \in admit(c) : Joins(s, c, role)
      BY <1>2, FetchJoins
    <2>2. Running /\ Meta'.creator = Meta.creator
      BY <2>1, NoteKeeps DEF Joins, Seating
    <2>3. /\ role \in Roles /\ (role = "offerer") = (c = Meta.creator)
          /\ \A t \in Live \ Taken(c) : ws[t].role # role /\ ws[t].cid # c
      BY <2>2, AdmitSeats
    <2>4. /\ ws'[s].state = "open" /\ ws'[s].cid = c /\ ws'[s].role = role /\ ~ws'[s].silent
          /\ \A t \in Sockets \ {s} : ws'[t].state = "open" => ws'[t] = ws[t] /\ t \notin Taken(c)
      <3>1. TypeOK
        BY DEF Seating
      <3>2. ws'[s] = [state |-> "open", cid |-> c, role |-> role, silent |-> FALSE]
        BY <2>1, <3>1, JoinSeats
      <3>3. \A t \in Sockets \ {s} : ws'[t].state = "open" => ws'[t] = ws[t] /\ t \notin Taken(c)
        BY <2>1, <3>1, JoinSeats
      <3> QED BY <3>2, <3>3
    <2>5. OpenSeated'
      BY <2>3, <2>4 DEF OpenSeated, Seating
    <2>6. \A t \in Live' \ {s} : t \in Live \ Taken(c) /\ ws'[t] = ws[t]
      BY <2>4 DEF Live, Seated
    <2> QED BY <2>2, <2>3, <2>4, <2>5, <2>6 DEF Seats, Seating
  <1>3. ASSUME Thins PROVE OpenSeated' /\ (\A s \in Live' : s \in Live /\ ws'[s] = ws[s])
    BY <1>3 DEF Thins, Seating, OpenSeated, Live, Seated
  <1>4. ASSUME NEW c \in Creators, create(c) \/ CreateStops(c) PROVE OpenSeated' /\ Seats'
    <2>1. \A s \in Sockets : ws'[s] = Unused
      BY <1>4, CreatesFirst DEF Seating, create, CreateStops, Makes
    <2> QED BY <2>1 DEF OpenSeated, Seats, Live, Seated, Unused
  <1>5. ASSUME \A c \in Creators : ~create(c) /\ ~CreateStops(c), \A c \in Peers : ~fetch(c)
        PROVE  OpenSeated' /\ Seats'
    <2>1. OpenSeated' /\ (\A s \in Live' : s \in Live /\ ws'[s] = ws[s])
      BY <1>3, <1>5, OthersThin DEF Seating
    <2>2. Running' => Running /\ Meta'.creator = Meta.creator
      BY <1>5, RunsOn DEF Seating
    <2> QED BY <2>1, <2>2 DEF Seats, Seating
  <1> QED BY <1>1, <1>2, <1>4, <1>5 DEF Seating

LEMMA SeatingInit == Init => Seating
  <1> SUFFICES ASSUME Init PROVE Seating
    OBVIOUS
  <1>1. TypeOK
    BY TypeInit
  <1>2. \A s \in Sockets : ws[s] = Unused /\ seen[s] = {}
    BY DEF Init
  <1>3. RoomKept /\ NotYetOver
    BY <1>2 DEF Init, RoomKept, NotYetOver
  <1>4. OpenSeated /\ Seats
    BY <1>2 DEF Init, OpenSeated, Seats, Live, Seated, Unused
  <1> QED BY <1>1, <1>3, <1>4 DEF Seating

\* No two live sockets have the same browser or the same role, and the offerer
\* is the creator, however many browsers come over however many sockets.
THEOREM SeatsCorrect == Spec => []Seats
  <1>1. Seating => Seats
    BY DEF Seating
  <1> QED BY <1>1, SeatingInit, SeatingNext, PTL DEF Spec

\* A socket whose frames are still handled keeps the seat it was given.
SeatKept ==
  \A s \in Sockets : Arrives(s) =>
    /\ ws[s].role \in Roles
    /\ Running => (ws[s].role = "offerer") = (ws[s].cid = Meta.creator)

LEMMA SeatKeptNext == Seating /\ SeatKept /\ [Next]_vars => SeatKept'
  <1> SUFFICES ASSUME Seating, SeatKept, [Next]_vars PROVE SeatKept'
    OBVIOUS
  <1> USE DEF room, history
  <1>t. TypeOK /\ RoomKept
    BY DEF Seating
  <1>1. ASSUME NEW c \in Creators, create(c) \/ CreateStops(c) PROVE SeatKept'
    <2>1. \A s \in Sockets : ws'[s] = Unused
      BY <1>1, CreatesFirst DEF Seating, create, CreateStops, Makes
    <2> QED BY <2>1 DEF SeatKept, Arrives, Unused
  <1> SUFFICES ASSUME \A c \in Creators : ~create(c) /\ ~CreateStops(c) PROVE SeatKept'
    BY <1>1
  <1>r. Running' => Running /\ Meta'.creator = Meta.creator
    BY <1>t, RunsOn
  \* Sockets close, or stay as they are.
  <1>2. ASSUME \A s \in Sockets : Arrives(s)' =>
                 Arrives(s) /\ ws'[s].role = ws[s].role /\ ws'[s].cid = ws[s].cid
        PROVE  SeatKept'
    BY <1>2, <1>r DEF SeatKept
  <1>3. ASSUME NEW c \in Peers, fetch(c) PROVE SeatKept'
    <2>1. PICK s \in Sockets, role \in admit(c) : Joins(s, c, role)
      BY <1>3, FetchJoins
    <2>2. Running /\ Meta'.creator = Meta.creator
      BY <2>1, NoteKeeps DEF Joins, Seating
    <2>3. role \in Roles /\ (role = "offerer") = (c = Meta.creator)
      BY <2>2, AdmitSeats
    <2>4. ws'[s] = [state |-> "open", cid |-> c, role |-> role, silent |-> FALSE]
      BY <2>1, <1>t, JoinSeats
    <2>5. ws' = Entered(s, c, role)
      BY <2>1 DEF Joins
    <2>6. ASSUME NEW t \in Sockets \ {s}, Arrives(t)' PROVE ws'[t] = ws[t]
      BY <2>5, <2>6, <1>t DEF Entered, Arrives, TypeOK, Socket
    <2> QED BY <2>2, <2>3, <2>4, <2>6 DEF SeatKept, Arrives
  <1>4. ASSUME NEW s \in Sockets, ws' = [ws EXCEPT ![s] = Gone] PROVE SeatKept'
    BY <1>2, <1>4, <1>t DEF Arrives, Gone, TypeOK
  <1>5. ASSUME NEW s \in Sockets, Arrives(s), Closes(s) PROVE SeatKept'
    BY <1>2, <1>5, <1>t DEF Arrives, Closes, TypeOK, Socket
  <1>6. ASSUME NEW s \in Sockets, FrameCloses(s) \/ HangUp(s) PROVE SeatKept'
    <2>1. Arrives(s)
      BY <1>6 DEF FrameCloses, HangUp, Arrives, Seating, OpenSeated
    <2> QED BY <1>5, <1>6, <2>1 DEF FrameCloses, HangUp
  <1>7. ASSUME NEW s \in Sockets, webSocketClose(s) \/ webSocketError(s) PROVE SeatKept'
    BY <1>4, <1>7 DEF webSocketClose, webSocketError
  <1>8. ASSUME ws' = ws PROVE SeatKept'
    BY <1>2, <1>8 DEF Arrives
  <1>9. ASSUME Ends PROVE SeatKept'
    <2>1. CASE ws' = Ended
      BY <1>2, <2>1, <1>t DEF Ended, Arrives, Live, Seated, TypeOK, Socket
    <2> QED BY <1>8, <1>9, <2>1 DEF Ends
  <1>10. ASSUME PutFails PROVE SeatKept'
    <2>1. \A s \in Sockets : ws'[s] \in {Unused, Gone}
      BY <1>10 DEF PutFails
    <2> QED BY <2>1 DEF SeatKept, Arrives, Unused, Gone
  <1>11. ASSUME announce \/ Hibernate \/ Tick \/ UNCHANGED vars PROVE ws' = ws
    BY <1>11 DEF announce, Hibernate, Tick, vars
  <1>12. ASSUME NEW s \in Sockets, Relay(s) PROVE ws' = ws
    BY <1>12 DEF Relay
  <1> QED
    BY <1>3, <1>6, <1>7, <1>8, <1>9, <1>10, <1>11, <1>12 DEF Next, alarm, AlarmFails

\* Two live sockets of different roles are all that are live.
LEMMA PairAlone ==
  ASSUME Seating, NEW s \in Live, NEW t \in Live, s # t
  PROVE  Live = {s, t} /\ ws[t].role # ws[s].role
  <1>1. \A u \in Live : ws[u].role \in {"offerer", "answerer"}
    BY DEF Seating, OpenSeated, Live, Seated, Roles
  <1>2. \A u, v \in Live : u # v => ws[u].role # ws[v].role
    BY DEF Seating, Seats
  <1>3. \A u \in Live : u \in {s, t}
    BY <1>1, <1>2
  <1> QED BY <1>2, <1>3

\* A step delivers a signal only by Relay.
LEMMA OnlyRelayHands ==
  ASSUME Next, \A s \in Sockets : ~Relay(s)
  PROVE  handed' = None
  <1>1. ASSUME NEW c \in Peers, fetch(c) PROVE handed' = None
    BY <1>1, FetchJoins DEF Joins
  <1>2. ASSUME NEW c \in Creators, create(c) \/ CreateStops(c) PROVE handed' = None
    BY <1>2 DEF create, CreateStops, Makes
  <1>3. ASSUME NEW s \in Sockets,
               FrameCloses(s) \/ webSocketClose(s) \/ webSocketError(s) \/ HangUp(s)
        PROVE  handed' = None
    BY <1>3 DEF FrameCloses, webSocketClose, webSocketError, HangUp, Closes
  <1>4. ASSUME announce \/ alarm \/ AlarmFails \/ PutFails \/ Hibernate \/ Tick
        PROVE  handed' = None
    BY <1>4 DEF announce, alarm, AlarmFails, Ends, PutFails, Hibernate, Tick
  <1> QED BY <1>1, <1>2, <1>3, <1>4 DEF Next

LEMMA SignalsNext ==
  ASSUME Seating, SeatKept, SignalsReachPartner, [Next]_vars
  PROVE  SignalsReachPartner'
  <1>1. ASSUME NEW s \in Sockets, Relay(s) PROVE SignalsReachPartner'
    <2>1. PICK t \in Others(s) : handed' = [from |-> s, to |-> t, late |-> s \notin Live]
      BY <1>1 DEF Relay
    <2>2. /\ handed'.from = s /\ handed'.to = t /\ handed'.late = (s \notin Live)
      BY <2>1
    <2>3. /\ t \in Live /\ ws[t].cid # ws[s].cid /\ Arrives(s) /\ Running
          /\ ws' = ws /\ Live' = Live
      BY <1>1, <2>1 DEF Relay, Relayed, Others, Live, Seated
    <2>4. Meta'.creator = Meta.creator
      <3>1. TypeOK /\ RoomKept /\ note(Live, seen, "batch")
        BY <1>1 DEF Relay, Seating
      <3> QED BY <2>3, <3>1, NoteKeeps
    <2>5. /\ (ws[s].role = "offerer") = (ws[s].cid = Meta.creator) /\ ws[s].role \in Roles
          /\ (ws[t].role = "offerer") = (ws[t].cid = Meta.creator)
      BY <2>3 DEF SeatKept, Seating, Seats
    <2>6. ws[t].role = ws[s].role => ws[t].role = "answerer"
      BY <2>3, <2>5 DEF Roles
    <2>7. s \in Live => Live = {s, t} /\ ws[t].role # ws[s].role
      BY <2>3, PairAlone
    <2> QED BY <2>2, <2>3, <2>4, <2>5, <2>6, <2>7 DEF SignalsReachPartner
  <1>2. ASSUME handed' = None PROVE SignalsReachPartner'
    BY <1>2 DEF SignalsReachPartner
  <1>3. ASSUME UNCHANGED vars PROVE SignalsReachPartner'
    BY <1>3 DEF vars, room, SignalsReachPartner, Live, Seated, Meta
  <1> QED BY <1>1, <1>2, <1>3, OnlyRelayHands

\* Every signal that is delivered goes to another browser; while its sender has its
\* seat, to the one other browser of the room.
THEOREM SignalsReachPartnerCorrect == Spec => []SignalsReachPartner
  <1>1. Init => SeatKept /\ SignalsReachPartner
    BY DEF Init, SeatKept, SignalsReachPartner, Arrives, Unused
  <1>2. Seating /\ SeatKept /\ SignalsReachPartner /\ [Next]_vars => SignalsReachPartner'
    BY SignalsNext
  <1> QED BY <1>1, <1>2, SeatingInit, SeatingNext, SeatKeptNext, PTL DEF Spec

\* Memory is less than a batch of lines ahead of storage.
THEOREM BatchBoundedCorrect == Spec => []BatchBounded
  <1>1. ASSUME Seating PROVE BatchBounded
    <2>1. TypeOK /\ RoomKept
      BY <1>1 DEF Seating
    <2>2. dirty < TapeBatch /\ dirty \in Nat
      BY <2>1, Bounds DEF TypeOK
    <2>3. ASSUME Running PROVE stored # None /\ Meta.seq - stored.seq = dirty
      BY <2>1, <2>2, <2>3, MetaFacts DEF Running, Room
    <2> QED BY <2>2, <2>3 DEF BatchBounded
  <1> QED BY <1>1, SeatingInit, SeatingNext, PTL DEF Spec

-----------------------------------------------------------------------------
(* What the pages know of their peers. *)

\* A page is wrong about its peers only while a handler has yet to announce, or
\* a socket of a browser that has left has yet to report.
CountOwed ==
  Running /\ owed = 0 /\ (\E s \in Live : told[s] # Counted(ws)) =>
    \E t \in Sockets : ws[t].state = "closing" /\ ~ws[t].silent /\ ~Still(t)

\* The live sockets decide what there is to tell.
LEMMA SameSeats ==
  ASSUME Live' = Live, \A s \in Live : ws'[s] = ws[s]
  PROVE  /\ Counted(ws)' = Counted(ws)
         /\ \A c : Taken(c)' = Taken(c)
  <1>1. Seated(ws)' = Seated(ws)
    BY DEF Live
  <1>2. \A s \in Seated(ws) : ws'[s] = ws[s]
    BY DEF Live
  <1>3. {ws[s].role : s \in Seated(ws)}' = {ws[s].role : s \in Seated(ws)}
    BY <1>1, <1>2
  <1>4. \A c : Taken(c)' = Taken(c)
    BY DEF Taken
  <1> QED BY <1>1, <1>3, <1>4 DEF Counted

LEMMA CountInit == Init => CountOwed
  BY DEF Init, CountOwed, Live, Seated, Unused

LEMMA CountNext == Seating /\ CountOwed /\ [Next]_vars => CountOwed'
  <1> SUFFICES ASSUME Seating, CountOwed, [Next]_vars PROVE CountOwed'
    OBVIOUS
  <1> USE DEF room, history
  <1>t. TypeOK /\ RoomKept /\ OpenSeated
    BY DEF Seating
  <1>1. ASSUME NEW c \in Creators, create(c) \/ CreateStops(c) PROVE CountOwed'
    <2>1. \A s \in Sockets : ws'[s] = Unused
      BY <1>1, CreatesFirst DEF Seating, create, CreateStops, Makes
    <2> QED BY <2>1 DEF CountOwed, Live, Seated, Unused
  <1> SUFFICES ASSUME \A c \in Creators : ~create(c) /\ ~CreateStops(c) PROVE CountOwed'
    BY <1>1
  <1>r. Running' => Running
    BY <1>t, RunsOn
  <1>2. ASSUME NEW c \in Peers, fetch(c) PROVE CountOwed'
    BY <1>2, <1>t DEF fetch, CountOwed, TypeOK
  <1>3. ASSUME told' = Announced(ws)' PROVE CountOwed'
    BY <1>3 DEF CountOwed, Announced, Live, Seated
  <1>4. ASSUME announce PROVE CountOwed'
    <2>1. Announced(ws)' = Announced(ws)
      BY <1>4 DEF announce, Announced, Counted, Seated
    <2> QED BY <1>3, <1>4, <2>1 DEF announce
  <1>5. ASSUME NEW s \in Sockets, webSocketError(s) PROVE CountOwed'
    <2>1. ws' = [ws EXCEPT ![s] = Gone] /\ told' = Announced([ws EXCEPT ![s] = Gone])
      BY <1>5 DEF webSocketError
    <2>2. told' = Announced(ws')
      BY <2>1
    <2> QED BY <1>3, <2>2 DEF Announced, Counted, Seated
  \* Nobody takes or leaves a seat; who is to report stays, or is not waited for.
  <1>6. ASSUME owed' = owed, Live' = Live, \A s \in Live : ws'[s] = ws[s] /\ told'[s] = told[s],
               \A s \in Sockets :
                 ws[s].state = "closing" /\ ~ws[s].silent /\ ~Still(s) => ws'[s] = ws[s]
        PROVE  CountOwed'
    <2> SUFFICES ASSUME Running', owed' = 0, NEW s \in Live', told'[s] # Counted(ws)'
                 PROVE  \E t \in Sockets : ws'[t].state = "closing" /\ ~ws'[t].silent /\ ~Still(t)'
      BY DEF CountOwed
    <2>1. Counted(ws)' = Counted(ws) /\ \A c : Taken(c)' = Taken(c)
      BY <1>6, SameSeats
    <2>2. PICK t \in Sockets : ws[t].state = "closing" /\ ~ws[t].silent /\ ~Still(t)
      BY <1>6, <1>r, <2>1 DEF CountOwed
    <2>3. ws'[t] = ws[t]
      BY <1>6, <2>2
    <2>4. ~Still(t)'
      BY <2>1, <2>2, <2>3 DEF Still
    <2> QED BY <2>2, <2>3, <2>4
  <1>7. ASSUME UNCHANGED <<owed, ws, told>> PROVE CountOwed'
    BY <1>6, <1>7 DEF Live, Seated
  <1>8. ASSUME NEW s \in Sockets, Relay(s) PROVE CountOwed'
    BY <1>7, <1>8 DEF Relay
  <1>9. ASSUME Hibernate \/ Tick \/ UNCHANGED vars PROVE CountOwed'
    BY <1>7, <1>9 DEF Hibernate, Tick, vars
  <1>10. ASSUME Ends PROVE CountOwed'
    <2>1. CASE Meta # None
      <3>1. \A s \in Sockets : ws'[s].state # "open"
        <4>1. ws' = Ended
          BY <1>10, <2>1 DEF Ends
        <4>2. \A s \in Live : ws'[s].state = "closing"
          BY <4>1, <1>t DEF Ended, TypeOK, Live, Seated, Socket
        <4>3. \A s \in Sockets \ Live : ws'[s] = ws[s]
          BY <4>1 DEF Ended
        <4> QED BY <4>2, <4>3, <1>t DEF OpenSeated, Live, Seated
      <3> QED BY <3>1 DEF CountOwed, Live, Seated
    <2>2. CASE Meta = None
      BY <1>r, <2>2 DEF CountOwed, Running
    <2> QED BY <2>1, <2>2
  <1>11. ASSUME NEW s \in Sockets, Closes(s), owed' = owed, Arrives(s) PROVE CountOwed'
    <2>1. /\ ws' = [ws EXCEPT ![s].state = "closing"] /\ told' = [told EXCEPT ![s] = None]
          /\ ws[s].state \in {"open", "closing"} /\ ~ws[s].silent
      BY <1>11 DEF Closes, Arrives
    <2>2. /\ ws'[s].state = "closing" /\ ~ws'[s].silent /\ ws'[s].cid = ws[s].cid
          /\ \A t \in Sockets \ {s} : ws'[t] = ws[t] /\ told'[t] = told[t]
          /\ (ws[s].state = "closing" => ws'[s] = ws[s])
      BY <2>1, <1>t DEF TypeOK, Socket
    <2>3. CASE ws[s].state = "closing"
      <3>1. Live' = Live /\ s \notin Live
        BY <2>2, <2>3 DEF Live, Seated
      <3> QED BY <1>6, <1>11, <2>2, <2>3, <3>1 DEF Live, Seated
    <2>4. CASE ws[s].state = "open"
      <3>1. s \in Live /\ \A t \in Live' : t \in Live \ {s} /\ ws'[t] = ws[t]
        BY <2>1, <2>2, <2>4 DEF Live, Seated
      <3>2. \A t \in Live' : ws'[t].cid # ws'[s].cid
        BY <2>2, <3>1 DEF Seating, Seats
      <3>3. ~Still(s)'
        BY <3>2 DEF Still, Taken
      <3> QED BY <2>2, <3>3 DEF CountOwed
    <2> QED BY <2>1, <2>3, <2>4
  <1>12. ASSUME NEW s \in Sockets, FrameCloses(s) \/ HangUp(s) PROVE CountOwed'
    <2>1. Arrives(s)
      BY <1>12, <1>t DEF FrameCloses, HangUp, Arrives, OpenSeated
    <2> QED BY <1>11, <1>12, <2>1 DEF FrameCloses, HangUp
  <1>13. ASSUME NEW s \in Sockets, webSocketClose(s) PROVE CountOwed'
    <2>1. /\ ws[s].state = "closing" /\ ws' = [ws EXCEPT ![s] = Gone] /\ told' = told
      BY <1>13 DEF webSocketClose
    <2>2. Live' = Live /\ s \notin Live /\ \A t \in Sockets \ {s} : ws'[t] = ws[t]
      BY <2>1, <1>t DEF Live, Seated, Gone, TypeOK
    <2>3. CASE owed' = owed /\ (ws[s].silent \/ Still(s))
      BY <1>6, <2>1, <2>2, <2>3 DEF Live, Seated
    <2>4. CASE owed' = owed + 1
      BY <2>4, <1>t DEF CountOwed, TypeOK
    <2>5. CASE ~Running
      BY <1>r, <2>5 DEF CountOwed
    <2> QED BY <1>13, <2>3, <2>4, <2>5 DEF webSocketClose, Leaves
  <1>14. ASSUME PutFails PROVE CountOwed'
    <2>1. \A s \in Sockets : ws'[s] \in {Unused, Gone}
      BY <1>14 DEF PutFails
    <2> QED BY <2>1 DEF CountOwed, Live, Seated, Unused, Gone
  <1> QED
    BY <1>2, <1>4, <1>5, <1>8, <1>9, <1>10, <1>12, <1>13, <1>14 DEF Next, alarm, AlarmFails

\* Once every closing socket has reported and every handler has announced, the
\* pages of a running room know how many peers there are.
THEOREM CountSettlesCorrect == Spec => []CountSettles
  <1>1. Seating /\ CountOwed => CountSettles
    BY DEF CountOwed, CountSettles
  <1> QED BY <1>1, SeatingInit, SeatingNext, CountInit, CountNext, PTL DEF Spec

-----------------------------------------------------------------------------
(* What the pages show of the tape. *)

\* As long as no line was lost, no page shows a number that is yet to come.
LinesShown ==
  /\ missed => lost
  /\ ~lost /\ stored # None => \A s \in Sockets : seen[s] \subseteq 0..Meta.seq

\* A line that is noted is new to every page.
LEMMA NoteShows ==
  ASSUME Seating, LinesShown, Running, NEW rows \in SUBSET Sockets,
         NEW pages \in [Sockets -> SUBSET Nat], NEW mode, note(rows, pages, mode),
         ~lost => \A s \in Sockets : pages[s] \subseteq 0..Meta.seq
  PROVE  LinesShown'
  <1>1. TypeOK /\ RoomKept
    BY DEF Seating
  <1>2. stored # None /\ Meta \in Room
    BY <1>1, MetaFacts DEF Running
  <1>3. Meta'.seq = Meta.seq + 1 /\ lost' = lost /\ Meta.seq \in Nat
    BY <1>1, <1>2, NoteKeeps DEF Room
  <1>4. Shows(Meta.seq + 1, rows, pages)
    BY <1>2 DEF note, nextEvent, Room
  <1>5. ASSUME ~lost PROVE ~missed' /\ \A s \in Sockets : seen'[s] \subseteq 0..(Meta.seq + 1)
    <2>1. \A s \in Sockets : pages[s] \subseteq 0..Meta.seq
      BY <1>5
    <2>2. \A s \in Sockets : Meta.seq + 1 \notin pages[s]
      BY <1>3, <2>1
    <2>3. ~missed'
      BY <1>4, <1>5, <2>2 DEF Shows, LinesShown
    <2>4. ASSUME NEW s \in Sockets PROVE seen'[s] \subseteq 0..(Meta.seq + 1)
      <3>1. seen'[s] \subseteq pages[s] \cup {Meta.seq + 1}
        BY <1>4 DEF Shows
      <3> QED BY <1>3, <2>1, <3>1
    <2> QED BY <2>3, <2>4
  <1> QED BY <1>3, <1>5 DEF LinesShown

LEMMA LinesInit == Init => LinesShown
  BY DEF Init, LinesShown

LEMMA LinesNext == Seating /\ LinesShown /\ [Next]_vars => LinesShown'
  <1> SUFFICES ASSUME Seating, LinesShown, [Next]_vars PROVE LinesShown'
    OBVIOUS
  <1> USE DEF room, history
  <1>t. TypeOK /\ RoomKept /\ NotYetOver
    BY DEF Seating
  <1>1. ASSUME NEW c \in Creators, create(c) \/ CreateStops(c) PROVE LinesShown'
    <2>1. Makes(c) /\ \A s \in Sockets : seen'[s] = {}
      BY <1>1, <1>t, CreatesFirst DEF create, CreateStops, Makes
    <2> QED BY <2>1 DEF Makes, LinesShown
  <1>2. ASSUME NEW c \in Peers, fetch(c) PROVE LinesShown'
    <2>1. PICK s \in Sockets, role \in admit(c) : Joins(s, c, role)
      BY <1>2, FetchJoins
    <2> DEFINE pages == [seen EXCEPT ![s] = Tape(Meta.seq)]
    <2>2. Running /\ note(Seated(ws'), pages, "now") /\ stored # None
      BY <2>1, <1>t, MetaFacts DEF Joins, Running
    <2>3. Meta.seq \in Nat
      BY <2>2, <1>t, MetaFacts DEF Room
    <2>4. Tape(Meta.seq) \subseteq 0..Meta.seq /\ Tape(Meta.seq) \subseteq Nat
      BY <2>3 DEF Tape
    <2>5. pages \in [Sockets -> SUBSET Nat]
      BY <2>4, <1>t DEF TypeOK
    <2>6. ~lost => \A t \in Sockets : pages[t] \subseteq 0..Meta.seq
      BY <2>2, <2>4, <1>t DEF LinesShown, TypeOK
    <2>7. Seated(ws') \in SUBSET Sockets
      BY DEF Seated
    <2> HIDE DEF pages
    <2> QED BY <2>2, <2>5, <2>6, <2>7, NoteShows
  <1>3. ASSUME Running, NEW mode, note(Live, seen, mode) PROVE LinesShown'
    <2>1. Live \in SUBSET Sockets /\ seen \in [Sockets -> SUBSET Nat] /\ stored # None
      BY <1>3, <1>t, MetaFacts DEF Live, Seated, TypeOK, Running
    <2>2. ~lost => \A s \in Sockets : seen[s] \subseteq 0..Meta.seq
      BY <2>1 DEF LinesShown
    <2> QED BY <1>3, <2>1, <2>2, NoteShows
  \* A page closes or stays as it is.
  <1>4. ASSUME Rests, lost' = lost, missed' = missed, \A s \in Sockets : seen'[s] \subseteq seen[s]
        PROVE  LinesShown'
    BY <1>4, <1>t, RestsKeeps DEF LinesShown, Rests
  <1>5. ASSUME NEW s \in Sockets, Relay(s) PROVE LinesShown'
    BY <1>3, <1>5 DEF Relay, Relayed
  <1>6. ASSUME NEW s \in Sockets, webSocketClose(s) PROVE LinesShown'
    BY <1>3, <1>4, <1>6 DEF webSocketClose, Leaves, Rests
  <1>7. ASSUME NEW s \in Sockets, FrameCloses(s) \/ webSocketError(s) \/ HangUp(s)
        PROVE  LinesShown'
    <2>1. seen' = [seen EXCEPT ![s] = {}]
      BY <1>7 DEF FrameCloses, webSocketError, HangUp, Closes
    <2>2. Rests /\ lost' = lost /\ missed' = missed
      BY <1>7 DEF FrameCloses, webSocketError, HangUp, Rests
    <2> QED BY <1>4, <2>1, <2>2, <1>t DEF TypeOK
  <1>8. ASSUME announce PROVE LinesShown'
    BY <1>4, <1>8 DEF announce, Rests
  <1>9. ASSUME Ends, stored' \in {stored, None} PROVE LinesShown'
    <2>1. CASE Meta = None
      <3>1. stored' = None /\ UNCHANGED <<missed, lost>>
        BY <1>9, <2>1, <1>t, MetaFacts DEF Ends
      <3> QED BY <3>1 DEF LinesShown
    <2>2. CASE Meta # None
      <3>1. /\ missed' = (missed \/ \E s \in Live : nextEvent(Meta).seq \in seen[s])
            /\ \A s \in Sockets : seen'[s] = {}
            /\ lost' = lost
        BY <1>9, <2>2 DEF Ends, Blank
      <3>2. nextEvent(Meta).seq = Meta.seq + 1 /\ Meta.seq \in Nat /\ stored # None
        BY <2>2, <1>t, MetaFacts DEF nextEvent, Room
      <3>3. ASSUME ~lost PROVE ~missed'
        <4>1. \A s \in Live : seen[s] \subseteq 0..Meta.seq
          BY <3>2, <3>3 DEF LinesShown, Live, Seated
        <4>2. ~ \E s \in Live : Meta.seq + 1 \in seen[s]
          BY <3>2, <4>1
        <4>3. ~missed
          BY <3>3 DEF LinesShown
        <4> QED BY <3>1, <3>2, <4>2, <4>3
      <3> QED BY <3>1, <3>3 DEF LinesShown
    <2> QED BY <2>1, <2>2
  <1>10. ASSUME alarm \/ AlarmFails PROVE LinesShown'
    BY <1>9, <1>10 DEF alarm, AlarmFails
  <1>11. ASSUME Hibernate PROVE LinesShown'
    <2>1. /\ lost' = (lost \/ cached # stored) /\ UNCHANGED <<stored, seen, missed>>
          /\ cached' = None /\ cached # None
      BY <1>11 DEF Hibernate
    <2>2. Meta' = stored /\ Meta = cached
      BY <2>1 DEF Meta
    <2> QED BY <2>1, <2>2 DEF LinesShown
  <1>12. ASSUME Tick \/ UNCHANGED vars PROVE LinesShown'
    BY <1>12 DEF Tick, vars, LinesShown, Meta
  <1>13. ASSUME PutFails PROVE LinesShown'
    BY <1>13 DEF PutFails, Blank, LinesShown
  <1> QED BY <1>1, <1>2, <1>5, <1>6, <1>7, <1>8, <1>10, <1>11, <1>12, <1>13 DEF Next

\* A page misses a line of the tape only after lines were lost from memory.
THEOREM PanelCompleteCorrect == Spec => []PanelComplete
  <1>1. LinesShown => PanelComplete
    BY DEF LinesShown, PanelComplete
  <1> QED BY <1>1, SeatingInit, SeatingNext, LinesInit, LinesNext, PTL DEF Spec

=============================================================================

----------------------------- MODULE DrivePromise -----------------------------
(***************************************************************************)
(* What r2-drive promises of one drive, whatever processes carry it out:   *)
(* it may be written until it is wiped, it is emptied and wiped only once  *)
(* its hour is over or an operator released it, a freeze keeps the time of *)
(* the first one, and a drive that was wiped is empty for ever.  The       *)
(* one way around the last is a release that did not stop the writers.     *)
(***************************************************************************)
EXTENDS Naturals

CONSTANTS
  Ttl,    \* the age at which a drive may go
  Never   \* no time

VARIABLES
  now,       \* the age of the drive
  status,    \* "active", "frozen" or "wiped"
  since,     \* the time of the first freeze, or Never
  released,  \* an operator gave the drive up before its time
  unsealed,  \* and did so while clients could go on writing
  holds      \* something is stored under the drive's prefix

vars == <<now, status, since, released, unsealed, holds>>

Due == now >= Ttl \/ released

Init ==
  /\ now = 0
  /\ status = "active"
  /\ since = Never
  /\ released = FALSE
  /\ unsealed = FALSE
  /\ holds = FALSE

Tick == now' = now + 1 /\ UNCHANGED <<status, since, released, unsealed, holds>>

Freeze ==
  /\ status # "wiped"
  /\ status' = "frozen"
  /\ since' = IF since = Never THEN now ELSE since
  /\ UNCHANGED <<now, released, unsealed, holds>>

Release ==
  /\ released' = TRUE
  /\ unsealed' \in {unsealed, released}
  /\ UNCHANGED <<now, status, since, holds>>

\* What a client stores or deletes.
Write ==
  /\ status # "wiped" \/ unsealed
  /\ holds' \in BOOLEAN
  /\ UNCHANGED <<now, status, since, released, unsealed>>

Clear ==
  /\ Due
  /\ holds' = FALSE
  /\ UNCHANGED <<now, status, since, released, unsealed>>

Retire ==
  /\ Due
  /\ ~ holds \/ unsealed
  /\ status' = "wiped"
  /\ UNCHANGED <<now, since, released, unsealed, holds>>

Next == Tick \/ Freeze \/ Release \/ Write \/ Clear \/ Retire

Spec == Init /\ [][Next]_vars
=============================================================================

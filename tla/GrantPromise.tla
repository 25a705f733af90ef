---------------------------- MODULE GrantPromise ----------------------------
(***************************************************************************)
(* What melody-auth promises of its grants, whatever requests overlap: a   *)
(* grant is spent at most once, only after it was granted, and starts at   *)
(* most one family of refresh tokens; a family that ended stays ended.     *)
(***************************************************************************)
CONSTANTS Grants, Families

VARIABLES grant, life
vars == <<grant, life>>

Init ==
  /\ grant = [g \in Grants |-> "fresh"]
  /\ life = [f \in Families |-> "none"]

\* A code is granted from the start; a device code is asked for first.
Open(g) ==
  /\ grant[g] = "fresh"
  /\ \E s \in {"asked", "granted"} : grant' = [grant EXCEPT ![g] = s]
  /\ UNCHANGED life

Approve(g) ==
  /\ grant[g] = "asked"
  /\ grant' = [grant EXCEPT ![g] = "granted"]
  /\ UNCHANGED life

Spend(g) ==
  /\ grant[g] = "granted"
  /\ grant' = [grant EXCEPT ![g] = "owed"]
  /\ UNCHANGED life

\* The one request that spent the grant starts its family.
Start(g, f) ==
  /\ grant[g] = "owed" /\ life[f] = "none"
  /\ grant' = [grant EXCEPT ![g] = "closed"]
  /\ life' = [life EXCEPT ![f] = "live"]

\* Denial, expiry, refusal and revocation, of many at once in a purge.
Close ==
  \E G \in SUBSET {g \in Grants : grant[g] # "fresh"},
     F \in SUBSET {f \in Families : life[f] = "live"} :
    /\ grant' = [g \in Grants |-> IF g \in G THEN "closed" ELSE grant[g]]
    /\ life' = [f \in Families |-> IF f \in F THEN "dead" ELSE life[f]]

Next ==
  \/ \E g \in Grants : Open(g) \/ Approve(g) \/ Spend(g)
  \/ \E g \in Grants, f \in Families : Start(g, f)
  \/ Close

Spec == Init /\ [][Next]_vars

=============================================================================

---------------------------- MODULE MelodyGrants ----------------------------
(***************************************************************************)
(* melody-auth: authorization codes, device codes and refresh tokens of    *)
(* one user in D1.  A request to the token, device, revocation or          *)
(* federation endpoint is a sequence of D1 statements or batches, each     *)
(* atomic; between two of them other requests and the purge run.  Every    *)
(* request reads the clock once, when it starts.  A family is named by     *)
(* the number of its first token.                                          *)
(***************************************************************************)
EXTENDS Integers, FiniteSets

CONSTANTS
  Codes, Devices,  \* authorization codes, device codes
  Requests,        \* requests in flight at once
  CodeTtl, DeviceTtl, RefreshTtl, UserTtl,
  MaxGrants,       \* bound on the grants made
  MaxTokens,       \* bound on the refresh tokens ever issued
  MaxTime,         \* bound on the clock
  MaxAge,          \* bound on how long a request takes
  None

ASSUME MelodyConstants ==
  /\ {CodeTtl, DeviceTtl, RefreshTtl, UserTtl} \subseteq Nat \ {0}
  /\ {MaxGrants, MaxTokens, MaxTime, MaxAge} \subseteq Nat
  /\ Codes \cap Devices = {}
  /\ (Codes \cup Devices) \cap Nat = {}
  /\ None \notin Nat \cup Codes \cup Devices

VARIABLES
  now,         \* the clock
  user,        \* the users row: "unverified", "verified" or "gone"
  codes, devices, tokens,   \* the rows of auth_codes, device_grants, refresh_tokens
  issued,      \* how many refresh tokens were ever issued
  pc, at, arg, \* each request: its next statement, its clock, what it was sent
  fam          \* each request: the family it read or started

\* Kept for the properties only: the grants ever made, the grant that started
\* each family, whether a request saw that its code or token was spent, and the
\* families for which such a request was answered.
VARIABLES known, root, spent, reused

rows == <<user, codes, devices, tokens, issued>>
history == <<known, root>>
vars == <<now, rows, pc, at, arg, fam, history, spent, reused>>

Grants == Codes \cup Devices
Tokens == 1..MaxTokens
Code == [used : BOOLEAN, expires : Nat, fam : Tokens \cup {None}]
Device == [owned : BOOLEAN, denied : BOOLEAN, expires : Nat]
Token == [fam : Tokens, revoked : BOOLEAN, expires : Nat]
ASSUME NoneIsNoRow == None \notin Code \cup Device \cup Token

Places == {"idle", "claim", "claimed", "replayed", "user", "issue", "attach",
           "lookup", "owner", "rotate", "revoke", "end", "poll", "consume",
           "consumed", "decide", "approve", "deny", "federate", "lock"}

Init ==
  /\ now = 0 /\ user = "unverified"
  /\ codes = [c \in Codes |-> None] /\ devices = [d \in Devices |-> None]
  /\ tokens = [t \in Tokens |-> None] /\ issued = 0
  /\ pc = [r \in Requests |-> "idle"] /\ at = [r \in Requests |-> 0]
  /\ arg = [r \in Requests |-> None] /\ fam = [r \in Requests |-> None]
  /\ known = {} /\ root = [t \in Tokens |-> None]
  /\ spent = [r \in Requests |-> FALSE] /\ reused = {}

-----------------------------------------------------------------------------
(* What the requests share. *)

Goes(r, place) == pc' = [pc EXCEPT ![r] = place] /\ UNCHANGED <<at, arg>>
Rests(r) ==
  /\ pc' = [pc EXCEPT ![r] = "idle"]
  /\ at' = [at EXCEPT ![r] = 0]
  /\ arg' = [arg EXCEPT ![r] = None]
  /\ fam' = [fam EXCEPT ![r] = None]
  /\ spent' = [spent EXCEPT ![r] = FALSE]

\* The request answers its client.
Answers(r) ==
  /\ Rests(r)
  /\ reused' = IF spent[r] THEN reused \cup {fam[r]} ELSE reused

Begins(r, place, x) ==
  /\ pc[r] = "idle"
  /\ pc' = [pc EXCEPT ![r] = place]
  /\ at' = [at EXCEPT ![r] = now]
  /\ arg' = [arg EXCEPT ![r] = x]
  /\ UNCHANGED <<now, rows, fam, history, spent, reused>>

\* getUserById()
UserAt(time) == user # "gone" /\ time < UserTtl

Live(t) == tokens[t] # None /\ ~tokens[t].revoked
NewToken(f, time) == [fam |-> f, revoked |-> FALSE, expires |-> time + RefreshTtl]

-----------------------------------------------------------------------------
(* Requests arrive. *)

issueAuthCode(c) ==
  /\ c \notin known /\ Cardinality(known) < MaxGrants
  /\ UserAt(now)
  /\ known' = known \cup {c}
  /\ codes' = [codes EXCEPT ![c] = [used |-> FALSE, expires |-> now + CodeTtl, fam |-> None]]
  /\ UNCHANGED <<now, user, devices, tokens, issued, pc, at, arg, fam, root, spent, reused>>

createDeviceGrant(d) ==
  /\ d \notin known /\ Cardinality(known) < MaxGrants
  /\ known' = known \cup {d}
  /\ devices' = [devices EXCEPT ![d] = [owned |-> FALSE, denied |-> FALSE,
                                        expires |-> now + DeviceTtl]]
  /\ UNCHANGED <<now, user, codes, tokens, issued, pc, at, arg, fam, root, spent, reused>>

Arrives(r) ==
  \/ \E c \in known \cap Codes : Begins(r, "claim", c)
  \/ \E d \in known \cap Devices, p \in {"poll", "decide"} : Begins(r, p, d)
  \/ \E t \in 1..issued, p \in {"lookup", "end"} : Begins(r, p, t)
  \/ Begins(r, "federate", None)

-----------------------------------------------------------------------------
(* grant_type=authorization_code *)

\* Mutant: the claim does not look at used_at.
ClaimableTwice(c, time) == codes[c] # None /\ codes[c].expires > time

Claimable(c, time) == codes[c] # None /\ ~codes[c].used /\ codes[c].expires > time

claimCode(r) ==
  /\ pc[r] = "claim"
  /\ IF Claimable(arg[r], at[r])
     THEN /\ codes' = [codes EXCEPT ![arg[r]].used = TRUE]
          /\ Goes(r, "claimed")
     ELSE UNCHANGED codes /\ Goes(r, "replayed")
  /\ UNCHANGED <<now, user, devices, tokens, issued, fam, history, spent, reused>>

\* Mutant: a replay does not look whether a family is attached.
ReplayedEarly(r) ==
  /\ pc[r] = "replayed"
  /\ LET c == codes[arg[r]]
     IN IF c # None /\ c.used
        THEN /\ fam' = [fam EXCEPT ![r] = c.fam]
             /\ spent' = [spent EXCEPT ![r] = TRUE]
             /\ Goes(r, "revoke")
             /\ UNCHANGED reused
        ELSE Answers(r)
  /\ UNCHANGED <<now, rows, history>>

\* A code that cannot be claimed: a family attached to it is revoked.
Replayed(r) ==
  /\ pc[r] = "replayed"
  /\ LET c == codes[arg[r]]
     IN IF c # None /\ c.used /\ c.fam # None
        THEN /\ fam' = [fam EXCEPT ![r] = c.fam]
             /\ spent' = [spent EXCEPT ![r] = TRUE]
             /\ Goes(r, "revoke")
             /\ UNCHANGED reused
        ELSE Answers(r)
  /\ UNCHANGED <<now, rows, history>>

\* The claimed row is read and checked against the request.
Claimed(r) ==
  /\ pc[r] = "claimed"
  /\ \/ codes[arg[r]] # None /\ Goes(r, "user") /\ UNCHANGED <<fam, spent, reused>>
     \/ Answers(r)
  /\ UNCHANGED <<now, rows, history>>

\* The grant's user, and whether the scope asks for a refresh token.
FindUser(r) ==
  /\ pc[r] = "user"
  /\ \/ UserAt(at[r]) /\ Goes(r, "issue") /\ UNCHANGED <<fam, spent, reused>>
     \/ Answers(r)
  /\ UNCHANGED <<now, rows, history>>

issueRefresh(r) ==
  /\ pc[r] = "issue"
  /\ issued < MaxTokens
  /\ LET t == issued + 1
     IN /\ issued' = t
        /\ tokens' = [tokens EXCEPT ![t] = NewToken(t, at[r])]
        /\ root' = [root EXCEPT ![t] = arg[r]]
        /\ IF arg[r] \in Codes
           THEN /\ Goes(r, "attach")
                /\ fam' = [fam EXCEPT ![r] = t]
                /\ UNCHANGED <<spent, reused>>
           ELSE Answers(r)
  /\ UNCHANGED <<now, user, codes, devices, known>>

attachCodeFamily(r) ==
  /\ pc[r] = "attach"
  /\ codes' = IF codes[arg[r]] = None THEN codes
              ELSE [codes EXCEPT ![arg[r]].fam = fam[r]]
  /\ Answers(r)
  /\ UNCHANGED <<now, user, devices, tokens, issued, history>>

-----------------------------------------------------------------------------
(* grant_type=refresh_token, and the revocation endpoint. *)

\* A token presented by another client revokes its family; only its own client
\* may end it at the revocation endpoint.
lookupRefresh(r) ==
  /\ pc[r] \in {"lookup", "end"}
  /\ LET row == tokens[arg[r]]
     IN \/ /\ row # None
           /\ fam' = [fam EXCEPT ![r] = row.fam]
           /\ spent' = [spent EXCEPT ![r] = pc[r] = "lookup" /\ row.revoked]
           /\ \E place \in {"revoke"} \cup (IF pc[r] = "lookup" THEN {"owner"} ELSE {}) :
                Goes(r, place)
           /\ UNCHANGED reused
        \/ (row = None \/ pc[r] = "end") /\ Answers(r)
  /\ UNCHANGED <<now, rows, history>>

FindOwner(r) ==
  /\ pc[r] = "owner"
  /\ Goes(r, IF UserAt(at[r]) THEN "rotate" ELSE "revoke")
  /\ UNCHANGED <<now, rows, fam, history, spent, reused>>

Rotatable(t, time) == Live(t) /\ tokens[t].expires > time

\* Mutant: a refused rotation leaves the family alone.
RotateOrRefuse(r) ==
  /\ pc[r] = "rotate"
  /\ IF Rotatable(arg[r], at[r])
     THEN /\ issued < MaxTokens
          /\ issued' = issued + 1
          /\ tokens' = [tokens EXCEPT ![arg[r]].revoked = TRUE,
                                      ![issued + 1] = NewToken(fam[r], at[r])]
     ELSE UNCHANGED <<tokens, issued>>
  /\ Answers(r)
  /\ UNCHANGED <<now, user, codes, devices, history>>

\* Mutant: the child is inserted whether or not the update changed its parent.
RotateUnchecked(r) ==
  /\ pc[r] = "rotate"
  /\ issued < MaxTokens
  /\ issued' = issued + 1
  /\ tokens' = [[t \in Tokens |-> IF t = arg[r] /\ Rotatable(t, at[r])
                                 THEN [tokens[t] EXCEPT !.revoked = TRUE] ELSE tokens[t]]
                EXCEPT ![issued + 1] = NewToken(fam[r], at[r])]
  /\ IF Rotatable(arg[r], at[r])
     THEN Answers(r)
     ELSE Goes(r, "revoke") /\ UNCHANGED <<fam, spent, reused>>
  /\ UNCHANGED <<now, user, codes, devices, history>>

\* One batch retires the token and inserts its child.
rotateRefreshAtomic(r) ==
  /\ pc[r] = "rotate"
  /\ IF Rotatable(arg[r], at[r])
     THEN /\ issued < MaxTokens
          /\ issued' = issued + 1
          /\ tokens' = [tokens EXCEPT ![arg[r]].revoked = TRUE,
                                      ![issued + 1] = NewToken(fam[r], at[r])]
          /\ Answers(r)
     ELSE /\ Goes(r, "revoke")
          /\ UNCHANGED <<tokens, issued, fam, spent, reused>>
  /\ UNCHANGED <<now, user, codes, devices, history>>

revokeFamily(r) ==
  /\ pc[r] = "revoke"
  /\ tokens' = [t \in Tokens |-> IF tokens[t] # None /\ tokens[t].fam = fam[r]
                                 THEN [tokens[t] EXCEPT !.revoked = TRUE]
                                 ELSE tokens[t]]
  /\ Answers(r)
  /\ UNCHANGED <<now, user, codes, devices, issued, history>>

-----------------------------------------------------------------------------
(* grant_type=device_code, and the device page.  The poll's clock and interval, *)
(* which only decide how soon the next poll is told to slow down, are left out. *)

pollDevice(r) ==
  /\ pc[r] = "poll"
  /\ LET d == devices[arg[r]]
         ready == d # None /\ d.expires > at[r] /\ ~d.denied /\ d.owned
     IN IF ready THEN Goes(r, "consume") /\ UNCHANGED <<fam, spent, reused>>
                 ELSE Answers(r)
  /\ UNCHANGED <<now, rows, history>>

\* Mutant: a denial that came after the poll is not looked at.
ConsumableDenied(d, time) == devices[d] # None /\ devices[d].owned /\ devices[d].expires > time

Consumable(d, time) ==
  devices[d] # None /\ devices[d].owned /\ ~devices[d].denied /\ devices[d].expires > time

consumeDevice(r) ==
  /\ pc[r] = "consume"
  /\ IF Consumable(arg[r], at[r])
     THEN /\ devices' = [devices EXCEPT ![arg[r]].expires = 0]
          /\ Goes(r, "consumed")
          /\ UNCHANGED <<fam, spent, reused>>
     ELSE UNCHANGED devices /\ Answers(r)
  /\ UNCHANGED <<now, user, codes, tokens, issued, history>>

\* The consumed row is read again, and its scope and audience are checked.
Consumed(r) ==
  /\ pc[r] = "consumed"
  /\ \/ devices[arg[r]] # None /\ Goes(r, "user") /\ UNCHANGED <<fam, spent, reused>>
     \/ Answers(r)
  /\ UNCHANGED <<now, rows, history>>

decideDevice(r) ==
  /\ pc[r] = "decide"
  /\ LET d == devices[arg[r]]
     IN IF d # None /\ d.expires > at[r] /\ UserAt(at[r])
        THEN /\ \E place \in {"approve", "deny"} : Goes(r, place)
             /\ UNCHANGED <<fam, spent, reused>>
        ELSE Answers(r)
  /\ UNCHANGED <<now, rows, history>>

approveDevice(r) ==
  /\ pc[r] = "approve"
  /\ LET d == devices[arg[r]]
     IN devices' = IF d # None /\ ~d.owned /\ ~d.denied
                   THEN [devices EXCEPT ![arg[r]].owned = TRUE] ELSE devices
  /\ Answers(r)
  /\ UNCHANGED <<now, user, codes, tokens, issued, history>>

denyDevice(r) ==
  /\ pc[r] = "deny"
  /\ devices' = IF devices[arg[r]] = None THEN devices
                ELSE [devices EXCEPT ![arg[r]].denied = TRUE]
  /\ Answers(r)
  /\ UNCHANGED <<now, user, codes, tokens, issued, history>>

-----------------------------------------------------------------------------
(* Sign-in at a provider, the purge, time and failures. *)

\* The account of the provider's e-mail; a linked one needs nothing.  When it
\* has expired its row is dropped and a new user, not of this model, made.
userForFederation(r) ==
  /\ pc[r] = "federate"
  /\ \/ /\ UserAt(at[r]) /\ user = "unverified"
        /\ Goes(r, "lock")
        /\ UNCHANGED <<user, fam, spent, reused>>
     \/ /\ user' = IF UserTtl <= at[r] THEN "gone" ELSE user
        /\ Answers(r)
  /\ UNCHANGED <<now, codes, devices, tokens, issued, history>>

\* The batch that hands an unverified account to the provider's user.
LockAccount(r) ==
  /\ pc[r] = "lock"
  /\ user' = IF user = "gone" THEN user ELSE "verified"
  /\ tokens' = [t \in Tokens |-> None]
  /\ devices' = [d \in Devices |->
       IF devices[d] # None /\ devices[d].owned /\ devices[d].expires > at[r]
       THEN [devices[d] EXCEPT !.denied = TRUE] ELSE devices[d]]
  /\ codes' = [c \in Codes |->
       IF codes[c] # None /\ ~codes[c].used THEN None ELSE codes[c]]
  /\ Answers(r)
  /\ UNCHANGED <<now, issued, history>>

\* purgeExpired(): one batch; what an expired user has goes with its row.
purgeExpired ==
  LET ends == user # "gone" /\ UserTtl < now
  IN /\ codes' = [c \in Codes |->
            IF codes[c] # None /\ (ends \/ codes[c].expires < now) THEN None ELSE codes[c]]
     /\ tokens' = [t \in Tokens |->
            IF tokens[t] # None /\ (ends \/ tokens[t].expires < now) THEN None ELSE tokens[t]]
     /\ devices' = [d \in Devices |->
            IF devices[d] # None /\ devices[d].expires < now THEN None ELSE devices[d]]
     /\ user' = IF ends THEN "gone" ELSE user
     /\ UNCHANGED <<now, issued, pc, at, arg, fam, history, spent, reused>>

\* A request fails, or is cut off, between two statements.
Dies(r) ==
  /\ pc[r] # "idle"
  /\ Rests(r)
  /\ UNCHANGED <<now, rows, history, reused>>

Tick ==
  /\ now < MaxTime
  /\ \A r \in Requests : pc[r] = "idle" \/ now < at[r] + MaxAge
  /\ now' = now + 1
  /\ UNCHANGED <<rows, pc, at, arg, fam, history, spent, reused>>

-----------------------------------------------------------------------------

TokenRequest(r) ==
  \/ claimCode(r) \/ Replayed(r) \/ Claimed(r)
  \/ FindUser(r) \/ issueRefresh(r) \/ attachCodeFamily(r)
  \/ lookupRefresh(r) \/ FindOwner(r) \/ rotateRefreshAtomic(r) \/ revokeFamily(r)
  \/ pollDevice(r) \/ consumeDevice(r) \/ Consumed(r)

PageRequest(r) ==
  \/ decideDevice(r) \/ approveDevice(r) \/ denyDevice(r)
  \/ userForFederation(r) \/ LockAccount(r)

Next ==
  \/ \E c \in Codes : issueAuthCode(c)
  \/ \E d \in Devices : createDeviceGrant(d)
  \/ \E r \in Requests : Arrives(r) \/ TokenRequest(r) \/ PageRequest(r) \/ Dies(r)
  \/ purgeExpired
  \/ Tick

Spec == Init /\ [][Next]_vars

-----------------------------------------------------------------------------
(* What the store promises. *)

\* The type of the state.
TypeOK ==
  /\ now \in Nat /\ user \in {"unverified", "verified", "gone"}
  /\ codes \in [Codes -> Code \cup {None}]
  /\ devices \in [Devices -> Device \cup {None}]
  /\ tokens \in [Tokens -> Token \cup {None}]
  /\ issued \in 0..MaxTokens
  /\ pc \in [Requests -> Places] /\ at \in [Requests -> Nat]
  /\ arg \in [Requests -> Grants \cup Tokens \cup {None}]
  /\ fam \in [Requests -> Tokens \cup {None}]
  /\ known \subseteq Grants /\ root \in [Tokens -> Grants \cup {None}]
  /\ spent \in [Requests -> BOOLEAN] /\ reused \subseteq Tokens

\* However rotations, replays, revocations and purges overlap, a family never
\* has two tokens that can still be rotated (rotateRefreshAtomic).
OneLiveToken ==
  \A t, u \in Tokens :
    Live(t) /\ Live(u) /\ tokens[t].fam = tokens[u].fam => t = u

\* A request that presented a token already rotated away, or a code whose family
\* it found, was answered only after that whole family ended, and the family
\* never comes back ("reuse kills the family").
ReuseEndsFamily ==
  \A t \in Tokens : Live(t) => tokens[t].fam \notin reused

\* The requests that spent a grant and have not started its family.
Owes(r, g) == arg[r] = g /\ pc[r] \in {"claimed", "consumed", "user", "issue"}

Usable(g) ==
  \/ g \in Codes /\ codes[g] # None /\ ~codes[g].used
  \/ g \in Devices /\ devices[g] # None /\ ~devices[g].denied /\ devices[g].expires # 0

Standing(g) ==
  IF g \notin known THEN "fresh"
  ELSE IF \E r \in Requests : Owes(r, g) THEN "owed"
  ELSE IF ~Usable(g) THEN "closed"
  ELSE IF g \in Devices /\ ~devices[g].owned THEN "asked" ELSE "granted"

Alive(f) == \E t \in Tokens : Live(t) /\ tokens[t].fam = f
Life(f) == IF root[f] = None THEN "none" ELSE IF Alive(f) THEN "live" ELSE "dead"

\* Every run is one the grants' promise allows: a code or device code is spent
\* by one request, never after its denial, and starts one family at most; no
\* family that ended is alive again.
Promise == INSTANCE GrantPromise WITH
  Families <- Tokens,
  grant <- [g \in Grants |-> Standing(g)],
  life <- [f \in Tokens |-> Life(f)]
KeepsPromise == Promise!Spec

=============================================================================

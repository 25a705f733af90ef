------------------------- MODULE MelodyGrantsProofs -------------------------
(***************************************************************************)
(* Proofs about MelodyGrants, for any number of grants, requests and       *)
(* tokens: its invariants, and that it keeps GrantPromise.                 *)
(***************************************************************************)
EXTENDS MelodyGrants, TLAPS

-----------------------------------------------------------------------------
(* The inductive invariant. *)

CodePlaces == {"claim", "claimed", "replayed", "attach"}
DevicePlaces == {"poll", "consume", "consumed", "decide", "approve", "deny"}
TokenPlaces == {"lookup", "end", "owner", "rotate"}

\* What a request was sent fits the place it is at.
Remembers ==
  \A r \in Requests :
    /\ pc[r] \in CodePlaces => arg[r] \in Codes
    /\ pc[r] \in DevicePlaces => arg[r] \in Devices
    /\ pc[r] \in {"user", "issue"} => arg[r] \in Grants
    /\ pc[r] \in TokenPlaces => arg[r] \in Tokens /\ arg[r] <= issued

\* Every family a row or a request names was started; numbers are never reused.
FamiliesBegun ==
  /\ \A t \in Tokens : root[t] # None \/ tokens[t] # None => t <= issued
  /\ \A t \in Tokens : tokens[t] # None => root[tokens[t].fam] # None
  /\ \A c \in Codes : codes[c] # None /\ codes[c].fam # None => root[codes[c].fam] # None
  /\ \A r \in Requests : fam[r] # None => root[fam[r]] # None
  /\ \A f \in reused : root[f] # None

\* What a request knows of the token it read.
Knows(r) ==
  /\ pc[r] \in {"owner", "rotate", "revoke", "attach"} => fam[r] # None
  /\ spent[r] => pc[r] \in {"owner", "rotate", "revoke"}
  /\ pc[r] \in {"owner", "rotate"} /\ tokens[arg[r]] # None =>
       /\ tokens[arg[r]].fam = fam[r]
       /\ spent[r] => tokens[arg[r]].revoked
KnowsToken == \A r \in Requests : Knows(r)

\* A grant one request owes a family for is spent, and no other request owes one.
OwedOnce ==
  /\ \A g \in Grants : Usable(g) => g \in known
  /\ \A r \in Requests, g \in Grants :
       Owes(r, g) => /\ g \in known /\ ~Usable(g)
                     /\ \A q \in Requests : Owes(q, g) => q = r

IInv == TypeOK /\ Remembers /\ FamiliesBegun /\ KnowsToken /\ OwedOnce
          /\ OneLiveToken /\ ReuseEndsFamily

-----------------------------------------------------------------------------
(* Type correctness. *)

LEMMA Kinds ==
  /\ None \notin Codes /\ None \notin Devices /\ None \notin Tokens
  /\ \A c \in Codes : c \notin Devices /\ c \notin Tokens
  /\ \A d \in Devices : d \notin Tokens
  /\ MaxTokens \in Nat /\ Tokens \subseteq Nat
  /\ CodeTtl \in Nat \ {0} /\ DeviceTtl \in Nat \ {0} /\ RefreshTtl \in Nat \ {0}
  BY MelodyConstants DEF Tokens

\* The two halves of the type: the rows, and the requests with what they remember.
RowsFit ==
  /\ now \in Nat /\ user \in {"unverified", "verified", "gone"}
  /\ codes \in [Codes -> Code \cup {None}]
  /\ devices \in [Devices -> Device \cup {None}]
  /\ tokens \in [Tokens -> Token \cup {None}]
  /\ issued \in 0..MaxTokens
  /\ known \subseteq Grants /\ root \in [Tokens -> Grants \cup {None}]
RequestsFit ==
  /\ pc \in [Requests -> Places] /\ at \in [Requests -> Nat]
  /\ arg \in [Requests -> Grants \cup Tokens \cup {None}]
  /\ fam \in [Requests -> Tokens \cup {None}]
  /\ spent \in [Requests -> BOOLEAN] /\ reused \subseteq Tokens
  /\ Remembers

LEMMA Halves == TypeOK /\ Remembers <=> RowsFit /\ RequestsFit
  BY DEF TypeOK, RowsFit, RequestsFit

\* What a request at a place must have been sent.
Suits(place, x) ==
  /\ place \in Places
  /\ place \in CodePlaces => x \in Codes
  /\ place \in DevicePlaces => x \in Devices
  /\ place \in {"user", "issue"} => x \in Grants
  /\ place \in TokenPlaces => x \in Tokens /\ x <= issued

LEMMA GoesFits ==
  ASSUME RowsFit, RowsFit', RequestsFit, issued <= issued', NEW r \in Requests, NEW place, Goes(r, place),
         Suits(place, arg[r]),
         fam' \in [Requests -> Tokens \cup {None}], spent' \in [Requests -> BOOLEAN],
         reused' = reused
  PROVE  RequestsFit'
  <1>1. pc' \in [Requests -> Places] /\ at' = at /\ arg' = arg
    BY DEF Goes, RequestsFit, Suits
  <1>2. \A q \in Requests : q # r => pc'[q] = pc[q]
    BY DEF Goes, RequestsFit
  <1>3. pc'[r] = place
    BY DEF Goes, RequestsFit
  <1>4. \A x \in Tokens : x <= issued => x <= issued'
    BY Kinds DEF RowsFit, Tokens
  <1>5. Remembers'
    <2> SUFFICES ASSUME NEW q \in Requests
                 PROVE  /\ pc'[q] \in CodePlaces => arg[q] \in Codes
                        /\ pc'[q] \in DevicePlaces => arg[q] \in Devices
                        /\ pc'[q] \in {"user", "issue"} => arg[q] \in Grants
                        /\ pc'[q] \in TokenPlaces => arg[q] \in Tokens /\ arg[q] <= issued'
      BY <1>1 DEF Remembers
    <2>1. CASE q = r
      BY <1>3, <1>4, <2>1 DEF Suits
    <2>2. CASE q # r
      BY <1>2, <1>4, <2>2 DEF RequestsFit, Remembers
    <2> QED BY <2>1, <2>2
  <1> QED BY <1>1, <1>5 DEF RequestsFit

LEMMA RestsFits ==
  ASSUME RowsFit, RowsFit', RequestsFit, issued <= issued', NEW r \in Requests, Rests(r), reused' \subseteq Tokens
  PROVE  RequestsFit'
  <1>1. /\ pc' \in [Requests -> Places] /\ at' \in [Requests -> Nat]
        /\ arg' \in [Requests -> Grants \cup Tokens \cup {None}]
        /\ fam' \in [Requests -> Tokens \cup {None}]
        /\ spent' \in [Requests -> BOOLEAN]
    BY DEF Rests, RequestsFit, Places
  <1>2. pc'[r] = "idle" /\ \A q \in Requests : q # r => pc'[q] = pc[q] /\ arg'[q] = arg[q]
    BY DEF Rests, RequestsFit
  <1>3. \A x \in Tokens : x <= issued => x <= issued'
    BY Kinds DEF RowsFit, Tokens
  <1>4. Remembers'
    <2> SUFFICES ASSUME NEW q \in Requests
                 PROVE  /\ pc'[q] \in CodePlaces => arg'[q] \in Codes
                        /\ pc'[q] \in DevicePlaces => arg'[q] \in Devices
                        /\ pc'[q] \in {"user", "issue"} => arg'[q] \in Grants
                        /\ pc'[q] \in TokenPlaces => arg'[q] \in Tokens /\ arg'[q] <= issued'
      BY DEF Remembers
    <2>1. CASE q = r
      BY <1>2, <2>1 DEF CodePlaces, DevicePlaces, TokenPlaces
    <2>2. CASE q # r
      BY <1>2, <1>3, <2>2 DEF RequestsFit, Remembers
    <2> QED BY <2>1, <2>2
  <1> QED BY <1>1, <1>4 DEF RequestsFit

LEMMA AnswersFits ==
  ASSUME RowsFit, RowsFit', RequestsFit, issued <= issued', NEW r \in Requests, Answers(r),
         spent[r] => fam[r] \in Tokens
  PROVE  RequestsFit'
  <1>1. reused' \subseteq Tokens
    BY DEF Answers, RequestsFit
  <1> QED BY <1>1, RestsFits DEF Answers

LEMMA SameRows ==
  ASSUME RowsFit, UNCHANGED <<now, rows, history>>
  PROVE  RowsFit' /\ issued <= issued'
  <1>1. issued \in Int
    BY Kinds DEF RowsFit
  <1> QED BY <1>1 DEF RowsFit, rows, history

LEMMA Remembered ==
  ASSUME RowsFit, RequestsFit, KnowsToken, NEW r \in Requests
  PROVE  /\ spent[r] => fam[r] \in Tokens
         /\ pc[r] \in {"owner", "rotate", "revoke", "attach"} => fam[r] \in Tokens
         /\ pc[r] \in CodePlaces => arg[r] \in Codes
         /\ pc[r] \in DevicePlaces => arg[r] \in Devices
         /\ pc[r] \in {"user", "issue"} => arg[r] \in Grants
         /\ pc[r] \in TokenPlaces => arg[r] \in Tokens /\ arg[r] <= issued
         /\ at[r] \in Nat
  BY DEF RequestsFit, KnowsToken, Knows, Remembers

LEMMA RowSet ==
  ASSUME NEW S, NEW V, NEW f \in [S -> V], NEW s \in S, NEW v \in V
  PROVE  [f EXCEPT ![s] = v] \in [S -> V]
  OBVIOUS

LEMMA RowFacts ==
  /\ \A row \in Code : [row EXCEPT !.used = TRUE] \in Code
  /\ \A row \in Code, f \in Tokens : [row EXCEPT !.fam = f] \in Code
  /\ \A row \in Device : [row EXCEPT !.owned = TRUE] \in Device
  /\ \A row \in Device : [row EXCEPT !.denied = TRUE] \in Device
  /\ \A row \in Device : [row EXCEPT !.expires = 0] \in Device
  /\ \A row \in Token : [row EXCEPT !.revoked = TRUE] \in Token
  /\ \A f \in Tokens, time \in Nat : NewToken(f, time) \in Token
  <1>1. \A row \in Code : [row EXCEPT !.used = TRUE] \in Code
    BY DEF Code
  <1>2. \A row \in Code, f \in Tokens : [row EXCEPT !.fam = f] \in Code
    BY DEF Code
  <1>3. /\ \A row \in Device : [row EXCEPT !.owned = TRUE] \in Device
        /\ \A row \in Device : [row EXCEPT !.denied = TRUE] \in Device
        /\ \A row \in Device : [row EXCEPT !.expires = 0] \in Device
    BY DEF Device
  <1>4. \A row \in Token : [row EXCEPT !.revoked = TRUE] \in Token
    BY DEF Token
  <1>5. \A f \in Tokens, time \in Nat : NewToken(f, time) \in Token
    BY Kinds DEF Token, NewToken
  <1> QED BY <1>1, <1>2, <1>3, <1>4, <1>5

(* One request's step keeps the types. *)

LEMMA claimCodeFits ==
  ASSUME RowsFit, RequestsFit, KnowsToken, NEW r \in Requests, claimCode(r)
  PROVE  RowsFit' /\ RequestsFit'
  <1> USE DEF claimCode
  <1>1. RowsFit' /\ issued <= issued'
    <2>1. CASE Claimable(arg[r], at[r])
      <3>1. codes[arg[r]] \in Code /\ arg[r] \in DOMAIN codes
        BY <2>1, Remembered DEF RowsFit, CodePlaces, DevicePlaces, TokenPlaces, Claimable
      <3>2. [codes[arg[r]] EXCEPT !.used = TRUE] \in Code
        BY <3>1, RowFacts, Remembered
      <3>3. [codes EXCEPT ![arg[r]] = [codes[arg[r]] EXCEPT !.used = TRUE]] \in [DOMAIN codes -> Code \cup {None}]
        BY <3>1, <3>2, RowSet DEF RowsFit
      <3>4. codes' = [codes EXCEPT ![arg[r]] = [codes[arg[r]] EXCEPT !.used = TRUE]]
        BY <2>1
      <3> QED BY <3>3, <3>4, Kinds DEF RowsFit, rows, history
    <2>2. CASE ~(Claimable(arg[r], at[r]))
      BY <2>2, SameRows DEF rows
    <2> QED BY <2>1, <2>2
  <1>2. ASSUME NEW place \in {"claimed", "replayed"}
        PROVE  Suits(place, arg[r])
    BY Remembered DEF Suits, Places, CodePlaces, DevicePlaces, TokenPlaces, Grants
  <1>3. CASE Answers(r)
    BY <1>1, <1>3, AnswersFits, Remembered
  <1>4. CASE \E place \in {"claimed", "replayed"} : Goes(r, place) /\ ~Answers(r)
    <2>1. PICK place \in {"claimed", "replayed"} : Goes(r, place) /\ ~Answers(r)
      BY <1>4
    <2>2. /\ fam' \in [Requests -> Tokens \cup {None}] /\ spent' \in [Requests -> BOOLEAN]
          /\ reused' = reused
      BY <2>1 DEF RequestsFit
    <2> QED BY <1>1, <1>2, <2>1, <2>2, GoesFits
  <1> QED BY <1>1, <1>3, <1>4

LEMMA ReplayedFits ==
  ASSUME RowsFit, RequestsFit, KnowsToken, NEW r \in Requests, Replayed(r)
  PROVE  RowsFit' /\ RequestsFit'
  <1> USE DEF Replayed
  <1>1. RowsFit' /\ issued <= issued'
    BY SameRows
  <1>2. ASSUME NEW place \in {"revoke"}
        PROVE  Suits(place, arg[r])
    BY Remembered DEF Suits, Places, CodePlaces, DevicePlaces, TokenPlaces, Grants
  <1>3. CASE Answers(r)
    BY <1>1, <1>3, AnswersFits, Remembered
  <1>4. CASE \E place \in {"revoke"} : Goes(r, place) /\ ~Answers(r)
    <2>1. PICK place \in {"revoke"} : Goes(r, place) /\ ~Answers(r)
      BY <1>4
    <2>2. /\ fam' \in [Requests -> Tokens \cup {None}] /\ spent' \in [Requests -> BOOLEAN]
          /\ reused' = reused
      <3>1. codes[arg[r]] \in Code \cup {None}
        BY Remembered DEF RowsFit, CodePlaces
      <3>2. codes[arg[r]] # None => codes[arg[r]].fam \in Tokens \cup {None}
        BY <3>1 DEF Code
      <3> QED BY <2>1, <3>2 DEF RequestsFit
    <2> QED BY <1>1, <1>2, <2>1, <2>2, GoesFits
  <1> QED BY <1>1, <1>3, <1>4

LEMMA ClaimedFits ==
  ASSUME RowsFit, RequestsFit, KnowsToken, NEW r \in Requests, Claimed(r)
  PROVE  RowsFit' /\ RequestsFit'
  <1> USE DEF Claimed
  <1>1. RowsFit' /\ issued <= issued'
    BY SameRows
  <1>2. ASSUME NEW place \in {"user"}
        PROVE  Suits(place, arg[r])
    BY Remembered DEF Suits, Places, CodePlaces, DevicePlaces, TokenPlaces, Grants
  <1>3. CASE Answers(r)
    BY <1>1, <1>3, AnswersFits, Remembered
  <1>4. CASE \E place \in {"user"} : Goes(r, place) /\ ~Answers(r)
    <2>1. PICK place \in {"user"} : Goes(r, place) /\ ~Answers(r)
      BY <1>4
    <2>2. /\ fam' \in [Requests -> Tokens \cup {None}] /\ spent' \in [Requests -> BOOLEAN]
          /\ reused' = reused
      BY <2>1 DEF RequestsFit
    <2> QED BY <1>1, <1>2, <2>1, <2>2, GoesFits
  <1> QED BY <1>1, <1>3, <1>4

LEMMA FindUserFits ==
  ASSUME RowsFit, RequestsFit, KnowsToken, NEW r \in Requests, FindUser(r)
  PROVE  RowsFit' /\ RequestsFit'
  <1> USE DEF FindUser
  <1>1. RowsFit' /\ issued <= issued'
    BY SameRows
  <1>2. ASSUME NEW place \in {"issue"}
        PROVE  Suits(place, arg[r])
    BY Remembered DEF Suits, Places, CodePlaces, DevicePlaces, TokenPlaces, Grants
  <1>3. CASE Answers(r)
    BY <1>1, <1>3, AnswersFits, Remembered
  <1>4. CASE \E place \in {"issue"} : Goes(r, place) /\ ~Answers(r)
    <2>1. PICK place \in {"issue"} : Goes(r, place) /\ ~Answers(r)
      BY <1>4
    <2>2. /\ fam' \in [Requests -> Tokens \cup {None}] /\ spent' \in [Requests -> BOOLEAN]
          /\ reused' = reused
      BY <2>1 DEF RequestsFit
    <2> QED BY <1>1, <1>2, <2>1, <2>2, GoesFits
  <1> QED BY <1>1, <1>3, <1>4

LEMMA issueRefreshFits ==
  ASSUME RowsFit, RequestsFit, KnowsToken, NEW r \in Requests, issueRefresh(r)
  PROVE  RowsFit' /\ RequestsFit'
  <1> USE DEF issueRefresh
  <1>1. RowsFit' /\ issued <= issued' /\ issued + 1 \in Tokens
    <2>1. issued + 1 \in Tokens /\ issued \in Int
      BY Kinds DEF RowsFit, Tokens
    <2>2. NewToken(issued + 1, at[r]) \in Token
      BY <2>1, RowFacts, Remembered
    <2>3. tokens' \in [Tokens -> Token \cup {None}]
      BY <2>1, <2>2, RowSet DEF RowsFit
    <2>4. root' \in [Tokens -> Grants \cup {None}]
      BY <2>1, Remembered DEF RowsFit
    <2> QED BY <2>1, <2>3, <2>4, Kinds DEF RowsFit, Tokens
  <1>2. ASSUME NEW place \in {"attach"}, arg[r] \in Codes
        PROVE  Suits(place, arg[r])
    BY <1>2, Remembered DEF Suits, Places, CodePlaces, DevicePlaces, TokenPlaces, Grants
  <1>3. CASE Answers(r)
    BY <1>1, <1>3, AnswersFits, Remembered
  <1>4. CASE \E place \in {"attach"} : Goes(r, place) /\ ~Answers(r)
    <2>1. PICK place \in {"attach"} : Goes(r, place) /\ ~Answers(r)
      BY <1>4
    <2>2. /\ fam' \in [Requests -> Tokens \cup {None}] /\ spent' \in [Requests -> BOOLEAN]
          /\ reused' = reused
      BY <1>1, <2>1 DEF RequestsFit
    <2> QED BY <1>1, <1>2, <2>1, <2>2, GoesFits
  <1> QED BY <1>1, <1>3, <1>4

LEMMA attachCodeFamilyFits ==
  ASSUME RowsFit, RequestsFit, KnowsToken, NEW r \in Requests, attachCodeFamily(r)
  PROVE  RowsFit' /\ RequestsFit'
  <1> USE DEF attachCodeFamily
  <1>1. RowsFit' /\ issued <= issued'
    <2>1. CASE codes[arg[r]] # None
      <3>1. codes[arg[r]] \in Code /\ arg[r] \in Codes /\ fam[r] \in Tokens
        BY <2>1, Remembered DEF RowsFit, CodePlaces
      <3>2. [codes[arg[r]] EXCEPT !.fam = fam[r]] \in Code
        BY <3>1, RowFacts
      <3>3. [codes EXCEPT ![arg[r]] = [codes[arg[r]] EXCEPT !.fam = fam[r]]] \in [Codes -> Code \cup {None}]
        BY <3>1, <3>2, RowSet DEF RowsFit
      <3>4. codes' = [codes EXCEPT ![arg[r]] = [codes[arg[r]] EXCEPT !.fam = fam[r]]]
        BY <2>1
      <3> QED BY <3>3, <3>4, Kinds DEF RowsFit, history
    <2>2. CASE codes[arg[r]] = None
      BY <2>2, SameRows DEF rows
    <2> QED BY <2>1, <2>2
  <1> QED BY <1>1, AnswersFits, Remembered

LEMMA lookupRefreshFits ==
  ASSUME RowsFit, RequestsFit, KnowsToken, NEW r \in Requests, lookupRefresh(r)
  PROVE  RowsFit' /\ RequestsFit'
  <1> USE DEF lookupRefresh
  <1>1. RowsFit' /\ issued <= issued'
    BY SameRows
  <1>2. ASSUME NEW place \in {"revoke", "owner"}
        PROVE  Suits(place, arg[r])
    BY Remembered DEF Suits, Places, CodePlaces, DevicePlaces, TokenPlaces, Grants
  <1>3. CASE Answers(r)
    BY <1>1, <1>3, AnswersFits, Remembered
  <1>4. CASE \E place \in {"revoke", "owner"} : Goes(r, place) /\ ~Answers(r)
    <2>1. PICK place \in {"revoke", "owner"} : Goes(r, place) /\ ~Answers(r)
      BY <1>4
    <2>2. /\ fam' \in [Requests -> Tokens \cup {None}] /\ spent' \in [Requests -> BOOLEAN]
          /\ reused' = reused
      <3>1. tokens[arg[r]] \in Token \cup {None}
        BY Remembered DEF RowsFit, TokenPlaces
      <3>2. tokens[arg[r]] # None =>
              /\ tokens[arg[r]].fam \in Tokens
              /\ (pc[r] = "lookup" /\ tokens[arg[r]].revoked) \in BOOLEAN
        BY <3>1 DEF Token
      <3> QED BY <2>1, <3>2 DEF RequestsFit
    <2> QED BY <1>1, <1>2, <2>1, <2>2, GoesFits
  <1> QED BY <1>1, <1>3, <1>4

LEMMA FindOwnerFits ==
  ASSUME RowsFit, RequestsFit, KnowsToken, NEW r \in Requests, FindOwner(r)
  PROVE  RowsFit' /\ RequestsFit'
  <1> USE DEF FindOwner
  <1>1. RowsFit' /\ issued <= issued'
    BY SameRows
  <1>2. ASSUME NEW place \in {"rotate", "revoke"}
        PROVE  Suits(place, arg[r])
    BY Remembered DEF Suits, Places, CodePlaces, DevicePlaces, TokenPlaces, Grants
  <1>3. CASE Answers(r)
    BY <1>1, <1>3, AnswersFits, Remembered
  <1>4. CASE \E place \in {"rotate", "revoke"} : Goes(r, place) /\ ~Answers(r)
    <2>1. PICK place \in {"rotate", "revoke"} : Goes(r, place) /\ ~Answers(r)
      BY <1>4
    <2>2. /\ fam' \in [Requests -> Tokens \cup {None}] /\ spent' \in [Requests -> BOOLEAN]
          /\ reused' = reused
      BY <2>1 DEF RequestsFit
    <2> QED BY <1>1, <1>2, <2>1, <2>2, GoesFits
  <1> QED BY <1>1, <1>3, <1>4

LEMMA rotateRefreshFits ==
  ASSUME RowsFit, RequestsFit, KnowsToken, NEW r \in Requests, rotateRefreshAtomic(r)
  PROVE  RowsFit' /\ RequestsFit'
  <1> USE DEF rotateRefreshAtomic
  <1>1. RowsFit' /\ issued <= issued'
    <2>1. CASE Rotatable(arg[r], at[r])
      <3>1. tokens[arg[r]] \in Token /\ arg[r] \in Tokens /\ fam[r] \in Tokens
        BY <2>1, Remembered DEF RowsFit, TokenPlaces, Rotatable, Live
      <3>2. issued + 1 \in Tokens /\ issued \in Int
        BY <2>1, Kinds DEF RowsFit, Tokens
      <3>3. /\ [tokens[arg[r]] EXCEPT !.revoked = TRUE] \in Token
            /\ NewToken(fam[r], at[r]) \in Token
        BY <3>1, RowFacts, Remembered
      <3>4. [tokens EXCEPT ![arg[r]] = [tokens[arg[r]] EXCEPT !.revoked = TRUE]] \in [Tokens -> Token \cup {None}]
        BY <3>1, <3>3, RowSet DEF RowsFit
      <3>5. tokens' \in [Tokens -> Token \cup {None}]
        BY <2>1, <3>2, <3>3, <3>4, RowSet
      <3> QED BY <2>1, <3>2, <3>5, Kinds DEF RowsFit, Tokens, history
    <2>2. CASE ~Rotatable(arg[r], at[r])
      BY <2>2, SameRows DEF rows
    <2> QED BY <2>1, <2>2
  <1>2. ASSUME NEW place \in {"revoke"}
        PROVE  Suits(place, arg[r])
    BY Remembered DEF Suits, Places, CodePlaces, DevicePlaces, TokenPlaces, Grants
  <1>3. CASE Answers(r)
    BY <1>1, <1>3, AnswersFits, Remembered
  <1>4. CASE \E place \in {"revoke"} : Goes(r, place) /\ ~Answers(r)
    <2>1. PICK place \in {"revoke"} : Goes(r, place) /\ ~Answers(r)
      BY <1>4
    <2>2. /\ fam' \in [Requests -> Tokens \cup {None}] /\ spent' \in [Requests -> BOOLEAN]
          /\ reused' = reused
      BY <2>1 DEF RequestsFit
    <2> QED BY <1>1, <1>2, <2>1, <2>2, GoesFits
  <1> QED BY <1>1, <1>3, <1>4

LEMMA revokeFamilyFits ==
  ASSUME RowsFit, RequestsFit, KnowsToken, NEW r \in Requests, revokeFamily(r)
  PROVE  RowsFit' /\ RequestsFit'
  <1> USE DEF revokeFamily
  <1>1. RowsFit' /\ issued <= issued'
    <2>1. \A t \in Tokens : tokens[t] # None => [tokens[t] EXCEPT !.revoked = TRUE] \in Token
      BY RowFacts DEF RowsFit
    <2>2. tokens' \in [Tokens -> Token \cup {None}]
      BY <2>1 DEF RowsFit
    <2> QED BY <2>2, Kinds DEF RowsFit, history
  <1> QED BY <1>1, AnswersFits, Remembered

LEMMA pollDeviceFits ==
  ASSUME RowsFit, RequestsFit, KnowsToken, NEW r \in Requests, pollDevice(r)
  PROVE  RowsFit' /\ RequestsFit'
  <1> USE DEF pollDevice
  <1>1. RowsFit' /\ issued <= issued'
    BY SameRows
  <1>2. ASSUME NEW place \in {"consume"}
        PROVE  Suits(place, arg[r])
    BY Remembered DEF Suits, Places, CodePlaces, DevicePlaces, TokenPlaces, Grants
  <1>3. CASE Answers(r)
    BY <1>1, <1>3, AnswersFits, Remembered
  <1>4. CASE \E place \in {"consume"} : Goes(r, place) /\ ~Answers(r)
    <2>1. PICK place \in {"consume"} : Goes(r, place) /\ ~Answers(r)
      BY <1>4
    <2>2. /\ fam' \in [Requests -> Tokens \cup {None}] /\ spent' \in [Requests -> BOOLEAN]
          /\ reused' = reused
      BY <2>1 DEF RequestsFit
    <2> QED BY <1>1, <1>2, <2>1, <2>2, GoesFits
  <1> QED BY <1>1, <1>3, <1>4

LEMMA consumeDeviceFits ==
  ASSUME RowsFit, RequestsFit, KnowsToken, NEW r \in Requests, consumeDevice(r)
  PROVE  RowsFit' /\ RequestsFit'
  <1> USE DEF consumeDevice
  <1>1. RowsFit' /\ issued <= issued'
    <2>1. CASE Consumable(arg[r], at[r])
      <3>1. devices[arg[r]] \in Device /\ arg[r] \in DOMAIN devices
        BY <2>1, Remembered DEF RowsFit, CodePlaces, DevicePlaces, TokenPlaces, Consumable
      <3>2. [devices[arg[r]] EXCEPT !.expires = 0] \in Device
        BY <3>1, RowFacts, Remembered
      <3>3. [devices EXCEPT ![arg[r]] = [devices[arg[r]] EXCEPT !.expires = 0]] \in [DOMAIN devices -> Device \cup {None}]
        BY <3>1, <3>2, RowSet DEF RowsFit
      <3>4. devices' = [devices EXCEPT ![arg[r]] = [devices[arg[r]] EXCEPT !.expires = 0]]
        BY <2>1
      <3> QED BY <3>3, <3>4, Kinds DEF RowsFit, rows, history
    <2>2. CASE ~(Consumable(arg[r], at[r]))
      BY <2>2, SameRows DEF rows
    <2> QED BY <2>1, <2>2
  <1>2. ASSUME NEW place \in {"consumed"}
        PROVE  Suits(place, arg[r])
    BY Remembered DEF Suits, Places, CodePlaces, DevicePlaces, TokenPlaces, Grants
  <1>3. CASE Answers(r)
    BY <1>1, <1>3, AnswersFits, Remembered
  <1>4. CASE \E place \in {"consumed"} : Goes(r, place) /\ ~Answers(r)
    <2>1. PICK place \in {"consumed"} : Goes(r, place) /\ ~Answers(r)
      BY <1>4
    <2>2. /\ fam' \in [Requests -> Tokens \cup {None}] /\ spent' \in [Requests -> BOOLEAN]
          /\ reused' = reused
      BY <2>1 DEF RequestsFit
    <2> QED BY <1>1, <1>2, <2>1, <2>2, GoesFits
  <1> QED BY <1>1, <1>3, <1>4

LEMMA ConsumedFits ==
  ASSUME RowsFit, RequestsFit, KnowsToken, NEW r \in Requests, Consumed(r)
  PROVE  RowsFit' /\ RequestsFit'
  <1> USE DEF Consumed
  <1>1. RowsFit' /\ issued <= issued'
    BY SameRows
  <1>2. ASSUME NEW place \in {"user"}
        PROVE  Suits(place, arg[r])
    BY Remembered DEF Suits, Places, CodePlaces, DevicePlaces, TokenPlaces, Grants
  <1>3. CASE Answers(r)
    BY <1>1, <1>3, AnswersFits, Remembered
  <1>4. CASE \E place \in {"user"} : Goes(r, place) /\ ~Answers(r)
    <2>1. PICK place \in {"user"} : Goes(r, place) /\ ~Answers(r)
      BY <1>4
    <2>2. /\ fam' \in [Requests -> Tokens \cup {None}] /\ spent' \in [Requests -> BOOLEAN]
          /\ reused' = reused
      BY <2>1 DEF RequestsFit
    <2> QED BY <1>1, <1>2, <2>1, <2>2, GoesFits
  <1> QED BY <1>1, <1>3, <1>4

LEMMA decideDeviceFits ==
  ASSUME RowsFit, RequestsFit, KnowsToken, NEW r \in Requests, decideDevice(r)
  PROVE  RowsFit' /\ RequestsFit'
  <1> USE DEF decideDevice
  <1>1. RowsFit' /\ issued <= issued'
    BY SameRows
  <1>2. ASSUME NEW place \in {"approve", "deny"}
        PROVE  Suits(place, arg[r])
    BY Remembered DEF Suits, Places, CodePlaces, DevicePlaces, TokenPlaces, Grants
  <1>3. CASE Answers(r)
    BY <1>1, <1>3, AnswersFits, Remembered
  <1>4. CASE \E place \in {"approve", "deny"} : Goes(r, place) /\ ~Answers(r)
    <2>1. PICK place \in {"approve", "deny"} : Goes(r, place) /\ ~Answers(r)
      BY <1>4
    <2>2. /\ fam' \in [Requests -> Tokens \cup {None}] /\ spent' \in [Requests -> BOOLEAN]
          /\ reused' = reused
      BY <2>1 DEF RequestsFit
    <2> QED BY <1>1, <1>2, <2>1, <2>2, GoesFits
  <1> QED BY <1>1, <1>3, <1>4

LEMMA approveDeviceFits ==
  ASSUME RowsFit, RequestsFit, KnowsToken, NEW r \in Requests, approveDevice(r)
  PROVE  RowsFit' /\ RequestsFit'
  <1> USE DEF approveDevice
  <1>1. RowsFit' /\ issued <= issued'
    <2>1. CASE devices[arg[r]] # None /\ ~devices[arg[r]].owned /\ ~devices[arg[r]].denied
      <3>1. devices[arg[r]] \in Device /\ arg[r] \in DOMAIN devices
        BY <2>1, Remembered DEF RowsFit, CodePlaces, DevicePlaces, TokenPlaces
      <3>2. [devices[arg[r]] EXCEPT !.owned = TRUE] \in Device
        BY <3>1, RowFacts, Remembered
      <3>3. [devices EXCEPT ![arg[r]] = [devices[arg[r]] EXCEPT !.owned = TRUE]] \in [DOMAIN devices -> Device \cup {None}]
        BY <3>1, <3>2, RowSet DEF RowsFit
      <3>4. devices' = [devices EXCEPT ![arg[r]] = [devices[arg[r]] EXCEPT !.owned = TRUE]]
        BY <2>1
      <3> QED BY <3>3, <3>4, Kinds DEF RowsFit, rows, history
    <2>2. CASE ~(devices[arg[r]] # None /\ ~devices[arg[r]].owned /\ ~devices[arg[r]].denied)
      BY <2>2, SameRows DEF rows
    <2> QED BY <2>1, <2>2
  <1> QED BY <1>1, AnswersFits, Remembered

LEMMA denyDeviceFits ==
  ASSUME RowsFit, RequestsFit, KnowsToken, NEW r \in Requests, denyDevice(r)
  PROVE  RowsFit' /\ RequestsFit'
  <1> USE DEF denyDevice
  <1>1. RowsFit' /\ issued <= issued'
    <2>1. CASE devices[arg[r]] # None
      <3>1. devices[arg[r]] \in Device /\ arg[r] \in DOMAIN devices
        BY <2>1, Remembered DEF RowsFit, CodePlaces, DevicePlaces, TokenPlaces
      <3>2. [devices[arg[r]] EXCEPT !.denied = TRUE] \in Device
        BY <3>1, RowFacts, Remembered
      <3>3. [devices EXCEPT ![arg[r]] = [devices[arg[r]] EXCEPT !.denied = TRUE]] \in [DOMAIN devices -> Device \cup {None}]
        BY <3>1, <3>2, RowSet DEF RowsFit
      <3>4. devices' = [devices EXCEPT ![arg[r]] = [devices[arg[r]] EXCEPT !.denied = TRUE]]
        BY <2>1
      <3> QED BY <3>3, <3>4, Kinds DEF RowsFit, rows, history
    <2>2. CASE ~(devices[arg[r]] # None)
      BY <2>2, SameRows DEF rows
    <2> QED BY <2>1, <2>2
  <1> QED BY <1>1, AnswersFits, Remembered

LEMMA userForFederationFits ==
  ASSUME RowsFit, RequestsFit, KnowsToken, NEW r \in Requests, userForFederation(r)
  PROVE  RowsFit' /\ RequestsFit'
  <1> USE DEF userForFederation
  <1>1. RowsFit' /\ issued <= issued'
    BY Kinds DEF RowsFit, history
  <1>2. ASSUME NEW place \in {"lock"}
        PROVE  Suits(place, arg[r])
    BY Remembered DEF Suits, Places, CodePlaces, DevicePlaces, TokenPlaces, Grants
  <1>3. CASE Answers(r)
    BY <1>1, <1>3, AnswersFits, Remembered
  <1>4. CASE \E place \in {"lock"} : Goes(r, place) /\ ~Answers(r)
    <2>1. PICK place \in {"lock"} : Goes(r, place) /\ ~Answers(r)
      BY <1>4
    <2>2. /\ fam' \in [Requests -> Tokens \cup {None}] /\ spent' \in [Requests -> BOOLEAN]
          /\ reused' = reused
      BY <2>1 DEF RequestsFit
    <2> QED BY <1>1, <1>2, <2>1, <2>2, GoesFits
  <1> QED BY <1>1, <1>3, <1>4

LEMMA LockAccountFits ==
  ASSUME RowsFit, RequestsFit, KnowsToken, NEW r \in Requests, LockAccount(r)
  PROVE  RowsFit' /\ RequestsFit'
  <1> USE DEF LockAccount
  <1>1. RowsFit' /\ issued <= issued'
    <2>1. \A d \in Devices : devices[d] # None => [devices[d] EXCEPT !.denied = TRUE] \in Device
      BY RowFacts DEF RowsFit
    <2>2. /\ devices' \in [Devices -> Device \cup {None}]
          /\ codes' \in [Codes -> Code \cup {None}]
          /\ tokens' \in [Tokens -> Token \cup {None}]
      BY <2>1 DEF RowsFit
    <2> QED BY <2>2, Kinds DEF RowsFit, history
  <1> QED BY <1>1, AnswersFits, Remembered

LEMMA ArrivesFits ==
  ASSUME RowsFit, RequestsFit, NEW r \in Requests, Arrives(r)
  PROVE  RowsFit' /\ RequestsFit'
  <1>1. RowsFit' /\ issued <= issued'
    BY Kinds DEF Arrives, Begins, RowsFit, rows, history
  <1>2. PICK place \in Places, x \in Grants \cup Tokens \cup {None} :
          /\ Begins(r, place, x)
          /\ place \in CodePlaces => x \in Codes
          /\ place \in DevicePlaces => x \in Devices
          /\ place \notin {"user", "issue"}
          /\ place \in TokenPlaces => x \in Tokens /\ x <= issued
    BY Kinds DEF Arrives, Places, CodePlaces, DevicePlaces, TokenPlaces, Grants, RowsFit, Tokens
  <1>3. /\ pc' \in [Requests -> Places] /\ at' \in [Requests -> Nat]
        /\ arg' \in [Requests -> Grants \cup Tokens \cup {None}]
        /\ fam' = fam /\ spent' = spent /\ reused' = reused /\ issued' = issued
    BY <1>2 DEF Begins, RequestsFit, RowsFit, rows
  <1>4. Remembers'
    <2>1. pc'[r] = place /\ arg'[r] = x /\ \A q \in Requests : q # r => pc'[q] = pc[q] /\ arg'[q] = arg[q]
      BY <1>2 DEF Begins, RequestsFit
    <2> QED BY <1>2, <1>3, <2>1 DEF Remembers, RequestsFit
  <1> QED BY <1>1, <1>3, <1>4 DEF RequestsFit

LEMMA QuietFits ==
  ASSUME RowsFit, RequestsFit, UNCHANGED <<pc, at, arg, fam, spent, reused, issued>>
  PROVE  RequestsFit'
  BY DEF RequestsFit, Remembers

LEMMA GrantsFit ==
  ASSUME RowsFit, RequestsFit,
         \/ \E c \in Codes : issueAuthCode(c)
         \/ \E d \in Devices : createDeviceGrant(d)
  PROVE  RowsFit' /\ RequestsFit'
  <1>1. ASSUME NEW c \in Codes, issueAuthCode(c)
        PROVE  RowsFit'
    <2>1. [used |-> FALSE, expires |-> now + CodeTtl, fam |-> None] \in Code
      BY Kinds DEF RowsFit, Code
    <2>2. codes' \in [Codes -> Code \cup {None}]
      BY <1>1, <2>1 DEF issueAuthCode, RowsFit
    <2> QED BY <1>1, <2>2 DEF issueAuthCode, RowsFit, Grants
  <1>2. ASSUME NEW d \in Devices, createDeviceGrant(d)
        PROVE  RowsFit'
    <2>1. [owned |-> FALSE, denied |-> FALSE, expires |-> now + DeviceTtl] \in Device
      BY Kinds DEF RowsFit, Device
    <2>2. devices' \in [Devices -> Device \cup {None}]
      BY <1>2, <2>1 DEF createDeviceGrant, RowsFit
    <2> QED BY <1>2, <2>2 DEF createDeviceGrant, RowsFit, Grants
  <1>3. UNCHANGED <<pc, at, arg, fam, spent, reused, issued>>
    BY DEF issueAuthCode, createDeviceGrant
  <1> QED BY <1>1, <1>2, <1>3, QuietFits

LEMMA TypeNext ==
  ASSUME TypeOK, Remembers, KnowsToken, [Next]_vars
  PROVE  TypeOK' /\ Remembers'
  <1> SUFFICES RowsFit' /\ RequestsFit'
    BY DEF TypeOK, RowsFit, RequestsFit
  <1>0. RowsFit /\ RequestsFit
    BY DEF TypeOK, RowsFit, RequestsFit
  <1>1. ASSUME NEW r \in Requests, TokenRequest(r)
        PROVE  RowsFit' /\ RequestsFit'
    BY <1>0, <1>1, claimCodeFits, ReplayedFits, ClaimedFits, FindUserFits, issueRefreshFits, attachCodeFamilyFits, lookupRefreshFits, FindOwnerFits, rotateRefreshFits, revokeFamilyFits, pollDeviceFits, consumeDeviceFits, ConsumedFits DEF TokenRequest
  <1>2. ASSUME NEW r \in Requests, PageRequest(r)
        PROVE  RowsFit' /\ RequestsFit'
    BY <1>0, <1>2, decideDeviceFits, approveDeviceFits, denyDeviceFits, userForFederationFits, LockAccountFits DEF PageRequest
  <1>3. ASSUME NEW r \in Requests, Dies(r)
        PROVE  RowsFit' /\ RequestsFit'
    <2>1. RowsFit' /\ issued <= issued' /\ reused' \subseteq Tokens
      BY <1>0, <1>3, SameRows DEF Dies, RowsFit, RequestsFit, rows
    <2> QED BY <1>0, <1>3, <2>1, RestsFits DEF Dies
  <1>4. ASSUME purgeExpired
        PROVE  RowsFit' /\ RequestsFit'
    BY <1>0, <1>4, QuietFits DEF purgeExpired, RowsFit, history
  <1>5. CASE Tick
    BY <1>0, <1>5, QuietFits DEF Tick, RowsFit, rows, history
  <1>6. CASE UNCHANGED vars
    BY <1>0, <1>6, QuietFits, SameRows DEF vars, rows
  <1> QED BY <1>0, <1>1, <1>2, <1>3, <1>4, <1>5, <1>6, ArrivesFits, GrantsFit DEF Next

-----------------------------------------------------------------------------
(* How a step treats the tokens, and the other requests. *)

\* No family gains a token that can be rotated.
Weakens ==
  /\ issued' = issued /\ root' = root
  /\ \A t \in Tokens : tokens'[t] # None =>
       /\ tokens[t] # None /\ tokens'[t].fam = tokens[t].fam
       /\ tokens[t].revoked => tokens'[t].revoked

\* The request does not start a family and does not retire a token.
Weak(r) ==
  ~issueRefresh(r) /\ ~(rotateRefreshAtomic(r) /\ Rotatable(arg[r], at[r]))

Step(r) == Arrives(r) \/ TokenRequest(r) \/ PageRequest(r) \/ Dies(r)

\* Only the request that takes the step moves.
Apart(r) ==
  \A q \in Requests : q # r =>
    pc'[q] = pc[q] /\ arg'[q] = arg[q] /\ fam'[q] = fam[q] /\ spent'[q] = spent[q]

LEMMA StaysApart ==
  ASSUME RequestsFit, NEW r \in Requests, Step(r)
  PROVE  Apart(r)
  <1> USE DEF RequestsFit, Apart
  <1>1. CASE Arrives(r)
    BY <1>1 DEF Arrives, Begins
  <1>2. CASE Rests(r)
    BY <1>2 DEF Rests
  <1>3. ASSUME NEW place, Goes(r, place), UNCHANGED <<fam, spent>>
        PROVE  Apart(r)
    BY <1>3 DEF Goes
  <1>4. CASE Replayed(r)
    BY <1>2, <1>4 DEF Replayed, Goes, Answers
  <1>5. CASE issueRefresh(r)
    BY <1>2, <1>5 DEF issueRefresh, Goes, Answers
  <1>6. CASE lookupRefresh(r)
    BY <1>2, <1>6 DEF lookupRefresh, Goes, Answers
  <1>7. CASE TokenRequest(r) /\ ~Replayed(r) /\ ~issueRefresh(r) /\ ~lookupRefresh(r)
    BY <1>2, <1>3, <1>7 DEF TokenRequest, claimCode, Claimed, FindUser, attachCodeFamily,
       FindOwner, rotateRefreshAtomic, revokeFamily, pollDevice, consumeDevice, Consumed, Answers
  <1>8. CASE PageRequest(r)
    BY <1>2, <1>3, <1>8 DEF PageRequest, decideDevice, approveDevice, denyDevice,
       userForFederation, LockAccount, Answers
  <1> QED BY <1>1, <1>2, <1>4, <1>5, <1>6, <1>7, <1>8 DEF Step, Dies

LEMMA StaysWeak ==
  ASSUME RowsFit, NEW r \in Requests, Step(r), Weak(r)
  PROVE  Weakens
  <1>1. CASE UNCHANGED <<tokens, issued, root>>
    BY <1>1 DEF Weakens
  <1>2. CASE revokeFamily(r)
    <2>1. \A t \in Tokens : tokens[t] # None => tokens[t] \in Token
      BY DEF RowsFit
    <2>2. \A t \in Tokens : tokens[t] # None =>
            /\ [tokens[t] EXCEPT !.revoked = TRUE].fam = tokens[t].fam
            /\ [tokens[t] EXCEPT !.revoked = TRUE].revoked
      BY <2>1 DEF Token
    <2>3. \A t \in Tokens : tokens[t] # None /\ tokens[t].fam = fam[r] =>
            tokens'[t] = [tokens[t] EXCEPT !.revoked = TRUE]
      BY <1>2 DEF revokeFamily
    <2>4. \A t \in Tokens : ~(tokens[t] # None /\ tokens[t].fam = fam[r]) => tokens'[t] = tokens[t]
      BY <1>2 DEF revokeFamily
    <2> QED BY <1>2, <2>2, <2>3, <2>4 DEF revokeFamily, Weakens, history
  <1>3. CASE LockAccount(r)
    BY <1>3 DEF LockAccount, Weakens, history
  <1>4. CASE TokenRequest(r) /\ ~revokeFamily(r)
    BY <1>1, <1>4 DEF Weak, TokenRequest, claimCode, Replayed, Claimed, FindUser, attachCodeFamily,
       lookupRefresh, FindOwner, rotateRefreshAtomic, pollDevice, consumeDevice, Consumed, rows, history
  <1>5. CASE PageRequest(r) /\ ~LockAccount(r)
    BY <1>1, <1>5 DEF PageRequest, decideDevice, approveDevice, denyDevice,
       userForFederation, rows, history
  <1> QED BY <1>1, <1>2, <1>3, <1>4, <1>5 DEF Step, Arrives, Begins, Dies, rows, history

LEMMA PurgeWeak ==
  ASSUME purgeExpired \/ Tick \/ UNCHANGED vars
         \/ (\E c \in Codes : issueAuthCode(c)) \/ (\E d \in Devices : createDeviceGrant(d))
  PROVE  Weakens /\ UNCHANGED <<pc, arg, fam, spent, reused>>
  BY DEF purgeExpired, Tick, vars, rows, history, issueAuthCode, createDeviceGrant, Weakens

\* The two steps that give a family a token.
LEMMA NewFamily ==
  ASSUME RowsFit, RequestsFit, FamiliesBegun, NEW r \in Requests, issueRefresh(r)
  PROVE  \E n \in Tokens :
           /\ n = issued + 1 /\ issued' = n
           /\ root[n] = None /\ tokens[n] = None /\ arg[r] \in Grants
           /\ root' = [root EXCEPT ![n] = arg[r]]
           /\ tokens' = [tokens EXCEPT ![n] = NewToken(n, at[r])]
           /\ \A t \in Tokens : tokens[t] # None => tokens[t].fam # n
  <1>1. issued + 1 \in Tokens /\ issued \in Int
    BY Kinds DEF RowsFit, Tokens, issueRefresh
  <1>2. ~(issued + 1 <= issued)
    BY <1>1
  <1>3. arg[r] \in Grants
    BY DEF issueRefresh, RequestsFit, Remembers
  <1>4. root[issued + 1] = None /\ tokens[issued + 1] = None
    BY <1>1, <1>2 DEF FamiliesBegun
  <1> QED BY <1>1, <1>3, <1>4 DEF issueRefresh, FamiliesBegun

LEMMA NewChild ==
  ASSUME RowsFit, RequestsFit, FamiliesBegun, KnowsToken, NEW r \in Requests,
         rotateRefreshAtomic(r), Rotatable(arg[r], at[r])
  PROVE  \E n \in Tokens :
           /\ n = issued + 1 /\ issued' = n /\ tokens[n] = None /\ arg[r] # n
           /\ Live(arg[r]) /\ arg[r] \in Tokens /\ tokens[arg[r]].fam = fam[r] /\ fam[r] \in Tokens
           /\ tokens' = [tokens EXCEPT ![arg[r]].revoked = TRUE, ![n] = NewToken(fam[r], at[r])]
           /\ root' = root /\ ~spent[r] /\ Answers(r) /\ UNCHANGED <<codes, devices, known>>
  <1> DEFINE n == issued + 1
  <1>1. n \in Tokens /\ issued \in Int /\ ~(n <= issued)
    BY Kinds DEF RowsFit, Tokens, rotateRefreshAtomic
  <1>2. arg[r] \in Tokens /\ arg[r] <= issued /\ fam[r] \in Tokens
    BY Remembered DEF rotateRefreshAtomic, TokenPlaces
  <1>3. Live(arg[r]) /\ tokens[arg[r]] # None
    BY DEF Rotatable, Live
  <1>4. tokens[arg[r]].fam = fam[r] /\ ~spent[r]
    BY <1>3 DEF KnowsToken, Knows, rotateRefreshAtomic, Live
  <1>5. tokens[n] = None
    BY <1>1 DEF FamiliesBegun
  <1> QED BY <1>1, <1>2, <1>3, <1>4, <1>5 DEF rotateRefreshAtomic, history

LEMMA ChildRows ==
  ASSUME RowsFit, NEW p \in Tokens, NEW n \in Tokens, p # n, tokens[p] # None, NEW f \in Tokens, NEW time \in Nat,
         tokens' = [tokens EXCEPT ![p].revoked = TRUE, ![n] = NewToken(f, time)]
  PROVE  /\ tokens'[n].fam = f /\ ~tokens'[n].revoked /\ tokens'[n] # None
         /\ tokens'[p].fam = tokens[p].fam /\ tokens'[p].revoked
         /\ \A t \in Tokens : t # p /\ t # n => tokens'[t] = tokens[t]
  <1>0. NewToken(f, time) \in Token
    BY RowFacts
  <1>1. tokens'[n] = NewToken(f, time) /\ tokens'[p] = [tokens[p] EXCEPT !.revoked = TRUE]
    BY DEF RowsFit
  <1>2. tokens[p] \in Token
    BY DEF RowsFit
  <1>3. [tokens[p] EXCEPT !.revoked = TRUE].fam = tokens[p].fam /\ [tokens[p] EXCEPT !.revoked = TRUE].revoked
    BY <1>2 DEF Token
  <1>4. tokens'[n] # None
    BY <1>0, <1>1, NoneIsNoRow DEF RowsFit
  <1> QED BY <1>1, <1>3, <1>4 DEF NewToken, RowsFit

-----------------------------------------------------------------------------
(* The invariant is kept. *)

LEMMA Steps ==
  ASSUME IInv, [Next]_vars
  PROVE  /\ RowsFit /\ RequestsFit /\ RowsFit' /\ RequestsFit'
         /\ \/ Weakens /\ UNCHANGED <<pc, arg, fam, spent, reused>> /\ ~(\E r \in Requests : Step(r))
            \/ \E r \in Requests : Step(r) /\ Weak(r) /\ Weakens /\ Apart(r)
            \/ \E r \in Requests : issueRefresh(r) /\ Apart(r)
            \/ \E r \in Requests : rotateRefreshAtomic(r) /\ Rotatable(arg[r], at[r]) /\ Apart(r)
  <1>1. RowsFit /\ RequestsFit /\ RowsFit' /\ RequestsFit'
    BY TypeNext DEF IInv, TypeOK, RowsFit, RequestsFit
  <1>2. ASSUME NEW r \in Requests, Step(r)
        PROVE  /\ Apart(r)
               /\ \/ Weak(r) /\ Weakens
                  \/ issueRefresh(r)
                  \/ rotateRefreshAtomic(r) /\ Rotatable(arg[r], at[r])
    BY <1>1, <1>2, StaysApart, StaysWeak DEF Weak
  <1>3. CASE \E r \in Requests : Step(r)
    BY <1>1, <1>2, <1>3
  <1>4. CASE ~(\E r \in Requests : Step(r))
    BY <1>1, <1>4, PurgeWeak DEF Next, Step
  <1> QED BY <1>3, <1>4

\* reused grows only when a family has been revoked.
LEMMA ReusedBy ==
  ASSUME RequestsFit, KnowsToken, NEW r \in Requests, Step(r),
         ~(rotateRefreshAtomic(r) /\ Rotatable(arg[r], at[r]))
  PROVE  \/ reused' = reused
         \/ revokeFamily(r) /\ reused' = reused \cup {fam[r]} /\ spent[r]
  <1>1. ~spent[r] \/ pc[r] \in {"owner", "rotate", "revoke"}
    BY DEF KnowsToken, Knows
  <1>2. CASE revokeFamily(r)
    BY <1>2 DEF revokeFamily, Answers
  <1>3. CASE TokenRequest(r) /\ ~revokeFamily(r)
    BY <1>1, <1>3 DEF TokenRequest, claimCode, Replayed, Claimed, FindUser, attachCodeFamily, lookupRefresh, FindOwner, pollDevice, consumeDevice, Consumed, issueRefresh, rotateRefreshAtomic, Answers
  <1>4. CASE PageRequest(r)
    BY <1>1, <1>4 DEF PageRequest, decideDevice, approveDevice, denyDevice,
       userForFederation, LockAccount, Answers
  <1> QED BY <1>2, <1>3, <1>4 DEF Step, Arrives, Begins, Dies

LEMMA OneLiveNext ==
  ASSUME IInv, [Next]_vars
  PROVE  OneLiveToken'
  <1> USE DEF OneLiveToken, Live
  <1>1. RowsFit /\ RequestsFit /\ RowsFit' /\ RequestsFit'
    BY Steps
  <1>2. CASE Weakens
    BY <1>2 DEF Weakens, IInv
  <1>3. ASSUME NEW r \in Requests, issueRefresh(r)
        PROVE  OneLiveToken'
    <2>1. PICK n \in Tokens :
            /\ tokens' = [tokens EXCEPT ![n] = NewToken(n, at[r])]
            /\ \A t \in Tokens : tokens[t] # None => tokens[t].fam # n
      BY <1>1, <1>3, NewFamily DEF IInv
    <2>2. tokens'[n].fam = n /\ \A t \in Tokens : t # n => tokens'[t] = tokens[t]
      BY <1>1, <2>1 DEF RowsFit, NewToken
    <2> QED BY <2>1, <2>2 DEF IInv
  <1>4. ASSUME NEW r \in Requests, rotateRefreshAtomic(r), Rotatable(arg[r], at[r])
        PROVE  OneLiveToken'
    <2>1. PICK n \in Tokens :
            /\ arg[r] # n /\ Live(arg[r]) /\ arg[r] \in Tokens
            /\ tokens[arg[r]].fam = fam[r] /\ fam[r] \in Tokens
            /\ tokens' = [tokens EXCEPT ![arg[r]].revoked = TRUE, ![n] = NewToken(fam[r], at[r])]
      BY <1>1, <1>4, NewChild DEF IInv
    <2>2. at[r] \in Nat /\ tokens[arg[r]] # None
      BY <1>1, <2>1 DEF RequestsFit
    <2>3. /\ tokens'[n].fam = fam[r] /\ tokens'[arg[r]].revoked
          /\ \A t \in Tokens : t # arg[r] /\ t # n => tokens'[t] = tokens[t]
      BY <1>1, <2>1, <2>2, ChildRows
    <2>4. ASSUME NEW t \in Tokens, t # n, Live(t)', tokens'[t].fam = fam[r]
          PROVE  FALSE
      <3>1. t # arg[r] /\ tokens'[t] = tokens[t]
        BY <2>3, <2>4
      <3>2. Live(t) /\ tokens[t].fam = tokens[arg[r]].fam
        BY <2>1, <2>4, <3>1
      <3> QED BY <2>1, <3>1, <3>2 DEF IInv
    <2>5. ASSUME NEW t \in Tokens, NEW u \in Tokens, t # u, Live(t)', Live(u)',
                 tokens'[t].fam = tokens'[u].fam
          PROVE  FALSE
      <3>1. t # n /\ u # n
        BY <2>3, <2>4, <2>5
      <3>2. t # arg[r] /\ u # arg[r] /\ tokens'[t] = tokens[t] /\ tokens'[u] = tokens[u]
        BY <2>3, <2>5, <3>1
      <3> QED BY <2>5, <3>2 DEF IInv
    <2> QED BY <2>5
  <1> QED BY <1>2, <1>3, <1>4, Steps

LEMMA ReuseNext ==
  ASSUME IInv, [Next]_vars
  PROVE  ReuseEndsFamily'
  <1> USE DEF ReuseEndsFamily, Live
  <1>1. RowsFit /\ RequestsFit /\ RowsFit' /\ RequestsFit'
    BY Steps
  <1>2. CASE Weakens /\ reused' = reused
    BY <1>2 DEF Weakens, IInv
  <1>3. ASSUME NEW r \in Requests, Weakens, revokeFamily(r), reused' = reused \cup {fam[r]}
        PROVE  ReuseEndsFamily'
    <2>1. ASSUME NEW t \in Tokens, Live(t)'
          PROVE  tokens[t] # None /\ ~tokens[t].revoked /\ tokens'[t].fam = tokens[t].fam
      BY <1>3, <2>1 DEF Weakens
    <2>2. ASSUME NEW t \in Tokens, Live(t)', tokens[t].fam = fam[r]
          PROVE  FALSE
      <3>1. tokens'[t] = [tokens[t] EXCEPT !.revoked = TRUE]
        BY <1>3, <2>1, <2>2 DEF revokeFamily
      <3>2. tokens[t] \in Token
        BY <1>1, <2>1, <2>2 DEF RowsFit
      <3>3. tokens'[t].revoked
        BY <3>1, <3>2 DEF Token
      <3> QED BY <2>2, <3>3
    <2> QED BY <1>3, <2>1, <2>2 DEF IInv
  <1>4. ASSUME NEW r \in Requests, issueRefresh(r), reused' = reused
        PROVE  ReuseEndsFamily'
    <2>1. PICK n \in Tokens :
            /\ root[n] = None
            /\ tokens' = [tokens EXCEPT ![n] = NewToken(n, at[r])]
      BY <1>1, <1>4, NewFamily DEF IInv
    <2>2. tokens'[n].fam = n /\ \A t \in Tokens : t # n => tokens'[t] = tokens[t]
      BY <1>1, <2>1 DEF RowsFit, NewToken
    <2>3. n \notin reused
      BY <2>1 DEF IInv, FamiliesBegun
    <2> QED BY <1>4, <2>2, <2>3 DEF IInv
  <1>5. ASSUME NEW r \in Requests, rotateRefreshAtomic(r), Rotatable(arg[r], at[r])
        PROVE  ReuseEndsFamily'
    <2>1. PICK n \in Tokens :
            /\ arg[r] # n /\ Live(arg[r]) /\ arg[r] \in Tokens
            /\ tokens[arg[r]].fam = fam[r] /\ fam[r] \in Tokens
            /\ tokens' = [tokens EXCEPT ![arg[r]].revoked = TRUE, ![n] = NewToken(fam[r], at[r])]
            /\ ~spent[r] /\ Answers(r)
      BY <1>1, <1>5, NewChild DEF IInv
    <2>2. reused' = reused /\ fam[r] \notin reused
      BY <2>1 DEF Answers, IInv
    <2>3. at[r] \in Nat /\ tokens[arg[r]] # None
      BY <1>1, <2>1 DEF RequestsFit
    <2>4. /\ tokens'[n].fam = fam[r] /\ tokens'[arg[r]].revoked
          /\ \A t \in Tokens : t # arg[r] /\ t # n => tokens'[t] = tokens[t]
      BY <1>1, <2>1, <2>3, ChildRows
    <2> SUFFICES ASSUME NEW t \in Tokens, Live(t)'
                 PROVE  tokens'[t].fam \notin reused'
      OBVIOUS
    <2>5. CASE t = n
      BY <2>2, <2>4, <2>5
    <2>6. CASE t # n
      <3>1. tokens'[t] = tokens[t]
        BY <2>4, <2>6
      <3> QED BY <2>2, <3>1 DEF IInv
    <2> QED BY <2>5, <2>6
  <1>6. ASSUME NEW r \in Requests, Step(r), Weakens, ~(rotateRefreshAtomic(r) /\ Rotatable(arg[r], at[r]))
        PROVE  ReuseEndsFamily'
    BY <1>1, <1>2, <1>3, <1>6, ReusedBy DEF IInv
  <1>7. ASSUME NEW r \in Requests, issueRefresh(r)
        PROVE  reused' = reused
    <2>1. pc[r] = "issue" /\ ~rotateRefreshAtomic(r) /\ ~revokeFamily(r)
      BY <1>7 DEF issueRefresh, rotateRefreshAtomic, revokeFamily
    <2> QED BY <1>1, <1>7, <2>1, ReusedBy DEF IInv, Step, TokenRequest
  <1> QED BY <1>2, <1>4, <1>5, <1>6, <1>7, Steps DEF Weak

(* What rows and requests name. *)

\* Where a step takes the families it names from.
LEMMA NamesFrom ==
  ASSUME RowsFit, RequestsFit, NEW r \in Requests, Step(r), ~issueRefresh(r)
  PROVE  /\ \A c \in Codes : codes'[c] # None /\ codes'[c].fam # None =>
              \/ codes[c] # None /\ codes'[c].fam = codes[c].fam
              \/ codes'[c].fam = fam[r]
         /\ \/ fam'[r] \in {None, fam[r]}
            \/ \E c \in Codes : codes[c] # None /\ fam'[r] = codes[c].fam
            \/ \E t \in Tokens : tokens[t] # None /\ fam'[r] = tokens[t].fam
  <1> DEFINE CodesKept == \A c \in Codes : codes'[c] # None /\ codes'[c].fam # None =>
                            \/ codes[c] # None /\ codes'[c].fam = codes[c].fam
                            \/ codes'[c].fam = fam[r]
             FamKept == \/ fam'[r] \in {None, fam[r]}
                        \/ \E c \in Codes : codes[c] # None /\ fam'[r] = codes[c].fam
                        \/ \E t \in Tokens : tokens[t] # None /\ fam'[r] = tokens[t].fam
  <1> SUFFICES CodesKept /\ FamKept
    OBVIOUS
  <1>2. ASSUME Rests(r) \/ UNCHANGED fam
        PROVE  FamKept
    BY <1>2 DEF Rests, RequestsFit
  <1> HIDE DEF FamKept
  <1>3. ASSUME NEW c \in Codes, codes[c] # None
        PROVE  /\ [codes[c] EXCEPT !.used = TRUE].fam = codes[c].fam
               /\ [codes[c] EXCEPT !.fam = fam[r]].fam = fam[r]
    <2>1. codes[c] \in Code
      BY <1>3 DEF RowsFit
    <2> QED BY <2>1 DEF Code
  <1>4. CASE claimCode(r)
    <2>1. CASE Claimable(arg[r], at[r])
      <3>1. /\ codes' = [codes EXCEPT ![arg[r]] = [codes[arg[r]] EXCEPT !.used = TRUE]]
            /\ codes[arg[r]] # None /\ arg[r] \in Codes
        BY <1>4, <2>1 DEF claimCode, Claimable, RequestsFit, Remembers, CodePlaces
      <3> QED BY <1>2, <1>3, <1>4, <3>1 DEF claimCode, RowsFit
    <2> QED BY <1>2, <1>4, <2>1 DEF claimCode
  <1>5. CASE attachCodeFamily(r)
    <2>1. CASE codes[arg[r]] # None
      <3>1. /\ codes' = [codes EXCEPT ![arg[r]] = [codes[arg[r]] EXCEPT !.fam = fam[r]]]
            /\ arg[r] \in Codes
        BY <1>5, <2>1 DEF attachCodeFamily, RequestsFit, Remembers, CodePlaces
      <3> QED BY <1>2, <1>3, <1>5, <2>1, <3>1 DEF attachCodeFamily, RowsFit, Answers
    <2> QED BY <1>2, <1>5, <2>1 DEF attachCodeFamily, Answers
  <1>6. CASE Replayed(r)
    <2>1. arg[r] \in Codes
      BY <1>6 DEF Replayed, RequestsFit, Remembers, CodePlaces
    <2>2. FamKept
      BY <1>2, <1>6, <2>1 DEF Replayed, RequestsFit, Answers, FamKept
    <2> QED BY <1>6, <2>2 DEF Replayed, rows
  <1>7. CASE lookupRefresh(r)
    <2>1. arg[r] \in Tokens
      BY <1>7 DEF lookupRefresh, RequestsFit, Remembers, TokenPlaces
    <2>2. FamKept
      BY <1>2, <1>7, <2>1 DEF lookupRefresh, RequestsFit, Answers, FamKept
    <2> QED BY <1>7, <2>2 DEF lookupRefresh, rows
  <1>8. CASE LockAccount(r)
    BY <1>2, <1>8 DEF LockAccount, Answers
  <1>9. CASE TokenRequest(r) /\ ~claimCode(r) /\ ~attachCodeFamily(r) /\ ~Replayed(r) /\ ~lookupRefresh(r)
    BY <1>2, <1>9 DEF TokenRequest, Claimed, FindUser, FindOwner, rotateRefreshAtomic, revokeFamily,
       pollDevice, consumeDevice, Consumed, Answers, rows
  <1>10. CASE PageRequest(r) /\ ~LockAccount(r)
    BY <1>2, <1>10 DEF PageRequest, decideDevice, approveDevice, denyDevice, userForFederation, Answers, rows
  <1> QED BY <1>2, <1>4, <1>5, <1>6, <1>7, <1>8, <1>9, <1>10 DEF Step, Arrives, Begins, Dies, rows

LEMMA QuietCodes ==
  ASSUME [Next]_vars, ~(\E r \in Requests : Step(r)), RowsFit
  PROVE  \A c \in Codes : codes'[c] # None =>
           \/ codes[c] # None /\ codes'[c] = codes[c]
           \/ codes'[c] = [used |-> FALSE, expires |-> now + CodeTtl, fam |-> None] /\ c \in known'
  BY DEF Next, Step, vars, rows, issueAuthCode, createDeviceGrant, purgeExpired, Tick, RowsFit

LEMMA FamiliesNext ==
  ASSUME IInv, [Next]_vars
  PROVE  FamiliesBegun'
  <1>1. RowsFit /\ RequestsFit /\ RowsFit' /\ RequestsFit' /\ FamiliesBegun
    BY Steps DEF IInv
  <1> DEFINE Rooted == \A f \in Tokens : root[f] # None => root'[f] # None
             Known(f) == f # None => root'[f] # None
  <1>2. ASSUME Weakens
        PROVE  /\ Rooted
               /\ \A t \in Tokens : root'[t] # None \/ tokens'[t] # None => t <= issued'
               /\ \A t \in Tokens : tokens'[t] # None => root'[tokens'[t].fam] # None
    BY <1>1, <1>2 DEF Weakens, FamiliesBegun
  <1>3. CASE Weakens /\ UNCHANGED <<pc, arg, fam, spent, reused>> /\ ~(\E r \in Requests : Step(r))
    <2>1. \A c \in Codes : codes'[c] # None /\ codes'[c].fam # None => root'[codes'[c].fam] # None
      BY <1>1, <1>3, QuietCodes DEF FamiliesBegun, Weakens
    <2> QED BY <1>1, <1>2, <1>3, <2>1 DEF FamiliesBegun, Weakens
  <1>4. ASSUME NEW r \in Requests, Step(r), ~issueRefresh(r), Rooted, Apart(r),
               ~(rotateRefreshAtomic(r) /\ Rotatable(arg[r], at[r])) \/ reused' = reused
        PROVE  /\ \A c \in Codes : codes'[c] # None /\ codes'[c].fam # None => root'[codes'[c].fam] # None
               /\ \A q \in Requests : fam'[q] # None => root'[fam'[q]] # None
               /\ \A f \in reused' : root'[f] # None
    <2>1. fam[r] \in Tokens \cup {None} /\ (fam[r] # None => root'[fam[r]] # None)
      BY <1>1, <1>4 DEF RequestsFit, FamiliesBegun
    <2>2. ASSUME NEW c \in Codes, codes[c] # None, codes[c].fam # None
          PROVE  root'[codes[c].fam] # None
      <3>1. codes[c].fam \in Tokens
        BY <1>1, <2>2 DEF RowsFit, Code
      <3> QED BY <1>1, <1>4, <2>2, <3>1 DEF FamiliesBegun
    <2>3. ASSUME NEW t \in Tokens, tokens[t] # None
          PROVE  root'[tokens[t].fam] # None
      <3>1. tokens[t].fam \in Tokens
        BY <1>1, <2>3 DEF RowsFit, Token
      <3> QED BY <1>1, <1>4, <2>3, <3>1 DEF FamiliesBegun
    <2>4. \A c \in Codes : codes'[c] # None /\ codes'[c].fam # None => root'[codes'[c].fam] # None
      BY <1>1, <1>4, <2>1, <2>2, NamesFrom
    <2>5. fam'[r] # None => root'[fam'[r]] # None
      BY <1>1, <1>4, <2>1, <2>2, <2>3, NamesFrom
    <2>6. \A q \in Requests : fam'[q] # None => root'[fam'[q]] # None
      BY <1>1, <1>4, <2>5 DEF Apart, RequestsFit, FamiliesBegun
    <2>7. \A f \in reused : root'[f] # None
      BY <1>1, <1>4 DEF FamiliesBegun, RequestsFit
    <2>8. revokeFamily(r) => fam[r] # None
      BY DEF revokeFamily, IInv, KnowsToken, Knows
    <2>9. \A f \in reused' : root'[f] # None
      <3>1. \/ reused' = reused
            \/ revokeFamily(r) /\ reused' = reused \cup {fam[r]} /\ spent[r]
        BY <1>1, <1>4, ReusedBy DEF IInv
      <3> QED BY <2>1, <2>7, <2>8, <3>1
    <2> QED BY <2>4, <2>6, <2>9
  <1>5. ASSUME NEW r \in Requests, Step(r), Weak(r), Weakens, Apart(r)
        PROVE  FamiliesBegun'
    BY <1>2, <1>4, <1>5 DEF Weak, FamiliesBegun
  <1>6. ASSUME NEW r \in Requests, rotateRefreshAtomic(r), Rotatable(arg[r], at[r]), Apart(r)
        PROVE  FamiliesBegun'
    <2>1. PICK n \in Tokens :
            /\ n = issued + 1 /\ issued' = n /\ arg[r] # n /\ Live(arg[r]) /\ arg[r] \in Tokens
            /\ tokens[arg[r]].fam = fam[r] /\ fam[r] \in Tokens
            /\ tokens' = [tokens EXCEPT ![arg[r]].revoked = TRUE, ![n] = NewToken(fam[r], at[r])]
            /\ root' = root /\ ~spent[r] /\ Answers(r)
      BY <1>1, <1>6, NewChild DEF IInv
    <2>2. at[r] \in Nat /\ tokens[arg[r]] # None
      BY <1>1, <2>1 DEF RequestsFit, Live
    <2>3. /\ tokens'[n].fam = fam[r] /\ tokens'[arg[r]].fam = tokens[arg[r]].fam
          /\ \A t \in Tokens : t # arg[r] /\ t # n => tokens'[t] = tokens[t]
      <3> HIDE DEF Rooted
      <3>1. /\ arg[r] # n /\ arg[r] \in Tokens /\ fam[r] \in Tokens /\ at[r] \in Nat
            /\ tokens[arg[r]] # None /\ RowsFit
            /\ tokens' = [tokens EXCEPT ![arg[r]].revoked = TRUE, ![n] = NewToken(fam[r], at[r])]
        BY <1>1, <2>1, <2>2
      <3>2. tokens'[n].fam = fam[r]
        BY <3>1, ChildRows
      <3>3. tokens'[arg[r]].fam = tokens[arg[r]].fam
        BY <3>1, ChildRows, Zenon
      <3>4. \A t \in Tokens : t # arg[r] /\ t # n => tokens'[t] = tokens[t]
        BY <3>1 DEF RowsFit
      <3> QED BY <3>2, <3>3, <3>4
    <2>4. root[fam[r]] # None
      BY <1>1, <2>1, Kinds DEF FamiliesBegun, RequestsFit
    <2>5. \A t \in Tokens : t <= issued => t <= issued'
      BY <1>1, <2>1, Kinds DEF RowsFit, Tokens
    <2>6. /\ n <= issued' /\ arg[r] <= issued
      BY <1>1, <2>1, <2>2, Kinds DEF FamiliesBegun, Tokens
    <2>7. \A t \in Tokens : root'[t] # None \/ tokens'[t] # None => t <= issued'
      BY <1>1, <2>1, <2>3, <2>5, <2>6 DEF FamiliesBegun
    <2>8. \A t \in Tokens : tokens'[t] # None => root'[tokens'[t].fam] # None
      BY <1>1, <2>1, <2>3, <2>4 DEF FamiliesBegun
    <2>9. Step(r) /\ ~issueRefresh(r) /\ reused' = reused /\ Rooted
      BY <1>6, <2>1 DEF Step, TokenRequest, rotateRefreshAtomic, issueRefresh, Answers
    <2> QED BY <1>4, <1>6, <2>7, <2>8, <2>9 DEF FamiliesBegun
  <1>7. ASSUME NEW r \in Requests, issueRefresh(r), Apart(r)
        PROVE  FamiliesBegun'
    <2>1. PICK n \in Tokens :
            /\ n = issued + 1 /\ issued' = n /\ arg[r] \in Grants
            /\ root' = [root EXCEPT ![n] = arg[r]]
            /\ tokens' = [tokens EXCEPT ![n] = NewToken(n, at[r])]
      BY <1>1, <1>7, NewFamily
    <2>2. arg[r] # None
      BY <2>1, Kinds DEF Grants
    <2>3. /\ root'[n] # None /\ Rooted
          /\ \A t \in Tokens : t # n => root'[t] = root[t]
      BY <1>1, <2>1, <2>2 DEF RowsFit
    <2>4. tokens'[n].fam = n /\ \A t \in Tokens : t # n => tokens'[t] = tokens[t]
      BY <1>1, <2>1 DEF RowsFit, NewToken
    <2>5. \A t \in Tokens : t <= issued => t <= issued'
      BY <1>1, <2>1, Kinds DEF RowsFit, Tokens
    <2>6. n <= issued'
      BY <2>1, Kinds
    <2>7. \A t \in Tokens : root'[t] # None \/ tokens'[t] # None => t <= issued'
      BY <1>1, <2>3, <2>4, <2>5, <2>6 DEF FamiliesBegun
    <2>8. ASSUME NEW t \in Tokens, tokens'[t] # None
          PROVE  root'[tokens'[t].fam] # None
      <3>1. CASE t = n
        BY <2>3, <2>4, <3>1
      <3>2. CASE t # n
        <4>1. tokens'[t] = tokens[t] /\ tokens[t].fam \in Tokens
          BY <1>1, <2>4, <2>8, <3>2 DEF RowsFit, Token
        <4> QED BY <1>1, <2>3, <2>8, <4>1 DEF FamiliesBegun
      <3> QED BY <3>1, <3>2
    <2>9. codes' = codes /\ reused' = reused /\ fam'[r] \in {None, n}
      <3>1. ~spent[r]
        BY <1>7 DEF issueRefresh, IInv, KnowsToken, Knows
      <3> QED BY <1>1, <1>7, <2>1, <3>1 DEF issueRefresh, Answers, Rests, RequestsFit
    <2>10. \A q \in Requests : fam'[q] # None => root'[fam'[q]] # None
      BY <1>1, <1>7, <2>3, <2>9 DEF Apart, FamiliesBegun, RequestsFit
    <2>11. ASSUME NEW c \in Codes, codes[c] # None, codes[c].fam # None
           PROVE  root'[codes[c].fam] # None
      <3>1. codes[c].fam \in Tokens
        BY <1>1, <2>11 DEF RowsFit, Code
      <3> QED BY <1>1, <2>3, <2>11, <3>1 DEF FamiliesBegun
    <2>12. \A f \in reused : root'[f] # None
      BY <1>1, <2>3 DEF FamiliesBegun, RequestsFit
    <2> QED BY <2>7, <2>8, <2>9, <2>10, <2>11, <2>12 DEF FamiliesBegun
  <1> QED BY <1>3, <1>5, <1>6, <1>7, Steps

(* What a request knows stays true. *)

LEMMA KnowsSelf ==
  ASSUME RowsFit, RequestsFit, KnowsToken, NEW r \in Requests, Step(r)
  PROVE  Knows(r)'
  <1> USE DEF Knows
  <1>1. CASE Rests(r)
    BY <1>1 DEF Rests, RequestsFit
  <1>2. spent[r] => pc[r] \in {"owner", "rotate", "revoke"}
    BY DEF KnowsToken
  <1>3. ASSUME NEW place \in Places \ {"owner", "rotate", "revoke", "attach"}, pc'[r] = place,
               pc[r] \notin {"owner", "rotate", "revoke"}, UNCHANGED spent
        PROVE  Knows(r)'
    BY <1>2, <1>3
  <1>4. ASSUME NEW place, Goes(r, place)
        PROVE  pc'[r] = place /\ arg' = arg
    BY <1>4 DEF Goes, RequestsFit
  <1>5. CASE Replayed(r)
    <2>1. CASE Answers(r)
      BY <1>1, <2>1 DEF Answers
    <2>2. CASE ~Answers(r)
      <3>1. pc'[r] = "revoke" /\ fam'[r] # None
        BY <1>4, <1>5, <2>2 DEF Replayed, RequestsFit
      <3> QED BY <3>1
    <2> QED BY <2>1, <2>2
  <1>6. CASE lookupRefresh(r)
    <2>1. CASE Answers(r)
      BY <1>1, <2>1 DEF Answers
    <2>2. CASE ~Answers(r)
      <3>1. /\ tokens[arg[r]] # None /\ arg[r] \in Tokens
            /\ fam'[r] = tokens[arg[r]].fam
            /\ spent'[r] = (pc[r] = "lookup" /\ tokens[arg[r]].revoked)
            /\ pc'[r] \in {"revoke", "owner"} /\ arg' = arg /\ tokens' = tokens
        BY <1>4, <1>6, <2>2 DEF lookupRefresh, RequestsFit, rows, Remembers, TokenPlaces
      <3>2. tokens[arg[r]].fam \in Tokens
        BY <3>1 DEF RowsFit, Token
      <3> QED BY <3>1, <3>2, Kinds
    <2> QED BY <2>1, <2>2
  <1>7. CASE FindOwner(r)
    <2>1. /\ pc'[r] \in {"rotate", "revoke"} /\ arg' = arg /\ UNCHANGED <<fam, spent, tokens>>
          /\ pc[r] = "owner"
      BY <1>4, <1>7 DEF FindOwner, rows
    <2>2. Knows(r)
      BY DEF KnowsToken
    <2> QED BY <2>1, <2>2
  <1>8. CASE rotateRefreshAtomic(r)
    <2>1. CASE Answers(r)
      BY <1>1, <2>1 DEF Answers
    <2>2. CASE ~Answers(r)
      <3>1. pc'[r] = "revoke" /\ fam' = fam /\ pc[r] = "rotate"
        BY <1>4, <1>8, <2>2 DEF rotateRefreshAtomic
      <3> QED BY <3>1 DEF KnowsToken
    <2> QED BY <2>1, <2>2
  <1>9. CASE issueRefresh(r)
    <2>1. CASE Answers(r)
      BY <1>1, <2>1 DEF Answers
    <2>2. CASE ~Answers(r)
      <3>1. pc'[r] = "attach" /\ fam'[r] = issued + 1 /\ spent' = spent /\ pc[r] = "issue"
        BY <1>4, <1>9, <2>2 DEF issueRefresh, RequestsFit
      <3>2. issued + 1 # None
        BY <1>9, Kinds DEF issueRefresh, RowsFit, Tokens
      <3> QED BY <1>2, <3>1, <3>2
    <2> QED BY <2>1, <2>2
  <1>10. CASE revokeFamily(r) \/ attachCodeFamily(r) \/ Dies(r)
    BY <1>1, <1>10 DEF revokeFamily, attachCodeFamily, Answers, Dies
  <1>11. CASE Arrives(r)
    <2>1. pc'[r] \in {"claim", "poll", "decide", "lookup", "end", "federate"} /\ pc[r] = "idle" /\ UNCHANGED spent
      BY <1>11 DEF Arrives, Begins, RequestsFit
    <2> QED BY <1>2, <2>1
  <1>12. CASE \/ claimCode(r) \/ Claimed(r) \/ FindUser(r) \/ pollDevice(r) \/ consumeDevice(r)
              \/ Consumed(r) \/ PageRequest(r)
    <2>1. pc[r] \notin {"owner", "rotate", "revoke"}
      BY <1>12 DEF claimCode, Claimed, FindUser, pollDevice, consumeDevice, Consumed, PageRequest,
         decideDevice, approveDevice, denyDevice, userForFederation, LockAccount
    <2>2. \/ Rests(r)
          \/ /\ \E place \in {"claimed", "replayed", "user", "issue", "consume", "consumed",
                              "approve", "deny", "lock"} : Goes(r, place)
             /\ UNCHANGED spent
      BY <1>12 DEF claimCode, Claimed, FindUser, pollDevice, consumeDevice, Consumed, PageRequest,
         decideDevice, approveDevice, denyDevice, userForFederation, LockAccount, Answers
    <2>3. CASE ~Rests(r)
      <3>1. PICK place \in {"claimed", "replayed", "user", "issue", "consume", "consumed",
                            "approve", "deny", "lock"} : Goes(r, place) /\ UNCHANGED spent
        BY <2>2, <2>3
      <3> QED BY <1>2, <1>4, <2>1, <3>1
    <2> QED BY <1>1, <2>3
  <1> QED BY <1>5, <1>6, <1>7, <1>8, <1>9, <1>10, <1>11, <1>12 DEF Step, TokenRequest

LEMMA KnowsNext ==
  ASSUME IInv, [Next]_vars
  PROVE  KnowsToken'
  <1>1. RowsFit /\ RequestsFit /\ RowsFit' /\ RequestsFit' /\ KnowsToken /\ FamiliesBegun
    BY Steps DEF IInv
  <1>2. ASSUME Weakens, NEW q \in Requests,
               pc'[q] = pc[q] /\ arg'[q] = arg[q] /\ fam'[q] = fam[q] /\ spent'[q] = spent[q]
        PROVE  Knows(q)'
    <2>1. Knows(q) /\ (pc[q] \in {"owner", "rotate"} => arg[q] \in Tokens)
      BY <1>1 DEF KnowsToken, RequestsFit, Remembers, TokenPlaces
    <2> QED BY <1>2, <2>1 DEF Weakens, Knows
  <1>3. CASE Weakens /\ UNCHANGED <<pc, arg, fam, spent, reused>>
    BY <1>2, <1>3 DEF KnowsToken
  <1>4. ASSUME NEW r \in Requests, Step(r), Weakens, Apart(r)
        PROVE  KnowsToken'
    <2>1. Knows(r)'
      BY <1>1, <1>4, KnowsSelf
    <2>2. \A q \in Requests : q # r => Knows(q)'
      BY <1>2, <1>4 DEF Apart
    <2> QED BY <2>1, <2>2 DEF KnowsToken
  <1>5. ASSUME NEW r \in Requests, Step(r), Apart(r), NEW n \in Tokens, n = issued + 1,
               \A t \in Tokens : t # n /\ tokens'[t] # None =>
                 /\ tokens[t] # None /\ tokens'[t].fam = tokens[t].fam
                 /\ tokens[t].revoked => tokens'[t].revoked
        PROVE  KnowsToken'
    <2>1. Knows(r)'
      BY <1>1, <1>5, KnowsSelf
    <2>2. ASSUME NEW q \in Requests, q # r
          PROVE  Knows(q)'
      <3>1. pc[q] \in {"owner", "rotate"} => arg[q] \in Tokens /\ arg[q] # n
        BY <1>1, <1>5, Kinds DEF RequestsFit, Remembers, TokenPlaces, RowsFit, Tokens
      <3>2. Knows(q) /\ pc'[q] = pc[q] /\ arg'[q] = arg[q] /\ fam'[q] = fam[q] /\ spent'[q] = spent[q]
        BY <1>1, <1>5, <2>2 DEF KnowsToken, Apart
      <3> QED BY <1>5, <3>1, <3>2 DEF Knows
    <2> QED BY <2>1, <2>2 DEF KnowsToken
  <1>6. ASSUME NEW r \in Requests, rotateRefreshAtomic(r), Rotatable(arg[r], at[r]), Apart(r)
        PROVE  KnowsToken'
    <2>1. PICK n \in Tokens :
            /\ n = issued + 1 /\ arg[r] # n /\ Live(arg[r]) /\ arg[r] \in Tokens /\ fam[r] \in Tokens
            /\ tokens' = [tokens EXCEPT ![arg[r]].revoked = TRUE, ![n] = NewToken(fam[r], at[r])]
      BY <1>1, <1>6, NewChild
    <2>2. at[r] \in Nat /\ tokens[arg[r]] # None
      BY <1>1, <2>1 DEF RequestsFit, Live
    <2>3. tokens'[arg[r]].fam = tokens[arg[r]].fam /\ tokens'[arg[r]].revoked
      BY <1>1, <2>1, <2>2, ChildRows
    <2>4. \A t \in Tokens : t # arg[r] /\ t # n => tokens'[t] = tokens[t]
      BY <1>1, <2>1 DEF RowsFit
    <2> QED BY <1>5, <1>6, <2>1, <2>2, <2>3, <2>4 DEF Step, TokenRequest
  <1>7. ASSUME NEW r \in Requests, issueRefresh(r), Apart(r)
        PROVE  KnowsToken'
    <2>1. PICK n \in Tokens :
            /\ n = issued + 1 /\ tokens' = [tokens EXCEPT ![n] = NewToken(n, at[r])]
      BY <1>1, <1>7, NewFamily
    <2>2. \A t \in Tokens : t # n => tokens'[t] = tokens[t]
      BY <1>1, <2>1 DEF RowsFit
    <2> QED BY <1>5, <1>7, <2>1, <2>2 DEF Step, TokenRequest
  <1> QED BY <1>3, <1>4, <1>6, <1>7, Steps

(* Who owes a family. *)

\* Nothing is granted or spent; a request may stop owing.
Narrows ==
  /\ known' = known
  /\ \A q \in Requests, g \in Grants : Owes(q, g)' => Owes(q, g)
  /\ \A g \in Grants : Usable(g)' => Usable(g)

\* No device code is approved.
OwnersStay == \A d \in Devices : Usable(d)' => (devices'[d].owned <=> devices[d].owned)

ClaimsCode(r) == claimCode(r) /\ Claimable(arg[r], at[r])
Consumes(r) == consumeDevice(r) /\ Consumable(arg[r], at[r])
Grants1 == (\E c \in Codes : issueAuthCode(c)) \/ (\E d \in Devices : createDeviceGrant(d))

LEMMA OwesLess ==
  ASSUME RequestsFit, NEW r \in Requests,
         \/ Rests(r)
         \/ \E place \in Places : /\ Goes(r, place)
                                  /\ place \in {"claimed", "consumed"} => FALSE
                                  /\ place \in {"user", "issue"} => pc[r] \in {"claimed", "consumed", "user"}
         \/ \E place \in Places \ {"claimed", "consumed", "user", "issue"}, x \in Grants \cup Tokens \cup {None} : Begins(r, place, x)
         \/ UNCHANGED <<pc, arg>>
  PROVE  \A q \in Requests, g \in Grants : Owes(q, g)' => Owes(q, g)
  <1> USE DEF Owes, RequestsFit
  <1>1. CASE Rests(r)
    BY <1>1 DEF Rests
  <1>2. ASSUME NEW place \in Places, Goes(r, place), place \notin {"claimed", "consumed"},
               place \in {"user", "issue"} => pc[r] \in {"claimed", "consumed", "user"}
        PROVE  \A q \in Requests, g \in Grants : Owes(q, g)' => Owes(q, g)
    BY <1>2 DEF Goes
  <1>3. ASSUME NEW place \in Places \ {"claimed", "consumed", "user", "issue"}, NEW x \in Grants \cup Tokens \cup {None}, Begins(r, place, x)
        PROVE  \A q \in Requests, g \in Grants : Owes(q, g)' => Owes(q, g)
    BY <1>3 DEF Begins
  <1> QED BY <1>1, <1>2, <1>3

\* How the steps change the rows of grants.
LEMMA RowsNarrow ==
  ASSUME RowsFit,
         \A c \in Codes : codes'[c] # None => codes[c] # None /\ (codes[c].used => codes'[c].used),
         \A d \in Devices : devices'[d] # None =>
           /\ devices[d] # None
           /\ devices[d].denied => devices'[d].denied
           /\ devices[d].expires = 0 => devices'[d].expires = 0
  PROVE  \A g \in Grants : Usable(g)' => Usable(g)
  BY Kinds DEF Usable, Grants

LEMMA SameGrantRows ==
  ASSUME RowsFit, UNCHANGED <<codes, devices>>
  PROVE  (\A g \in Grants : Usable(g)' => Usable(g)) /\ OwnersStay
  BY DEF Usable, OwnersStay

LEMMA NarrowSteps ==
  ASSUME RowsFit, RequestsFit, [Next]_vars, ~Grants1,
         \A r \in Requests : ~ClaimsCode(r) /\ ~Consumes(r)
  PROVE  /\ Narrows
         /\ (\A r \in Requests : ~approveDevice(r)) => OwnersStay
  <1> DEFINE Less == \A q \in Requests, g \in Grants : Owes(q, g)' => Owes(q, g)
             Unusable == \A g \in Grants : Usable(g)' => Usable(g)
  <1>1. ASSUME NEW d \in Devices, devices[d] # None
        PROVE  /\ [devices[d] EXCEPT !.denied = TRUE].denied
               /\ [devices[d] EXCEPT !.denied = TRUE].expires = devices[d].expires
               /\ [devices[d] EXCEPT !.denied = TRUE].owned = devices[d].owned
               /\ [devices[d] EXCEPT !.owned = TRUE].denied = devices[d].denied
               /\ [devices[d] EXCEPT !.owned = TRUE].expires = devices[d].expires
    <2>1. devices[d] \in Device
      BY <1>1 DEF RowsFit
    <2> QED BY <2>1 DEF Device
  <1>2. ASSUME NEW c \in Codes, codes[c] # None
        PROVE  [codes[c] EXCEPT !.fam = fam'[c]].used = codes[c].used
    <2>1. codes[c] \in Code
      BY <1>2 DEF RowsFit
    <2> QED BY <2>1 DEF Code
  <1> HIDE DEF Less, Unusable
  <1>3. ASSUME NEW r \in Requests, Step(r)
        PROVE  Less
    <2>1. CASE Arrives(r)
      <3>1. 1..issued \subseteq Tokens
        BY Kinds DEF RowsFit, Tokens
      <3>2. \E place \in {"claim", "poll", "decide", "lookup", "end", "federate"},
               x \in Grants \cup Tokens \cup {None} : Begins(r, place, x)
        BY <2>1, <3>1 DEF Arrives, Grants
      <3>3. {"claim", "poll", "decide", "lookup", "end", "federate"}
              \subseteq Places \ {"claimed", "consumed", "user", "issue"}
        BY DEF Places
      <3> QED BY <3>2, <3>3, OwesLess DEF Less
    <2>2. CASE TokenRequest(r)
      <3> DEFINE Fine == \/ Rests(r)
                         \/ \E place \in Places : /\ Goes(r, place)
                                                  /\ place \in {"claimed", "consumed"} => FALSE
                                                  /\ place \in {"user", "issue"} => pc[r] \in {"claimed", "consumed", "user"}
      <3>1. ASSUME NEW place \in {"replayed", "revoke", "attach", "owner", "rotate", "consume"}, Goes(r, place)
            PROVE  Fine
        BY <3>1 DEF Places
      <3>2. ASSUME NEW place \in {"user", "issue"}, Goes(r, place), pc[r] \in {"claimed", "consumed", "user"}
            PROVE  Fine
        BY <3>2 DEF Places
      <3>3. Rests(r) => Fine
        OBVIOUS
      <3> HIDE DEF Fine
      <3>4. ASSUME claimCode(r) \/ consumeDevice(r)
            PROVE  Fine
        BY <3>1, <3>3, <3>4 DEF claimCode, consumeDevice, ClaimsCode, Consumes, Answers
      <3>5. ASSUME Claimed(r) \/ Consumed(r) \/ FindUser(r)
            PROVE  Fine
        BY <3>2, <3>3, <3>5 DEF Claimed, Consumed, FindUser, Answers
      <3>6. ASSUME Replayed(r) \/ issueRefresh(r) \/ attachCodeFamily(r) \/ lookupRefresh(r)
            PROVE  Fine
        BY <3>1, <3>3, <3>6 DEF Replayed, issueRefresh, attachCodeFamily, lookupRefresh, Answers
      <3>7. ASSUME FindOwner(r) \/ rotateRefreshAtomic(r) \/ revokeFamily(r) \/ pollDevice(r)
            PROVE  Fine
        BY <3>1, <3>3, <3>7 DEF FindOwner, rotateRefreshAtomic, revokeFamily, pollDevice, Answers
      <3>8. Fine
        BY <2>2, <3>4, <3>5, <3>6, <3>7 DEF TokenRequest
      <3> QED BY <3>8, OwesLess DEF Fine, Less
    <2>3. CASE PageRequest(r)
      <3>1. Rests(r) \/ \E place \in {"approve", "deny", "lock"} : Goes(r, place)
        BY <2>3 DEF PageRequest, decideDevice, approveDevice, denyDevice, userForFederation, LockAccount, Answers
      <3> QED BY <3>1, OwesLess DEF Places, Less
    <2>4. CASE Dies(r)
      BY <2>4, OwesLess DEF Dies, Less
    <2> QED BY <1>3, <2>1, <2>2, <2>3, <2>4 DEF Step
  <1>4. ASSUME NEW r \in Requests, Step(r)
        PROVE  Unusable /\ (~approveDevice(r) => OwnersStay)
    <2>1. UNCHANGED <<codes, devices>> => Unusable /\ OwnersStay
      BY SameGrantRows DEF Unusable
    <2>2. CASE attachCodeFamily(r)
      <3>1. arg[r] \in Codes
        BY <2>2 DEF attachCodeFamily, RequestsFit, Remembers, CodePlaces
      <3>2. CASE codes[arg[r]] # None
        <4>1. codes[arg[r]] \in Code
          BY <3>1, <3>2 DEF RowsFit
        <4>2. [codes[arg[r]] EXCEPT !.fam = fam[r]].used = codes[arg[r]].used
          BY <4>1 DEF Code
        <4>3. codes' = [codes EXCEPT ![arg[r]] = [codes[arg[r]] EXCEPT !.fam = fam[r]]]
          BY <2>2, <3>2 DEF attachCodeFamily
        <4>4. \A c \in Codes : codes'[c] # None => codes[c] # None /\ (codes[c].used => codes'[c].used)
          BY <3>1, <3>2, <4>2, <4>3 DEF RowsFit
        <4>5. devices' = devices
          BY <2>2 DEF attachCodeFamily
        <4> QED BY <4>4, <4>5, RowsNarrow DEF Unusable, OwnersStay
      <3>3. CASE codes[arg[r]] = None
        BY <2>1, <2>2, <3>3 DEF attachCodeFamily
      <3> QED BY <3>2, <3>3
    <2>3. CASE approveDevice(r)
      <3>1. arg[r] \in Devices /\ codes' = codes
        BY <2>3 DEF approveDevice, RequestsFit, Remembers, DevicePlaces
      <3>2. CASE devices[arg[r]] # None /\ ~devices[arg[r]].owned /\ ~devices[arg[r]].denied
        <4>1. devices' = [devices EXCEPT ![arg[r]] = [devices[arg[r]] EXCEPT !.owned = TRUE]]
          BY <2>3, <3>2 DEF approveDevice
        <4>2. \A d \in Devices : devices'[d] # None =>
                /\ devices[d] # None
                /\ devices[d].denied => devices'[d].denied
                /\ devices[d].expires = 0 => devices'[d].expires = 0
          BY <1>1, <3>1, <3>2, <4>1 DEF RowsFit
        <4> QED BY <2>3, <3>1, <4>2, RowsNarrow DEF Unusable
      <3>3. CASE ~(devices[arg[r]] # None /\ ~devices[arg[r]].owned /\ ~devices[arg[r]].denied)
        BY <2>1, <2>3, <3>1, <3>3 DEF approveDevice
      <3> QED BY <3>2, <3>3
    <2>4. CASE denyDevice(r)
      <3>1. arg[r] \in Devices /\ codes' = codes
        BY <2>4 DEF denyDevice, RequestsFit, Remembers, DevicePlaces
      <3>2. CASE devices[arg[r]] # None
        <4>1. devices' = [devices EXCEPT ![arg[r]] = [devices[arg[r]] EXCEPT !.denied = TRUE]]
          BY <2>4, <3>2 DEF denyDevice
        <4>2. \A d \in Devices : devices'[d] # None =>
                /\ devices[d] # None
                /\ devices[d].denied => devices'[d].denied
                /\ devices[d].expires = 0 => devices'[d].expires = 0
          BY <1>1, <3>1, <3>2, <4>1 DEF RowsFit
        <4>3. OwnersStay
          BY <1>1, <3>1, <3>2, <4>1 DEF RowsFit, OwnersStay
        <4> QED BY <3>1, <4>2, <4>3, RowsNarrow DEF Unusable
      <3>3. CASE devices[arg[r]] = None
        BY <2>1, <2>4, <3>1, <3>3 DEF denyDevice
      <3> QED BY <3>2, <3>3
    <2>5. CASE LockAccount(r)
      <3>1. \A c \in Codes : codes'[c] # None => codes'[c] = codes[c]
        BY <2>5 DEF LockAccount
      <3> DEFINE Locks(d) == devices[d] # None /\ devices[d].owned /\ devices[d].expires > at[r]
      <3>2. /\ \A d \in Devices : Locks(d) => devices'[d] = [devices[d] EXCEPT !.denied = TRUE]
            /\ \A d \in Devices : ~Locks(d) => devices'[d] = devices[d]
        BY <2>5 DEF LockAccount
      <3>3. /\ \A d \in Devices : devices'[d] # None =>
                 /\ devices[d] # None
                 /\ devices[d].denied => devices'[d].denied
                 /\ devices[d].expires = 0 => devices'[d].expires = 0
            /\ \A d \in Devices : devices'[d] # None => devices'[d].owned = devices[d].owned
        BY <1>1, <3>2
      <3> QED BY <3>1, <3>3, RowsNarrow, Kinds DEF Unusable, OwnersStay, Usable
    <2>6. CASE UNCHANGED <<codes, devices>>
      BY <2>1, <2>6
    <2>7. CASE claimCode(r) \/ consumeDevice(r)
      BY <2>1, <2>7 DEF claimCode, consumeDevice, ClaimsCode, Consumes
    <2> QED BY <1>4, <2>2, <2>3, <2>4, <2>5, <2>6, <2>7 DEF Step, Arrives, Begins, TokenRequest, PageRequest, Dies,
      Replayed, Claimed, FindUser, issueRefresh, lookupRefresh, FindOwner, rotateRefreshAtomic, revokeFamily,
      pollDevice, Consumed, decideDevice, userForFederation, rows
  <1>5. CASE ~(\E r \in Requests : Step(r))
    <2>1. UNCHANGED <<pc, arg, known>>
      BY <1>5 DEF Next, Step, Grants1, purgeExpired, Tick, vars, history
    <2>2. Less
      BY <2>1 DEF Less, Owes
    <2>3. CASE purgeExpired
      <3>1. /\ \A c \in Codes : codes'[c] # None => codes'[c] = codes[c]
            /\ \A d \in Devices : devices'[d] # None => devices'[d] = devices[d]
        BY <2>3 DEF purgeExpired
      <3> QED BY <2>1, <2>2, <3>1, RowsNarrow, Kinds DEF Narrows, Less, OwnersStay, Usable
    <2>4. CASE UNCHANGED rows
      BY <2>1, <2>2, <2>4, SameGrantRows DEF Narrows, Less, rows
    <2> QED BY <1>5, <2>3, <2>4 DEF Next, Step, Grants1, Tick, vars
  <1>6. ASSUME NEW r \in Requests, Step(r)
        PROVE  known' = known
    BY <1>6 DEF Step, Arrives, Begins, Dies, TokenRequest, PageRequest, claimCode, Replayed, Claimed, FindUser,
       issueRefresh, attachCodeFamily, lookupRefresh, FindOwner, rotateRefreshAtomic, revokeFamily, pollDevice,
       consumeDevice, Consumed, decideDevice, approveDevice, denyDevice, userForFederation, LockAccount, history
  <1> QED BY <1>3, <1>4, <1>5, <1>6 DEF Narrows, Less, Unusable


LEMMA OwedNext ==
  ASSUME IInv, [Next]_vars
  PROVE  OwedOnce'
  <1>1. RowsFit /\ RequestsFit /\ RowsFit' /\ RequestsFit' /\ OwedOnce
    BY Steps DEF IInv
  <1>2. CASE Narrows
    BY <1>1, <1>2 DEF Narrows, OwedOnce
  <1>3. ASSUME NEW r \in Requests, NEW g \in Grants, arg[r] = g, arg' = arg,
               Usable(g), ~Usable(g)', known' = known,
               \A h \in Grants : h # g => (Usable(h)' => Usable(h)),
               \A q \in Requests : q # r => pc'[q] = pc[q]
        PROVE  OwedOnce'
    <2>1. \A q \in Requests : ~Owes(q, g) /\ g \in known
      BY <1>1, <1>3 DEF OwedOnce
    <2>2. \A q \in Requests : Owes(q, g)' => q = r
      BY <1>3, <2>1 DEF Owes
    <2>3. \A q \in Requests, h \in Grants : h # g => (Owes(q, h)' => Owes(q, h))
      BY <1>3 DEF Owes
    <2> QED BY <1>1, <1>3, <2>1, <2>2, <2>3 DEF OwedOnce
  <1>4. ASSUME NEW r \in Requests, ClaimsCode(r)
        PROVE  OwedOnce'
    <2>1. /\ arg[r] \in Codes /\ codes[arg[r]] # None /\ ~codes[arg[r]].used
          /\ codes' = [codes EXCEPT ![arg[r]] = [codes[arg[r]] EXCEPT !.used = TRUE]]
          /\ devices' = devices /\ known' = known /\ arg' = arg
          /\ \A q \in Requests : q # r => pc'[q] = pc[q]
      BY <1>1, <1>4 DEF ClaimsCode, claimCode, Claimable, RequestsFit, Remembers, CodePlaces, Goes, history
    <2>2. [codes[arg[r]] EXCEPT !.used = TRUE].used
      <3>1. codes[arg[r]] \in Code
        BY <1>1, <2>1 DEF RowsFit
      <3> QED BY <3>1 DEF Code
    <2>3. codes'[arg[r]].used /\ \A c \in Codes : c # arg[r] => codes'[c] = codes[c]
      BY <1>1, <2>1, <2>2 DEF RowsFit
    <2> QED BY <1>3, <2>1, <2>3, Kinds DEF Usable, Grants
  <1>5. ASSUME NEW r \in Requests, Consumes(r)
        PROVE  OwedOnce'
    <2>1. /\ arg[r] \in Devices /\ devices[arg[r]] # None /\ ~devices[arg[r]].denied
          /\ devices[arg[r]].expires > at[r] /\ at[r] \in Nat
          /\ devices' = [devices EXCEPT ![arg[r]] = [devices[arg[r]] EXCEPT !.expires = 0]]
          /\ codes' = codes /\ known' = known /\ arg' = arg
          /\ \A q \in Requests : q # r => pc'[q] = pc[q]
      BY <1>1, <1>5 DEF Consumes, consumeDevice, Consumable, RequestsFit, Remembers, DevicePlaces, Goes, history
    <2>2. [devices[arg[r]] EXCEPT !.expires = 0].expires = 0 /\ devices[arg[r]].expires # 0
      <3>1. devices[arg[r]] \in Device
        BY <1>1, <2>1 DEF RowsFit
      <3> QED BY <2>1, <3>1 DEF Device
    <2>3. devices'[arg[r]].expires = 0 /\ \A d \in Devices : d # arg[r] => devices'[d] = devices[d]
      BY <1>1, <2>1, <2>2 DEF RowsFit
    <2> QED BY <1>3, <2>1, <2>2, <2>3, Kinds DEF Usable, Grants
  <1>6. CASE Grants1
    <2>1. UNCHANGED <<pc, arg>> /\ known \subseteq known'
      BY <1>6 DEF Grants1, issueAuthCode, createDeviceGrant
    <2>2. PICK h \in Grants : /\ h \notin known /\ h \in known'
                              /\ \A g \in Grants : g # h => (Usable(g)' => Usable(g))
      <3>1. ASSUME NEW c \in Codes, issueAuthCode(c)
            PROVE  /\ c \notin known /\ c \in known'
                   /\ \A g \in Grants : g # c => (Usable(g)' => Usable(g))
        BY <1>1, <3>1 DEF issueAuthCode, Usable, RowsFit
      <3>2. ASSUME NEW d \in Devices, createDeviceGrant(d)
            PROVE  /\ d \notin known /\ d \in known'
                   /\ \A g \in Grants : g # d => (Usable(g)' => Usable(g))
        BY <1>1, <3>2 DEF createDeviceGrant, Usable, RowsFit
      <3> QED BY <1>6, <3>1, <3>2 DEF Grants1, Grants
    <2>3. \A q \in Requests, g \in Grants : Owes(q, g)' => Owes(q, g)
      BY <2>1 DEF Owes
    <2> QED BY <1>1, <2>1, <2>2, <2>3 DEF OwedOnce
  <1> QED BY <1>1, <1>2, <1>4, <1>5, <1>6, NarrowSteps

-----------------------------------------------------------------------------
(* The invariants. *)

LEMMA InvInit == Init => IInv
  <1> SUFFICES ASSUME Init
               PROVE  IInv
    OBVIOUS
  <1> USE Kinds DEF Init
  <1>1. TypeOK /\ Remembers
    BY DEF TypeOK, Remembers, Places, CodePlaces, DevicePlaces, TokenPlaces
  <1>2. FamiliesBegun /\ KnowsToken
    BY DEF FamiliesBegun, KnowsToken, Knows
  <1>3. OwedOnce
    BY DEF OwedOnce, Usable, Owes
  <1>4. OneLiveToken /\ ReuseEndsFamily
    BY DEF OneLiveToken, ReuseEndsFamily, Live
  <1> QED BY <1>1, <1>2, <1>3, <1>4 DEF IInv

LEMMA InvNext == IInv /\ [Next]_vars => IInv'
  <1> SUFFICES ASSUME IInv, [Next]_vars
               PROVE  IInv'
    OBVIOUS
  <1>1. TypeOK' /\ Remembers'
    BY TypeNext DEF IInv
  <1> QED BY <1>1, FamiliesNext, KnowsNext, OwedNext, OneLiveNext, ReuseNext DEF IInv

THEOREM InvCorrect == Spec => []IInv
  BY InvInit, InvNext, PTL DEF Spec

\* The type invariant.
THEOREM TypeCorrect == Spec => []TypeOK
  <1>1. IInv => TypeOK
    BY DEF IInv
  <1> QED BY <1>1, InvCorrect, PTL

\* However requests overlap, a family never has two tokens that can be rotated.
THEOREM OneLiveTokenCorrect == Spec => []OneLiveToken
  <1>1. IInv => OneLiveToken
    BY DEF IInv
  <1> QED BY <1>1, InvCorrect, PTL

\* A family whose spent token or code was presented, and answered, has ended.
THEOREM ReuseEndsFamilyCorrect == Spec => []ReuseEndsFamily
  <1>1. IInv => ReuseEndsFamily
    BY DEF IInv
  <1> QED BY <1>1, InvCorrect, PTL


-----------------------------------------------------------------------------
(* The grants keep their promise.                                           *)

\* Where a grant stands, and whether a family lives, are all the promise sees.
SameLives == \A f \in Tokens : Life(f)' = Life(f)
SameStandings(G) == \A g \in G : Standing(g)' = Standing(g)

LEMMA LivesEnd ==
  ASSUME Weakens
  PROVE  \A f \in Tokens : Life(f)' = Life(f) \/ (Life(f) = "live" /\ Life(f)' = "dead")
  <1>1. \A f \in Tokens : Alive(f)' => Alive(f)
    BY DEF Weakens, Alive, Live
  <1> QED BY <1>1 DEF Weakens, Life

LEMMA LivesGoOn ==
  ASSUME IInv, [Next]_vars, NEW r \in Requests, rotateRefreshAtomic(r), Rotatable(arg[r], at[r])
  PROVE  SameLives
  <1>1. RowsFit /\ RequestsFit /\ FamiliesBegun /\ KnowsToken
    BY Steps DEF IInv
  <1>2. PICK n \in Tokens :
          /\ n = issued + 1 /\ tokens[n] = None /\ arg[r] # n
          /\ Live(arg[r]) /\ arg[r] \in Tokens /\ tokens[arg[r]].fam = fam[r] /\ fam[r] \in Tokens
          /\ tokens' = [tokens EXCEPT ![arg[r]].revoked = TRUE, ![n] = NewToken(fam[r], at[r])]
          /\ root' = root
    BY <1>1, NewChild
  <1>3. tokens[arg[r]] # None /\ at[r] \in Nat
    BY <1>1, <1>2 DEF Live, RequestsFit
  <1>4. PICK p \in Tokens, f \in Tokens, time \in Nat :
          /\ p # n /\ tokens[p] # None /\ Live(p) /\ tokens[p].fam = f
          /\ tokens' = [tokens EXCEPT ![p].revoked = TRUE, ![n] = NewToken(f, time)]
    BY <1>2, <1>3
  <1>5. /\ tokens'[n].fam = f /\ ~tokens'[n].revoked /\ tokens'[n] # None
        /\ tokens'[p].revoked
        /\ \A t \in Tokens : t # p /\ t # n => tokens'[t] = tokens[t]
    <2>1. /\ RowsFit /\ p # n /\ tokens[p] # None
          /\ tokens' = [tokens EXCEPT ![p].revoked = TRUE, ![n] = NewToken(f, time)]
      BY <1>1, <1>4
    <2>2. tokens'[n].fam = f /\ ~tokens'[n].revoked
      BY <2>1 DEF RowsFit, NewToken
    <2>3. tokens'[n] # None /\ tokens'[p].revoked
      BY <2>1, ChildRows, ZenonT(60)
    <2>4. \A t \in Tokens : t # p /\ t # n => tokens'[t] = tokens[t]
      BY <2>1 DEF RowsFit
    <2> QED BY <2>2, <2>3, <2>4
  <1>6. p # n /\ tokens[p] # None /\ ~tokens[p].revoked /\ tokens[p].fam = f /\ tokens[n] = None
    BY <1>2, <1>4 DEF Live
  <1>7. \A e \in Tokens : Alive(e)' <=> Alive(e)
    <2>1. Alive(f) /\ Alive(f)'
      BY <1>5, <1>6 DEF Alive, Live
    <2>2. \A e \in Tokens : e # f => (Alive(e)' <=> Alive(e))
      BY <1>5, <1>6 DEF Alive, Live
    <2> QED BY <2>1, <2>2
  <1> QED BY <1>2, <1>7 DEF SameLives, Life

LEMMA StandingsEnd ==
  ASSUME OwedOnce, Narrows, OwnersStay
  PROVE  \A g \in Grants :
           Standing(g)' = Standing(g) \/ (Standing(g) # "fresh" /\ Standing(g)' = "closed")
  <1> TAKE g \in Grants
  <1>1. /\ (\E r \in Requests : Owes(r, g)') => \E r \in Requests : Owes(r, g)
        /\ Usable(g)' => Usable(g) /\ ~(\E r \in Requests : Owes(r, g))
        /\ g \in known' <=> g \in known
    BY DEF Narrows, OwedOnce
  <1>2. Usable(g)' /\ g \in Devices => (devices'[g].owned <=> devices[g].owned)
    BY DEF OwnersStay
  <1> QED BY <1>1, <1>2 DEF Standing

\* Grants or families that end, in any number, are one step of the promise.
LEMMA EndsAreClose ==
  ASSUME \A g \in Grants :
           Standing(g)' = Standing(g) \/ (Standing(g) # "fresh" /\ Standing(g)' = "closed"),
         \A f \in Tokens : Life(f)' = Life(f) \/ (Life(f) = "live" /\ Life(f)' = "dead")
  PROVE  Promise!Next
  <1> DEFINE G == {g \in Grants : Standing(g)' # Standing(g)}
             F == {f \in Tokens : Life(f)' # Life(f)}
  <1>1. G \in SUBSET {g \in Grants : [h \in Grants |-> Standing(h)][g] # "fresh"}
    OBVIOUS
  <1>2. F \in SUBSET {f \in Tokens : [e \in Tokens |-> Life(e)][f] = "live"}
    OBVIOUS
  <1>3. [g \in Grants |-> Standing(g)]'
          = [g \in Grants |-> IF g \in G THEN "closed" ELSE [h \in Grants |-> Standing(h)][g]]
    OBVIOUS
  <1>4. [f \in Tokens |-> Life(f)]'
          = [f \in Tokens |-> IF f \in F THEN "dead" ELSE [e \in Tokens |-> Life(e)][f]]
    OBVIOUS
  <1> HIDE DEF G, F
  <1>5. Promise!Close
    BY <1>1, <1>2, <1>3, <1>4 DEF Promise!Close
  <1> QED BY <1>5 DEF Promise!Next

\* One grant moves on and nothing else does.
LEMMA OneStanding ==
  ASSUME NEW g \in Grants, SameStandings(Grants \ {g}), SameLives
  PROVE  /\ [h \in Grants |-> Standing(h)]'
             = [[h \in Grants |-> Standing(h)] EXCEPT ![g] = Standing(g)']
         /\ [f \in Tokens |-> Life(f)]' = [f \in Tokens |-> Life(f)]
  BY DEF SameStandings, SameLives

\* Requests, tokens and the known grants are the same, so rows alone count.
LEMMA SameTables ==
  ASSUME UNCHANGED <<tokens, root>>
  PROVE  SameLives
  BY DEF SameLives, Life, Alive, Live

LEMMA ApprovalKept ==
  ASSUME IInv, [Next]_vars, NEW r \in Requests, approveDevice(r)
  PROVE  [Promise!Next]_(Promise!vars)
  <1>1. RowsFit /\ RequestsFit /\ OwedOnce
    BY Steps DEF IInv
  <1>2. PICK d \in Devices : d = arg[r] /\ d \in Grants
    BY <1>1 DEF approveDevice, RequestsFit, Remembers, DevicePlaces, Grants
  <1>3. \A q \in Requests, g \in Grants : Owes(q, g)' <=> Owes(q, g)
    BY <1>1, Kinds DEF approveDevice, Answers, Rests, Owes, RequestsFit, Grants
  <1>4. UNCHANGED <<codes, tokens, root, known>>
    BY DEF approveDevice, history
  <1>5. SameLives
    BY <1>4, SameTables
  <1>6. CASE devices' = devices
    <2>1. \A g \in Grants : Standing(g)' = Standing(g)
      BY <1>3, <1>4, <1>6 DEF Standing, Usable
    <2> QED BY <1>5, <2>1 DEF SameLives, Promise!vars
  <1>7. CASE devices' # devices
    <2>1. /\ devices[d] # None /\ ~devices[d].owned /\ ~devices[d].denied
          /\ devices' = [devices EXCEPT ![d] = [devices[d] EXCEPT !.owned = TRUE]]
      BY <1>2, <1>7 DEF approveDevice
    <2>2. /\ devices'[d] # None /\ devices'[d].owned /\ ~devices'[d].denied
          /\ devices'[d].expires = devices[d].expires
          /\ \A e \in Devices : e # d => devices'[e] = devices[e]
      <3>1. devices[d] \in Device
        BY <1>1, <1>2, <2>1 DEF RowsFit
      <3>2. [devices[d] EXCEPT !.owned = TRUE] \in Device
        BY <3>1, RowFacts
      <3> QED BY <1>1, <1>2, <2>1, <3>1, <3>2, NoneIsNoRow DEF RowsFit, Device
    <2>3. SameStandings(Grants \ {d})
      BY <1>3, <1>4, <2>2 DEF SameStandings, Standing, Usable
    <2>4. Usable(d)' <=> Usable(d)
      BY <1>2, <2>1, <2>2, Kinds DEF Usable
    <2>5. \/ Standing(d)' = Standing(d)
          \/ Standing(d) = "asked" /\ Standing(d)' = "granted"
      BY <1>2, <1>3, <1>4, <2>1, <2>2, <2>4 DEF Standing
    <2>6. CASE Standing(d)' = Standing(d)
      BY <1>5, <2>3, <2>6 DEF SameStandings, SameLives, Promise!vars
    <2>7. CASE Standing(d) = "asked" /\ Standing(d)' = "granted"
      <3>1. Promise!Approve(d)
        BY <1>2, <1>5, <2>3, <2>7, OneStanding DEF Promise!Approve
      <3> QED BY <1>2, <3>1 DEF Promise!Next
    <2> QED BY <2>5, <2>6, <2>7
  <1> QED BY <1>6, <1>7

LEMMA SpendKept ==
  ASSUME IInv, NEW r \in Requests, NEW g \in Grants, arg[r] = g, arg' = arg,
         pc' = [pc EXCEPT ![r] = IF g \in Codes THEN "claimed" ELSE "consumed"],
         pc[r] \in {"claim", "consume"},
         Usable(g), g \in Devices => devices[g].owned,
         UNCHANGED <<tokens, root, known>>,
         \A c \in Codes : c # g => codes'[c] = codes[c],
         \A d \in Devices : d # g => devices'[d] = devices[d]
  PROVE  Promise!Next
  <1>1. RequestsFit /\ OwedOnce
    BY Halves DEF IInv
  <1>2. SameLives
    BY SameTables
  <1>3. \A q \in Requests, h \in Grants : h # g => (Owes(q, h)' <=> Owes(q, h))
    BY <1>1 DEF Owes, RequestsFit
  <1>4. Owes(r, g)'
    BY <1>1 DEF Owes, RequestsFit
  <1>5. SameStandings(Grants \ {g})
    BY <1>3 DEF SameStandings, Standing, Usable
  <1>6. g \in known /\ \A q \in Requests : ~Owes(q, g)
    BY <1>1 DEF OwedOnce
  <1>7. Standing(g) = "granted"
    BY <1>6 DEF Standing
  <1>8. Standing(g)' = "owed"
    BY <1>4, <1>6 DEF Standing
  <1>9. Promise!Spend(g)
    BY <1>2, <1>5, <1>7, <1>8, OneStanding DEF Promise!Spend
  <1> QED BY <1>9 DEF Promise!Next

LEMMA StartKept ==
  ASSUME IInv, NEW r \in Requests, issueRefresh(r)
  PROVE  Promise!Next
  <1>1. RowsFit /\ RequestsFit /\ OwedOnce /\ FamiliesBegun
    BY Halves DEF IInv
  <1>2. PICK n \in Tokens :
          /\ root[n] = None /\ tokens[n] = None /\ arg[r] \in Grants
          /\ root' = [root EXCEPT ![n] = arg[r]]
          /\ tokens' = [tokens EXCEPT ![n] = NewToken(n, at[r])]
          /\ \A t \in Tokens : tokens[t] # None => tokens[t].fam # n
    BY <1>1, NewFamily
  <1>3. PICK g \in Grants : g = arg[r]
    BY <1>2
  <1>4. UNCHANGED <<codes, devices, known>>
    BY DEF issueRefresh
  <1>5. Owes(r, g)
    BY <1>3 DEF issueRefresh, Owes
  <1>6. /\ g \in known /\ ~Usable(g) /\ ~Usable(g)'
        /\ \A q \in Requests : Owes(q, g) => q = r
    BY <1>1, <1>2, <1>4, <1>5 DEF OwedOnce, Usable
  <1>7. /\ ~(pc'[r] \in {"claimed", "consumed", "user", "issue"})
        /\ \A q \in Requests : q # r => pc'[q] = pc[q] /\ arg'[q] = arg[q]
    BY <1>1 DEF issueRefresh, Goes, Answers, Rests, RequestsFit
  <1>8. \A q \in Requests, h \in Grants : h # g => (Owes(q, h)' <=> Owes(q, h))
    BY <1>3, <1>7 DEF Owes
  <1>9. \A q \in Requests : ~Owes(q, g)'
    BY <1>6, <1>7 DEF Owes
  <1>10. SameStandings(Grants \ {g})
    BY <1>4, <1>8 DEF SameStandings, Standing, Usable
  <1>11. Standing(g) = "owed" /\ Standing(g)' = "closed"
    BY <1>4, <1>5, <1>6, <1>9 DEF Standing
  <1>12. /\ tokens'[n] # None /\ tokens'[n].fam = n /\ ~tokens'[n].revoked
         /\ \A t \in Tokens : t # n => tokens'[t] = tokens[t] /\ root'[t] = root[t]
         /\ root'[n] # None
    <2>1. NewToken(n, at[r]) \in Token /\ NewToken(n, at[r]) # None
      BY <1>1, RowFacts, NoneIsNoRow DEF RequestsFit
    <2>2. NewToken(n, at[r]).fam = n /\ ~NewToken(n, at[r]).revoked
      BY DEF NewToken
    <2>3. arg[r] # None
      BY <1>2, MelodyConstants DEF Grants
    <2> QED BY <1>1, <1>2, <2>1, <2>2, <2>3 DEF RowsFit
  <1>13. \A f \in Tokens : f # n => (Alive(f)' <=> Alive(f))
    BY <1>2, <1>12 DEF Alive, Live
  <1>14. Life(n) = "none" /\ Life(n)' = "live"
    <2>1. Alive(n)'
      BY <1>12 DEF Alive, Live
    <2> QED BY <1>2, <1>12, <2>1 DEF Life
  <1>15. [f \in Tokens |-> Life(f)]' = [[f \in Tokens |-> Life(f)] EXCEPT ![n] = "live"]
    <2>1. \A f \in Tokens : f # n => Life(f)' = Life(f)
      BY <1>12, <1>13 DEF Life
    <2> QED BY <1>14, <2>1
  <1>16. [h \in Grants |-> Standing(h)]' = [[h \in Grants |-> Standing(h)] EXCEPT ![g] = "closed"]
    BY <1>10, <1>11 DEF SameStandings
  <1>17. Promise!Start(g, n)
    BY <1>11, <1>14, <1>15, <1>16 DEF Promise!Start
  <1> QED BY <1>17 DEF Promise!Next

LEMMA OpenKept ==
  ASSUME IInv, NEW g \in Grants, g \notin known, known' = known \cup {g},
         UNCHANGED <<pc, arg, tokens, root>>, Usable(g)',
         \A c \in Codes : c # g => codes'[c] = codes[c],
         \A d \in Devices : d # g => devices'[d] = devices[d]
  PROVE  Promise!Next
  <1>1. SameLives
    BY SameTables
  <1>2. SameStandings(Grants \ {g})
    BY DEF SameStandings, Standing, Usable, Owes
  <1>3. \A q \in Requests : ~Owes(q, g) /\ ~Owes(q, g)'
    BY DEF IInv, OwedOnce, Owes
  <1>4. Standing(g) = "fresh" /\ Standing(g)' \in {"asked", "granted"}
    BY <1>3 DEF Standing
  <1>5. Promise!Open(g)
    BY <1>1, <1>2, <1>4, OneStanding DEF Promise!Open
  <1> QED BY <1>5 DEF Promise!Next

LEMMA PromiseNext ==
  ASSUME IInv, [Next]_vars
  PROVE  [Promise!Next]_(Promise!vars)
  <1>1. RowsFit /\ RequestsFit /\ OwedOnce
    BY Steps DEF IInv
  <1>2. ASSUME NEW r \in Requests, ClaimsCode(r)
        PROVE  Promise!Next
    <2>1. /\ arg[r] \in Codes /\ arg[r] \in Grants /\ arg[r] \notin Devices
          /\ codes[arg[r]] # None /\ ~codes[arg[r]].used /\ pc[r] = "claim"
          /\ pc' = [pc EXCEPT ![r] = "claimed"] /\ arg' = arg
          /\ UNCHANGED <<devices, tokens, root, known>>
          /\ \A c \in Codes : c # arg[r] => codes'[c] = codes[c]
      BY <1>1, <1>2, Kinds DEF ClaimsCode, claimCode, Claimable, RequestsFit, RowsFit, Remembers, CodePlaces,
         Goes, history, Grants
    <2> QED BY <2>1, SpendKept DEF Usable
  <1>3. ASSUME NEW r \in Requests, Consumes(r)
        PROVE  Promise!Next
    <2>1. /\ arg[r] \in Devices /\ arg[r] \in Grants /\ arg[r] \notin Codes
          /\ devices[arg[r]] # None /\ ~devices[arg[r]].denied /\ devices[arg[r]].owned
          /\ devices[arg[r]].expires > at[r] /\ at[r] \in Nat /\ pc[r] = "consume"
          /\ pc' = [pc EXCEPT ![r] = "consumed"] /\ arg' = arg
          /\ UNCHANGED <<codes, tokens, root, known>>
          /\ \A d \in Devices : d # arg[r] => devices'[d] = devices[d]
      BY <1>1, <1>3, Kinds DEF Consumes, consumeDevice, Consumable, RequestsFit, RowsFit, Remembers, DevicePlaces,
         Goes, history, Grants
    <2>2. devices[arg[r]].expires # 0
      <3>1. devices[arg[r]] \in Device
        BY <1>1, <2>1 DEF RowsFit
      <3> QED BY <2>1, <3>1 DEF Device
    <2> QED BY <2>1, <2>2, SpendKept DEF Usable
  <1>4. ASSUME Grants1
        PROVE  Promise!Next
    <2>1. ASSUME NEW c \in Codes, issueAuthCode(c)
          PROVE  Promise!Next
      <3>1. /\ c \in Grants /\ c \notin known /\ known' = known \cup {c}
            /\ UNCHANGED <<pc, arg, tokens, root, devices>>
            /\ codes' = [codes EXCEPT ![c] = [used |-> FALSE, expires |-> now + CodeTtl, fam |-> None]]
        BY <2>1 DEF issueAuthCode, Grants
      <3>2. now + CodeTtl \in Nat
        BY <1>1, Kinds DEF RowsFit
      <3>3. [used |-> FALSE, expires |-> now + CodeTtl, fam |-> None] \in Code
        BY <3>2 DEF Code
      <3>4. /\ codes'[c] # None /\ ~codes'[c].used
            /\ \A b \in Codes : b # c => codes'[b] = codes[b]
        BY <1>1, <3>1, <3>3, NoneIsNoRow DEF RowsFit
      <3> QED BY <3>1, <3>4, OpenKept DEF Usable
    <2>2. ASSUME NEW d \in Devices, createDeviceGrant(d)
          PROVE  Promise!Next
      <3>1. /\ d \in Grants /\ d \notin known /\ known' = known \cup {d}
            /\ UNCHANGED <<pc, arg, tokens, root, codes>>
            /\ devices' = [devices EXCEPT ![d] = [owned |-> FALSE, denied |-> FALSE,
                                                  expires |-> now + DeviceTtl]]
        BY <2>2 DEF createDeviceGrant, Grants
      <3>2. now + DeviceTtl \in Nat \ {0}
        BY <1>1, Kinds DEF RowsFit
      <3>3. [owned |-> FALSE, denied |-> FALSE, expires |-> now + DeviceTtl] \in Device
        BY <3>2 DEF Device
      <3>4. /\ devices'[d] # None /\ ~devices'[d].denied /\ devices'[d].expires # 0
            /\ \A e \in Devices : e # d => devices'[e] = devices[e]
        BY <1>1, <3>1, <3>2, <3>3, NoneIsNoRow DEF RowsFit
      <3> QED BY <3>1, <3>4, OpenKept DEF Usable
    <2> QED BY <1>4, <2>1, <2>2 DEF Grants1
  <1>5. CASE /\ ~Grants1
             /\ \A r \in Requests : /\ ~ClaimsCode(r) /\ ~Consumes(r)
                                    /\ ~approveDevice(r) /\ ~issueRefresh(r)
    <2>1. \A g \in Grants :
            Standing(g)' = Standing(g) \/ (Standing(g) # "fresh" /\ Standing(g)' = "closed")
      BY <1>1, <1>5, NarrowSteps, StandingsEnd
    <2>2. \A f \in Tokens : Life(f)' = Life(f) \/ (Life(f) = "live" /\ Life(f)' = "dead")
      BY <1>5, Steps, LivesEnd, LivesGoOn DEF SameLives
    <2> QED BY <2>1, <2>2, EndsAreClose
  <1> QED BY <1>2, <1>3, <1>4, <1>5, ApprovalKept, StartKept

LEMMA PromiseInit == Init => Promise!Init
  <1> SUFFICES ASSUME Init
               PROVE  Promise!Init
    OBVIOUS
  <1>1. \A g \in Grants : Standing(g) = "fresh"
    BY DEF Init, Standing
  <1>2. \A f \in Tokens : Life(f) = "none"
    BY DEF Init, Life
  <1> QED BY <1>1, <1>2 DEF Promise!Init

\* The token tables keep what is promised of grants: a code or device code is
\* spent by one request, never after its denial, and starts one family at most;
\* a family that has ended stays ended.
THEOREM KeepsPromiseCorrect == Spec => KeepsPromise
  BY InvCorrect, PromiseInit, PromiseNext, PTL DEF Spec, KeepsPromise, Promise!Spec

=============================================================================

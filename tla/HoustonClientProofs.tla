------------------------- MODULE HoustonClientProofs -------------------------
(***************************************************************************)
(* Safety of the Houston client, for any number of callers, tokens and     *)
(* ticks, any integrations, and requests that fail at will.                *)
(*                                                                         *)
(* The argument: the mutex is held from the first look at authToken to the *)
(* last write, requests included, so what the holder learned of the stored *)
(* token is still about the stored token when it acts on it, and the token *)
(* issued last is the holder's own.  A caller that uses a token without    *)
(* verifying it has seen that its exp date is past.                        *)
(*                                                                         *)
(* What the loops over an answer compute is proved by induction over the   *)
(* entries, with a set in place of a predicate (NatClosure).               *)
(***************************************************************************)
EXTENDS HoustonClient, SequenceTheorems, WellFoundedInduction, TLAPS

Replies == {"error", "accepted", "faulty"}

(* TypeOK, and the domains it does not state. *)
Types ==
  /\ TypeOK
  /\ answer \in [Callers -> {"none", "error", "accepted", "faulty"}]
  /\ DOMAIN integrations = Callers

Locked == {"verify", "verified", "create", "created"}

(* GetAuthorizationToken holds the mutex while it works on the token. *)
Exclusion == \A t \in Callers : pc[t] \in Locked => mutex = t

(* Tokens come from Houston or from the configuration. *)
Held == Issued \cup {NoToken, APIKey}

Stored ==
  /\ token \in Held
  /\ \A t \in Callers : got[t] \in Held
  /\ TokenPair

(* What the holder of the mutex knows of the stored token. *)
Knows(t) ==
  /\ pc[t] = "verify" => token \in Issued
  /\ pc[t] = "verified" =>
       /\ token \in Issued /\ got[t] = token
       /\ answer[t] = "accepted" => token \notin known[t]
  /\ pc[t] = "create" =>
       token = NoToken \/ (got[t] = token /\ answer[t] = "faulty")
  /\ pc[t] = "created" /\ answer[t] = "accepted" =>
       Len(expiry) # 0 /\ Len(expiry) \notin known[t]

Holder == \A t \in Callers : Knows(t)

(* No revocation is undone. *)
Final == \A t \in Callers : known[t] \subseteq revoked

(* What GetIntegrations returns is made from all of Houston's answer, or   *)
(* from the part that a faulty reply has of it.                            *)
Mapped ==
  \A t \in Callers :
    /\ pc[t] # "idle" => result[t] = "none"
    /\ result[t] = "map" =>
         /\ answer[t] = "accepted" =>
              integrations[t] = integrationsMap(sources)
         /\ \E src \in Parts(sources) : integrations[t] = integrationsMap(src)

HInv ==
  /\ Types /\ Exclusion /\ Stored /\ Holder /\ Final
  /\ NoRevokedToken /\ Mapped

-----------------------------------------------------------------------------
(* What the issue of a token changes: it gets a number no token had. *)
LEMMA Issue ==
  ASSUME Types, Len(expiry) < MaxTokens,
         expiry' = Append(expiry, now + Lifetime)
  PROVE  /\ expiry' \in Seq(1..(MaxClock + Lifetime))
         /\ Len(expiry') \in Nat /\ Len(expiry') <= MaxTokens
         /\ Len(expiry') \notin Issued /\ Len(expiry') # 0
         /\ Issued' = Issued \cup {Len(expiry')}
         /\ \A k \in Issued : expiry'[k] = expiry[k]
<1>1. /\ expiry \in Seq(1..(MaxClock + Lifetime)) /\ Len(expiry) \in Nat
      /\ now + Lifetime \in 1..(MaxClock + Lifetime)
  BY HoustonAssumption DEF Types, TypeOK
<1>2. Len(expiry') = Len(expiry) + 1
  BY <1>1
<1> QED
  BY <1>1, <1>2, HoustonAssumption DEF Issued

(* The part of the types that a call's return concerns. *)
Returned ==
  /\ pc \in [Callers -> {"idle", "lock", "verify", "verified", "create",
                         "created", "query"}]
  /\ got \in [Callers -> Tokens]
  /\ result \in [Callers -> {"none", "error", "token", "map"}]
  /\ known \in [Callers -> SUBSET Revocable]

(* GetAuthorizationToken's return, and GetIntegrations' after it. *)
LEMMA HaveTokenReturns ==
  ASSUME Types, NEW t \in Callers, NEW k \in Tokens, HaveToken(t, k),
         UNCHANGED <<config, expiry>>
  PROVE  Returned'
<1>1. Returned /\ Revocable' = Revocable
  BY DEF Types, TypeOK, Returned, Revocable, Issued
<1>2. got' \in [Callers -> Tokens]
  BY <1>1 DEF HaveToken, Returned
<1>3. CASE want[t] = "integrations"
  BY <1>1, <1>2, <1>3 DEF HaveToken, Returned
<1>4. CASE want[t] # "integrations"
  BY <1>1, <1>2, <1>4 DEF HaveToken, Return, Returned
<1> QED
  BY <1>3, <1>4

LEMMA ErrorReturns ==
  ASSUME Types, NEW t \in Callers, NEW r \in {"error", "token", "map"},
         Return(t, r), UNCHANGED <<config, expiry, got>>
  PROVE  Returned'
BY DEF Types, TypeOK, Return, Returned, Revocable, Issued

(* The rest of the types. *)
LEMMA TypesFrom ==
  ASSUME Types, Returned', UNCHANGED <<config, expiry, now, revoked, sources,
                                       want>>,
         token' \in Tokens, expDate' \in 0..(MaxClock + Lifetime),
         mutex' \in Callers \cup {Nobody}, DOMAIN integrations' = Callers,
         answer' \in [Callers -> {"none", "error", "accepted", "faulty"}]
  PROVE  Types'
<1>1. Revocable' = Revocable
  BY DEF Revocable, Issued
<1> QED
  BY <1>1 DEF Types, TypeOK, Returned

(* Every step keeps the types. *)
LEMMA TypesStep ==
  ASSUME Types, Stored, Holder, Final, [Next]_vars
  PROVE  Types'
<1> USE HoustonAssumption DEF Types, TypeOK, Tokens, Revocable, Issued,
NoToken, ZeroTime, Stored, Holder, Knows, Final, Held, TokenPair
<1>0. ASSUME UNCHANGED vars PROVE Types'
  BY <1>0 DEF vars, auth, houston
<1>1. ASSUME NEW t \in Callers, NEW w \in {"token", "integrations"}, Call(t, w)
      PROVE  Types'
  BY <1>1 DEF Call, auth, houston
<1>2. ASSUME NEW t \in Callers, GetAuthorizationToken(t) PROVE Types'
  <2>1. /\ token \in Tokens /\ expDate \in 0..(MaxClock + Lifetime)
        /\ answer \in [Callers -> {"none", "error", "accepted", "faulty"}]
        /\ DOMAIN integrations = Callers /\ mutex \in Callers \cup {Nobody}
    OBVIOUS
  <2> HIDE DEF Types, TypeOK, Tokens, Revocable, Issued, Stored, Holder, Knows,
              Final, Held, TokenPair
  <2>2. UNCHANGED <<config, expiry, now, revoked, sources, want, token,
                    expDate, answer, integrations>>
    BY <1>2 DEF GetAuthorizationToken, auth, houston
  <2>3. CASE HaveToken(t, token) /\ UNCHANGED mutex
    <3>1. Returned'
      BY <2>1, <2>2, <2>3, HaveTokenReturns
    <3> QED
      BY <2>1, <2>2, <2>3, <3>1, TypesFrom
  <2>4. CASE /\ mutex' = t
             /\ pc' = [pc EXCEPT ![t] =
                         IF token # NoToken THEN "verify" ELSE "create"]
             /\ UNCHANGED <<got, result, known>>
    <3>1. Returned'
      BY <2>2, <2>4 DEF Returned, Types, TypeOK, Revocable, Issued
    <3> QED
      BY <2>1, <2>2, <2>4, <3>1, TypesFrom
  <2> QED
    BY <1>2, <2>3, <2>4 DEF GetAuthorizationToken
<1>3. ASSUME NEW t \in Callers, NEW reply \in Replies, verifyToken(t, reply)
      PROVE  Types'
  BY <1>3 DEF verifyToken, queryHouston, Do, auth, houston
<1>4. ASSUME NEW t \in Callers, Verified(t) PROVE Types'
  <2>1. /\ token \in Tokens /\ expDate \in 0..(MaxClock + Lifetime)
        /\ answer' \in [Callers -> {"none", "error", "accepted", "faulty"}]
        /\ DOMAIN integrations = Callers /\ mutex \in Callers \cup {Nobody}
        /\ pc[t] = "verified" => expiry[got[t]] \in 0..(MaxClock + Lifetime)
    BY <1>4 DEF Verified
  <2> HIDE DEF Types, TypeOK, Tokens, Revocable, Issued, Stored, Holder, Knows,
              Final, Held, TokenPair
  <2>2. /\ UNCHANGED <<config, expiry, now, revoked, sources, want,
                       integrations>>
        /\ pc[t] = "verified"
    BY <1>4 DEF Verified, houston
  <2>3. CASE Return(t, "error") /\ mutex' = Nobody /\ UNCHANGED <<auth, got>>
    <3>1. Returned'
      BY <2>2, <2>3, ErrorReturns
    <3> QED
      BY <2>1, <2>2, <2>3, <3>1, TypesFrom DEF auth
  <2>4. CASE /\ expDate' = expiry[got[t]] /\ mutex' = Nobody
             /\ HaveToken(t, token) /\ UNCHANGED token
    <3>1. Returned'
      BY <2>1, <2>2, <2>4, HaveTokenReturns
    <3> QED
      BY <2>1, <2>2, <2>4, <3>1, TypesFrom
  <2>5. CASE /\ pc' = [pc EXCEPT ![t] = "create"]
             /\ UNCHANGED <<auth, mutex, got, result, known>>
    <3>1. Returned'
      BY <2>2, <2>5 DEF auth, Returned, Types, TypeOK, Revocable, Issued
    <3> QED
      BY <2>1, <2>2, <2>5, <3>1, TypesFrom DEF auth
  <2> QED
    BY <1>4, <2>3, <2>4, <2>5 DEF Verified, UnlockOnError
<1>5. ASSUME NEW t \in Callers, NEW reply \in Replies, createToken(t, reply)
      PROVE  Types'
  <2> HIDE DEF Types, TypeOK, Tokens, Revocable, Issued, Stored, Holder, Knows,
              Final, Held, TokenPair
  <2>1. /\ UNCHANGED <<config, auth, mutex, now, revoked, sources, want, got,
                       result, integrations, known>>
        /\ answer' = [answer EXCEPT ![t] = reply]
        /\ pc' = [pc EXCEPT ![t] = "created"]
    BY <1>5 DEF createToken
  <2>2. /\ expiry' \in Seq(1..(MaxClock + Lifetime))
        /\ Len(expiry') <= MaxTokens
        /\ Issued \subseteq Issued'
    <3>1. CASE UNCHANGED expiry
      BY <3>1 DEF Types, TypeOK, Issued
    <3>2. CASE /\ Len(expiry) < MaxTokens
               /\ expiry' = Append(expiry, now + Lifetime)
      BY <3>2, Issue
    <3> QED
      BY <1>5, <3>1, <3>2 DEF createToken
  <2>3. Revocable \subseteq Revocable'
    BY <2>1, <2>2 DEF Revocable
  <2>4. /\ pc' \in [Callers -> {"idle", "lock", "verify", "verified", "create",
                               "created", "query"}]
        /\ answer' \in [Callers -> {"none", "error", "accepted", "faulty"}]
    BY <2>1 DEF Types, TypeOK, Replies
  <2>5. /\ known' \in [Callers -> SUBSET Revocable']
        /\ revoked' \subseteq Revocable'
    BY <2>1, <2>3 DEF Types, TypeOK
  <2> QED
    BY <2>1, <2>2, <2>4, <2>5 DEF Types, TypeOK, auth
<1>6. ASSUME NEW t \in Callers, Created(t) PROVE Types'
  <2> DEFINE new == IF answer[t] = "accepted" THEN Len(expiry) ELSE NoToken
  <2>1. /\ token \in Tokens /\ expDate \in 0..(MaxClock + Lifetime)
        /\ answer' \in [Callers -> {"none", "error", "accepted", "faulty"}]
        /\ DOMAIN integrations = Callers
    BY <1>6 DEF Created
  <2>2. new # NoToken => new \in 1..Len(expiry)
    BY <1>6 DEF Created
  <2>3. /\ new \in Tokens
        /\ (IF new = NoToken THEN ZeroTime ELSE expiry[new])
              \in 0..(MaxClock + Lifetime)
    BY <2>2
  <2> HIDE DEF Types, TypeOK, Tokens, Revocable, Issued, Stored, Holder, Knows,
              Final, Held, TokenPair
  <2>4. /\ UNCHANGED <<config, expiry, now, revoked, sources, want,
                       integrations>>
        /\ mutex' = Nobody
    BY <1>6 DEF Created, houston
  <2>5. CASE Return(t, "error") /\ UNCHANGED <<auth, got>>
    <3>1. Returned'
      BY <2>4, <2>5, ErrorReturns
    <3> QED
      BY <2>1, <2>4, <2>5, <3>1, TypesFrom DEF auth
  <2>6. CASE /\ token' = new
             /\ expDate' = IF new = NoToken THEN ZeroTime ELSE expiry[new]
             /\ HaveToken(t, new)
    <3>1. Returned'
      BY <2>3, <2>4, <2>6, HaveTokenReturns
    <3> QED
      BY <2>1, <2>3, <2>4, <2>6, <3>1, TypesFrom
  <2> QED
    BY <1>6, <2>5, <2>6 DEF Created
<1>7. ASSUME NEW t \in Callers, GetIntegrations(t) PROVE Types'
  <2> HIDE DEF Types, TypeOK, Tokens, Revocable, Issued, Stored, Holder, Knows,
              Final, Held, TokenPair
  <2>1. /\ UNCHANGED <<config, auth, mutex, now, houston, want, got>>
        /\ \E reply \in Replies : answer' = [answer EXCEPT ![t] = reply]
    BY <1>7 DEF GetIntegrations, queryHouston, Do, Replies
  <2>2. Return(t, "error") \/ Return(t, "map")
    BY <1>7 DEF GetIntegrations, Outcome
  <2>3. Returned'
    BY <2>1, <2>2, ErrorReturns DEF houston
  <2>4. DOMAIN integrations' = Callers
    BY <1>7 DEF GetIntegrations, Types
  <2>5. /\ token \in Tokens /\ expDate \in 0..(MaxClock + Lifetime)
        /\ answer' \in [Callers -> {"none", "error", "accepted", "faulty"}]
        /\ mutex \in Callers \cup {Nobody}
    BY <2>1 DEF Types, TypeOK, Replies
  <2> QED
    BY <2>1, <2>3, <2>4, <2>5, TypesFrom DEF auth, houston
<1>8. ASSUME NEW k \in Revocable, Revoke(k) PROVE Types'
  BY <1>8 DEF Revoke, auth, houston
<1>9. ASSUME Tick PROVE Types'
  BY <1>9 DEF Tick, auth, houston
<1> HIDE DEF Types, TypeOK, Tokens, Revocable, Stored, Holder, Final
<1> QED
  BY <1>0, <1>1, <1>2, <1>3, <1>4, <1>5, <1>6, <1>7, <1>8, <1>9 DEF Next,
     Step, Replies

(* Only who has the mutex frees it. *)
LEMMA ExclusionStep ==
  ASSUME Types, Exclusion, [Next]_vars
  PROVE  Exclusion'
<1> USE HoustonAssumption DEF Types, TypeOK, Exclusion, Locked
<1>0. ASSUME UNCHANGED vars PROVE Exclusion'
  BY <1>0 DEF vars, auth, houston
<1>1. ASSUME NEW t \in Callers, NEW w \in {"token", "integrations"}, Call(t, w)
      PROVE  Exclusion'
  BY <1>1 DEF Call, auth, houston
<1>2. ASSUME NEW t \in Callers, GetAuthorizationToken(t) PROVE Exclusion'
  BY <1>2 DEF GetAuthorizationToken, MutexFree, ExpDateGood, HaveToken,
     Return, auth, houston
<1>3. ASSUME NEW t \in Callers, NEW reply \in Replies, verifyToken(t, reply)
      PROVE  Exclusion'
  BY <1>3 DEF verifyToken, queryHouston, Do, auth, houston
<1>4. ASSUME NEW t \in Callers, Verified(t) PROVE Exclusion'
  BY <1>4 DEF Verified, Verdict, UnlockOnError, HaveToken, Return, auth,
     houston
<1>5. ASSUME NEW t \in Callers, NEW reply \in Replies, createToken(t, reply)
      PROVE  Exclusion'
  BY <1>5 DEF createToken, Do, auth, houston
<1>6. ASSUME NEW t \in Callers, Created(t) PROVE Exclusion'
  BY <1>6 DEF Created, HaveToken, Return, auth, houston
<1>7. ASSUME NEW t \in Callers, GetIntegrations(t) PROVE Exclusion'
  BY <1>7 DEF GetIntegrations, queryHouston, Do, Return, Outcome, auth,
     houston
<1>8. ASSUME NEW k \in Revocable, Revoke(k) PROVE Exclusion'
  BY <1>8 DEF Revoke, auth, houston
<1>9. ASSUME Tick PROVE Exclusion'
  BY <1>9 DEF Tick, auth, houston
<1> QED
  BY <1>0, <1>1, <1>2, <1>3, <1>4, <1>5, <1>6, <1>7, <1>8, <1>9 DEF Next,
     Step, Replies

(* The token and its exp date are stored together, by the holder, and are *)
(* those of one token.                                                     *)
LEMMA StoredStep ==
  ASSUME Types, Stored, Holder, Exclusion, [Next]_vars
  PROVE  Stored'
<1> USE HoustonAssumption DEF Types, TypeOK, Tokens, Revocable, Issued,
NoToken, ZeroTime, Stored, Holder, Knows, Held, TokenPair
<1>0. ASSUME UNCHANGED vars PROVE Stored'
  BY <1>0 DEF vars, auth, houston
<1>1. ASSUME NEW t \in Callers, NEW w \in {"token", "integrations"}, Call(t, w)
      PROVE  Stored'
  BY <1>1 DEF Call, auth, houston
<1>2. ASSUME NEW t \in Callers, GetAuthorizationToken(t) PROVE Stored'
  BY <1>2 DEF GetAuthorizationToken, MutexFree, ExpDateGood, HaveToken,
     Return, auth, houston
<1>3. ASSUME NEW t \in Callers, NEW reply \in Replies, verifyToken(t, reply)
      PROVE  Stored'
  BY <1>3 DEF verifyToken, queryHouston, Do, auth, houston
<1>4. ASSUME NEW t \in Callers, Verified(t) PROVE Stored'
  BY <1>4 DEF Verified, Verdict, UnlockOnError, HaveToken, Return, auth,
     houston
<1>5. ASSUME NEW t \in Callers, NEW reply \in Replies, createToken(t, reply)
      PROVE  Stored'
  <2> HIDE DEF Types, TypeOK, Issued, Held, TokenPair, Revocable, Stored
  <2>0. /\ UNCHANGED <<token, expDate, got>>
        /\ Stored
    BY <1>5 DEF createToken, auth
  <2>1. CASE UNCHANGED expiry
    BY <2>0, <2>1 DEF Stored, Held, Issued, TokenPair
  <2>2. CASE /\ Len(expiry) < MaxTokens
             /\ expiry' = Append(expiry, now + Lifetime)
    <3>1. /\ Issued' = Issued \cup {Len(expiry')}
          /\ Len(expiry') \notin Issued /\ Len(expiry') \in Nat \ {0}
          /\ \A k \in Issued : expiry'[k] = expiry[k]
      BY <2>2, Issue
    <3>2. Len(expiry') # token
      BY <2>0, <3>1, HoustonAssumption DEF Stored, Held
    <3>3. TokenPair'
      BY <2>0, <3>1, <3>2 DEF Stored, TokenPair
    <3> QED
      BY <2>0, <3>1, <3>3 DEF Stored, Held
  <2> QED
    BY <1>5, <2>1, <2>2 DEF createToken
<1>6. ASSUME NEW t \in Callers, Created(t) PROVE Stored'
  <2> HIDE DEF Types, TypeOK, Issued, Held, TokenPair, Revocable, Stored
  <2> DEFINE new == IF answer[t] = "accepted" THEN Len(expiry) ELSE NoToken
  <2>1. /\ Stored /\ UNCHANGED expiry
        /\ got \in [Callers -> Tokens]
    BY <1>6 DEF Created, houston, Types, TypeOK
  <2>2. CASE UNCHANGED <<auth, got>>
    BY <2>1, <2>2 DEF auth, Stored, Held, Issued, TokenPair
  <2>3. CASE /\ token' = new
             /\ expDate' = IF new = NoToken THEN ZeroTime ELSE expiry[new]
             /\ HaveToken(t, new)
    <3>1. new = NoToken \/ new \in Issued
      BY <1>6 DEF Created, Holder, Knows, Issued, Types, TypeOK
    <3>2. NoToken \notin Issued
      BY DEF Issued
    <3>3. TokenPair'
      BY <2>1, <2>3, <3>1, <3>2 DEF TokenPair, Issued
    <3>4. token' \in Held' /\ \A u \in Callers : got'[u] \in Held'
      BY <2>1, <2>3, <3>1 DEF Held, Stored, Issued, HaveToken
    <3> QED
      BY <3>3, <3>4 DEF Stored
  <2> QED
    BY <1>6, <2>2, <2>3 DEF Created
<1>7. ASSUME NEW t \in Callers, GetIntegrations(t) PROVE Stored'
  BY <1>7 DEF GetIntegrations, queryHouston, Do, Return, Outcome, auth,
     houston
<1>8. ASSUME NEW k \in Revocable, Revoke(k) PROVE Stored'
  BY <1>8 DEF Revoke, auth, houston
<1>9. ASSUME Tick PROVE Stored'
  BY <1>9 DEF Tick, auth, houston
<1> QED
  BY <1>0, <1>1, <1>2, <1>3, <1>4, <1>5, <1>6, <1>7, <1>8, <1>9 DEF Next,
     Step, Replies

(* What the holder knows of the stored token stays true: nobody else       *)
(* stores or issues one, and Houston does not undo a revocation.           *)
LEMMA HolderStep ==
  ASSUME Types, Exclusion, Stored, Holder, Final, [Next]_vars
  PROVE  Holder'
<1> USE HoustonAssumption DEF Types, TypeOK, Tokens, Revocable, Issued,
NoToken, ZeroTime, Exclusion, Locked, Stored, Holder, Knows, Held, TokenPair,
Final, Accepts
<1>0. ASSUME UNCHANGED vars PROVE Holder'
  BY <1>0 DEF vars, auth, houston
<1>1. ASSUME NEW t \in Callers, NEW w \in {"token", "integrations"}, Call(t, w)
      PROVE  Holder'
  BY <1>1 DEF Call, auth, houston
<1>2. ASSUME NEW t \in Callers, GetAuthorizationToken(t) PROVE Holder'
  BY <1>2 DEF GetAuthorizationToken, MutexFree, ExpDateGood, HaveToken,
     Return, auth, houston
<1>3. ASSUME NEW t \in Callers, NEW reply \in Replies, verifyToken(t, reply)
      PROVE  Holder'
  BY <1>3 DEF verifyToken, queryHouston, Do, auth, houston
<1>4. ASSUME NEW t \in Callers, Verified(t) PROVE Holder'
  BY <1>4 DEF Verified, Verdict, UnlockOnError, HaveToken, Return, auth,
     houston
<1>5. ASSUME NEW t \in Callers, NEW reply \in Replies, createToken(t, reply)
      PROVE  Holder'
  <2> HIDE DEF Types, TypeOK, Issued, Held, TokenPair, Stored, Final, Knows,
              Accepts
  <2>1. /\ UNCHANGED <<token, got, known>> /\ pc[t] = "create"
        /\ \A u \in Callers \ {t} : pc'[u] = pc[u] /\ pc[u] \notin Locked
        /\ pc'[t] = "created" /\ answer'[t] = reply
    BY <1>5 DEF createToken, auth, Types, TypeOK
  <2>2. ASSUME NEW u \in Callers, u # t PROVE Knows(u)'
    BY <2>1, <2>2 DEF Knows
  <2>3. reply = "accepted" =>
          Len(expiry') # 0 /\ Len(expiry') \notin known[t]
    <3>1. reply = "accepted" => /\ Len(expiry) < MaxTokens
                                /\ expiry' = Append(expiry, now + Lifetime)
      BY <1>5 DEF createToken, Do
    <3>2. known[t] \subseteq Issued \cup {APIKey}
      BY DEF Types, TypeOK, Revocable
    <3> QED
      BY <3>1, <3>2, Issue, HoustonAssumption
  <2>4. Knows(t)'
    BY <2>1, <2>3 DEF Knows
  <2> QED
    BY <2>2, <2>4
<1>6. ASSUME NEW t \in Callers, Created(t) PROVE Holder'
  BY <1>6 DEF Created, HaveToken, Return, auth, houston
<1>7. ASSUME NEW t \in Callers, GetIntegrations(t) PROVE Holder'
  BY <1>7 DEF GetIntegrations, queryHouston, Do, Return, Outcome, auth,
     houston
<1>8. ASSUME NEW k \in Revocable, Revoke(k) PROVE Holder'
  BY <1>8 DEF Revoke, auth, houston
<1>9. ASSUME Tick PROVE Holder'
  BY <1>9 DEF Tick, auth, houston
<1> QED
  BY <1>0, <1>1, <1>2, <1>3, <1>4, <1>5, <1>6, <1>7, <1>8, <1>9 DEF Next,
     Step, Replies

(* No step undoes a revocation. *)
LEMMA FinalStep ==
  ASSUME Types, Final, [Next]_vars
  PROVE  Final'
<1> USE HoustonAssumption DEF Types, TypeOK, Final
<1>0. ASSUME UNCHANGED vars PROVE Final'
  BY <1>0 DEF vars, auth, houston
<1>1. ASSUME NEW t \in Callers, NEW w \in {"token", "integrations"}, Call(t, w)
      PROVE  Final'
  BY <1>1 DEF Call, auth, houston
<1>2. ASSUME NEW t \in Callers, GetAuthorizationToken(t) PROVE Final'
  BY <1>2 DEF GetAuthorizationToken, MutexFree, ExpDateGood, HaveToken,
     Return, auth, houston
<1>3. ASSUME NEW t \in Callers, NEW reply \in Replies, verifyToken(t, reply)
      PROVE  Final'
  BY <1>3 DEF verifyToken, queryHouston, Do, auth, houston
<1>4. ASSUME NEW t \in Callers, Verified(t) PROVE Final'
  BY <1>4 DEF Verified, Verdict, UnlockOnError, HaveToken, Return, auth,
     houston
<1>5. ASSUME NEW t \in Callers, NEW reply \in Replies, createToken(t, reply)
      PROVE  Final'
  BY <1>5 DEF createToken, Do, auth, houston
<1>6. ASSUME NEW t \in Callers, Created(t) PROVE Final'
  BY <1>6 DEF Created, HaveToken, Return, auth, houston
<1>7. ASSUME NEW t \in Callers, GetIntegrations(t) PROVE Final'
  BY <1>7 DEF GetIntegrations, queryHouston, Do, Return, Outcome, auth,
     houston
<1>8. ASSUME NEW k \in Revocable, Revoke(k) PROVE Final'
  BY <1>8 DEF Revoke, auth, houston
<1>9. ASSUME Tick PROVE Final'
  BY <1>9 DEF Tick, auth, houston
<1> QED
  BY <1>0, <1>1, <1>2, <1>3, <1>4, <1>5, <1>6, <1>7, <1>8, <1>9 DEF Next,
     Step, Replies

(* A token a call goes on with is past its exp date, or was verified or    *)
(* created after the call began.                                           *)
LEMMA NoRevokedStep ==
  ASSUME Types, Exclusion, Stored, Holder, Final, NoRevokedToken, [Next]_vars
  PROVE  NoRevokedToken'
<1> USE HoustonAssumption DEF Types, TypeOK, Tokens, Revocable, Issued,
NoToken, ZeroTime, Stored, Holder, Knows, Held, TokenPair, Final,
NoRevokedToken
<1>0. ASSUME UNCHANGED vars PROVE NoRevokedToken'
  BY <1>0 DEF vars, auth, houston
<1>1. ASSUME NEW t \in Callers, NEW w \in {"token", "integrations"}, Call(t, w)
      PROVE  NoRevokedToken'
  BY <1>1 DEF Call, auth, houston
<1>2. ASSUME NEW t \in Callers, GetAuthorizationToken(t) PROVE NoRevokedToken'
  <2> HIDE DEF Types, TypeOK, Issued, Stored, Held, TokenPair, Holder, Knows
  <2>1. /\ UNCHANGED <<expiry, now>>
        /\ \A u \in Callers \ {t} : UNCHANGED <<pc[u], got[u], known[u]>>
    BY <1>2 DEF GetAuthorizationToken, houston, HaveToken, Return, Types,
       TypeOK
  <2>2. pc'[t] = "query" => got'[t] = token /\ expDate < now
    BY <1>2 DEF GetAuthorizationToken, ExpDateGood, HaveToken, Return, Types,
       TypeOK
  <2>3. token \in Issued => expDate = expiry[token]
    BY DEF Stored, TokenPair
  <2> QED
    BY <2>1, <2>2, <2>3 DEF Issued
<1>3. ASSUME NEW t \in Callers, NEW reply \in Replies, verifyToken(t, reply)
      PROVE  NoRevokedToken'
  BY <1>3 DEF verifyToken, queryHouston, Do, auth, houston
<1>4. ASSUME NEW t \in Callers, Verified(t) PROVE NoRevokedToken'
  BY <1>4 DEF Verified, Verdict, UnlockOnError, HaveToken, Return, auth,
     houston
<1>5. ASSUME NEW t \in Callers, NEW reply \in Replies, createToken(t, reply)
      PROVE  NoRevokedToken'
  BY <1>5 DEF createToken, Do, auth, houston
<1>6. ASSUME NEW t \in Callers, Created(t) PROVE NoRevokedToken'
  <2> HIDE DEF Types, TypeOK, Issued, Stored, Held, TokenPair, Holder, Knows
  <2>1. /\ UNCHANGED <<expiry, now>> /\ pc[t] = "created"
        /\ \A u \in Callers \ {t} : UNCHANGED <<pc[u], got[u], known[u]>>
    BY <1>6 DEF Created, houston, HaveToken, Return, Types, TypeOK
  <2>2. pc'[t] = "query" => got'[t] \notin Issued' \cap known'[t]
    <3>1. CASE answer[t] = "error"
      BY <1>6, <3>1 DEF Created, Return, Types, TypeOK
    <3>2. CASE answer[t] = "accepted"
      <4>1. Len(expiry) \notin known[t]
        BY <2>1, <3>2 DEF Holder, Knows
      <4>2. HaveToken(t, Len(expiry))
        BY <1>6, <3>2 DEF Created
      <4> QED
        BY <4>1, <4>2 DEF HaveToken, Return, Types, TypeOK
    <3>3. CASE answer[t] \notin {"error", "accepted"}
      <4>1. HaveToken(t, NoToken)
        BY <1>6, <3>3 DEF Created
      <4>2. NoToken \notin Issued'
        BY DEF Issued
      <4> QED
        BY <4>1, <4>2 DEF HaveToken, Return, Types, TypeOK
    <3> QED
      BY <3>1, <3>2, <3>3
  <2> QED
    BY <2>1, <2>2 DEF Issued
<1>7. ASSUME NEW t \in Callers, GetIntegrations(t) PROVE NoRevokedToken'
  <2> HIDE DEF Types, TypeOK, Issued, Stored, Held, TokenPair, Holder, Knows
  <2>1. UNCHANGED <<expiry, now, got>>
    BY <1>7 DEF GetIntegrations, houston
  <2>2. Return(t, "error") \/ Return(t, "map")
    BY <1>7 DEF GetIntegrations, Outcome
  <2>3. /\ pc'[t] = "idle"
        /\ \A u \in Callers \ {t} : UNCHANGED <<pc[u], known[u]>>
    BY <2>2 DEF Return, Types, TypeOK
  <2> QED
    BY <2>1, <2>3 DEF Issued
<1>8. ASSUME NEW k \in Revocable, Revoke(k) PROVE NoRevokedToken'
  BY <1>8 DEF Revoke, auth, houston
<1>9. ASSUME Tick PROVE NoRevokedToken'
  BY <1>9 DEF Tick, auth, houston
<1> QED
  BY <1>0, <1>1, <1>2, <1>3, <1>4, <1>5, <1>6, <1>7, <1>8, <1>9 DEF Next,
     Step, Replies

(* All the sources are a part of them. *)
LEMMA WholePart ==
  ASSUME Types
  PROVE  sources \in Parts(sources)
<1>1. sources \in Seq(Seq(Entries))
  BY AnswersAssumption DEF Types, TypeOK
<1> QED
  BY <1>1 DEF Parts

(* The map of a call stays as it was returned. *)
LEMMA MappedStep ==
  ASSUME Types, Stored, Mapped, [Next]_vars
  PROVE  Mapped'
<1> USE HoustonAssumption DEF Types, TypeOK, Mapped
<1>0. ASSUME UNCHANGED vars PROVE Mapped'
  BY <1>0 DEF vars, auth, houston
<1>1. ASSUME NEW t \in Callers, NEW w \in {"token", "integrations"}, Call(t, w)
      PROVE  Mapped'
  BY <1>1 DEF Call, auth, houston
<1>2. ASSUME NEW t \in Callers, GetAuthorizationToken(t) PROVE Mapped'
  BY <1>2 DEF GetAuthorizationToken, MutexFree, ExpDateGood, HaveToken,
     Return, auth, houston
<1>3. ASSUME NEW t \in Callers, NEW reply \in Replies, verifyToken(t, reply)
      PROVE  Mapped'
  BY <1>3 DEF verifyToken, queryHouston, Do, auth, houston
<1>4. ASSUME NEW t \in Callers, Verified(t) PROVE Mapped'
  BY <1>4 DEF Verified, Verdict, UnlockOnError, HaveToken, Return, auth,
     houston
<1>5. ASSUME NEW t \in Callers, NEW reply \in Replies, createToken(t, reply)
      PROVE  Mapped'
  BY <1>5 DEF createToken, Do, auth, houston
<1>6. ASSUME NEW t \in Callers, Created(t) PROVE Mapped'
  BY <1>6 DEF Created, HaveToken, Return, auth, houston
<1>7. ASSUME NEW t \in Callers, GetIntegrations(t) PROVE Mapped'
  <2>1. /\ UNCHANGED sources
        /\ pc'[t] = "idle"
        /\ \A u \in Callers \ {t} :
             UNCHANGED <<pc[u], result[u], answer[u], integrations[u]>>
    BY <1>7 DEF GetIntegrations, Return, Outcome, houston
  <2>2. result'[t] = "map" =>
          \E src \in Data(answer'[t]) :
            integrations'[t] = integrationsMap(src)
    BY <1>7 DEF GetIntegrations, Return, Outcome
  <2>3. Data(answer'[t]) \subseteq Parts(sources)
    BY WholePart DEF Data
  <2>4. answer'[t] = "accepted" => Data(answer'[t]) = {sources}
    BY DEF Data
  <2> HIDE DEF Types, TypeOK
  <2> QED
    BY <2>1, <2>2, <2>3, <2>4
<1>8. ASSUME NEW k \in Revocable, Revoke(k) PROVE Mapped'
  BY <1>8 DEF Revoke, auth, houston
<1>9. ASSUME Tick PROVE Mapped'
  BY <1>9 DEF Tick, auth, houston
<1> QED
  BY <1>0, <1>1, <1>2, <1>3, <1>4, <1>5, <1>6, <1>7, <1>8, <1>9 DEF Next,
     Step, Replies

LEMMA HInvInit == Init => HInv
<1> SUFFICES ASSUME Init PROVE HInv
  OBVIOUS
<1> USE HoustonAssumption DEF Init, Configs, NoToken, ZeroTime
<1>1. Types
  <2>1. config \in [key : BOOLEAN, user : BOOLEAN, password : BOOLEAN]
    OBVIOUS
  <2>2. expiry \in Seq(1..(MaxClock + Lifetime)) /\ Len(expiry) <= MaxTokens
    OBVIOUS
  <2>3. token \in Tokens /\ got \in [Callers -> Tokens]
    BY DEF Tokens
  <2>4. /\ expDate \in 0..(MaxClock + Lifetime) /\ now \in 1..MaxClock
        /\ mutex \in Callers \cup {Nobody} /\ sources \in Answers
        /\ revoked \subseteq Revocable
        /\ known \in [Callers -> SUBSET Revocable]
    OBVIOUS
  <2> QED
    BY <2>1, <2>2, <2>3, <2>4 DEF Types, TypeOK
<1>2. Exclusion /\ Holder /\ Final
  BY DEF Exclusion, Locked, Holder, Knows, Final
<1>3. Stored
  BY DEF Stored, Held, TokenPair, Issued
<1>4. NoRevokedToken /\ Mapped
  BY DEF NoRevokedToken, Mapped
<1> QED
  BY <1>1, <1>2, <1>3, <1>4 DEF HInv

LEMMA HInvStep == HInv /\ [Next]_vars => HInv'
BY TypesStep, ExclusionStep, StoredStep, HolderStep, FinalStep, NoRevokedStep,
   MappedStep
   DEF HInv

LEMMA HInvAlways == Spec => []HInv
BY HInvInit, HInvStep, PTL DEF Spec

-----------------------------------------------------------------------------
(* Every variable of the client keeps its type; in particular the token    *)
(* that is stored has been issued or configured (client.go).               *)
THEOREM TypeCorrect == Spec => []TypeOK
<1>1. HInv => TypeOK
  BY DEF HInv, Types
<1> QED
  BY HInvAlways, <1>1, PTL

(* GetAuthorizationToken holds the mutex from its first look at authToken  *)
(* to its last write, requests included: two callers are never both        *)
(* between lock and unlock.                                                *)
THEOREM OneHolder ==
  Spec => [](\A t, u \in Callers :
               pc[t] \in Locked /\ pc[u] \in Locked => t = u)
<1>1. HInv => \A t, u \in Callers :
                pc[t] \in Locked /\ pc[u] \in Locked => t = u
  BY DEF HInv, Exclusion
<1> QED
  BY HInvAlways, <1>1, PTL

(* The exp date stored is that of the token stored, however many callers   *)
(* verify and create tokens at once.                                       *)
THEOREM TokenAndExpDate == Spec => []TokenPair
<1>1. HInv => TokenPair
  BY DEF HInv, Stored
<1> QED
  BY HInvAlways, <1>1, PTL

(* A call does not use a token that was revoked before it began, unless    *)
(* the token's exp date is past.                                           *)
THEOREM RevokedBeforeCall == Spec => []NoRevokedToken
<1>1. HInv => NoRevokedToken
  BY DEF HInv
<1> QED
  BY HInvAlways, <1>1, PTL

(* Houston issues a token only while none is stored, or to the caller that *)
(* has the mutex and was not told, when it showed the stored one to        *)
(* Houston, that it is good.                                               *)
THEOREM CreatedWhenNeeded == Spec => NoSpareTokens
<1>1. HInv /\ [Next]_vars =>
        [expiry' # expiry =>
           \/ token = NoToken
           \/ \E t \in Callers :
                mutex = t /\ got[t] = token /\ answer[t] = "faulty"]_vars
  <2> SUFFICES ASSUME HInv, [Next]_vars, expiry' # expiry
               PROVE  \/ token = NoToken
                      \/ \E t \in Callers :
                           mutex = t /\ got[t] = token /\ answer[t] = "faulty"
    OBVIOUS
  <2>1. PICK t \in Callers, reply \in Replies : createToken(t, reply)
    BY DEF Next, Step, vars, auth, houston, Replies, Call,
       GetAuthorizationToken, verifyToken, Verified, Created, GetIntegrations,
       Revoke, Tick
  <2> QED
    BY <2>1 DEF createToken, HInv, Exclusion, Locked, Holder, Knows
<1> QED
  BY HInvAlways, <1>1, PTL DEF Spec, NoSpareTokens

-----------------------------------------------------------------------------
(* Induction over the natural numbers, for a set. *)
LEMMA NatClosure ==
  ASSUME NEW S, 0 \in S, \A n \in Nat : n \in S => n + 1 \in S
  PROVE  Nat \subseteq S
<1> SUFFICES ASSUME NEW x \in Nat, x \notin S PROVE FALSE
  OBVIOUS
<1> DEFINE T == Nat \ S
<1>1. \E m \in T : \A k \in T : ~(<<k, m>> \in OpToRel(<, Nat))
  <2>1. T \subseteq Nat /\ T # {}
    OBVIOUS
  <2> HIDE DEF T
  <2> QED
    BY <2>1, NatLessThanWellFounded, WFMin
<1>2. PICK m \in T : \A k \in T : ~(k < m)
  BY <1>1 DEF OpToRel
<1>3. m # 0 /\ m - 1 \in Nat /\ m - 1 \notin T
  BY <1>2
<1> QED
  BY <1>2, <1>3

(* The sources one after the other are a sequence of entries. *)
LEMMA FlattenType ==
  ASSUME NEW S, NEW src \in Seq(Seq(S))
  PROVE  FlattenSeq(src) \in Seq(S)
<1> DEFINE flat(g, n) ==
             g = [i \in 1..n |-> IF i = 1 THEN src[i] ELSE g[i - 1] \o src[i]]
           Good == {n \in Nat : \E g : flat(g, n)}
<1>0. Len(src) \in Nat /\ \A i \in 1..Len(src) : src[i] \in Seq(S)
  OBVIOUS
<1>1. 0 \in Good
  <2> DEFINE g == [i \in 1..0 |-> <<>>]
  <2>1. flat(g, 0)
    OBVIOUS
  <2> QED
    BY <2>1
<1>2. ASSUME NEW n \in Nat, n \in Good PROVE n + 1 \in Good
  <2>1. PICK g : flat(g, n)
    BY <1>2
  <2> DEFINE end == IF n = 0 THEN src[1] ELSE g[n] \o src[n + 1]
             h   == [i \in 1..(n + 1) |-> IF i = n + 1 THEN end ELSE g[i]]
  <2>4. ASSUME NEW i \in 1..(n + 1)
        PROVE  h[i] = IF i = 1 THEN src[i] ELSE h[i - 1] \o src[i]
    <3>1. CASE i = n + 1
      <4>1. h[i] = end /\ (n # 0 => h[i - 1] = g[n])
        <5> HIDE DEF end
        <5> QED
          BY <3>1
      <4> HIDE DEF h
      <4> QED
        BY <3>1, <4>1
    <3>2. CASE i \in 1..n
      <4>1. g[i] = IF i = 1 THEN src[i] ELSE g[i - 1] \o src[i]
        BY <2>1, <3>2
      <4>2. h[i] = g[i]
        <5> HIDE DEF end
        <5> QED
          BY <3>2
      <4>3. i # 1 => h[i - 1] = g[i - 1]
        <5> HIDE DEF end
        <5>1. i # 1 => i - 1 \in 1..n /\ i - 1 \in 1..(n + 1)
          BY <3>2
        <5> QED
          BY <5>1
      <4> HIDE DEF h
      <4> QED
        BY <4>1, <4>2, <4>3
    <3> QED
      BY <3>1, <3>2
  <2>5. h = [i \in 1..(n + 1) |-> h[i]]
    <3> HIDE DEF end
    <3> QED
      OBVIOUS
  <2> HIDE DEF h
  <2>6. flat(h, n + 1)
    BY <2>4, <2>5
  <2> HIDE DEF flat
  <2> QED
    BY <2>6
<1>3. \E g : flat(g, Len(src))
  <2> HIDE DEF flat
  <2>1. Len(src) \in Good
    <3> HIDE DEF Good
    <3> QED
      BY <1>0, <1>1, <1>2, NatClosure
  <2> QED
    BY <2>1
<1>4. CASE Len(src) = 0
  BY <1>4, EmptySeq DEF FlattenSeq
<1>5. CASE Len(src) # 0
  <2> DEFINE g == CHOOSE g : flat(g, Len(src))
  <2>1. flat(g, Len(src))
    <3> HIDE DEF flat
    <3> QED
      BY <1>3
  <2>2. \A i \in 1..Len(src) :
          g[i] = IF i = 1 THEN src[i] ELSE g[i - 1] \o src[i]
    <3> HIDE DEF g
    <3> QED
      BY <2>1
  <2>3. FlattenSeq(src) = g[Len(src)]
    BY <1>5 DEF FlattenSeq
  <2> HIDE DEF g
  <2>4. \A i \in 1..Len(src) : g[i] \in Seq(S)
    <3> DEFINE In == {i \in Nat : i \in 1..Len(src) => g[i] \in Seq(S)}
    <3>1. 0 \in In
      OBVIOUS
    <3>2. ASSUME NEW n \in Nat, n \in In PROVE n + 1 \in In
      <4> SUFFICES ASSUME n + 1 <= Len(src) PROVE g[n + 1] \in Seq(S)
        BY <1>0
      <4>1. g[n + 1] = IF n = 0 THEN src[n + 1] ELSE g[n] \o src[n + 1]
        BY <1>0, <2>2
      <4>2. src[n + 1] \in Seq(S) /\ (n # 0 => g[n] \in Seq(S))
        BY <1>0, <3>2
      <4>3. n # 0 => g[n] \o src[n + 1] \in Seq(S)
        BY <4>2, ConcatProperties
      <4> QED
        BY <4>1, <4>2, <4>3
    <3>3. \A n \in Nat : n \in In
      <4> HIDE DEF In
      <4> QED
        BY <3>1, <3>2, NatClosure
    <3> QED
      BY <1>0, <3>3
  <2> QED
    BY <1>0, <1>5, <2>3, <2>4
<1> QED
  BY <1>4, <1>5

(* The loops' map, entry by entry. *)
LEMMA MapOfEntries ==
  ASSUME NEW src, NEW cs, cs = FlattenSeq(src), Len(cs) \in Nat
  PROVE  \E m : /\ m[0] = NoMap
                /\ \A i \in 1..Len(cs) : m[i] = Entered(m[i - 1], cs[i])
                /\ integrationsMap(src) = m[Len(cs)]
<1> DEFINE map(g, n) ==
             g = [i \in 0..n |->
                    IF i = 0 THEN NoMap ELSE Entered(g[i - 1], cs[i])]
           Good == {n \in Nat : \E g : map(g, n)}
<1> HIDE DEF NoMap, Entered
<1>1. 0 \in Good
  <2> DEFINE g == [i \in 0..0 |-> NoMap]
  <2>1. map(g, 0)
    OBVIOUS
  <2> QED
    BY <2>1
<1>2. ASSUME NEW n \in Nat, n \in Good PROVE n + 1 \in Good
  <2>1. PICK g : map(g, n)
    BY <1>2
  <2> DEFINE end == Entered(g[n], cs[n + 1])
             h   == [i \in 0..(n + 1) |-> IF i = n + 1 THEN end ELSE g[i]]
  <2>2. ASSUME NEW i \in 0..(n + 1)
        PROVE  h[i] = IF i = 0 THEN NoMap ELSE Entered(h[i - 1], cs[i])
    <3>1. CASE i = n + 1
      <4>1. h[i] = end /\ h[i - 1] = g[n]
        <5> HIDE DEF end
        <5> QED
          BY <3>1
      <4> HIDE DEF h
      <4> QED
        BY <3>1, <4>1
    <3>2. CASE i \in 0..n
      <4>1. g[i] = IF i = 0 THEN NoMap ELSE Entered(g[i - 1], cs[i])
        BY <2>1, <3>2
      <4>2. h[i] = g[i]
        <5> HIDE DEF end
        <5> QED
          BY <3>2
      <4>3. i # 0 => h[i - 1] = g[i - 1]
        <5> HIDE DEF end
        <5>1. i # 0 => i - 1 \in 0..n /\ i - 1 \in 0..(n + 1)
          BY <3>2
        <5> QED
          BY <5>1
      <4> HIDE DEF h
      <4> QED
        BY <4>1, <4>2, <4>3
    <3> QED
      BY <3>1, <3>2
  <2>3. h = [i \in 0..(n + 1) |-> h[i]]
    <3> HIDE DEF end
    <3> QED
      OBVIOUS
  <2> HIDE DEF h
  <2>4. map(h, n + 1)
    BY <2>2, <2>3
  <2> HIDE DEF map
  <2> QED
    BY <2>4
<1>3. \E g : map(g, Len(cs))
  <2> HIDE DEF map
  <2>1. Len(cs) \in Good
    <3> HIDE DEF Good
    <3> QED
      BY <1>1, <1>2, NatClosure
  <2> QED
    BY <2>1
<1> DEFINE m == CHOOSE g : map(g, Len(cs))
<1>4. map(m, Len(cs))
  <2> HIDE DEF map
  <2> QED
    BY <1>3
<1>5. integrationsMap(src) = m[Len(cs)]
  BY DEF integrationsMap
<1> HIDE DEF m
<1>6. m[0] = NoMap /\ \A i \in 1..Len(cs) : m[i] = Entered(m[i - 1], cs[i])
  BY <1>4
<1> QED
  BY <1>5, <1>6

(* What the map holds after i entries: the names that were enabled, and    *)
(* for each the first topic, if there was one.                             *)
Has(c, n) == c.enabled /\ c.name = n /\ c.topic # ""

Names(cs, i) == {cs[j].name : j \in {j \in 1..i : cs[j].enabled}}

Found(map, cs, i) ==
  /\ map = [n \in DOMAIN map |-> map[n]]
  /\ DOMAIN map = Names(cs, i)
  /\ \A n \in DOMAIN map :
       IF map[n] = "" THEN \A j \in 1..i : ~Has(cs[j], n)
       ELSE \E j \in 1..i : /\ Has(cs[j], n) /\ map[n] = cs[j].topic
                           /\ \A k \in 1..(j - 1) : ~Has(cs[k], n)

LEMMA NamesNext ==
  ASSUME NEW cs, NEW i \in Nat
  PROVE  Names(cs, i + 1) =
           Names(cs, i) \cup
             (IF cs[i + 1].enabled THEN {cs[i + 1].name} ELSE {})
<1>1. \A n, k : n \in Names(cs, k) <=>
                  \E j \in 1..k : cs[j].enabled /\ n = cs[j].name
  BY DEF Names
<1>2. 1..(i + 1) = 1..i \cup {i + 1}
  OBVIOUS
<1>3. ASSUME NEW n
      PROVE  n \in Names(cs, i + 1) <=>
               \/ n \in Names(cs, i)
               \/ cs[i + 1].enabled /\ n = cs[i + 1].name
  BY <1>1, <1>2
<1> QED
  BY <1>3

LEMMA FoundNext ==
  ASSUME NEW map, NEW cs, NEW i \in Nat, Found(map, cs, i)
  PROVE  Found(Entered(map, cs[i + 1]), cs, i + 1)
<1> DEFINE c == cs[i + 1]
           new == Entered(map, c)
<1>1. 1..(i + 1) = 1..i \cup {i + 1} /\ i + 1 \notin 1..i
  OBVIOUS
<1>2. \A j \in 1..(i + 1) : 1..(j - 1) \subseteq 1..i
  OBVIOUS
<1>3. CASE Enters(map, c)
  <2>1. new = [n \in DOMAIN map \cup {c.name} |->
                 IF n = c.name THEN c.topic ELSE map[n]]
    BY <1>3 DEF Entered
  <2>2. c.enabled
    BY <1>3 DEF Enters
  <2>3. DOMAIN new = DOMAIN map \cup {c.name}
    BY <2>1
  <2>4. new = [n \in DOMAIN new |-> new[n]]
    BY <2>1
  <2>5. DOMAIN new = Names(cs, i + 1)
    <3> HIDE DEF new
    <3> QED
      BY <2>2, <2>3, NamesNext DEF Found
  <2>6. \A j \in 1..i : ~Has(cs[j], c.name)
    <3>1. CASE c.name \in DOMAIN map
      BY <1>3, <3>1 DEF Enters, Found
    <3>2. CASE c.name \notin DOMAIN map
      <4>1. \A j \in 1..i : cs[j].enabled => cs[j].name \in Names(cs, i)
        BY DEF Names
      <4> QED
        BY <3>2, <4>1 DEF Found, Has
    <3> QED
      BY <3>1, <3>2
  <2>7. ASSUME NEW n \in DOMAIN new
        PROVE  IF new[n] = "" THEN \A j \in 1..(i + 1) : ~Has(cs[j], n)
               ELSE \E j \in 1..(i + 1) :
                      /\ Has(cs[j], n) /\ new[n] = cs[j].topic
                      /\ \A k \in 1..(j - 1) : ~Has(cs[k], n)
    <3>1. CASE n = c.name
      <4>1. new[n] = c.topic
        BY <2>1, <3>1
      <4>2. Has(c, n) <=> c.topic # ""
        BY <2>2, <3>1 DEF Has
      <4>3. \A k \in 1..((i + 1) - 1) : ~Has(cs[k], n)
        BY <2>6, <3>1
      <4>4. \A k \in 1..i : ~Has(cs[k], n)
        BY <2>6, <3>1
      <4> HIDE DEF new
      <4>5. CASE c.topic = ""
        BY <1>1, <4>1, <4>2, <4>4, <4>5
      <4>6. CASE c.topic # ""
        <5>1. Has(cs[i + 1], n) /\ new[n] = cs[i + 1].topic
          BY <4>1, <4>2, <4>6, Zenon
        <5>2. new[n] # ""
          BY <4>1, <4>6, Zenon
        <5>3. i + 1 \in 1..(i + 1)
          OBVIOUS
        <5> QED
          BY <4>3, <5>1, <5>2, <5>3
      <4> QED
        BY <4>5, <4>6
    <3>2. CASE n # c.name
      <4>1. n \in DOMAIN map /\ new[n] = map[n]
        BY <2>1, <2>3, <3>2
      <4>2. ~Has(c, n)
        BY <3>2 DEF Has
      <4> HIDE DEF new
      <4> QED
        BY <1>1, <4>1, <4>2 DEF Found
    <3> QED
      BY <3>1, <3>2
  <2> HIDE DEF new
  <2>8. Found(new, cs, i + 1)
    BY <2>4, <2>5, <2>7 DEF Found
  <2> QED
    BY <2>8 DEF new
<1>4. CASE ~Enters(map, c)
  <2>1. new = map
    BY <1>4 DEF Entered
  <2>2. c.enabled => c.name \in DOMAIN map /\ map[c.name] # ""
    BY <1>4 DEF Enters
  <2>3. DOMAIN map = Names(cs, i + 1)
    <3>1. DOMAIN map = Names(cs, i) /\ (c.enabled => c.name \in DOMAIN map)
      BY <2>2 DEF Found
    <3>2. Names(cs, i + 1) =
            Names(cs, i) \cup (IF c.enabled THEN {c.name} ELSE {})
      BY NamesNext
    <3> HIDE DEF c
    <3> QED
      BY <3>1, <3>2
  <2>4. \A n \in DOMAIN map : map[n] = "" => ~Has(c, n)
    BY <2>2 DEF Has
  <2>5. Found(map, cs, i + 1)
    BY <1>1, <2>3, <2>4 DEF Found
  <2> QED
    BY <2>1, <2>5
<1> QED
  BY <1>3, <1>4

(* The loops of GetIntegrations compute what an answer means, whatever the *)
(* sources of an app are: for each name enabled once or more, the first    *)
(* topic that is not empty.                                                *)
THEOREM LoopsAreExact ==
  ASSUME NEW src \in Seq(Seq(Entries))
  PROVE  integrationsMap(src) = EnabledIntegrations(src)
<1> DEFINE cs == FlattenSeq(src)
           with(n) == {i \in {i \in DOMAIN cs : cs[i].enabled} :
                         cs[i].name = n /\ cs[i].topic # ""}
           names   == {cs[i].name : i \in {i \in DOMAIN cs : cs[i].enabled}}
           topic(n) == IF with(n) = {} THEN ""
                       ELSE cs[CHOOSE i \in with(n) :
                                 \A j \in with(n) : i <= j].topic
<1>1. EnabledIntegrations(src) = [n \in names |-> topic(n)]
  BY DEF EnabledIntegrations
<1>2. Len(cs) \in Nat /\ DOMAIN cs = 1..Len(cs)
  BY FlattenType
<1> HIDE DEF cs
<1>3. PICK m : /\ m[0] = NoMap
               /\ \A i \in 1..Len(cs) : m[i] = Entered(m[i - 1], cs[i])
               /\ integrationsMap(src) = m[Len(cs)]
  BY <1>2, MapOfEntries DEF cs
<1> DEFINE Good == {i \in Nat : i <= Len(cs) => Found(m[i], cs, i)}
<1>4. 0 \in Good
  <2>1. Names(cs, 0) = {}
    BY DEF Names
  <2>2. Found(NoMap, cs, 0)
    BY <2>1 DEF Found, NoMap
  <2> QED
    BY <1>3, <2>2
<1>5. ASSUME NEW i \in Nat, i \in Good PROVE i + 1 \in Good
  <2> SUFFICES ASSUME i + 1 <= Len(cs) PROVE Found(m[i + 1], cs, i + 1)
    OBVIOUS
  <2>1. Found(m[i], cs, i)
    BY <1>2, <1>5
  <2>2. m[i + 1] = Entered(m[i], cs[i + 1])
    BY <1>2, <1>3
  <2> QED
    BY <2>1, <2>2, FoundNext
<1> DEFINE r == m[Len(cs)]
<1>6. Found(r, cs, Len(cs))
  <2>1. Len(cs) \in Good
    <3> HIDE DEF Good
    <3> QED
      BY <1>2, <1>4, <1>5, NatClosure
  <2> QED
    BY <1>2, <2>1
<1> HIDE DEF r
<1>7. DOMAIN r = names /\ r = [n \in names |-> r[n]]
  BY <1>2, <1>6 DEF Found, Names
<1>8. ASSUME NEW n \in names PROVE r[n] = topic(n)
  <2>1. \A j \in 1..Len(cs) : j \in with(n) <=> Has(cs[j], n)
    BY <1>2 DEF Has
  <2>2. with(n) \subseteq 1..Len(cs)
    BY <1>2
  <2> HIDE DEF with, names
  <2>3. CASE r[n] = ""
    BY <1>6, <1>7, <2>1, <2>2, <2>3 DEF Found
  <2>4. CASE r[n] # ""
    <3>1. PICK j \in 1..Len(cs) :
            /\ Has(cs[j], n) /\ r[n] = cs[j].topic
            /\ \A k \in 1..(j - 1) : ~Has(cs[k], n)
      BY <1>6, <1>7, <2>4 DEF Found
    <3>2. j \in with(n) /\ \A k \in with(n) : j <= k
      BY <1>2, <2>1, <2>2, <3>1
    <3>3. ASSUME NEW k \in with(n), \A l \in with(n) : k <= l
          PROVE  k = j
      BY <1>2, <2>2, <3>2, <3>3
    <3>4. (CHOOSE i \in with(n) : \A l \in with(n) : i <= l) = j
      BY <3>2, <3>3
    <3> QED
      BY <3>1, <3>2, <3>4
  <2> QED
    BY <2>3, <2>4
<1> HIDE DEF names, topic
<1> QED
  BY <1>1, <1>3, <1>7, <1>8 DEF r

(* What a part of the sources has is offered by the sources. *)
LEMMA PartsOffer ==
  ASSUME NEW src \in Seq(Seq(Entries)), NEW p \in Parts(src)
  PROVE  /\ p \in Seq(Seq(Entries))
         /\ FlattenSeq(p) \in Seq(Offered(src))
<1>1. /\ DOMAIN p = DOMAIN src /\ DOMAIN src = 1..Len(src)
      /\ Len(src) \in Nat
      /\ \A i \in DOMAIN src : /\ p[i] = src[i] \/ p[i] = <<>>
                              /\ src[i] \in Seq(Entries)
  BY DEF Parts
<1>2. p = [i \in 1..Len(src) |-> p[i]]
  BY <1>1 DEF Parts
<1>3. p \in Seq(Seq(Entries))
  <2>1. ASSUME NEW i \in 1..Len(src) PROVE p[i] \in Seq(Entries)
    <3>1. <<>> \in Seq(Entries)
      OBVIOUS
    <3> QED
      BY <1>1, <3>1
  <2> QED
    BY <1>1, <1>2, <2>1
<1>4. ASSUME NEW i \in DOMAIN src PROVE p[i] \in Seq(Offered(src))
  <2>1. \A j \in DOMAIN src[i] : src[i][j] \in Offered(src)
    BY DEF Offered
  <2>2. src[i] \in Seq(Offered(src))
    BY <1>1, <2>1
  <2>3. <<>> \in Seq(Offered(src))
    OBVIOUS
  <2> QED
    BY <1>1, <2>2, <2>3
<1>5. p \in Seq(Seq(Offered(src)))
  BY <1>1, <1>2, <1>4
<1> QED
  BY <1>3, <1>5, FlattenType

(* What an answer means has no name and no topic but those enabled in it.  *)
LEMMA OnlyEnabled ==
  ASSUME NEW src, NEW S, FlattenSeq(src) \in Seq(S),
         NEW n \in DOMAIN EnabledIntegrations(src)
  PROVE  \E c \in S : /\ c.enabled /\ c.name = n
                      /\ c.topic = EnabledIntegrations(src)[n]
<1> DEFINE flat == FlattenSeq(src)
           on   == {i \in DOMAIN flat : flat[i].enabled}
           with == {i \in on : flat[i].name = n /\ flat[i].topic # ""}
           first == CHOOSE i \in with : \A j \in with : i <= j
<1>1. /\ n \in {flat[i].name : i \in on}
      /\ EnabledIntegrations(src)[n] =
           IF with = {} THEN "" ELSE flat[first].topic
  BY DEF EnabledIntegrations
<1>2. /\ \A i \in DOMAIN flat : flat[i] \in S
      /\ DOMAIN flat \subseteq Nat
  OBVIOUS
<1> HIDE DEF flat
<1>3. CASE with = {}
  <2>1. PICK i \in on : flat[i].name = n
    BY <1>1
  <2>2. flat[i].topic = ""
    BY <1>3, <2>1
  <2> QED
    BY <1>1, <1>2, <1>3, <2>1, <2>2
<1>4. CASE with # {}
  <2>1. \E i \in with : \A j \in with : i <= j
    <3>1. with \subseteq Nat
      BY <1>2
    <3> HIDE DEF with
    <3>2. \E i \in with : \A j \in with : ~(<<j, i>> \in OpToRel(<, Nat))
      BY <1>4, <3>1, NatLessThanWellFounded, WFMin
    <3>3. \E i \in with : \A j \in with : ~(j < i)
      BY <3>1, <3>2 DEF OpToRel
    <3> QED
      BY <3>1, <3>3
  <2>2. first \in with
    <3> HIDE DEF with
    <3> QED
      BY <2>1
  <2> HIDE DEF first
  <2> QED
    BY <1>1, <1>2, <1>4, <2>2
<1> QED
  BY <1>3, <1>4

(* So what a call returns without an error is what Houston has for the     *)
(* app, if the reply has no errors in it, and in any case nothing that is  *)
(* not enabled there.                                                      *)
THEOREM AnswerIsHoustons == Spec => []MapIsHoustons
<1>1. HInv => MapIsHoustons
  <2> SUFFICES ASSUME HInv, NEW t \in Callers, result[t] = "map"
               PROVE  /\ answer[t] = "accepted" =>
                           integrations[t] = EnabledIntegrations(sources)
                      /\ \A n \in DOMAIN integrations[t] :
                           \E c \in Offered(sources) :
                             /\ c.enabled /\ c.name = n
                             /\ c.topic = integrations[t][n]
    BY DEF MapIsHoustons
  <2>1. sources \in Seq(Seq(Entries))
    BY AnswersAssumption DEF HInv, Types, TypeOK
  <2>2. answer[t] = "accepted" => integrations[t] = integrationsMap(sources)
    BY DEF HInv, Mapped
  <2>3. PICK src \in Parts(sources) : integrations[t] = integrationsMap(src)
    BY DEF HInv, Mapped
  <2>4. /\ integrationsMap(sources) = EnabledIntegrations(sources)
        /\ integrationsMap(src) = EnabledIntegrations(src)
        /\ FlattenSeq(src) \in Seq(Offered(sources))
    BY <2>1, LoopsAreExact, PartsOffer
  <2>5. \A n \in DOMAIN EnabledIntegrations(src) :
           \E c \in Offered(sources) :
             /\ c.enabled /\ c.name = n
             /\ c.topic = EnabledIntegrations(src)[n]
    BY <2>4, OnlyEnabled
  <2> QED
    BY <2>2, <2>3, <2>4, <2>5
<1> QED
  BY HInvAlways, <1>1, PTL
=============================================================================

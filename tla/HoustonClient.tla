---------------------------- MODULE HoustonClient ----------------------------
(***************************************************************************)
(* The Houston client (houston/client.go): GetIntegrations asks the API    *)
(* for an app's integrations, with a token that GetAuthorizationToken      *)
(* keeps, verifies and creates.                                            *)
(*                                                                         *)
(* Callers are goroutines: the consumer, on a cache miss and in the health *)
(* check of `start'; the SSE listener, for each event; and the loop of     *)
(* sse.Subscribe, before each connection.  They share authToken, which     *)
(* `mutex' guards for the whole of GetAuthorizationToken, requests         *)
(* included.                                                               *)
(*                                                                         *)
(* Houston is external: it numbers the tokens it issues, and a request may *)
(* fail on its way.  GraphQL answers an error (a token it does not take,   *)
(* but also an unknown app, or a resolver that fails) with a good reply    *)
(* that has "errors" in it, and a client that does not look at them has to *)
(* do with what data there are: such a reply is "faulty", and may come for *)
(* any token.  Time counts from 1; 0 is Go's zero time.                    *)
(***************************************************************************)
EXTENDS Naturals, Sequences, SequencesExt

CONSTANTS
  Callers,       \* goroutines that use the client
  Entries,       \* the integrations of an app: [name, topic, enabled]
  Answers,       \* what the sources query may answer: sequences of sources,
                 \* each a sequence of entries
  Lifetime,      \* how long a token is good
  MaxTokens,     \* bound: tokens Houston issues
  MaxClock,      \* bound: the clock
  APIKey,        \* the token given as HOUSTON_API_KEY
  Nobody         \* the mutex is free

ASSUME HoustonAssumption ==
  /\ Nobody \notin Callers
  /\ APIKey \notin Nat
  /\ Lifetime \in Nat /\ MaxTokens \in Nat /\ MaxClock \in Nat \ {0}

(* What the JSON of an answer decodes to. *)
ASSUME AnswersAssumption == Answers \subseteq Seq(Seq(Entries))

NoToken  == 0  \* the token ""
ZeroTime == 0
NoMap    == [n \in {} |-> ""]

VARIABLES
  config,          \* HOUSTON_API_KEY, _USERNAME and _PASSWORD: set or not
  token, expDate,  \* authToken
  mutex,
  now,             \* time.Now()
  expiry,          \* Houston: when each token issued so far expires
  revoked,         \* Houston: tokens it no longer takes
  sources,         \* Houston: the answer to the sources query
  pc, want,        \* per caller: control point; the call it is in
  answer,          \* per caller: the answer of Houston to its last request
  got,             \* per caller: the token GetAuthorizationToken returned
  result,          \* per caller: what its last call returned: "error",
                   \* "token", or "map" for what is in
  integrations,    \* per caller: the map GetIntegrations returned
  known            \* history, per caller: tokens revoked when its call began

auth    == <<token, expDate>>
houston == <<expiry, revoked, sources>>
vars    == <<config, auth, mutex, now, houston, pc, want, answer, got,
             result, integrations, known>>

Issued    == 1..Len(expiry)
Revocable == Issued \cup (IF config.key THEN {APIKey} ELSE {})
Tokens    == 1..MaxTokens \cup {NoToken, APIKey}

TypeOK ==
  /\ config \in [key : BOOLEAN, user : BOOLEAN, password : BOOLEAN]
  /\ token \in Tokens
  /\ expDate \in 0..(MaxClock + Lifetime)
  /\ mutex \in Callers \cup {Nobody}
  /\ now \in 1..MaxClock
  /\ expiry \in Seq(1..(MaxClock + Lifetime)) /\ Len(expiry) <= MaxTokens
  /\ revoked \subseteq Revocable
  /\ sources \in Answers
  /\ pc \in [Callers -> {"idle", "lock", "verify", "verified", "create",
                         "created", "query"}]
  /\ want \in [Callers -> {"token", "integrations"}]
  /\ \A t \in Callers : answer[t] \in {"none", "error", "accepted", "faulty"}
  /\ got \in [Callers -> Tokens]
  /\ result \in [Callers -> {"none", "error", "token", "map"}]
  /\ known \in [Callers -> SUBSET Revocable]

(* verifyRequiredEnvVars: the API key or the user name must be set.  The   *)
(* password is not asked for.                                              *)
Configs == {c \in [key : BOOLEAN, user : BOOLEAN, password : BOOLEAN] :
              c.key \/ c.user}

(* NewHoustonClient: an API key has no exp date. *)
Init ==
  /\ config \in Configs
  /\ token = IF config.key THEN APIKey ELSE NoToken
  /\ expDate = ZeroTime
  /\ mutex = Nobody
  /\ now = 1
  /\ expiry = <<>>
  /\ revoked = {}
  /\ sources \in Answers
  /\ pc = [t \in Callers |-> "idle"]
  /\ want = [t \in Callers |-> "token"]
  /\ answer = [t \in Callers |-> "none"]
  /\ got = [t \in Callers |-> NoToken]
  /\ result = [t \in Callers |-> "none"]
  /\ integrations = [t \in Callers |-> NoMap]
  /\ known = [t \in Callers |-> {}]

-----------------------------------------------------------------------------
(* Houston takes the API key, and tokens it issued until they expire. *)
Accepts(k) ==
  /\ k \notin revoked
  /\ k = APIKey \/ (k \in Issued /\ now <= expiry[k])

(* HTTPClient.Do: a request that fails and a status outside 200..399 are   *)
(* errors, anything else is read.                                          *)
Do(replies) == {"error"} \cup replies

(* What comes back of a request about, or with, the token k. *)
queryHouston(k) ==
  Do({"faulty"} \cup IF Accepts(k) THEN {"accepted"} ELSE {})

(* The call returns: its caller is between calls again. *)
Return(t, r) ==
  /\ pc' = [pc EXCEPT ![t] = "idle"]
  /\ result' = [result EXCEPT ![t] = r]
  /\ known' = [known EXCEPT ![t] = {}]

(* GetAuthorizationToken returns k and no error.  GetIntegrations goes on  *)
(* with it.                                                                *)
HaveToken(t, k) ==
  /\ got' = [got EXCEPT ![t] = k]
  /\ IF want[t] = "integrations"
     THEN pc' = [pc EXCEPT ![t] = "query"] /\ UNCHANGED <<result, known>>
     ELSE Return(t, "token")

-----------------------------------------------------------------------------
Call(t, w) ==
  /\ pc[t] = "idle"
  /\ pc' = [pc EXCEPT ![t] = "lock"]
  /\ want' = [want EXCEPT ![t] = w]
  /\ answer' = [answer EXCEPT ![t] = "none"]
  /\ got' = [got EXCEPT ![t] = NoToken]
  /\ result' = [result EXCEPT ![t] = "none"]
  /\ known' = [known EXCEPT ![t] = revoked]
  /\ integrations' = [integrations EXCEPT ![t] = NoMap]
  /\ UNCHANGED <<config, auth, mutex, now, houston>>

(* expDate.Before(time.Now()), taken for "exp date is good". *)
ExpDateGood == expDate < now

(* Mutant: the mutex is not waited for. *)
NotAwaited == TRUE

MutexFree == mutex = Nobody

(* GetAuthorizationToken with the mutex: the token that is stored is       *)
(* returned at once, or verified, or there is none and one is created.     *)
GetAuthorizationToken(t) ==
  /\ pc[t] = "lock"
  /\ MutexFree
  /\ IF token # NoToken /\ ExpDateGood
     THEN HaveToken(t, token) /\ UNCHANGED mutex
     ELSE /\ mutex' = t
          /\ pc' = [pc EXCEPT ![t] =
                      IF token # NoToken THEN "verify" ELSE "create"]
          /\ UNCHANGED <<got, result, known>>
  /\ UNCHANGED <<config, auth, now, houston, want, answer, integrations>>

(* verifyToken: the request and Houston's answer... *)
verifyToken(t, reply) ==
  /\ pc[t] = "verify"
  /\ reply \in queryHouston(token)
  /\ pc' = [pc EXCEPT ![t] = "verified"]
  /\ answer' = [answer EXCEPT ![t] = reply]
  /\ got' = [got EXCEPT ![t] = token]
  /\ UNCHANGED <<config, auth, mutex, now, houston, want, result,
                 integrations, known>>

(* Mutant: a token that could not be verified is taken for a bad one. *)
ErrorIsRefusal(t) == IF answer[t] = "error" THEN "faulty" ELSE answer[t]

(* Mutant: Success is not looked at. *)
SuccessIgnored(t) == IF answer[t] = "faulty" THEN "accepted" ELSE answer[t]

(* The error and the Success flag that verifyToken returned: without data, *)
(* Success is false.                                                       *)
Verdict(t) == answer[t]

(* Mutant: an error returns with the mutex locked. *)
KeepsMutex == UNCHANGED mutex

UnlockOnError == mutex' = Nobody

(* ... and what the caller makes of it: an error is returned, success      *)
(* updates the exp date, and anything else leads on to createToken.        *)
Verified(t) ==
  /\ pc[t] = "verified"
  /\ \/ /\ Verdict(t) = "error"
        /\ UnlockOnError
        /\ Return(t, "error")
        /\ UNCHANGED <<auth, got>>
     \/ /\ Verdict(t) = "accepted"
        /\ expDate' = expiry[got[t]]
        /\ mutex' = Nobody
        /\ HaveToken(t, token)
        /\ UNCHANGED token
     \/ /\ Verdict(t) = "faulty"
        /\ pc' = [pc EXCEPT ![t] = "create"]
        /\ UNCHANGED <<auth, mutex, got, result, known>>
  /\ UNCHANGED <<config, now, houston, want, answer, integrations>>

(* createToken: without user name and password no request is made.         *)
(* Houston may issue a token whose number never arrives.                   *)
createToken(t, reply) ==
  /\ pc[t] = "create"
  /\ answer' = [answer EXCEPT ![t] = reply]
  /\ pc' = [pc EXCEPT ![t] = "created"]
  /\ IF config.user /\ config.password
     THEN \/ /\ reply \in Do({"accepted", "faulty"})
             /\ Len(expiry) < MaxTokens
             /\ expiry' = Append(expiry, now + Lifetime)
          \/ reply \in Do({"faulty"}) /\ UNCHANGED expiry
     ELSE reply = "error" /\ UNCHANGED expiry
  /\ UNCHANGED <<config, auth, mutex, now, revoked, sources, want, got, result,
                 integrations, known>>

(* The token and the exp date are stored, also those of an answer without  *)
(* data or with Success: false, which are "" and the zero time.            *)
Created(t) ==
  LET new == IF answer[t] = "accepted" THEN Len(expiry) ELSE NoToken IN
  /\ pc[t] = "created"
  /\ mutex' = Nobody
  /\ IF answer[t] = "error"
     THEN Return(t, "error") /\ UNCHANGED <<auth, got>>
     ELSE /\ token' = new
          /\ expDate' = IF new = NoToken THEN ZeroTime ELSE expiry[new]
          /\ HaveToken(t, new)
  /\ UNCHANGED <<config, now, houston, want, answer, integrations>>

-----------------------------------------------------------------------------
(* Mutant: a later topic replaces an earlier one. *)
EntersAlways(map, c) == c.enabled

(* An enabled integration is entered unless the map has a topic for its    *)
(* name that is not empty.                                                 *)
Enters(map, c) == c.enabled /\ (c.name \notin DOMAIN map \/ map[c.name] = "")

Entered(map, c) ==
  IF Enters(map, c)
  THEN [n \in DOMAIN map \cup {c.name} |->
          IF n = c.name THEN c.topic ELSE map[n]]
  ELSE map

(* The loops of GetIntegrations over an answer. *)
integrationsMap(src) ==
  LET flat == FlattenSeq(src)
      map[i \in 0..Len(flat)] ==
        IF i = 0 THEN NoMap ELSE Entered(map[i - 1], flat[i])
  IN  map[Len(flat)]

(* Mutant: nil and no error are returned for no data. *)
NilIfEmpty(src) == IF FlattenSeq(src) = <<>> THEN "nil" ELSE "map"

Outcome(src) == "map"

(* A reply with errors has the data whose resolvers did not fail. *)
Parts(src) ==
  {p \in [DOMAIN src -> {src[i] : i \in DOMAIN src} \cup {<<>>}] :
     \A i \in DOMAIN src : p[i] = src[i] \/ p[i] = <<>>}

(* The sources in a reply. *)
Data(reply) == IF reply = "accepted" THEN {sources} ELSE Parts(sources)

(* GetIntegrations sends the query.  "errors" in the answer are not looked *)
(* at: without data, the map is empty and the error is nil.                *)
GetIntegrations(t) ==
  /\ pc[t] = "query"
  /\ \E reply \in queryHouston(got[t]) :
       /\ answer' = [answer EXCEPT ![t] = reply]
       /\ \/ reply = "error" /\ Return(t, "error") /\ UNCHANGED integrations
          \/ /\ reply # "error"
             /\ \E src \in Data(reply) :
                  /\ Return(t, Outcome(src))
                  /\ integrations' =
                       [integrations EXCEPT ![t] = integrationsMap(src)]
  /\ UNCHANGED <<config, auth, mutex, now, houston, want, got>>

-----------------------------------------------------------------------------
(* Houston revokes a token. *)
Revoke(k) ==
  /\ k \notin revoked
  /\ revoked' = revoked \cup {k}
  /\ UNCHANGED <<config, auth, mutex, now, expiry, sources, pc, want,
                 answer, got, result, integrations, known>>

Tick ==
  /\ now < MaxClock
  /\ now' = now + 1
  /\ UNCHANGED <<config, auth, mutex, houston, pc, want, answer, got, result,
                 integrations, known>>

Step(t) ==
  \/ GetAuthorizationToken(t)
  \/ \E reply \in {"error", "accepted", "faulty"} :
       verifyToken(t, reply) \/ createToken(t, reply)
  \/ Verified(t)
  \/ Created(t)
  \/ GetIntegrations(t)

Next ==
  \/ \E t \in Callers, w \in {"token", "integrations"} : Call(t, w)
  \/ \E t \in Callers : Step(t)
  \/ \E k \in Revocable : Revoke(k)
  \/ Tick

Spec == Init /\ [][Next]_vars

(* A goroutine that can take a step takes it, a mutex that becomes free    *)
(* again and again reaches every waiter, and a request ends.               *)
FairSpec == Spec /\ \A t \in Callers : SF_vars(Step(t))

(* Calls keep coming, and not all creations fail. *)
TrafficSpec ==
  /\ FairSpec
  /\ \A t \in Callers : WF_vars(Call(t, "token"))
  /\ \A t \in Callers : SF_vars(createToken(t, "accepted"))
  /\ \A t \in Callers : SF_vars(verifyToken(t, "faulty"))

-----------------------------------------------------------------------------
(* Properties                                                              *)

(* The exp date stored is that of the token stored: no caller's answer is  *)
(* applied to a token that another caller has put in its place.            *)
TokenPair ==
  expDate = IF token \in Issued THEN expiry[token] ELSE ZeroTime

(* However many callers miss a token at once, one is created: Houston      *)
(* issues a token only while none is stored, or for the caller that has    *)
(* the mutex, has shown the stored one to Houston and was not told that it *)
(* is good.  A request that failed says nothing of it.                     *)
NoSpareTokens ==
  [][expiry' # expiry =>
       \/ token = NoToken
       \/ \E t \in Callers :
            mutex = t /\ got[t] = token /\ answer[t] = "faulty"]_vars

(* A token that was revoked before a call began is not used by that call,  *)
(* for it is verified first.  This ends with its exp date, when the token  *)
(* is no longer verified at all.                                           *)
NoRevokedToken ==
  \A t \in Callers :
    pc[t] = "query" /\ got[t] \in Issued \cap known[t] => expiry[got[t]] < now

(* What an answer means: for each name enabled once or more, the first     *)
(* topic that is not empty.                                                *)
EnabledIntegrations(src) ==
  LET flat == FlattenSeq(src)
      on   == {i \in DOMAIN flat : flat[i].enabled}
      with(n) == {i \in on : flat[i].name = n /\ flat[i].topic # ""}
  IN  [n \in {flat[i].name : i \in on} |->
         IF with(n) = {} THEN ""
         ELSE flat[CHOOSE i \in with(n) : \A j \in with(n) : i <= j].topic]

Offered(src) == UNION {{src[i][j] : j \in DOMAIN src[i]} : i \in DOMAIN src}

(* What GetIntegrations returns without an error is all that Houston has   *)
(* for the app, when the reply has no errors in it.  When it has, it may   *)
(* be less, but never an integration that is not enabled, and never a      *)
(* topic of another one.                                                   *)
MapIsHoustons ==
  \A t \in Callers :
    result[t] = "map" =>
      /\ answer[t] = "accepted" =>
           integrations[t] = EnabledIntegrations(sources)
      /\ \A n \in DOMAIN integrations[t] :
           \E c \in Offered(sources) :
             c.enabled /\ c.name = n /\ c.topic = integrations[t][n]

(* Every call returns: no path keeps the mutex. *)
CallReturns == \A t \in Callers : pc[t] # "idle" ~> pc[t] = "idle"

-----------------------------------------------------------------------------
(* What the comments say and the code does not do.                         *)

(* client.go:184-202, "If we have an auth token, and exp date is good,     *)
(* return that", otherwise "lets see if we can verify it!" and "Not a      *)
(* valid token!  Create a new one!": a token past its exp date is replaced *)
(* when calls go on and Houston answers them.                              *)
ExpiredIsReplaced ==
  \A k \in 1..MaxTokens :
    token = k /\ k \in Issued /\ expDate < now ~> token # k
=============================================================================

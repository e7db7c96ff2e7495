------------------------------- MODULE Login -------------------------------
(***************************************************************************)
(* The login ceremony: POST /auth/login/options and /auth/login/verify     *)
(* with the parts of WebAuthnService and SecurityService they call.        *)
(*                                                                         *)
(* Every HTTP request is a process; its pc is the await it is suspended    *)
(* at.  What a handler does between two awaits is one action.  Requests    *)
(* share PostgreSQL (sign counts, sessions, audit rows), Redis (one        *)
(* challenge per e-mail) and the memory of the server process (the rate    *)
(* limit cache).  Accounts and credentials exist already and are not       *)
(* removed by any route, so the user lookup is part of the first action.   *)
(***************************************************************************)
EXTENDS SlidingWindow

CONSTANTS
    Users,
    Email, Username,    \* Email[u] and Username[u], unique columns
    Identifiers,        \* what clients name a user by
    Creds, Owner,       \* registered credentials; Owner[c] is the user of c
    Counterless,        \* credentials whose authenticator always reports count 0
    Devices,            \* what the device fingerprint tells apart
    Addresses, Address, \* Address[d] is the client_ip of device d
    Agents, Agent,      \* Agent[d] is its user-agent header
    OptReqs,            \* requests to /login/options; each draws its own challenge
    VerReqs,            \* requests to /login/verify
    Junk,               \* a credential whose response is missing or too short
    None,
    ChallengeTTL,       \* the 300 of setex
    AuthLimit,          \* RATE_LIMITS["authentication"]
    LockoutLimit,       \* the 10 of check_account_lockout
    RapidRequests,      \* SUSPICIOUS_THRESHOLDS["rapid_requests"]
    ManyAgents,         \* SUSPICIOUS_THRESHOLDS["multiple_devices"]
    ManyAddresses,      \* the 3 of detect_suspicious_activity
    Faults,             \* which of "redis", "db", "audit", "crash" may happen
    MaxFaults,          \* bound on how many of them do
    MaxTime             \* bound on the clock

ASSUME AccountsAssumption ==
    /\ DOMAIN Email = Users /\ DOMAIN Username = Users
    /\ \A u, w \in Users : Email[u] = Email[w] \/ Username[u] = Username[w] => u = w
    /\ Owner \in [Creds -> Users] /\ Counterless \subseteq Creds
    /\ Address \in [Devices -> Addresses] /\ Agent \in [Devices -> Agents]

ASSUME LimitsAssumption ==
    /\ AuthLimit \in [attempts : Nat \ {0}, window : Nat \ {0}]
    /\ ChallengeTTL \in Nat \ {0}
    /\ LockoutLimit \in Nat \ {0} /\ MaxTime \in Nat /\ MaxFaults \in Nat
    /\ RapidRequests \in Nat /\ ManyAgents \in Nat /\ ManyAddresses \in Nat

Requests == OptReqs \cup VerReqs

\* Model values are told apart by name; nothing else is assumed of them.
ASSUME RequestsAssumption ==
    /\ OptReqs \cap VerReqs = {}
    /\ None \notin Users \cup Devices \cup Requests

VARIABLES
    now,            \* whole seconds
    signCount,      \* webauthn_credentials.sign_count, per credential
    aged,           \* credentials created more than 365 days ago
    sessions,       \* rows of sessions
    audit,          \* rows of audit_logs
    challenges,     \* Redis: auth_challenge:<email>, per user
    attempts,       \* memory: _rate_limit_cache["<ip>:authentication"]
    counter,        \* the signature counter inside each authenticator
    assertions,     \* the assertions clients hold and may send
    pc,             \* the await each request is suspended at
    who,            \* local user
    device,         \* the device that sent the request
    proof,          \* the credential in a verify request
    got,            \* local challenge_data of a verify request
    seen,           \* local stored_credential.sign_count, as selected
    reply,          \* the outcome sent to the client
    issued,         \* history: the challenges stored so far
    recorded,       \* history: verify requests whose sign count was committed
    faced           \* history: the faults met, each with the request that met it

stores == <<signCount, aged, sessions, challenges>>
clients == <<counter, assertions>>
locals == <<who, device, proof, got, seen>>
histories == <<issued, recorded>>
vars == <<now, stores, audit, attempts, clients, pc, locals, reply, histories, faced>>

Challenge == [id : OptReqs, user : Users, device : Devices, until : Nat]
ASSUME ChallengeAssumption == None \notin Challenge
Assertion == [challenge : OptReqs, cred : Creds, count : Nat]
Issue == [id : OptReqs, user : Users, device : Devices, at : Nat, allow : SUBSET Creds]
SessionRow == [user : Users, exp : Nat, by : VerReqs]
Outcomes == {"none", "ok", "limited", "not_found", "ambiguous", "locked", "error",
             "expired", "mismatch", "device", "malformed", "failed"}
OptSteps == {"screen", "issue", "report"}
VerSteps == {"fetch", "check", "store", "session", "cleanup", "report"}

\* Every variable has its type.
TypeOK ==
    /\ now \in Nat
    /\ signCount \in [Creds -> Nat] /\ aged \subseteq Creds
    /\ sessions \subseteq SessionRow
    /\ challenges \in [Users -> Challenge \cup {None}]
    /\ attempts \in [Addresses -> SUBSET [n : OptReqs, at : Nat]]
    /\ counter \in [Creds -> Nat] /\ assertions \subseteq Assertion
    /\ pc \in [Requests -> {"idle", "done", "lost"} \cup OptSteps \cup VerSteps]
    /\ who \in [Requests -> Users \cup {None}]
    /\ device \in [Requests -> Devices \cup {None}]
    /\ proof \in [VerReqs -> Assertion \cup {Junk, None}]
    /\ got \in [VerReqs -> Challenge \cup {None}]
    /\ seen \in [VerReqs -> Nat]
    /\ reply \in [Requests -> Outcomes]
    /\ issued \subseteq Issue /\ recorded \subseteq VerReqs
    /\ faced \subseteq (Requests \cup {None}) \X Faults

Init ==
    /\ now = 0
    /\ signCount = [c \in Creds |-> 0] /\ aged = {} /\ sessions = {} /\ audit = {}
    /\ challenges = [u \in Users |-> None]
    /\ attempts = [ip \in Addresses |-> {}]
    /\ counter = [c \in Creds |-> 0] /\ assertions = {}
    /\ pc = [r \in Requests |-> "idle"]
    /\ who = [r \in Requests |-> None]
    /\ device = [r \in Requests |-> None]
    /\ proof = [v \in VerReqs |-> None]
    /\ got = [v \in VerReqs |-> None]
    /\ seen = [v \in VerReqs |-> 0]
    /\ reply = [r \in Requests |-> "none"]
    /\ issued = {} /\ recorded = {} /\ faced = {}

-----------------------------------------------------------------------------
(* What both handlers use. *)

\* users whose e-mail or username is the identifier (scalar_one_or_none
\* answers None for no row and raises for two).
Matching(i) == {u \in Users : i \in {Email[u], Username[u]}}

\* A request meets some faults in a step.
Meet(r, faults) ==
    /\ faults \subseteq Faults
    /\ faced' = faced \cup ({r} \X faults)
    /\ Cardinality(faced') <= MaxFaults

\* log_security_event: one committed row; its exceptions are swallowed.
\* The caller has met the faults already.
LogAfter(r, faults, event, status, user) ==
    \/ /\ audit' = audit \cup {[req |-> r, action |-> event, status |-> status, user |-> user]}
       /\ Meet(r, faults)
    \/ /\ audit' = audit
       /\ Meet(r, faults \cup {"audit"})

Log(r, event, status, user) == LogAfter(r, {}, event, status, user)

Move(r, step) == pc' = [pc EXCEPT ![r] = step]

Answer(r, outcome) ==
    /\ Move(r, "done")
    /\ reply' = [reply EXCEPT ![r] = outcome]

\* A request is received; the lookup finds its user.
Identify(r, u, d) ==
    /\ who' = [who EXCEPT ![r] = u]
    /\ device' = [device EXCEPT ![r] = d]

-----------------------------------------------------------------------------
(* POST /auth/login/options *)

\* is_rate_limited(client_ip, "authentication") runs before anything else.
CountAttempt(o, d) ==
    attempts' = [attempts EXCEPT ![Address[d]] = Recorded(@, AuthLimit, o, now)]

LimitedAt(d) == Limited(attempts[Address[d]], AuthLimit, now)

OptionsLimited(o, d) ==
    /\ pc[o] = "idle"
    /\ LimitedAt(d)
    /\ CountAttempt(o, d)
    /\ Answer(o, "limited")
    /\ Log(o, "AUTH_RATE_LIMIT_EXCEEDED", "WARNING", None)
    /\ UNCHANGED <<now, stores, clients, locals, histories>>

OptionsUnknown(o, d, i) ==
    /\ pc[o] = "idle"
    /\ ~LimitedAt(d)
    /\ Matching(i) = {}
    /\ CountAttempt(o, d)
    /\ Answer(o, "not_found")
    /\ Log(o, "AUTH_USER_NOT_FOUND", "WARNING", None)
    /\ UNCHANGED <<now, stores, clients, locals, histories>>

\* Two rows: MultipleResultsFound leaves the handler, a 500 without audit.
OptionsAmbiguous(o, d, i) ==
    /\ pc[o] = "idle"
    /\ ~LimitedAt(d)
    /\ \E u, w \in Matching(i) : u # w
    /\ CountAttempt(o, d)
    /\ Answer(o, "ambiguous")
    /\ UNCHANGED <<now, stores, audit, clients, locals, histories, faced>>

OptionsFound(o, d, i, u) ==
    /\ pc[o] = "idle"
    /\ ~LimitedAt(d)
    /\ Matching(i) = {u}
    /\ CountAttempt(o, d)
    /\ Identify(o, u, d)
    /\ Move(o, "screen")
    /\ UNCHANGED <<now, stores, audit, clients, proof, got, seen, reply, histories, faced>>

\* The rows check_account_lockout counts.
FailureRows(u) ==
    {a \in audit : a.user = u /\ a.action = "authentication" /\ a.status = "FAILED"}

LockedOut(u) == Cardinality(FailureRows(u)) >= LockoutLimit

\* detect_suspicious_activity: too many rows of the user, user agents or
\* addresses in them; a warning row, and the request goes on.
Suspicious(u) ==
    LET rows == {a \in audit : a.user = u}
        from == {device[a.req] : a \in rows}
    IN  \/ Cardinality(rows) > RapidRequests
        \/ Cardinality({Agent[d] : d \in from}) > ManyAgents
        \/ Cardinality({Address[d] : d \in from}) > ManyAddresses

\* A select of login_options fails: the user, the audit rows or the
\* credentials.  The SQLAlchemy session is unusable after it, so the audit
\* row of the except clause, where there is one, is dropped.
OptionsUnread(o) ==
    /\ pc[o] \in {"screen", "issue"}
    /\ Meet(o, {"db"})
    /\ Answer(o, "error")
    /\ UNCHANGED <<now, stores, audit, attempts, clients, locals, histories>>

OptionsUnfound(o, d) ==
    /\ pc[o] = "idle"
    /\ ~LimitedAt(d)
    /\ Meet(o, {"db"})
    /\ CountAttempt(o, d)
    /\ Answer(o, "error")
    /\ UNCHANGED <<now, stores, audit, clients, locals, histories>>

\* check_account_lockout answers 423; then screening.  Of the request's own
\* writes only the warning row lies between the two reads of audit_logs.
OptionsScreened(o) ==
    /\ pc[o] = "screen"
    /\ IF LockedOut(who[o])
       THEN Answer(o, "locked") /\ Log(o, "ACCOUNT_LOCKED", "ERROR", who[o])
       ELSE /\ audit' = audit \cup {[req |-> o, action |-> "SUSPICIOUS_ACTIVITY",
                   status |-> "WARNING", user |-> u] : u \in {u \in {who[o]} : Suspicious(u)}}
            /\ Move(o, "issue")
            /\ UNCHANGED <<reply, faced>>
    /\ UNCHANGED <<now, stores, attempts, clients, locals, histories>>

\* When the warning row is lost the SQLAlchemy session is unusable: the next
\* select raises, and the row of the except clause is lost with it.
OptionsUnscreened(o) ==
    /\ pc[o] = "screen"
    /\ ~LockedOut(who[o]) /\ Suspicious(who[o])
    /\ Meet(o, {"audit"})
    /\ Answer(o, "error")
    /\ UNCHANGED <<now, stores, audit, attempts, clients, locals, histories>>

\* The credentials younger than a year, as both WebAuthn operations select them.
Usable(u) == {c \in Creds : Owner[c] = u} \ aged

\* setex replaces whatever challenge the user had.
OptionsIssued(o) ==
    LET u == who[o] IN
    /\ pc[o] = "issue"
    /\ Usable(u) # {}
    /\ challenges' = [challenges EXCEPT ![u] =
           [id |-> o, user |-> u, device |-> device[o], until |-> now + ChallengeTTL]]
    /\ issued' = issued \cup
           {[id |-> o, user |-> u, device |-> device[o], at |-> now, allow |-> Usable(u)]}
    /\ Move(o, "report")
    /\ UNCHANGED <<now, signCount, aged, sessions, audit, attempts, clients, locals,
                   reply, recorded, faced>>

\* No usable credential, or setex fails.
OptionsFailed(o) ==
    /\ pc[o] = "issue"
    /\ Answer(o, "error")
    /\ \/ Usable(who[o]) = {} /\ Log(o, "AUTH_OPTIONS_FAILED", "ERROR", who[o])
       \/ LogAfter(o, {"redis"}, "AUTH_OPTIONS_FAILED", "ERROR", who[o])
    /\ UNCHANGED <<now, stores, attempts, clients, locals, histories>>

OptionsReported(o) ==
    /\ pc[o] = "report"
    /\ Answer(o, "ok")
    /\ Log(o, "AUTH_OPTIONS_GENERATED", "INFO", who[o])
    /\ UNCHANGED <<now, stores, attempts, clients, locals, histories>>

-----------------------------------------------------------------------------
(* The client between the two calls (startAuthentication). *)

\* The authenticator of an allowed credential signs the challenge of an
\* answered options request, once, and its counter grows.
Sign(o, c) ==
    /\ reply[o] = "ok"
    /\ \E i \in issued : i.id = o /\ c \in i.allow
    /\ \A a \in assertions : a.challenge # o
    /\ counter' = [counter EXCEPT ![c] = IF c \in Counterless THEN 0 ELSE @ + 1]
    /\ assertions' = assertions \cup {[challenge |-> o, cred |-> c, count |-> counter'[c]]}
    /\ UNCHANGED <<now, stores, audit, attempts, pc, locals, reply, histories, faced>>

-----------------------------------------------------------------------------
(* POST /auth/login/verify *)

\* No row (404) or two rows (500); neither is audited.
VerifyUnknown(v, i) ==
    /\ pc[v] = "idle"
    /\ Cardinality(Matching(i)) # 1
    /\ Answer(v, IF Matching(i) = {} THEN "not_found" ELSE "ambiguous")
    /\ UNCHANGED <<now, stores, audit, attempts, clients, locals, histories, faced>>

\* The select of the user fails, before the try: a bare 500.
VerifyUnread(v) ==
    /\ pc[v] = "idle"
    /\ Meet(v, {"db"})
    /\ Answer(v, "error")
    /\ UNCHANGED <<now, stores, audit, attempts, clients, locals, histories>>

\* Any assertion may be sent, by any device, and sent again.
VerifyFound(v, d, i, u, a) ==
    /\ pc[v] = "idle"
    /\ Matching(i) = {u}
    /\ a \in assertions \cup {Junk}
    /\ Identify(v, u, d)
    /\ proof' = [proof EXCEPT ![v] = a]
    /\ Move(v, "fetch")
    /\ UNCHANGED <<now, stores, audit, attempts, clients, got, seen, reply, histories, faced>>

\* Variant: the challenge is stored without a TTL.
LiveForever(u) == challenges[u] # None

\* Variant: the challenge expires a second early.
LiveTooShort(u) == challenges[u] # None /\ now + 1 < challenges[u].until

\* Redis answers with the stored challenge until its TTL has passed.
Live(u) == challenges[u] # None /\ now < challenges[u].until

VerifyExpired(v) ==
    /\ pc[v] = "fetch"
    /\ ~Live(who[v])
    /\ Answer(v, "expired")
    /\ Log(v, "AUTH_CHALLENGE_EXPIRED", "WARNING", None)
    /\ UNCHANGED <<now, stores, attempts, clients, locals, histories>>

\* redis.get is outside the try: a failure is a bare 500.
VerifyUnreachable(v) ==
    /\ pc[v] = "fetch"
    /\ Meet(v, {"redis"})
    /\ Answer(v, "error")
    /\ UNCHANGED <<now, stores, audit, attempts, clients, locals, histories>>

\* Variant: the device fingerprint is not compared.
ObjectionAnyDevice(v, ch) ==
    CASE ch.user # who[v] -> "mismatch"
      [] proof[v] = Junk  -> "malformed"
      [] OTHER            -> "none"

\* The synchronous checks after redis.get, in the order of the code.
Objection(v, ch) ==
    CASE ch.user # who[v]      -> "mismatch"
      [] ch.device # device[v] -> "device"
      [] proof[v] = Junk       -> "malformed"
      [] OTHER                 -> "none"

VerifyRejected(v) ==
    LET ch == challenges[who[v]] IN
    /\ pc[v] = "fetch"
    /\ Live(who[v])
    /\ Objection(v, ch) # "none"
    /\ Answer(v, Objection(v, ch))
    /\ Log(v, CASE Objection(v, ch) = "mismatch" -> "AUTH_USER_MISMATCH"
                [] Objection(v, ch) = "device"   -> "AUTH_DEVICE_MISMATCH"
                [] OTHER                         -> "AUTH_PRESENTATION_ATTACK",
              IF Objection(v, ch) = "malformed" THEN "CRITICAL" ELSE "ERROR", who[v])
    /\ UNCHANGED <<now, stores, attempts, clients, locals, histories>>

VerifyFetched(v) ==
    LET ch == challenges[who[v]] IN
    /\ pc[v] = "fetch"
    /\ Live(who[v])
    /\ Objection(v, ch) = "none"
    /\ got' = [got EXCEPT ![v] = ch]
    /\ Move(v, "check")
    /\ UNCHANGED <<now, stores, audit, attempts, clients, who, device, proof, seen,
                   reply, histories, faced>>

\* Variant: the exception reaches the client as it is.
FailUnmapped(v, faults) ==
    /\ Answer(v, "exception")
    /\ LogAfter(v, faults, "AUTHENTICATION_FAILED", "ERROR", None)

\* Variant: the failure is not logged.
FailUnlogged(v, faults) ==
    /\ Answer(v, "failed")
    /\ Meet(v, faults)
    /\ audit' = audit

\* The except clause of the route: whatever was raised is a 400.
Fail(v, faults) ==
    /\ Answer(v, "failed")
    /\ LogAfter(v, faults, "AUTHENTICATION_FAILED", "ERROR", None)

\* Variant: the count is not compared with the stored one.
AcceptableAnyCount(v) ==
    /\ proof[v].challenge = got[v].id
    /\ proof[v].cred \in Usable(who[v])

\* Variant: the count must exceed the stored one by two.
AcceptableSkippingOne(v) ==
    /\ AcceptableAnyCount(v)
    /\ proof[v].count > signCount[proof[v].cred] + 1

\* Variant: the signed challenge is not compared with the fetched one.
AcceptableAnyChallenge(v) ==
    /\ proof[v].cred \in Usable(who[v])
    /\ proof[v].count > signCount[proof[v].cred]

\* The library accepts the signature of this challenge by this user's key,
\* and the count must exceed the selected one (a counter stuck at zero never
\* does).
Acceptable(v) ==
    /\ proof[v].challenge = got[v].id
    /\ proof[v].cred \in Usable(who[v])
    /\ proof[v].count > signCount[proof[v].cred]

VerifyUnproven(v) ==
    /\ pc[v] = "check"
    /\ \/ ~Acceptable(v) /\ Fail(v, {})
       \/ Fail(v, {"db"})
    /\ UNCHANGED <<now, stores, attempts, clients, locals, histories>>

\* Variant: the session is created without storing the count.
VerifyProvenUnstored(v) ==
    /\ pc[v] = "check"
    /\ Acceptable(v)
    /\ seen' = [seen EXCEPT ![v] = signCount[proof[v].cred]]
    /\ Move(v, "session")
    /\ UNCHANGED <<now, stores, audit, attempts, clients, who, device, proof, got,
                   reply, histories, faced>>

VerifyProven(v) ==
    /\ pc[v] = "check"
    /\ Acceptable(v)
    /\ seen' = [seen EXCEPT ![v] = signCount[proof[v].cred]]
    /\ Move(v, "store")
    /\ UNCHANGED <<now, stores, audit, attempts, clients, who, device, proof, got,
                   reply, histories, faced>>

\* The first commit: UPDATE ... SET sign_count, with no condition on the
\* value selected before.
StoreCount(v) ==
    /\ pc[v] = "store"
    /\ signCount' = [signCount EXCEPT ![proof[v].cred] = proof[v].count]
    /\ recorded' = recorded \cup {v}
    /\ Move(v, "session")
    /\ UNCHANGED <<now, aged, sessions, challenges, audit, attempts, clients, locals,
                   reply, issued, faced>>

StoreFailed(v) ==
    /\ pc[v] = "store"
    /\ Fail(v, {"db"})
    /\ UNCHANGED <<now, stores, attempts, clients, locals, histories>>

\* Tokens are a function of the user and the second they expire in, and
\* sessions.refresh_token is unique.
TokenTaken(u) == \E s \in sessions : s.user = u /\ s.exp = now

\* The second commit.
CreateSession(v) ==
    /\ pc[v] = "session"
    /\ ~TokenTaken(who[v])
    /\ sessions' = sessions \cup {[user |-> who[v], exp |-> now, by |-> v]}
    /\ Move(v, "cleanup")
    /\ UNCHANGED <<now, signCount, aged, challenges, audit, attempts, clients, locals,
                   reply, histories, faced>>

\* The failed flush leaves the SQLAlchemy session inactive, so the audit row
\* of the except clause cannot be committed and is dropped.
SessionFailed(v) ==
    /\ pc[v] = "session"
    /\ \/ TokenTaken(who[v]) /\ Meet(v, {})
       \/ Meet(v, {"db"})
    /\ Answer(v, "failed")
    /\ UNCHANGED <<now, stores, audit, attempts, clients, locals, histories>>

\* Variant: the challenge stays.
CleanupForgotten(v) ==
    /\ pc[v] = "cleanup"
    /\ Move(v, "report")
    /\ UNCHANGED <<now, stores, audit, attempts, clients, locals, reply, histories, faced>>

\* redis.delete by key: whichever challenge the user has now is gone.
Cleanup(v) ==
    /\ pc[v] = "cleanup"
    /\ challenges' = [challenges EXCEPT ![who[v]] = None]
    /\ Move(v, "report")
    /\ UNCHANGED <<now, signCount, aged, sessions, audit, attempts, clients, locals,
                   reply, histories, faced>>

CleanupFailed(v) ==
    /\ pc[v] = "cleanup"
    /\ Fail(v, {"redis"})
    /\ UNCHANGED <<now, stores, attempts, clients, locals, histories>>

VerifyReported(v) ==
    /\ pc[v] = "report"
    /\ Answer(v, "ok")
    /\ Log(v, "AUTHENTICATION_SUCCESS", "INFO", who[v])
    /\ UNCHANGED <<now, stores, attempts, clients, locals, histories>>

-----------------------------------------------------------------------------
(* The environment. *)

Tick ==
    /\ now < MaxTime
    /\ now' = now + 1
    /\ UNCHANGED <<stores, audit, attempts, clients, pc, locals, reply, histories, faced>>

\* A credential turns a year old.
Age(c) ==
    /\ c \notin aged
    /\ aged' = aged \cup {c}
    /\ UNCHANGED <<now, signCount, sessions, challenges, audit, attempts, clients, pc,
                   locals, reply, histories, faced>>

InFlight(r) == pc[r] \notin {"idle", "done", "lost"}

\* The server process dies: requests in flight are never answered and the
\* rate limit cache is empty again; the stores keep what was committed.
Crash ==
    /\ Meet(None, {"crash"})
    /\ \E r \in Requests : InFlight(r)
    /\ pc' = [r \in Requests |-> IF InFlight(r) THEN "lost" ELSE pc[r]]
    /\ attempts' = [ip \in Addresses |-> {}]
    /\ UNCHANGED <<now, stores, audit, clients, locals, reply, histories>>

OptionsArrive(o) ==
    \E d \in Devices :
        \/ OptionsLimited(o, d)
        \/ OptionsUnfound(o, d)
        \/ \E i \in Identifiers :
            \/ OptionsUnknown(o, d, i)
            \/ OptionsAmbiguous(o, d, i)
            \/ \E u \in Users : OptionsFound(o, d, i, u)

OptionsProceed(o) ==
    \/ OptionsScreened(o) \/ OptionsUnscreened(o) \/ OptionsUnread(o)
    \/ OptionsIssued(o) \/ OptionsFailed(o) \/ OptionsReported(o)

VerifyArrive(v) ==
    \/ VerifyUnread(v)
    \/ \E i \in Identifiers :
          \/ VerifyUnknown(v, i)
          \/ \E d \in Devices, u \in Users, a \in assertions \cup {Junk} :
                 VerifyFound(v, d, i, u, a)

VerifyProceed(v) ==
    \/ VerifyExpired(v) \/ VerifyUnreachable(v) \/ VerifyRejected(v) \/ VerifyFetched(v)
    \/ VerifyUnproven(v) \/ VerifyProven(v)
    \/ StoreCount(v) \/ StoreFailed(v)
    \/ CreateSession(v) \/ SessionFailed(v)
    \/ Cleanup(v) \/ CleanupFailed(v)
    \/ VerifyReported(v)

Next ==
    \/ Tick
    \/ \E c \in Creds : Age(c)
    \/ Crash
    \/ \E o \in OptReqs : OptionsArrive(o) \/ OptionsProceed(o)
    \/ \E o \in OptReqs, c \in Creds : Sign(o, c)
    \/ \E v \in VerReqs : VerifyArrive(v) \/ VerifyProceed(v)

Spec == Init /\ [][Next]_vars

-----------------------------------------------------------------------------
(* Safety. *)

(***************************************************************************)
(* A session row never rests on anything but an assertion signed by a      *)
(* credential of its user over a challenge that was issued to that user    *)
(* and to the device that sent the assertion, whatever the overlap of      *)
(* ceremonies (the checks of login_verify read a challenge that other      *)
(* requests replace and delete meanwhile).                                 *)
(***************************************************************************)
SessionIsEarned ==
    \A s \in sessions :
        LET v == s.by  a == proof[v] IN
        /\ a \in assertions /\ Owner[a.cred] = s.user
        /\ \E i \in issued : i.id = a.challenge /\ i.user = s.user /\ i.device = device[v]

(***************************************************************************)
(* Once a login has been answered 200, its challenge is out of Redis for   *)
(* good: no request that has not fetched it yet can log in with the same   *)
(* assertion (redis.delete comes before the answer, setex stores a         *)
(* challenge once).                                                        *)
(***************************************************************************)
NoReuseAfterSuccess ==
    \A v \in VerReqs : reply[v] = "ok" =>
        \A u \in Users : challenges[u] # None => challenges[u].id # proof[v].challenge

(***************************************************************************)
(* check_account_lockout refuses nobody, whatever has failed before: no    *)
(* code path of a login writes a row that its query counts.                *)
(***************************************************************************)
NobodyIsLockedOut == \A o \in OptReqs : reply[o] # "locked"

(***************************************************************************)
(* What the client is told is durable: a login answered 200 has its        *)
(* session row, and no session row exists, after a crash between the two   *)
(* commits included, whose sign count was not committed first.             *)
(***************************************************************************)
SuccessIsDurable ==
    /\ \A v \in VerReqs : reply[v] = "ok" => \E s \in sessions : s.by = v
    /\ \A s \in sessions : s.by \in recorded

(***************************************************************************)
(* No verify request proceeds on a challenge that is ChallengeTTL old,     *)
(* however often challenges are replaced and deleted in between.           *)
(***************************************************************************)
ChallengesExpire ==
    [][\A v \in VerReqs : pc[v] = "fetch" /\ pc'[v] = "check" =>
           \E i \in issued : i.id = got'[v].id /\ now < i.at + ChallengeTTL]_vars

(***************************************************************************)
(* A stored sign count can only go down in a commit whose request selected *)
(* it before another login of the same credential committed: without such  *)
(* an overlap the counter check of verify_authentication is sound.         *)
(***************************************************************************)
RegressionNeedsOverlap ==
    [][\A c \in Creds : signCount'[c] < signCount[c] =>
           \E v \in VerReqs : /\ pc[v] = "store" /\ proof[v].cred = c
                              /\ seen[v] < signCount[c]]_vars

(***************************************************************************)
(* The counter check of verify_authentication lets an assertion through    *)
(* after one of the same credential with the same or a higher count was    *)
(* used only when a late commit of a lower count has put the stored one    *)
(* back since: replays need two overlapping logins, never just one.        *)
(***************************************************************************)
ReplayNeedsRegression ==
    [][\A v \in VerReqs, w \in recorded :
          pc[v] = "check" /\ pc'[v] = "store" /\ proof[w].cred = proof[v].cred =>
              \/ proof[w].count < proof[v].count
              \/ \E u \in recorded :
                    /\ proof[u].cred = proof[w].cred
                    /\ proof[u].count = signCount[proof[w].cred]
                    /\ proof[u].count < proof[w].count]_vars

(***************************************************************************)
(* "Challenge expired" has three causes only: the challenge is as old as   *)
(* its time to live, another one of the user was stored in or after its    *)
(* second, or a login of the user went through and took away whatever      *)
(* challenge was stored by then.                                           *)
(***************************************************************************)
ExpiredForACause ==
    [][\A v \in VerReqs, i \in issued :
          pc[v] = "fetch" /\ reply'[v] = "expired" /\ i.user = who[v] =>
              \/ i.at + ChallengeTTL <= now
              \/ \E j \in issued : j.user = i.user /\ j.id # i.id /\ j.at >= i.at
              \/ \E s \in sessions : s.user = i.user]_vars

(***************************************************************************)
(* A login that fails is accounted for.  If its sign count was committed,  *)
(* its user has a session: its own, or the one whose refresh token it      *)
(* repeats; the traffic of other users never costs it the second commit.   *)
(* And it left an audit row, but for that second case, in which the failed *)
(* commit takes the row of the except clause with it.  A failing database  *)
(* and a lost audit row are excepted.                                      *)
(***************************************************************************)
FailuresHaveCause ==
    \A v \in VerReqs : reply[v] = "failed" /\ <<v, "db">> \notin faced =>
        /\ v \in recorded => \E s \in sessions : s.user = who[v]
        /\ \/ <<v, "audit">> \in faced
           \/ \E a \in audit : a.req = v
           \/ \E s \in sessions : s.user = who[v] /\ s.by # v

\* The request is about to be verified with an assertion by a usable
\* credential of its user over the challenge it fetched, and neither that
\* assertion nor a later one of the credential was used before.
Genuine(v) ==
    /\ pc[v] = "check"
    /\ proof[v].challenge = got[v].id
    /\ proof[v].cred \in Usable(who[v])
    /\ \A w \in recorded : proof[w].cred = proof[v].cred =>
           proof[w] # proof[v] /\ proof[w].count <= proof[v].count

\* verify_authentication raises, and not because the database fails.
Refused(v) == pc[v] = "check" /\ pc'[v] = "done" /\ <<v, "db">> \notin faced'

(***************************************************************************)
(* The counter check of verify_authentication refuses nobody it should let *)
(* in: with an authenticator that counts, a genuine assertion is accepted, *)
(* whatever other logins of the account have stored meanwhile.             *)
(***************************************************************************)
CountingLoginAccepted ==
    [][\A v \in VerReqs : Genuine(v) /\ Refused(v) => proof[v].cred \in Counterless]_vars

-----------------------------------------------------------------------------
(* The login ceremony as a Ceremony: a ticket is a challenge in Redis, a     *)
(* claim a verify request, a grant its session row.                          *)

\* What Redis holds, alive or not: only Live reads the clock.
Current == [u \in Users |-> IF challenges[u] = None THEN None ELSE challenges[u].id]

Given == {[ticket |-> i.id, subject |-> i.user, device |-> i.device] : i \in issued}

Signed == {a.challenge : a \in assertions}

StageOf(v) ==
    IF reply[v] = "ok" THEN "completed"
    ELSE IF \E s \in sessions : s.by = v THEN "granted"
    ELSE IF pc[v] \in {"done", "lost"} THEN "closed"
    ELSE IF pc[v] \in {"check", "store", "session"} THEN "accepted"
    ELSE "open"

Stage == [v \in VerReqs |-> StageOf(v)]

\* What the request that fetched a challenge holds.
Held == [v \in VerReqs |->
    IF got[v] = None THEN None
    ELSE [ticket |-> got[v].id, subject |-> who[v], device |-> device[v]]]

C == INSTANCE Ceremony WITH
    Subjects <- Users, Tickets <- OptReqs, Claims <- VerReqs,
    current <- Current, given <- Given, signed <- Signed, stage <- Stage, held <- Held

(***************************************************************************)
(* login_options and login_verify together are a Ceremony: a request is    *)
(* let in with the challenge that is current, gets a session for a signed  *)
(* challenge only, and is answered 200 when its challenge is gone.         *)
(***************************************************************************)
ImplementsCeremony == C!CeremonySpec

-----------------------------------------------------------------------------
(* What the documentation says of a login. *)

(***************************************************************************)
(* "Counter Tracking: Replay attack prevention": an assertion gives at     *)
(* most one session, also when the request that carries it arrives twice.  *)
(***************************************************************************)
AssertionUsedOnce ==
    \A s, t \in sessions : proof[s.by] = proof[t.by] => s = t

(***************************************************************************)
(* "Biometric login (fingerprint, Face ID)": an assertion by a usable      *)
(* credential of the user over the challenge the request fetched is        *)
(* accepted, unless it or a later one of the credential was used before.   *)
(***************************************************************************)
GenuineLoginAccepted == [][\A v \in VerReqs : Genuine(v) => ~Refused(v)]_vars

(***************************************************************************)
(* "Account lockout mechanisms": after LockoutLimit failed logins of a     *)
(* user the next options request for that user is refused as locked.       *)
(***************************************************************************)
FailedLogins(u) == {v \in VerReqs : who[v] = u /\ reply[v] = "failed"}

LockoutHolds ==
    [][\A o \in OptReqs :
          pc[o] = "screen" /\ Cardinality(FailedLogins(who[o])) >= LockoutLimit =>
              pc'[o] \in {"screen", "lost"} \/ reply'[o] = "locked"]_vars
=============================================================================

---------------------------- MODULE Registration ----------------------------
(***************************************************************************)
(* The registration ceremony: POST /auth/register/options and              *)
(* /auth/register/verify with the parts of WebAuthnService and             *)
(* SecurityService they call.                                              *)
(*                                                                         *)
(* As in Login, a request is a process, its pc the await it is suspended   *)
(* at.  The row a verify request is inserting or has flushed, but not      *)
(* committed, is in "pending": invisible to other requests, but PostgreSQL *)
(* makes an INSERT with an equal e-mail or username wait for it.  An       *)
(* INSERT enters its row into the two unique indexes of users one after    *)
(* the other, and keeps its entry in the first while it waits at the       *)
(* second.                                                                 *)
(***************************************************************************)
EXTENDS SlidingWindow

CONSTANTS
    Names, Emails,      \* strings; usernames are any of Names, e-mails the valid ones
    Devices,            \* what the device fingerprint tells apart
    Addresses, Address, \* Address[d] is the client_ip of device d
    OptReqs,            \* requests to /register/options; each draws its own challenge
    VerReqs,            \* requests to /register/verify; each mints its own user id
    Shapes,             \* the shapes of credential clients send
    None,
    ChallengeTTL,       \* the 300 of setex
    RegLimit,           \* RATE_LIMITS["registration"]
    EmailFirst,         \* the e-mail index of users is older than the username one
    Faults,             \* which of "redis", "db", "audit", "crash" may happen
    MaxTime             \* bound on the clock

ASSUME NamesAssumption == Emails \subseteq Names /\ Address \in [Devices -> Addresses]

ASSUME LimitsAssumption ==
    /\ RegLimit \in [attempts : Nat \ {0}, window : Nat \ {0}]
    /\ ChallengeTTL \in Nat \ {0} /\ MaxTime \in Nat

\* Which index is older is a matter of the database; it is the same one for
\* every INSERT.
ASSUME IndexAssumption == EmailFirst \in BOOLEAN

Requests == OptReqs \cup VerReqs

\* Model values are told apart by name; nothing else is assumed of them.
ASSUME RequestsAssumption ==
    /\ OptReqs \cap VerReqs = {}
    /\ None \notin Devices \cup Requests

\* An attestation as browsers send it, one whose response also carries the
\* two fields of an assertion, and one that carries them beside the response.
ASSUME ShapesAssumption == Shapes \subseteq {"attestation", "padded", "outer"}

VARIABLES
    now,            \* whole seconds
    users,          \* committed rows of users
    creds,          \* committed rows of webauthn_credentials
    sessions,       \* committed rows of sessions
    pending,        \* the user row a verify request has in an open transaction, or None
    audit,          \* rows of audit_logs
    challenges,     \* Redis: reg_challenge:<email>
    attempts,       \* memory: _rate_limit_cache["<ip>:registration"]
    attested,       \* options requests whose options an authenticator answered
    pc,             \* the await each request is suspended at
    form,           \* e-mail, and in a verify request also username
    device,         \* the device that sent the request
    proof,          \* the credential in a verify request
    got,            \* local challenge_data of a verify request
    reply,          \* the outcome sent to the client
    issued          \* history: the challenges stored so far

tables == <<users, creds, sessions>>
locals == <<form, device, proof, got>>
vars == <<now, tables, pending, audit, challenges, attempts, attested, pc, locals,
          reply, issued>>

OptionsForm == [email : Emails]
Form == [email : Emails, username : Names]
User == [id : VerReqs, email : Emails, username : Names]
ASSUME RowsAssumption == None \notin User
Challenge == [id : OptReqs, device : Devices, until : Nat]
ASSUME ChallengeAssumption == None \notin Challenge
\* The credential id and its key are new in every ceremony: the options
\* request that led to it stands for both.
Credential == [of : OptReqs, shape : Shapes]
Outcomes == {"none", "ok", "limited", "exists", "error", "expired", "device",
             "quality", "attack", "failed"}
Steps == {"issue", "fetch", "flush", "index", "prove", "session", "cleanup", "report"}

\* Every variable has its type.
TypeOK ==
    /\ now \in Nat
    /\ users \subseteq User
    /\ creds \subseteq [id : OptReqs, user : VerReqs]
    /\ sessions \subseteq [user : VerReqs]
    /\ pending \in [VerReqs -> User \cup {None}]
    /\ challenges \in [Emails -> Challenge \cup {None}]
    /\ attempts \in [Addresses -> SUBSET [n : OptReqs, at : Nat]]
    /\ attested \subseteq OptReqs
    /\ pc \in [Requests -> {"idle", "done", "lost"} \cup Steps]
    /\ form \in [Requests -> OptionsForm \cup Form \cup {None}]
    /\ device \in [Requests -> Devices \cup {None}]
    /\ proof \in [VerReqs -> Credential \cup {None}]
    /\ got \in [VerReqs -> Challenge \cup {None}]
    /\ reply \in [Requests -> Outcomes]
    /\ issued \subseteq [id : OptReqs, email : Emails, device : Devices, at : Nat]

Init ==
    /\ now = 0
    /\ users = {} /\ creds = {} /\ sessions = {} /\ audit = {}
    /\ pending = [v \in VerReqs |-> None]
    /\ challenges = [e \in Emails |-> None]
    /\ attempts = [ip \in Addresses |-> {}]
    /\ attested = {}
    /\ pc = [r \in Requests |-> "idle"]
    /\ form = [r \in Requests |-> None]
    /\ device = [r \in Requests |-> None]
    /\ proof = [v \in VerReqs |-> None]
    /\ got = [v \in VerReqs |-> None]
    /\ reply = [r \in Requests |-> "none"]
    /\ issued = {}

-----------------------------------------------------------------------------
(* What both handlers use. *)

\* log_security_event: one committed row; its exceptions are swallowed.
Log(r, event, status) ==
    \/ audit' = audit \cup {[req |-> r, action |-> event, status |-> status]}
    \/ "audit" \in Faults /\ audit' = audit

Move(r, step) == pc' = [pc EXCEPT ![r] = step]

Answer(r, outcome) ==
    /\ Move(r, "done")
    /\ reply' = [reply EXCEPT ![r] = outcome]

Receive(r, f, d) ==
    /\ form' = [form EXCEPT ![r] = f]
    /\ device' = [device EXCEPT ![r] = d]

-----------------------------------------------------------------------------
(* POST /auth/register/options *)

\* is_rate_limited(client_ip, "registration") runs before anything else.
CountAttempt(o, d) ==
    attempts' = [attempts EXCEPT ![Address[d]] = Recorded(@, RegLimit, o, now)]

LimitedAt(d) == Limited(attempts[Address[d]], RegLimit, now)

OptionsLimited(o, d) ==
    /\ pc[o] = "idle"
    /\ LimitedAt(d)
    /\ CountAttempt(o, d)
    /\ Answer(o, "limited")
    /\ Log(o, "RATE_LIMIT_EXCEEDED", "WARNING")
    /\ UNCHANGED <<now, tables, pending, challenges, attested, locals, issued>>

\* The look-up of the e-mail is outside the try: a failure is a bare 500.
OptionsUnread(o, d) ==
    /\ pc[o] = "idle"
    /\ ~LimitedAt(d)
    /\ "db" \in Faults
    /\ CountAttempt(o, d)
    /\ Answer(o, "error")
    /\ UNCHANGED <<now, tables, pending, audit, challenges, attested, locals, issued>>

\* Only the e-mail is looked up, not the username, which decides nothing here.
OptionsExists(o, d, f) ==
    /\ pc[o] = "idle"
    /\ ~LimitedAt(d)
    /\ \E u \in users : u.email = f.email
    /\ CountAttempt(o, d)
    /\ Answer(o, "exists")
    /\ Log(o, "DUPLICATE_REGISTRATION", "WARNING")
    /\ UNCHANGED <<now, tables, pending, challenges, attested, locals, issued>>

OptionsNew(o, d, f) ==
    /\ pc[o] = "idle"
    /\ ~LimitedAt(d)
    /\ \A u \in users : u.email # f.email
    /\ CountAttempt(o, d)
    /\ Receive(o, f, d)
    /\ Move(o, "issue")
    /\ UNCHANGED <<now, tables, pending, audit, challenges, attested, proof, got, reply,
                   issued>>

\* setex replaces whatever challenge the e-mail had.
OptionsIssued(o) ==
    LET e == form[o].email IN
    /\ pc[o] = "issue"
    /\ challenges' = [challenges EXCEPT ![e] =
           [id |-> o, device |-> device[o], until |-> now + ChallengeTTL]]
    /\ issued' = issued \cup {[id |-> o, email |-> e, device |-> device[o], at |-> now]}
    /\ Move(o, "report")
    /\ UNCHANGED <<now, tables, pending, audit, attempts, attested, locals, reply>>

\* setex fails; this except clause writes no audit row.
OptionsFailed(o) ==
    /\ pc[o] = "issue"
    /\ "redis" \in Faults
    /\ Answer(o, "error")
    /\ UNCHANGED <<now, tables, pending, audit, challenges, attempts, attested, locals,
                   issued>>

OptionsReported(o) ==
    /\ pc[o] = "report"
    /\ Answer(o, "ok")
    /\ Log(o, "REGISTRATION_OPTIONS_GENERATED", "INFO")
    /\ UNCHANGED <<now, tables, pending, challenges, attempts, attested, locals, issued>>

\* The client between the two calls (startRegistration): the authenticator
\* makes a credential for the challenge.
Attest(o) ==
    /\ reply[o] = "ok"
    /\ o \notin attested
    /\ attested' = attested \cup {o}
    /\ UNCHANGED <<now, tables, pending, audit, challenges, attempts, pc, locals, reply,
                   issued>>

-----------------------------------------------------------------------------
(* POST /auth/register/verify *)

\* The form and the credential may come from different ceremonies, and the
\* same request may arrive again.
VerifyArrive(v, f, d, p) ==
    /\ pc[v] = "idle"
    /\ p.of \in attested
    /\ Receive(v, f, d)
    /\ proof' = [proof EXCEPT ![v] = p]
    /\ Move(v, "fetch")
    /\ UNCHANGED <<now, tables, pending, audit, challenges, attempts, attested, got,
                   reply, issued>>

\* Variant: the challenge is stored without a TTL.
LiveForever(e) == challenges[e] # None

\* Variant: the challenge expires a second early.
LiveTooShort(e) == challenges[e] # None /\ now + 1 < challenges[e].until

\* Redis answers with the stored challenge until its TTL has passed.
Live(e) == challenges[e] # None /\ now < challenges[e].until

VerifyExpired(v) ==
    /\ pc[v] = "fetch"
    /\ ~Live(form[v].email)
    /\ Answer(v, "expired")
    /\ Log(v, "EXPIRED_CHALLENGE", "WARNING")
    /\ UNCHANGED <<now, tables, pending, challenges, attempts, attested, locals, issued>>

\* redis.get is outside the try: a failure is a bare 500.
VerifyUnreachable(v) ==
    /\ pc[v] = "fetch"
    /\ "redis" \in Faults
    /\ Answer(v, "error")
    /\ UNCHANGED <<now, tables, pending, audit, challenges, attempts, attested, locals,
                   issued>>

\* Variant: the device fingerprint is not compared.
ObjectionAnyDevice(v, ch) ==
    CASE proof[v].shape = "attestation"   -> "quality"
      [] proof[v].shape = "outer"         -> "attack"
      [] OTHER                            -> "none"

\* The synchronous checks after redis.get, in the order of the code:
\* fingerprint, validate_biometric_quality, detect_presentation_attack.
Objection(v, ch) ==
    CASE ch.device # device[v]            -> "device"
      [] proof[v].shape = "attestation"   -> "quality"
      [] proof[v].shape = "outer"         -> "attack"
      [] OTHER                            -> "none"

VerifyRejected(v) ==
    LET ch == challenges[form[v].email] IN
    /\ pc[v] = "fetch"
    /\ Live(form[v].email)
    /\ Objection(v, ch) # "none"
    /\ Answer(v, Objection(v, ch))
    /\ CASE Objection(v, ch) = "device"  -> Log(v, "DEVICE_FINGERPRINT_MISMATCH", "ERROR")
         [] Objection(v, ch) = "quality" -> Log(v, "POOR_BIOMETRIC_QUALITY", "WARNING")
         [] OTHER -> Log(v, "PRESENTATION_ATTACK_DETECTED", "CRITICAL")
    /\ UNCHANGED <<now, tables, pending, challenges, attempts, attested, locals, issued>>

VerifyFetched(v) ==
    LET ch == challenges[form[v].email] IN
    /\ pc[v] = "fetch"
    /\ Live(form[v].email)
    /\ Objection(v, ch) = "none"
    /\ got' = [got EXCEPT ![v] = ch]
    /\ Move(v, "flush")
    /\ UNCHANGED <<now, tables, pending, audit, challenges, attempts, attested, form,
                   device, proof, reply, issued>>

\* The except clause of the route: whatever was raised is a 400.
Fail(v) ==
    /\ Answer(v, "failed")
    /\ Log(v, "REGISTRATION_FAILED", "ERROR")

\* Variant: the e-mail column is not unique.
SameEmailNever(u, f) == FALSE

\* Variant: the username column is not unique.
SameUsernameNever(u, f) == FALSE

\* The unique columns of users.
SameEmail(u, f) == u.email = f.email

SameUsername(u, f) == u.username = f.username

\* An INSERT checks and enters the older index first.
SameFirst(u, f) == IF EmailFirst THEN SameEmail(u, f) ELSE SameUsername(u, f)

SameSecond(u, f) == IF EmailFirst THEN SameUsername(u, f) ELSE SameEmail(u, f)

Row(v) == [id |-> v, email |-> form[v].email, username |-> form[v].username]

\* The INSERT of v waits for the transaction of w: w has entered an equal row
\* into the index v is at.
Waits(v, w) ==
    /\ pending[w] # None
    /\ \/ pc[v] = "flush" /\ SameFirst(pending[w], form[v])
       \/ pc[v] = "index" /\ pc[w] # "index" /\ SameSecond(pending[w], form[v])

\* INSERT INTO users: the entry in the first index.
EnterFirst(v) ==
    /\ pc[v] = "flush"
    /\ \A u \in users : ~SameFirst(u, form[v])
    /\ \A w \in VerReqs : ~Waits(v, w)
    /\ pending' = [pending EXCEPT ![v] = Row(v)]
    /\ Move(v, "index")
    /\ UNCHANGED <<now, tables, audit, challenges, attempts, attested, locals, reply,
                   issued>>

\* Variant: the user is committed before its credential is verified.
EnterSecondCommitted(v) ==
    /\ pc[v] = "index"
    /\ \A u \in users : ~SameSecond(u, form[v])
    /\ users' = users \cup {pending[v]}
    /\ Move(v, "prove")
    /\ UNCHANGED <<now, creds, sessions, pending, audit, challenges, attempts, attested,
                   locals, reply, issued>>

\* The entry in the second index; the flush is done.
EnterSecond(v) ==
    /\ pc[v] = "index"
    /\ \A u \in users : ~SameSecond(u, form[v])
    /\ \A w \in VerReqs : ~Waits(v, w)
    /\ Move(v, "prove")
    /\ UNCHANGED <<now, tables, pending, audit, challenges, attempts, attested, locals,
                   reply, issued>>

\* The row of the first index is taken by now, or that of the second, or the
\* database fails.  PostgreSQL rolls back; the SQLAlchemy session is left
\* inactive, so the audit row of the except clause is dropped.
FlushFailed(v) ==
    /\ \/ pc[v] = "flush" /\ \E u \in users : SameFirst(u, form[v])
       \/ pc[v] = "index" /\ \E u \in users : SameSecond(u, form[v])
       \/ pc[v] \in {"flush", "index"} /\ "db" \in Faults
    /\ pending' = [pending EXCEPT ![v] = None]
    /\ Answer(v, "failed")
    /\ UNCHANGED <<now, tables, audit, challenges, attempts, attested, locals, issued>>

\* Variant: the challenge is not compared.
AcceptableAnyChallenge(v) == \A c \in creds : c.id # proof[v].of

\* The library accepts an attestation of the challenge the request fetched,
\* and no row has its credential id.
Acceptable(v) == proof[v].of = got[v].id /\ \A c \in creds : c.id # proof[v].of

\* The first commit: the user and the credential become durable together.
StoreCredential(v) ==
    /\ pc[v] = "prove"
    /\ Acceptable(v)
    /\ users' = users \cup {pending[v]}
    /\ creds' = creds \cup {[id |-> proof[v].of, user |-> v]}
    /\ pending' = [pending EXCEPT ![v] = None]
    /\ Move(v, "session")
    /\ UNCHANGED <<now, sessions, audit, challenges, attempts, attested, locals, reply,
                   issued>>

\* Variant: the transaction of a refused attestation stays open.
VerifyUnprovenOpen(v) ==
    /\ pc[v] = "prove"
    /\ ~Acceptable(v) \/ "db" \in Faults
    /\ Fail(v)
    /\ UNCHANGED <<now, tables, pending, challenges, attempts, attested, locals, issued>>

\* Variant: the raw user id in place of the row is kept.
VerifyUnprovenUntyped(v) ==
    /\ pc[v] = "prove"
    /\ ~Acceptable(v) \/ "db" \in Faults
    /\ pending' = [pending EXCEPT ![v] = v]
    /\ Fail(v)
    /\ UNCHANGED <<now, tables, challenges, attempts, attested, locals, issued>>

\* verify_registration rolls back and raises.
VerifyUnproven(v) ==
    /\ pc[v] = "prove"
    /\ ~Acceptable(v) \/ "db" \in Faults
    /\ pending' = [pending EXCEPT ![v] = None]
    /\ Fail(v)
    /\ UNCHANGED <<now, tables, challenges, attempts, attested, locals, issued>>

\* The second commit.  The user is new, so its refresh token is unique.
CreateSession(v) ==
    /\ pc[v] = "session"
    /\ sessions' = sessions \cup {[user |-> v]}
    /\ Move(v, "cleanup")
    /\ UNCHANGED <<now, users, creds, pending, audit, challenges, attempts, attested,
                   locals, reply, issued>>

SessionFailed(v) ==
    /\ pc[v] = "session"
    /\ "db" \in Faults
    /\ Answer(v, "failed")
    /\ UNCHANGED <<now, tables, pending, audit, challenges, attempts, attested, locals,
                   issued>>

\* Variant: the challenge stays.
CleanupForgotten(v) ==
    /\ pc[v] = "cleanup"
    /\ Move(v, "report")
    /\ UNCHANGED <<now, tables, pending, audit, challenges, attempts, attested, locals,
                   reply, issued>>

\* redis.delete by key: whichever challenge the e-mail has now is gone.
Cleanup(v) ==
    /\ pc[v] = "cleanup"
    /\ challenges' = [challenges EXCEPT ![form[v].email] = None]
    /\ Move(v, "report")
    /\ UNCHANGED <<now, tables, pending, audit, attempts, attested, locals, reply, issued>>

CleanupFailed(v) ==
    /\ pc[v] = "cleanup"
    /\ "redis" \in Faults
    /\ Fail(v)
    /\ UNCHANGED <<now, tables, pending, challenges, attempts, attested, locals, issued>>

VerifyReported(v) ==
    /\ pc[v] = "report"
    /\ Answer(v, "ok")
    /\ Log(v, "REGISTRATION_SUCCESS", "INFO")
    /\ UNCHANGED <<now, tables, pending, challenges, attempts, attested, locals, issued>>

-----------------------------------------------------------------------------
(* The environment. *)

Tick ==
    /\ now < MaxTime
    /\ now' = now + 1
    /\ UNCHANGED <<tables, pending, audit, challenges, attempts, attested, pc, locals,
                   reply, issued>>

InFlight(r) == pc[r] \notin {"idle", "done", "lost"}

\* The server process dies: requests in flight are never answered, PostgreSQL
\* rolls their transactions back, and the rate limit cache is empty again.
Crash ==
    /\ "crash" \in Faults
    /\ \E r \in Requests : InFlight(r)
    /\ pc' = [r \in Requests |-> IF InFlight(r) THEN "lost" ELSE pc[r]]
    /\ pending' = [v \in VerReqs |-> None]
    /\ attempts' = [ip \in Addresses |-> {}]
    /\ UNCHANGED <<now, tables, audit, challenges, attested, locals, reply, issued>>

OptionsArrive(o) ==
    \E d \in Devices :
        \/ OptionsLimited(o, d)
        \/ OptionsUnread(o, d)
        \/ \E f \in OptionsForm : OptionsExists(o, d, f) \/ OptionsNew(o, d, f)

OptionsProceed(o) == OptionsIssued(o) \/ OptionsFailed(o) \/ OptionsReported(o)

VerifyProceed(v) ==
    \/ VerifyExpired(v) \/ VerifyUnreachable(v) \/ VerifyRejected(v) \/ VerifyFetched(v)
    \/ EnterFirst(v) \/ EnterSecond(v) \/ FlushFailed(v)
    \/ StoreCredential(v) \/ VerifyUnproven(v)
    \/ CreateSession(v) \/ SessionFailed(v)
    \/ Cleanup(v) \/ CleanupFailed(v)
    \/ VerifyReported(v)

Next ==
    \/ Tick
    \/ Crash
    \/ \E o \in OptReqs : OptionsArrive(o) \/ OptionsProceed(o) \/ Attest(o)
    \/ \E v \in VerReqs :
        \/ \E f \in Form, d \in Devices, p \in Credential : VerifyArrive(v, f, d, p)
        \/ VerifyProceed(v)

\* The event loop resumes every suspended handler; PostgreSQL wakes the
\* INSERT that waits when the transaction it waits for ends.
Fairness ==
    /\ \A o \in OptReqs : WF_vars(OptionsProceed(o))
    /\ \A v \in VerReqs : WF_vars(VerifyProceed(v))

Spec == Init /\ [][Next]_vars
FairSpec == Spec /\ Fairness

-----------------------------------------------------------------------------
(* Safety. *)

(***************************************************************************)
(* There is no account nobody can log in to: whatever fails or crashes, a  *)
(* committed user has a committed credential, and credentials and sessions *)
(* belong to committed users (the user is flushed before the attestation   *)
(* is checked, and verify_registration commits for its caller).            *)
(***************************************************************************)
NoHollowAccount ==
    /\ \A u \in users : \E c \in creds : c.user = u.id
    /\ \A c \in creds : \E u \in users : u.id = c.user
    /\ \A s \in sessions : \E u \in users : u.id = s.user

(***************************************************************************)
(* However registrations overlap, no two committed users share an e-mail   *)
(* or a username and no two credentials an id, although the options        *)
(* handler looks up the e-mail long before the INSERT.                     *)
(***************************************************************************)
AccountsDistinct ==
    /\ \A u, w \in users : u.email = w.email \/ u.username = w.username => u = w
    /\ \A c, d \in creds : c.id = d.id => c = d

(***************************************************************************)
(* An account rests on a credential made for a challenge that was issued   *)
(* for its e-mail and to the device that registered it, while other        *)
(* requests replace and delete challenges.                                 *)
(***************************************************************************)
RegistrationIsEarned ==
    \A u \in users : \E i \in issued :
        /\ i.email = u.email /\ i.device = device[u.id]
        /\ [id |-> i.id, user |-> u.id] \in creds

(***************************************************************************)
(* At most one client is told that it registered a given e-mail, and what  *)
(* it is told is durable: user, credential and session are committed and   *)
(* the challenge it used can no longer be fetched.                         *)
(***************************************************************************)
SuccessIsDurable ==
    \A v \in VerReqs : reply[v] = "ok" =>
        /\ \A w \in VerReqs \ {v} : reply[w] = "ok" => form[w].email # form[v].email
        /\ \E u \in users : u.id = v /\ u.email = form[v].email
        /\ [user |-> v] \in sessions
        /\ \A e \in Emails : challenges[e] # None => challenges[e].id # proof[v].of

(***************************************************************************)
(* However registrations wait for each other's rows, the one at the end is *)
(* at work: an INSERT waits for a handler between its flush and its        *)
(* commit, or for an INSERT that waits for such handlers only; never for   *)
(* itself, nor for a request that was answered or died (every way out of   *)
(* registration_verify must end the transaction).                          *)
(***************************************************************************)
InsertsWaitForWork ==
    \A v, w \in VerReqs : Waits(v, w) =>
        \/ pc[w] = "prove"
        \/ pc[w] = "index" /\ \A x \in VerReqs : Waits(w, x) => pc[x] = "prove"

(***************************************************************************)
(* verify_registration never finds the credential id of a genuine          *)
(* attestation taken, however often and with whatever usernames it is      *)
(* sent: a request that got past the INSERT is the first of its e-mail,    *)
(* and a challenge serves one e-mail.                                      *)
(***************************************************************************)
GenuineAttestationIsNew ==
    \A v \in VerReqs : pc[v] = "prove" /\ proof[v].of = got[v].id =>
        \A c \in creds : c.id # proof[v].of

(***************************************************************************)
(* No verify request proceeds on a challenge that is ChallengeTTL old,     *)
(* however often the challenges of an e-mail are replaced and deleted.     *)
(***************************************************************************)
ChallengesExpire ==
    [][\A v \in VerReqs : pc[v] = "fetch" /\ pc'[v] = "flush" =>
           \E i \in issued : i.id = got'[v].id /\ now < i.at + ChallengeTTL]_vars

(***************************************************************************)
(* A registrant is told that the challenge has expired for three causes    *)
(* only: it is as old as its time to live, another one for the e-mail was  *)
(* stored in or after its second, or the e-mail is registered by now (the  *)
(* delete by key takes whatever challenge is stored).                      *)
(***************************************************************************)
ExpiredForACause ==
    [][\A v \in VerReqs, i \in issued :
          pc[v] = "fetch" /\ reply'[v] = "expired" /\ i.email = form[v].email =>
              \/ i.at + ChallengeTTL <= now
              \/ \E j \in issued : j.email = i.email /\ j.id # i.id /\ j.at >= i.at
              \/ \E u \in users : u.email = i.email]_vars

-----------------------------------------------------------------------------
(* Registration as a Ceremony: a ticket is a challenge in Redis, a claim a   *)
(* verify request, a grant its user row.                                     *)

Current == [e \in Emails |-> IF challenges[e] = None THEN None ELSE challenges[e].id]

Given == {[ticket |-> i.id, subject |-> i.email, device |-> i.device] : i \in issued}

StageOf(v) ==
    IF reply[v] = "ok" THEN "completed"
    ELSE IF \E u \in users : u.id = v THEN "granted"
    ELSE IF pc[v] \in {"done", "lost"} THEN "closed"
    ELSE IF pc[v] \in {"flush", "index", "prove"} THEN "accepted"
    ELSE "open"

Stage == [v \in VerReqs |-> StageOf(v)]

\* What the request that fetched a challenge holds.
Held == [v \in VerReqs |->
    IF got[v] = None THEN None
    ELSE [ticket |-> got[v].id, subject |-> form[v].email, device |-> device[v]]]

C == INSTANCE Ceremony WITH
    Subjects <- Emails, Tickets <- OptReqs, Claims <- VerReqs,
    current <- Current, given <- Given, signed <- attested, stage <- Stage, held <- Held

(***************************************************************************)
(* registration_options and registration_verify together are a Ceremony:   *)
(* a request is let in with the challenge that is current for its e-mail,  *)
(* gets an account for an attested challenge only, and is answered 200     *)
(* when its challenge is gone.                                             *)
(***************************************************************************)
ImplementsCeremony == C!CeremonySpec

-----------------------------------------------------------------------------
(* Liveness. *)

(***************************************************************************)
(* Every request that was taken up is answered or its process dies, the    *)
(* INSERTs that wait for another request's transaction included, also when *)
(* that one waits in turn.                                                 *)
(***************************************************************************)
RequestsAnswered ==
    \A r \in Requests : InFlight(r) ~> pc[r] \in {"done", "lost"}

-----------------------------------------------------------------------------
(* What the documentation says of a registration. *)

(***************************************************************************)
(* The login identifier "can be email or username": a string names at most *)
(* one account.                                                            *)
(***************************************************************************)
IdentifierNamesOneUser ==
    \A i \in Names : \A u, w \in users :
        i \in {u.email, u.username} /\ i \in {w.email, w.username} => u = w
=============================================================================

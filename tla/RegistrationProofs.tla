------------------------- MODULE RegistrationProofs -------------------------
(***************************************************************************)
(* Proofs about Registration, for any names, e-mails, devices and          *)
(* requests, any limits and any faults.                                    *)
(***************************************************************************)
EXTENDS Registration, TLAPS

(***************************************************************************)
(* Most actions end a request: they answer it and change nothing else but  *)
(* the audit rows and the rate limit cache.  Only "report" answers "ok",   *)
(* only a challenge that is gone gives "expired"; a request that may have  *)
(* a row in an open transaction ends otherwise (Releases).                 *)
(***************************************************************************)
Ends(r) ==
    /\ pc[r] \notin {"done", "lost", "flush", "index", "prove"}
    /\ \E x \in Outcomes :
        /\ x = "ok" => pc[r] = "report"
        /\ x = "expired" => ~Live(form[r].email)
        /\ Answer(r, x)
    /\ UNCHANGED <<now, tables, pending, challenges, attested, locals, issued>>

\* A registration fails before its commit, and its transaction ends.
Releases(v) ==
    /\ pc[v] \in {"flush", "index", "prove"}
    /\ pending' = [pending EXCEPT ![v] = None]
    /\ Answer(v, "failed")
    /\ UNCHANGED <<now, tables, challenges, attested, locals, issued>>

\* What a step can be, seen from the variables the invariant is about.
Step ==
    \/ \E r \in Requests : Ends(r)
    \/ \E o \in OptReqs, d \in Devices, f \in OptionsForm : OptionsNew(o, d, f)
    \/ \E o \in OptReqs : OptionsIssued(o)
    \/ \E o \in OptReqs : Attest(o)
    \/ \E v \in VerReqs, f \in Form, d \in Devices, p \in Credential : VerifyArrive(v, f, d, p)
    \/ \E v \in VerReqs : VerifyFetched(v)
    \/ \E v \in VerReqs : EnterFirst(v)
    \/ \E v \in VerReqs : EnterSecond(v)
    \/ \E v \in VerReqs : Releases(v)
    \/ \E v \in VerReqs : StoreCredential(v)
    \/ \E v \in VerReqs : CreateSession(v)
    \/ \E v \in VerReqs : Cleanup(v)
    \/ Tick
    \/ Crash
    \/ UNCHANGED vars

LEMMA StepShapes ==
  ASSUME [Next]_vars
  PROVE  Step
<1>1. ASSUME NEW o \in OptReqs, OptionsArrive(o)
      PROVE  Step
  <2>1. PICK d \in Devices :
            \/ OptionsLimited(o, d)
            \/ OptionsUnread(o, d)
            \/ \E f \in OptionsForm : OptionsExists(o, d, f) \/ OptionsNew(o, d, f)
    BY <1>1 DEF OptionsArrive
  <2>2. ASSUME \/ OptionsLimited(o, d)
               \/ OptionsUnread(o, d)
               \/ \E f \in OptionsForm : OptionsExists(o, d, f)
        PROVE  Step
    <3>1. Ends(o)
      BY <2>2 DEF OptionsLimited, OptionsUnread, OptionsExists, Ends, Outcomes
    <3> QED
      BY <3>1 DEF Step, Requests
  <2> QED
    BY <2>1, <2>2 DEF Step
<1>2. ASSUME NEW o \in OptReqs, OptionsProceed(o)
      PROVE  Step
  <2>1. CASE OptionsIssued(o)
    BY <2>1 DEF Step
  <2>2. CASE OptionsFailed(o) \/ OptionsReported(o)
    <3>1. Ends(o)
      BY <2>2 DEF OptionsFailed, OptionsReported, Ends, Outcomes
    <3> QED
      BY <3>1 DEF Step, Requests
  <2> QED
    BY <1>2, <2>1, <2>2 DEF OptionsProceed
<1>3. ASSUME NEW v \in VerReqs, VerifyProceed(v)
      PROVE  Step
  <2>1. CASE VerifyFetched(v) \/ EnterFirst(v) \/ EnterSecond(v) \/ StoreCredential(v)
             \/ CreateSession(v) \/ Cleanup(v)
    BY <2>1 DEF Step
  <2>2. CASE VerifyRejected(v)
    <3>1. Objection(v, challenges[form[v].email]) \in Outcomes \ {"ok", "expired"}
      BY DEF Objection, Outcomes
    <3>2. Ends(v)
      BY <2>2, <3>1 DEF VerifyRejected, Ends
    <3> QED
      BY <3>2 DEF Step, Requests
  <2>4. CASE FlushFailed(v) \/ VerifyUnproven(v)
    <3>1. Releases(v)
      BY <2>4 DEF FlushFailed, VerifyUnproven, Fail, Releases
    <3> QED
      BY <3>1 DEF Step
  <2>3. CASE VerifyExpired(v) \/ VerifyUnreachable(v) \/ SessionFailed(v) \/ CleanupFailed(v)
             \/ VerifyReported(v)
    <3>1. Ends(v)
      BY <2>3 DEF VerifyExpired, VerifyUnreachable, SessionFailed,
         CleanupFailed, Fail, VerifyReported, Ends, Outcomes
    <3> QED
      BY <3>1 DEF Step, Requests
  <2> QED
    BY <1>3, <2>1, <2>2, <2>3, <2>4 DEF VerifyProceed
<1> QED
  BY <1>1, <1>2, <1>3 DEF Next, Step

-----------------------------------------------------------------------------
(* The inductive invariant. *)

Resting == {"idle", "done", "lost"}
OptSteps == {"issue", "report"}
VerSteps == {"fetch", "flush", "index", "prove", "session", "cleanup", "report"}

\* What a suspended request has in its locals; only a request between its
\* first index entry and its commit holds a row.
Stages ==
    /\ \A o \in OptReqs :
        /\ pc[o] \in Resting \cup OptSteps
        /\ pc[o] \in OptSteps => form[o] \in OptionsForm /\ device[o] \in Devices
    /\ \A v \in VerReqs :
        /\ pc[v] \in Resting \cup VerSteps
        /\ pc[v] \in VerSteps =>
               form[v] \in Form /\ device[v] \in Devices /\ proof[v] \in Credential
        /\ pending[v] = IF pc[v] \in {"index", "prove"} THEN Row(v) ELSE None
    /\ \A r \in Requests : reply[r] # "none" => pc[r] = "done"

LEMMA AttemptsTyped ==
  ASSUME TypeOK, [Next]_vars
  PROVE  attempts' \in [Addresses -> SUBSET [n : OptReqs, at : Nat]]
<1>1. ASSUME NEW o \in OptReqs, NEW d \in Devices, CountAttempt(o, d)
      PROVE  attempts' \in [Addresses -> SUBSET [n : OptReqs, at : Nat]]
  <2>1. now \in Nat /\ attempts \in [Addresses -> SUBSET [n : OptReqs, at : Nat]]
    BY DEF TypeOK
  <2>2. Address[d] \in Addresses
    BY NamesAssumption
  <2>3. attempts[Address[d]] \in SUBSET [n : OptReqs, at : Nat]
    BY <2>1, <2>2
  <2>4. Recorded(attempts[Address[d]], RegLimit, o, now) \in SUBSET [n : OptReqs, at : Nat]
    BY <2>1, <2>3 DEF Recorded, Recent
  <2> QED
    BY <1>1, <2>1, <2>4 DEF CountAttempt
<1>2. ASSUME NEW o \in OptReqs, OptionsArrive(o)
      PROVE  \E d \in Devices : CountAttempt(o, d)
  BY <1>2 DEF OptionsArrive, OptionsLimited, OptionsUnread, OptionsExists, OptionsNew
<1>3. CASE Crash
  BY <1>3 DEF Crash
<1>4. ASSUME attempts' = attempts
      PROVE  attempts' \in [Addresses -> SUBSET [n : OptReqs, at : Nat]]
  BY <1>4 DEF TypeOK
<1>5. CASE UNCHANGED vars \/ Tick
  BY <1>4, <1>5 DEF vars, Tick
<1>6. ASSUME NEW o \in OptReqs, OptionsProceed(o) \/ Attest(o)
      PROVE  attempts' = attempts
  BY <1>6 DEF OptionsProceed, OptionsIssued, OptionsFailed, OptionsReported, Attest
<1>7. ASSUME NEW v \in VerReqs, NEW f \in Form, NEW d \in Devices, NEW p \in Credential,
             VerifyArrive(v, f, d, p)
      PROVE  attempts' = attempts
  BY <1>7 DEF VerifyArrive
<1>8. ASSUME NEW v \in VerReqs, VerifyProceed(v)
      PROVE  attempts' = attempts
  <2>1. CASE VerifyRejected(v)
    BY <2>1 DEF VerifyRejected
  <2> QED
    BY <1>8, <2>1 DEF VerifyProceed, VerifyExpired, VerifyUnreachable, VerifyFetched,
       EnterFirst, EnterSecond, FlushFailed, StoreCredential, VerifyUnproven, CreateSession, SessionFailed,
       Cleanup, CleanupFailed, VerifyReported
<1> QED
  BY <1>1, <1>2, <1>3, <1>4, <1>5, <1>6, <1>7, <1>8 DEF Next

LEMMA TypeStep ==
  ASSUME TypeOK, Stages, [Next]_vars
  PROVE  TypeOK'
<1> attempts' \in [Addresses -> SUBSET [n : OptReqs, at : Nat]]
  BY AttemptsTyped
<1> USE DEF tables, locals, Move, Answer, Receive, Requests, TypeOK, Steps
<1>1. ASSUME NEW r \in Requests, Ends(r) PROVE TypeOK'
  BY <1>1 DEF Ends
<1>2. ASSUME NEW o \in OptReqs, NEW d \in Devices, NEW f \in OptionsForm, OptionsNew(o, d, f) PROVE TypeOK'
  BY <1>2 DEF OptionsNew
<1>3. ASSUME NEW o \in OptReqs, OptionsIssued(o) PROVE TypeOK'
  BY <1>3, LimitsAssumption DEF OptionsIssued, OptSteps, Stages, OptionsForm, Challenge
<1>4. ASSUME NEW o \in OptReqs, Attest(o) PROVE TypeOK'
  BY <1>4 DEF Attest
<1>5. ASSUME NEW v \in VerReqs, NEW f \in Form, NEW d \in Devices, NEW p \in Credential,
             VerifyArrive(v, f, d, p)
      PROVE  TypeOK'
  BY <1>5 DEF VerifyArrive
<1>6. ASSUME NEW v \in VerReqs, VerifyFetched(v) PROVE TypeOK'
  <2>1. form[v].email \in Emails /\ challenges[form[v].email] # None
    BY <1>6 DEF VerifyFetched, Live, Stages, VerSteps, Form
  <2> QED
    BY <1>6, <2>1 DEF VerifyFetched
<1>7. ASSUME NEW v \in VerReqs, EnterFirst(v) PROVE TypeOK'
  BY <1>7 DEF EnterFirst, Stages, VerSteps, Form, Row, User
<1>8. ASSUME NEW v \in VerReqs, Releases(v) PROVE TypeOK'
  BY <1>8 DEF Releases, Outcomes
<1>9. ASSUME NEW v \in VerReqs, StoreCredential(v) PROVE TypeOK'
  BY <1>9 DEF StoreCredential, Stages, VerSteps, Credential, Row, Form, User
<1>10. ASSUME NEW v \in VerReqs, CreateSession(v) PROVE TypeOK'
  BY <1>10 DEF CreateSession
<1>11. ASSUME NEW v \in VerReqs, Cleanup(v) PROVE TypeOK'
  BY <1>11 DEF Cleanup
<1>12. CASE Tick
  BY <1>12 DEF Tick
<1>13. CASE Crash
  BY <1>13 DEF Crash, InFlight
<1>14. CASE UNCHANGED vars
  BY <1>14 DEF vars
<1>15. ASSUME NEW v \in VerReqs, EnterSecond(v) PROVE TypeOK'
  BY <1>15 DEF EnterSecond
<1> QED
  BY StepShapes, <1>1, <1>2, <1>3, <1>4, <1>5, <1>6, <1>7, <1>8, <1>9, <1>10, <1>11, <1>12,
     <1>13, <1>14, <1>15 DEF Step

LEMMA StagesStep ==
  ASSUME TypeOK, Stages, [Next]_vars
  PROVE  Stages'
<1> USE DEF tables, locals, Move, Answer, Receive, Requests, TypeOK, Stages, Resting, OptSteps,
            VerSteps, Row
<1>1. ASSUME NEW r \in Requests, Ends(r) PROVE Stages'
  BY <1>1 DEF Ends
<1>2. ASSUME NEW o \in OptReqs, NEW d \in Devices, NEW f \in OptionsForm, OptionsNew(o, d, f) PROVE Stages'
  BY <1>2, RequestsAssumption DEF OptionsNew
<1>3. ASSUME NEW o \in OptReqs, OptionsIssued(o) PROVE Stages'
  BY <1>3, RequestsAssumption DEF OptionsIssued
<1>4. ASSUME NEW o \in OptReqs, Attest(o) PROVE Stages'
  BY <1>4 DEF Attest
<1>5. ASSUME NEW v \in VerReqs, NEW f \in Form, NEW d \in Devices, NEW p \in Credential,
             VerifyArrive(v, f, d, p)
      PROVE  Stages'
  BY <1>5, RequestsAssumption DEF VerifyArrive
<1>6. ASSUME NEW v \in VerReqs, VerifyFetched(v) PROVE Stages'
  BY <1>6, RequestsAssumption DEF VerifyFetched
<1>7. ASSUME NEW v \in VerReqs, EnterFirst(v) PROVE Stages'
  BY <1>7, RequestsAssumption DEF EnterFirst
<1>8. ASSUME NEW v \in VerReqs, Releases(v) PROVE Stages'
  BY <1>8, RequestsAssumption DEF Releases
<1>9. ASSUME NEW v \in VerReqs, StoreCredential(v) PROVE Stages'
  BY <1>9, RequestsAssumption DEF StoreCredential
<1>10. ASSUME NEW v \in VerReqs, CreateSession(v) PROVE Stages'
  BY <1>10, RequestsAssumption DEF CreateSession
<1>11. ASSUME NEW v \in VerReqs, Cleanup(v) PROVE Stages'
  BY <1>11, RequestsAssumption DEF Cleanup
<1>12. CASE Tick
  BY <1>12 DEF Tick
<1>13. CASE Crash
  BY <1>13 DEF Crash, InFlight
<1>14. CASE UNCHANGED vars
  BY <1>14 DEF vars
<1>15. ASSUME NEW v \in VerReqs, EnterSecond(v) PROVE Stages'
  BY <1>15, RequestsAssumption DEF EnterSecond
<1> QED
  BY StepShapes, <1>1, <1>2, <1>3, <1>4, <1>5, <1>6, <1>7, <1>8, <1>9, <1>10, <1>11, <1>12,
     <1>13, <1>14, <1>15 DEF Step

\* A challenge in Redis is one that was issued for its e-mail, and challenges
\* are told apart by their ids.
Issue == [id : OptReqs, email : Emails, device : Devices, at : Nat]

Issuing ==
    /\ \A i, j \in issued : i.id = j.id => i = j
    /\ \A i \in issued : pc[i.id] \notin {"idle", "issue"}
    /\ \A e \in Emails : challenges[e] # None =>
           \E i \in issued : /\ i.id = challenges[e].id /\ i.email = e
                            /\ i.device = challenges[e].device
                            /\ i.at + ChallengeTTL = challenges[e].until
    /\ \A o \in attested : reply[o] = "ok"

LEMMA IssuingStep ==
  ASSUME TypeOK, Stages, Issuing, [Next]_vars
  PROVE  Issuing'
<1> USE DEF tables, locals, Move, Answer, Receive, Requests, TypeOK, Stages, Issuing, Issue, Resting, OptSteps
<1>1. ASSUME NEW r \in Requests, Ends(r) PROVE Issuing'
  BY <1>1 DEF Ends
<1>2. ASSUME NEW o \in OptReqs, NEW d \in Devices, NEW f \in OptionsForm, OptionsNew(o, d, f) PROVE Issuing'
  BY <1>2 DEF OptionsNew
<1>3. ASSUME NEW o \in OptReqs, OptionsIssued(o) PROVE Issuing'
  <2> DEFINE new == [id |-> o, email |-> form[o].email, device |-> device[o], at |-> now]
             ch  == [id |-> o, device |-> device[o], until |-> now + ChallengeTTL]
  <2>1. /\ pc[o] = "issue" /\ form[o].email \in Emails
        /\ issued' = issued \cup {new}
        /\ challenges' = [challenges EXCEPT ![form[o].email] = ch]
        /\ pc' = [pc EXCEPT ![o] = "report"]
        /\ UNCHANGED <<attested, reply>>
    BY <1>3 DEF OptionsIssued, OptionsForm
  <2>2. \A i \in issued : i.id \in Requests /\ i.id # o
    BY <2>1
  <2>3. \A i, j \in issued' : i.id = j.id => i = j
    BY <2>1, <2>2
  <2>4. \A i \in issued' : pc'[i.id] \notin {"idle", "issue"}
    BY <2>1, <2>2
  <2>5. ASSUME NEW e \in Emails, challenges'[e] # None
        PROVE  \E i \in issued' : /\ i.id = challenges'[e].id /\ i.email = e
                                  /\ i.device = challenges'[e].device
                                  /\ i.at + ChallengeTTL = challenges'[e].until
    <3>1. CASE e = form[o].email
      <4>1. challenges'[e] = ch /\ new \in issued'
        BY <2>1, <3>1
      <4> QED
        BY <3>1, <4>1
    <3>2. CASE e # form[o].email
      <4>1. challenges'[e] = challenges[e] /\ issued \subseteq issued'
        BY <2>1, <3>2
      <4> QED
        BY <2>5, <4>1
    <3> QED
      BY <3>1, <3>2
  <2> QED
    BY <2>1, <2>3, <2>4, <2>5
<1>4. ASSUME NEW o \in OptReqs, Attest(o) PROVE Issuing'
  BY <1>4 DEF Attest
<1>5. ASSUME NEW v \in VerReqs, NEW f \in Form, NEW d \in Devices, NEW p \in Credential,
             VerifyArrive(v, f, d, p)
      PROVE  Issuing'
  BY <1>5 DEF VerifyArrive
<1>6. ASSUME NEW v \in VerReqs, VerifyFetched(v) PROVE Issuing'
  BY <1>6 DEF VerifyFetched
<1>7. ASSUME NEW v \in VerReqs, EnterFirst(v) PROVE Issuing'
  BY <1>7 DEF EnterFirst
<1>8. ASSUME NEW v \in VerReqs, Releases(v) PROVE Issuing'
  BY <1>8 DEF Releases
<1>9. ASSUME NEW v \in VerReqs, StoreCredential(v) PROVE Issuing'
  BY <1>9 DEF StoreCredential
<1>10. ASSUME NEW v \in VerReqs, CreateSession(v) PROVE Issuing'
  BY <1>10 DEF CreateSession
<1>11. ASSUME NEW v \in VerReqs, Cleanup(v) PROVE Issuing'
  BY <1>11 DEF Cleanup
<1>12. CASE Tick
  BY <1>12 DEF Tick
<1>13. CASE Crash
  BY <1>13 DEF Crash, InFlight
<1>14. CASE UNCHANGED vars
  BY <1>14 DEF vars
<1>15. ASSUME NEW v \in VerReqs, EnterSecond(v) PROVE Issuing'
  BY <1>15 DEF EnterSecond
<1> QED
  BY StepShapes, <1>1, <1>2, <1>3, <1>4, <1>5, <1>6, <1>7, <1>8, <1>9, <1>10, <1>11, <1>12,
     <1>13, <1>14, <1>15 DEF Step

\* What a verify request has established by the await it is suspended at.
Granted(v, id) == \E i \in issued : i.id = id /\ i.email = form[v].email /\ i.device = device[v]

Granting ==
    \A v \in VerReqs :
        /\ pc[v] \in VerSteps => proof[v].of \in attested
        /\ pc[v] \in {"flush", "index", "prove"} => Granted(v, got[v].id)
        /\ pc[v] \in {"session", "cleanup", "report"} => Row(v) \in users
        /\ pc[v] \in {"cleanup", "report"} => [user |-> v] \in sessions
        /\ reply[v] = "ok" => Row(v) \in users /\ [user |-> v] \in sessions

LEMMA GrantingStep ==
  ASSUME TypeOK, Stages, Issuing, Granting, [Next]_vars
  PROVE  Granting'
<1> USE DEF tables, locals, Move, Answer, Receive, Requests, TypeOK, Stages, Granting, Granted,
            Row, Resting, VerSteps
<1>1. ASSUME NEW r \in Requests, Ends(r) PROVE Granting'
  <2>1. UNCHANGED <<form, device, proof, got, users, sessions, attested, issued>>
    BY <1>1 DEF Ends
  <2>2. \A v \in VerReqs : /\ pc'[v] \in VerSteps => pc[v] = pc'[v]
                           /\ reply'[v] = "ok" => reply[v] = "ok" \/ pc[v] = "report"
    BY <1>1 DEF Ends
  <2> QED
    BY <2>1, <2>2
<1>2. ASSUME NEW o \in OptReqs, NEW d \in Devices, NEW f \in OptionsForm, OptionsNew(o, d, f) PROVE Granting'
  BY <1>2, RequestsAssumption DEF OptionsNew
<1>3. ASSUME NEW o \in OptReqs, OptionsIssued(o) PROVE Granting'
  <2>1. issued \subseteq issued'
    BY <1>3 DEF OptionsIssued
  <2> QED
    BY <1>3, <2>1, RequestsAssumption DEF OptionsIssued
<1>4. ASSUME NEW o \in OptReqs, Attest(o) PROVE Granting'
  BY <1>4 DEF Attest
<1>5. ASSUME NEW v \in VerReqs, NEW f \in Form, NEW d \in Devices, NEW p \in Credential,
             VerifyArrive(v, f, d, p)
      PROVE  Granting'
  BY <1>5, RequestsAssumption DEF VerifyArrive
<1>6. ASSUME NEW v \in VerReqs, VerifyFetched(v) PROVE Granting'
  <2>1. /\ form[v].email \in Emails /\ challenges[form[v].email] # None
        /\ challenges[form[v].email].device = device[v]
    BY <1>6 DEF VerifyFetched, Live, Form, Objection
  <2>2. Granted(v, challenges[form[v].email].id)
    BY <2>1 DEF Issuing
  <2> QED
    BY <1>6, <2>2, RequestsAssumption DEF VerifyFetched
<1>7. ASSUME NEW v \in VerReqs, EnterFirst(v) PROVE Granting'
  BY <1>7, RequestsAssumption DEF EnterFirst
<1>8. ASSUME NEW v \in VerReqs, Releases(v) PROVE Granting'
  BY <1>8, RequestsAssumption DEF Releases
<1>9. ASSUME NEW v \in VerReqs, StoreCredential(v) PROVE Granting'
  BY <1>9, RequestsAssumption DEF StoreCredential
<1>10. ASSUME NEW v \in VerReqs, CreateSession(v) PROVE Granting'
  BY <1>10, RequestsAssumption DEF CreateSession
<1>11. ASSUME NEW v \in VerReqs, Cleanup(v) PROVE Granting'
  BY <1>11, RequestsAssumption DEF Cleanup
<1>12. CASE Tick
  BY <1>12 DEF Tick
<1>13. CASE Crash
  BY <1>13 DEF Crash, InFlight
<1>14. CASE UNCHANGED vars
  BY <1>14 DEF vars
<1>15. ASSUME NEW v \in VerReqs, EnterSecond(v) PROVE Granting'
  BY <1>15, RequestsAssumption DEF EnterSecond
<1> QED
  BY StepShapes, <1>1, <1>2, <1>3, <1>4, <1>5, <1>6, <1>7, <1>8, <1>9, <1>10, <1>11, <1>12,
     <1>13, <1>14, <1>15 DEF Step

\* The committed rows and the requests they come from.
Tables ==
    /\ \A u \in users :
        /\ u = Row(u.id) /\ pc[u.id] \notin {"idle", "fetch", "flush", "index", "prove"}
        /\ [id |-> proof[u.id].of, user |-> u.id] \in creds
        /\ Granted(u.id, proof[u.id].of)
    /\ \A c \in creds : c.id = proof[c.user].of /\ Row(c.user) \in users
    /\ \A s \in sessions : Row(s.user) \in users

LEMMA TablesStep ==
  ASSUME TypeOK, Stages, Granting, Tables, [Next]_vars
  PROVE  Tables'
<1> USE DEF tables, locals, Move, Answer, Receive, Requests, TypeOK, Stages, Tables, Granted, Row, Resting, VerSteps, User
<1>1. ASSUME NEW r \in Requests, Ends(r) PROVE Tables'
  BY <1>1 DEF Ends
<1>2. ASSUME NEW o \in OptReqs, NEW d \in Devices, NEW f \in OptionsForm, OptionsNew(o, d, f) PROVE Tables'
  BY <1>2, RequestsAssumption DEF OptionsNew
<1>3. ASSUME NEW o \in OptReqs, OptionsIssued(o) PROVE Tables'
  <2>1. issued \subseteq issued'
    BY <1>3 DEF OptionsIssued
  <2> QED
    BY <1>3, <2>1, RequestsAssumption DEF OptionsIssued
<1>4. ASSUME NEW o \in OptReqs, Attest(o) PROVE Tables'
  BY <1>4 DEF Attest
<1>5. ASSUME NEW v \in VerReqs, NEW f \in Form, NEW d \in Devices, NEW p \in Credential,
             VerifyArrive(v, f, d, p)
      PROVE  Tables'
  <2>1. pc[v] = "idle" /\ UNCHANGED <<users, creds, sessions, issued>>
    BY <1>5 DEF VerifyArrive
  <2>2. \A w \in VerReqs : Row(w) \in users => w # v
    BY <2>1
  <2>3. \A w \in VerReqs \ {v} : /\ form'[w] = form[w] /\ device'[w] = device[w]
                                /\ proof'[w] = proof[w] /\ pc'[w] = pc[w]
    BY <1>5 DEF VerifyArrive
  <2>4. ASSUME NEW w \in VerReqs, Row(w) \in users PROVE Row(w)' \in users'
    BY <2>1, <2>2, <2>3, <2>4
  <2>5. /\ (\A c \in creds : c.id = proof[c.user].of /\ Row(c.user) \in users)'
        /\ (\A s \in sessions : Row(s.user) \in users)'
    <3>1. ASSUME NEW c \in creds PROVE c.id = proof'[c.user].of
      <4>1. c.user \in VerReqs \ {v} /\ c.id = proof[c.user].of
        BY <2>2
      <4> QED
        BY <2>3, <4>1
    <3> QED
      BY <2>1, <2>4, <3>1
  <2>6. ASSUME NEW u \in users
        PROVE  /\ u = Row(u.id)' /\ pc'[u.id] \notin {"idle", "fetch", "flush", "index", "prove"}
               /\ [id |-> proof'[u.id].of, user |-> u.id] \in creds'
               /\ Granted(u.id, proof[u.id].of)'
    <3>1. u.id \in VerReqs \ {v} /\ u = Row(u.id)
      BY <2>1
    <3> QED
      BY <2>1, <2>3, <3>1
  <2> QED
    BY <2>1, <2>5, <2>6
<1>6. ASSUME NEW v \in VerReqs, VerifyFetched(v) PROVE Tables'
  BY <1>6, RequestsAssumption DEF VerifyFetched
<1>7. ASSUME NEW v \in VerReqs, EnterFirst(v) PROVE Tables'
  BY <1>7, RequestsAssumption DEF EnterFirst
<1>8. ASSUME NEW v \in VerReqs, Releases(v) PROVE Tables'
  BY <1>8, RequestsAssumption DEF Releases
<1>9. ASSUME NEW v \in VerReqs, StoreCredential(v) PROVE Tables'
  <2>1. /\ pc[v] = "prove" /\ pending[v] = Row(v) /\ proof[v].of = got[v].id
        /\ users' = users \cup {Row(v)}
        /\ creds' = creds \cup {[id |-> proof[v].of, user |-> v]}
        /\ pc' = [pc EXCEPT ![v] = "session"]
        /\ UNCHANGED <<form, device, proof, sessions, issued>>
    BY <1>9 DEF StoreCredential, Acceptable
  <2>2. Granted(v, proof[v].of)
    <3>1. \E i \in issued : i.id = got[v].id /\ i.email = form[v].email /\ i.device = device[v]
      BY <2>1 DEF Granting
    <3> QED
      BY <2>1, <3>1
  <2>3. \A u \in users : u.id # v
    BY <2>1
  <2>4. ASSUME NEW u \in users'
        PROVE  /\ u = Row(u.id) /\ pc'[u.id] \notin {"idle", "fetch", "flush", "index", "prove"}
               /\ [id |-> proof[u.id].of, user |-> u.id] \in creds'
               /\ Granted(u.id, proof[u.id].of)
    <3>1. CASE u = Row(v)
      <4>1. u.id = v
        BY <3>1
      <4> QED
        BY <2>1, <2>2, <3>1, <4>1
    <3>2. CASE u \in users
      BY <2>1, <2>3, <3>2
    <3> QED
      BY <2>1, <3>1, <3>2
  <2>5. \A c \in creds' : c.id = proof[c.user].of /\ Row(c.user) \in users'
    BY <2>1
  <2> QED
    BY <2>1, <2>4, <2>5
<1>10. ASSUME NEW v \in VerReqs, CreateSession(v) PROVE Tables'
  <2>1. Row(v) \in users
    BY <1>10 DEF CreateSession, Granting
  <2> QED
    BY <1>10, <2>1, RequestsAssumption DEF CreateSession
<1>11. ASSUME NEW v \in VerReqs, Cleanup(v) PROVE Tables'
  BY <1>11, RequestsAssumption DEF Cleanup
<1>12. CASE Tick
  BY <1>12 DEF Tick
<1>13. CASE Crash
  BY <1>13 DEF Crash, InFlight
<1>14. CASE UNCHANGED vars
  BY <1>14 DEF vars
<1>15. ASSUME NEW v \in VerReqs, EnterSecond(v) PROVE Tables'
  BY <1>15, RequestsAssumption DEF EnterSecond
<1> QED
  BY StepShapes, <1>1, <1>2, <1>3, <1>4, <1>5, <1>6, <1>7, <1>8, <1>9, <1>10, <1>11, <1>12,
     <1>13, <1>14, <1>15 DEF Step

\* Two rows that may not both be committed.
Clash(u, w) == SameEmail(u, w) \/ SameUsername(u, w)

\* Rows that are committed or entered into an index never clash there.
Distinct ==
    /\ \A u, w \in users : Clash(u, w) => u = w
    /\ \A c, d \in creds : c.id = d.id => c = d
    /\ \A v \in VerReqs : pc[v] \in {"index", "prove"} =>
           /\ \A u \in users : ~SameFirst(u, Row(v))
           /\ \A w \in VerReqs : pc[w] \in {"index", "prove"} /\ SameFirst(Row(w), Row(v)) => v = w
    /\ \A v \in VerReqs : pc[v] = "prove" =>
           /\ \A u \in users : ~SameSecond(u, Row(v))
           /\ \A w \in VerReqs : pc[w] = "prove" /\ SameSecond(Row(w), Row(v)) => v = w

LEMMA DistinctStep ==
  ASSUME TypeOK, Stages, Distinct, [Next]_vars
  PROVE  Distinct'
<1> USE DEF tables, locals, Move, Answer, Receive, Requests, TypeOK, Stages, Distinct, Clash, Row, Resting, VerSteps,
            SameEmail, SameUsername, SameFirst, SameSecond
<1>1. ASSUME NEW r \in Requests, Ends(r) PROVE Distinct'
  BY <1>1 DEF Ends
<1>2. ASSUME NEW o \in OptReqs, NEW d \in Devices, NEW f \in OptionsForm, OptionsNew(o, d, f) PROVE Distinct'
  BY <1>2, RequestsAssumption DEF OptionsNew
<1>3. ASSUME NEW o \in OptReqs, OptionsIssued(o) PROVE Distinct'
  BY <1>3, RequestsAssumption DEF OptionsIssued
<1>4. ASSUME NEW o \in OptReqs, Attest(o) PROVE Distinct'
  BY <1>4 DEF Attest
<1>5. ASSUME NEW v \in VerReqs, NEW f \in Form, NEW d \in Devices, NEW p \in Credential,
             VerifyArrive(v, f, d, p)
      PROVE  Distinct'
  BY <1>5, RequestsAssumption DEF VerifyArrive
<1>6. ASSUME NEW v \in VerReqs, VerifyFetched(v) PROVE Distinct'
  BY <1>6, RequestsAssumption DEF VerifyFetched
<1>7. ASSUME NEW v \in VerReqs, EnterFirst(v) PROVE Distinct'
  <2>1. /\ pc[v] = "flush" /\ pc' = [pc EXCEPT ![v] = "index"]
        /\ UNCHANGED <<users, creds, form>>
        /\ \A u \in users : ~SameFirst(u, Row(v))
    BY <1>7 DEF EnterFirst
  <2>2. ASSUME NEW w \in VerReqs, pc[w] \in {"index", "prove"}
        PROVE  ~SameFirst(Row(w), Row(v)) /\ ~SameFirst(Row(v), Row(w))
    <3>1. pending[w] = Row(w) /\ Row(w) \in User
      BY <2>2 DEF User, Form
    <3>2. pending[w] # None
      BY <3>1, RowsAssumption
    <3> QED
      BY <1>7, <3>1, <3>2 DEF EnterFirst, Waits
  <2> QED
    BY <2>1, <2>2
<1>8. ASSUME NEW v \in VerReqs, Releases(v) PROVE Distinct'
  BY <1>8, RequestsAssumption DEF Releases
<1>9. ASSUME NEW v \in VerReqs, StoreCredential(v) PROVE Distinct'
  <2>1. /\ pc[v] = "prove" /\ pending[v] = Row(v)
        /\ users' = users \cup {Row(v)}
        /\ creds' = creds \cup {[id |-> proof[v].of, user |-> v]}
        /\ \A c \in creds : c.id # proof[v].of
        /\ pc' = [pc EXCEPT ![v] = "session"]
        /\ form' = form
    BY <1>9 DEF StoreCredential, Acceptable
  <2>2. \A u, w \in users' : Clash(u, w) => u = w
    BY <2>1
  <2>3. \A c, d \in creds' : c.id = d.id => c = d
    BY <2>1
  <2>4. \A w \in VerReqs : pc'[w] \in {"index", "prove"} => w # v /\ pc[w] = pc'[w]
    BY <2>1
  <2> QED
    BY <2>1, <2>2, <2>3, <2>4
<1>10. ASSUME NEW v \in VerReqs, CreateSession(v) PROVE Distinct'
  BY <1>10, RequestsAssumption DEF CreateSession
<1>11. ASSUME NEW v \in VerReqs, Cleanup(v) PROVE Distinct'
  BY <1>11, RequestsAssumption DEF Cleanup
<1>12. CASE Tick
  BY <1>12 DEF Tick
<1>13. CASE Crash
  BY <1>13 DEF Crash, InFlight
<1>14. CASE UNCHANGED vars
  BY <1>14 DEF vars
<1>15. ASSUME NEW v \in VerReqs, EnterSecond(v) PROVE Distinct'
  <2>1. /\ pc[v] = "index" /\ pc' = [pc EXCEPT ![v] = "prove"]
        /\ UNCHANGED <<users, creds, form>>
        /\ \A u \in users : ~SameSecond(u, Row(v))
    BY <1>15 DEF EnterSecond
  <2>2. ASSUME NEW w \in VerReqs, pc[w] = "prove"
        PROVE  ~SameSecond(Row(w), Row(v)) /\ ~SameSecond(Row(v), Row(w))
    <3>1. pending[w] = Row(w) /\ Row(w) \in User
      BY <2>2 DEF User, Form
    <3>2. pending[w] # None
      BY <3>1, RowsAssumption
    <3> QED
      BY <1>15, <2>2, <3>1, <3>2 DEF EnterSecond, Waits
  <2> QED
    BY <2>1, <2>2
<1> QED
  BY StepShapes, <1>1, <1>2, <1>3, <1>4, <1>5, <1>6, <1>7, <1>8, <1>9, <1>10, <1>11, <1>12,
     <1>13, <1>14, <1>15 DEF Step

\* The challenge of a registration that went through is gone from Redis.
Spent ==
    \A v \in VerReqs : pc[v] = "report" \/ reply[v] = "ok" =>
        /\ proof[v].of \in attested
        /\ \A e \in Emails : challenges[e] # None => challenges[e].id # proof[v].of

LEMMA SpentStep ==
  ASSUME TypeOK, Stages, Issuing, Granting, Tables, Spent, [Next]_vars
  PROVE  Spent'
<1> USE DEF tables, locals, Move, Answer, Receive, Requests, TypeOK, Stages, Spent, Resting, VerSteps
<1>1. ASSUME NEW r \in Requests, Ends(r) PROVE Spent'
  BY <1>1 DEF Ends
<1>2. ASSUME NEW o \in OptReqs, NEW d \in Devices, NEW f \in OptionsForm, OptionsNew(o, d, f) PROVE Spent'
  BY <1>2, RequestsAssumption DEF OptionsNew
<1>3. ASSUME NEW o \in OptReqs, OptionsIssued(o) PROVE Spent'
  <2>1. reply[o] = "none"
    BY <1>3 DEF OptionsIssued
  <2>2. \A v \in VerReqs : proof[v].of \in attested => proof[v].of # o
    BY <2>1 DEF Issuing
  <2>3. \A e \in Emails : challenges'[e] = challenges[e] \/ challenges'[e].id = o
    BY <1>3 DEF OptionsIssued
  <2>4. ASSUME NEW v \in VerReqs, pc'[v] = "report" \/ reply'[v] = "ok"
        PROVE  pc[v] = "report" \/ reply[v] = "ok"
    BY <1>3, <2>4, RequestsAssumption DEF OptionsIssued
  <2>5. proof' = proof /\ attested' = attested
    BY <1>3 DEF OptionsIssued
  <2> QED
    BY <2>2, <2>3, <2>4, <2>5
<1>4. ASSUME NEW o \in OptReqs, Attest(o) PROVE Spent'
  BY <1>4 DEF Attest
<1>5. ASSUME NEW v \in VerReqs, NEW f \in Form, NEW d \in Devices, NEW p \in Credential,
             VerifyArrive(v, f, d, p)
      PROVE  Spent'
  BY <1>5, RequestsAssumption DEF VerifyArrive
<1>6. ASSUME NEW v \in VerReqs, VerifyFetched(v) PROVE Spent'
  BY <1>6, RequestsAssumption DEF VerifyFetched
<1>7. ASSUME NEW v \in VerReqs, EnterFirst(v) PROVE Spent'
  BY <1>7, RequestsAssumption DEF EnterFirst
<1>8. ASSUME NEW v \in VerReqs, Releases(v) PROVE Spent'
  BY <1>8, RequestsAssumption DEF Releases
<1>9. ASSUME NEW v \in VerReqs, StoreCredential(v) PROVE Spent'
  BY <1>9, RequestsAssumption DEF StoreCredential
<1>10. ASSUME NEW v \in VerReqs, CreateSession(v) PROVE Spent'
  BY <1>10, RequestsAssumption DEF CreateSession
<1>11. ASSUME NEW v \in VerReqs, Cleanup(v) PROVE Spent'
  <2>1. /\ pc[v] = "cleanup" /\ form[v].email \in Emails
        /\ challenges' = [challenges EXCEPT ![form[v].email] = None]
        /\ pc' = [pc EXCEPT ![v] = "report"]
        /\ UNCHANGED <<attested, proof, reply>>
    BY <1>11 DEF Cleanup, Form
  <2>2. Granted(v, proof[v].of) /\ proof[v].of \in attested
    BY <2>1 DEF Granting, Tables, Row
  <2>3. \A e \in Emails : challenges[e] # None /\ challenges[e].id = proof[v].of =>
            e = form[v].email
    BY <2>2 DEF Issuing, Granted
  <2> QED
    BY <2>1, <2>2, <2>3
<1>12. CASE Tick
  BY <1>12 DEF Tick
<1>13. CASE Crash
  BY <1>13 DEF Crash, InFlight
<1>14. CASE UNCHANGED vars
  BY <1>14 DEF vars
<1>15. ASSUME NEW v \in VerReqs, EnterSecond(v) PROVE Spent'
  BY <1>15, RequestsAssumption DEF EnterSecond
<1> QED
  BY StepShapes, <1>1, <1>2, <1>3, <1>4, <1>5, <1>6, <1>7, <1>8, <1>9, <1>10, <1>11, <1>12,
     <1>13, <1>14, <1>15 DEF Step

IInv == TypeOK /\ Stages /\ Issuing /\ Granting /\ Tables /\ Distinct /\ Spent

LEMMA InitInv ==
  ASSUME Init
  PROVE  IInv
<1>1. TypeOK
  BY DEF Init, TypeOK, Outcomes
<1>2. Stages
  BY DEF Init, Stages, Resting, OptSteps, VerSteps, Requests
<1>3. Issuing /\ Granting /\ Tables /\ Distinct /\ Spent
  BY DEF Init, Issuing, Granting, Tables, Distinct, Spent, VerSteps, Requests
<1> QED
  BY <1>1, <1>2, <1>3 DEF IInv

LEMMA StepInv ==
  ASSUME IInv, [Next]_vars
  PROVE  IInv'
BY TypeStep, StagesStep, IssuingStep, GrantingStep, TablesStep, DistinctStep, SpentStep DEF IInv

LEMMA Inductive == Spec => []IInv
<1>1. Init => IInv
  BY InitInv
<1>2. IInv /\ [Next]_vars => IInv'
  BY StepInv
<1> QED
  BY <1>1, <1>2, PTL DEF Spec

-----------------------------------------------------------------------------
(* The theorems. *)

(***************************************************************************)
(* Every variable of the registration ceremony keeps its type.             *)
(***************************************************************************)
THEOREM TypeCorrect == Spec => []TypeOK
<1>1. IInv => TypeOK
  BY DEF IInv
<1> QED
  BY <1>1, Inductive, PTL

(***************************************************************************)
(* registration_verify leaves no user without a credential and no          *)
(* credential or session without a user, whatever fails or crashes.        *)
(***************************************************************************)
THEOREM NoAccountIsHollow == Spec => []NoHollowAccount
<1>1. IInv => NoHollowAccount
  <2>1. ASSUME IInv, NEW u \in users PROVE \E c \in creds : c.user = u.id
    <3>1. [id |-> proof[u.id].of, user |-> u.id] \in creds
      BY <2>1 DEF IInv, Tables
    <3> QED
      BY <3>1
  <2>2. ASSUME IInv, NEW v, Row(v) \in users PROVE \E u \in users : u.id = v
    BY <2>2 DEF Row
  <2> QED
    BY <2>1, <2>2 DEF IInv, Tables, NoHollowAccount
<1> QED
  BY <1>1, Inductive, PTL

(***************************************************************************)
(* E-mails, usernames and credential ids stay unique, however the          *)
(* registrations overlap.                                                  *)
(***************************************************************************)
THEOREM AccountsAreDistinct == Spec => []AccountsDistinct
<1>1. IInv => AccountsDistinct
  BY DEF IInv, Distinct, Clash, SameEmail, SameUsername, AccountsDistinct
<1> QED
  BY <1>1, Inductive, PTL

(***************************************************************************)
(* Every account rests on a credential made for a challenge that was       *)
(* issued for its e-mail and to its device.                                *)
(***************************************************************************)
THEOREM RegistrationsAreEarned == Spec => []RegistrationIsEarned
<1>1. ASSUME IInv, NEW u \in users
      PROVE  \E i \in issued : /\ i.email = u.email /\ i.device = device[u.id]
                               /\ [id |-> i.id, user |-> u.id] \in creds
  <2>1. u = Row(u.id) /\ [id |-> proof[u.id].of, user |-> u.id] \in creds
    BY <1>1 DEF IInv, Tables
  <2>2. PICK i \in issued : /\ i.id = proof[u.id].of /\ i.email = form[u.id].email
                           /\ i.device = device[u.id]
    BY <1>1 DEF IInv, Tables, Granted
  <2>3. u.email = form[u.id].email
    BY <2>1 DEF Row
  <2> QED
    BY <2>1, <2>2, <2>3
<1>2. IInv => RegistrationIsEarned
  BY <1>1 DEF RegistrationIsEarned
<1> QED
  BY <1>2, Inductive, PTL

(***************************************************************************)
(* A registration answered 200 is durable, is the only one of its e-mail,  *)
(* and its challenge cannot be fetched again.                              *)
(***************************************************************************)
THEOREM SuccessesAreDurable == Spec => []SuccessIsDurable
<1>1. ASSUME IInv, NEW v \in VerReqs, reply[v] = "ok"
      PROVE  /\ \A w \in VerReqs \ {v} : reply[w] = "ok" => form[w].email # form[v].email
             /\ \E u \in users : u.id = v /\ u.email = form[v].email
             /\ [user |-> v] \in sessions
             /\ \A e \in Emails : challenges[e] # None => challenges[e].id # proof[v].of
  <2>1. \A w \in VerReqs : reply[w] = "ok" => Row(w) \in users
    BY <1>1 DEF IInv, Granting
  <2>2. ASSUME NEW w \in VerReqs \ {v}, reply[w] = "ok", form[w].email = form[v].email
        PROVE  FALSE
    <3>1. Row(w) \in users /\ Row(v) \in users
      BY <1>1, <2>1, <2>2
    <3>2. Clash(Row(w), Row(v)) /\ Row(w) # Row(v)
      BY <2>2 DEF Clash, SameEmail, Row
    <3> QED
      BY <1>1, <3>1, <3>2 DEF IInv, Distinct
  <2>3. \E u \in users : u.id = v /\ u.email = form[v].email
    BY <1>1, <2>1 DEF Row
  <2> QED
    BY <1>1, <2>2, <2>3 DEF IInv, Granting, Spent
<1>2. IInv => SuccessIsDurable
  BY <1>1 DEF SuccessIsDurable
<1> QED
  BY <1>2, Inductive, PTL

(***************************************************************************)
(* Whatever registrations wait for each other's index entries, the last in *)
(* the chain is a handler between its flush and its commit: no set of them *)
(* waits for itself, and registration_verify leaves no transaction open    *)
(* behind it.  Either index may be the older one.                          *)
(***************************************************************************)
THEOREM WaitsEnd == Spec => []InsertsWaitForWork
<1>1. ASSUME IInv, NEW v \in VerReqs, NEW w \in VerReqs, Waits(v, w)
      PROVE  /\ pc[w] \in {"index", "prove"}
             /\ pc[w] = "index" => pc[v] = "flush"
  BY <1>1 DEF IInv, Stages, Waits
<1>2. IInv => InsertsWaitForWork
  BY <1>1 DEF InsertsWaitForWork
<1> QED
  BY <1>2, Inductive, PTL

(***************************************************************************)
(* The look-up of the credential id in verify_registration never refuses   *)
(* an attestation over the challenge the request fetched: whoever used the *)
(* challenge before has the same e-mail, and its row stopped the INSERT.   *)
(***************************************************************************)
THEOREM GenuineAttestationsAreNew == Spec => []GenuineAttestationIsNew
<1>1. ASSUME IInv, NEW v \in VerReqs, pc[v] = "prove", proof[v].of = got[v].id,
             NEW c \in creds, c.id = proof[v].of
      PROVE  FALSE
  <2>1. Row(c.user) \in users /\ c.id = proof[c.user].of
    BY <1>1 DEF IInv, Tables
  <2>2. Granted(c.user, c.id)
    BY <1>1, <2>1 DEF IInv, Tables, Row
  <2>3. Granted(v, c.id)
    BY <1>1 DEF IInv, Granting
  <2>4. form[c.user].email = form[v].email
    BY <1>1, <2>2, <2>3 DEF IInv, Issuing, Granted
  <2>5. SameFirst(Row(c.user), Row(v)) \/ SameSecond(Row(c.user), Row(v))
    BY <2>4 DEF SameEmail, SameFirst, SameSecond, Row
  <2> QED
    BY <1>1, <2>1, <2>5 DEF IInv, Distinct
<1>2. IInv => GenuineAttestationIsNew
  BY <1>1 DEF GenuineAttestationIsNew
<1> QED
  BY <1>2, Inductive, PTL

(***************************************************************************)
(* A verify request that goes on after redis.get holds a challenge younger *)
(* than ChallengeTTL.                                                      *)
(***************************************************************************)
THEOREM FetchedChallengesAreFresh == Spec => ChallengesExpire
<1> DEFINE A == \A v \in VerReqs : pc[v] = "fetch" /\ pc'[v] = "flush" =>
                    \E i \in issued : i.id = got'[v].id /\ now < i.at + ChallengeTTL
<1>1. ASSUME IInv, [Next]_vars PROVE A
  <2> USE DEF IInv, TypeOK, Move, Answer, Requests
  <2>1. ASSUME NEW w \in VerReqs, VerifyFetched(w) PROVE A
    <3> DEFINE e == form[w].email
    <3>1. /\ e \in Emails /\ challenges[e] # None /\ now < challenges[e].until
          /\ got' = [got EXCEPT ![w] = challenges[e]]
          /\ pc' = [pc EXCEPT ![w] = "flush"]
      BY <1>1, <2>1 DEF VerifyFetched, Live, Stages, VerSteps, Form
    <3>2. \E i \in issued : i.id = challenges[e].id /\ now < i.at + ChallengeTTL
      BY <1>1, <3>1 DEF Issuing
    <3> QED
      BY <1>1, <3>1, <3>2
  <2>2. ASSUME ~\E w \in VerReqs : VerifyFetched(w)
        PROVE  \A v \in VerReqs : pc[v] = "fetch" => pc'[v] # "flush"
    <3>1. Step
      BY <1>1, StepShapes
    <3> QED
      BY <1>1, <2>2, <3>1 DEF Step, Ends, OptionsNew, OptionsIssued, Attest, VerifyArrive,
         EnterFirst, EnterSecond, Releases, StoreCredential, CreateSession, Cleanup, Tick, Crash, vars
  <2> QED
    BY <2>1, <2>2
<1>2. IInv /\ [Next]_vars => [A]_vars
  BY <1>1
<1> QED
  BY <1>2, Inductive, PTL DEF Spec, ChallengesExpire

-----------------------------------------------------------------------------
(* Why a challenge that was stored is not found. *)

\* Where a challenge has gone: it is in Redis, or another one for its e-mail
\* came later, or its e-mail is registered.
Whereabouts(i) ==
    \/ challenges[i.email] # None /\ challenges[i.email].id = i.id
    \/ \E j \in issued : j.email = i.email /\ j.id # i.id /\ j.at >= i.at
    \/ \E u \in users : u.email = i.email

Accounted == \A i \in issued : i.at <= now /\ Whereabouts(i)

LEMMA AccountedStep ==
  ASSUME IInv, Accounted, [Next]_vars
  PROVE  Accounted'
<1> USE DEF tables, locals, Move, Answer, Receive, Requests, Accounted, Whereabouts
<1>0. TypeOK /\ Stages /\ Issuing /\ Granting
  BY DEF IInv
<1>1. ASSUME NEW r \in Requests, Ends(r) PROVE Accounted'
  BY <1>1 DEF Ends
<1>2. ASSUME NEW o \in OptReqs, NEW d \in Devices, NEW f \in OptionsForm, OptionsNew(o, d, f) PROVE Accounted'
  BY <1>2 DEF OptionsNew
<1>3. ASSUME NEW o \in OptReqs, OptionsIssued(o) PROVE Accounted'
  <2> DEFINE e   == form[o].email
             new == [id |-> o, email |-> e, device |-> device[o], at |-> now]
             ch  == [id |-> o, device |-> device[o], until |-> now + ChallengeTTL]
  <2>1. /\ pc[o] = "issue" /\ e \in Emails /\ device[o] \in Devices /\ now \in Nat
        /\ issued' = issued \cup {new}
        /\ challenges' = [challenges EXCEPT ![e] = ch]
        /\ UNCHANGED <<now, users, form, device>>
    BY <1>0, <1>3 DEF OptionsIssued, Stages, OptSteps, OptionsForm, TypeOK
  <2>2. \A i \in issued : i.id # o /\ i.email \in Emails /\ i.at <= now
    BY <1>0, <2>1 DEF Issuing, TypeOK
  <2>3. challenges'[e] # None /\ challenges'[e].id = o
    <3>1. ch \in Challenge
      BY <2>1, LimitsAssumption DEF Challenge
    <3>2. challenges'[e] = ch
      BY <1>0, <2>1 DEF TypeOK
    <3> QED
      BY <3>1, <3>2, ChallengeAssumption
  <2>4. Whereabouts(new)'
    BY <2>1, <2>3
  <2>5. ASSUME NEW i \in issued PROVE Whereabouts(i)'
    <3>1. CASE i.email = e
      <4>1. new \in issued' /\ new.email = i.email /\ new.id # i.id /\ new.at >= i.at
        BY <2>1, <2>2, <3>1
      <4> QED
        BY <4>1
    <3>2. CASE i.email # e
      <4>1. challenges'[i.email] = challenges[i.email]
        BY <1>0, <2>1, <2>2, <3>2 DEF TypeOK
      <4> QED
        BY <2>1, <4>1
    <3> QED
      BY <3>1, <3>2
  <2> QED
    BY <2>1, <2>2, <2>4, <2>5
<1>4. ASSUME NEW o \in OptReqs, Attest(o) PROVE Accounted'
  BY <1>4 DEF Attest
<1>5. ASSUME NEW v \in VerReqs, NEW f \in Form, NEW d \in Devices, NEW p \in Credential,
             VerifyArrive(v, f, d, p)
      PROVE  Accounted'
  BY <1>5 DEF VerifyArrive
<1>6. ASSUME NEW v \in VerReqs, VerifyFetched(v) PROVE Accounted'
  BY <1>6 DEF VerifyFetched
<1>7. ASSUME NEW v \in VerReqs, EnterFirst(v) PROVE Accounted'
  BY <1>7 DEF EnterFirst
<1>8. ASSUME NEW v \in VerReqs, Releases(v) PROVE Accounted'
  BY <1>8 DEF Releases
<1>9. ASSUME NEW v \in VerReqs, StoreCredential(v) PROVE Accounted'
  BY <1>9 DEF StoreCredential
<1>10. ASSUME NEW v \in VerReqs, CreateSession(v) PROVE Accounted'
  BY <1>10 DEF CreateSession
<1>11. ASSUME NEW v \in VerReqs, Cleanup(v) PROVE Accounted'
  <2>1. /\ pc[v] = "cleanup" /\ form[v].email \in Emails
        /\ challenges' = [challenges EXCEPT ![form[v].email] = None]
        /\ UNCHANGED <<now, issued, users>>
    BY <1>0, <1>11 DEF Cleanup, Stages, VerSteps, Form
  <2>2. \E u \in users : u.email = form[v].email
    BY <1>0, <2>1 DEF Granting, Row
  <2> QED
    BY <1>0, <2>1, <2>2 DEF TypeOK
<1>12. CASE Tick
  BY <1>0, <1>12 DEF Tick, TypeOK
<1>13. CASE Crash
  BY <1>13 DEF Crash
<1>14. CASE UNCHANGED vars
  BY <1>14 DEF vars
<1>15. ASSUME NEW v \in VerReqs, EnterSecond(v) PROVE Accounted'
  BY <1>15 DEF EnterSecond
<1> QED
  BY StepShapes, <1>1, <1>2, <1>3, <1>4, <1>5, <1>6, <1>7, <1>8, <1>9, <1>10, <1>11, <1>12,
     <1>13, <1>14, <1>15 DEF Step

(***************************************************************************)
(* registration_verify answers "challenge expired" to a challenge that was *)
(* stored only when it is as old as its time to live, was replaced, or its *)
(* e-mail is registered by then.                                           *)
(***************************************************************************)
THEOREM ExpiryHasCause == Spec => ExpiredForACause
<1> DEFINE A == \A v \in VerReqs, i \in issued :
                    pc[v] = "fetch" /\ reply'[v] = "expired" /\ i.email = form[v].email =>
                        \/ i.at + ChallengeTTL <= now
                        \/ \E j \in issued : j.email = i.email /\ j.id # i.id /\ j.at >= i.at
                        \/ \E u \in users : u.email = i.email
<1>1. Init => Accounted
  BY DEF Init, Accounted
<1>2. ASSUME IInv, Accounted, [Next]_vars PROVE A
  <2> SUFFICES ASSUME NEW v \in VerReqs, NEW i \in issued,
                      pc[v] = "fetch", reply'[v] = "expired", i.email = form[v].email,
                      ~\E j \in issued : j.email = i.email /\ j.id # i.id /\ j.at >= i.at,
                      ~\E u \in users : u.email = i.email
               PROVE  i.at + ChallengeTTL <= now
    OBVIOUS
  <2>0. TypeOK /\ Stages /\ Issuing
    BY <1>2 DEF IInv
  <2>1. reply[v] = "none"
    BY <2>0 DEF Stages, Requests, TypeOK, Outcomes
  <2>2. ~Live(form[v].email)
    <3>1. Step /\ reply' # reply
      BY <1>2, <2>1, StepShapes
    <3>2. (\E r \in Requests : Ends(r)) \/ \E w \in VerReqs : Releases(w)
      BY <3>1 DEF Step, OptionsNew, OptionsIssued, Attest, VerifyArrive, VerifyFetched, EnterFirst,
         EnterSecond, StoreCredential, CreateSession, Cleanup, Tick, Crash, vars
    <3>3. ASSUME NEW w \in VerReqs, Releases(w) PROVE FALSE
      BY <2>0, <2>1, <3>3 DEF Releases, Answer, TypeOK, Requests
    <3>4. ASSUME NEW r \in Requests, Ends(r) PROVE ~Live(form[v].email)
      BY <2>0, <2>1, <3>4 DEF Ends, Answer, TypeOK, Requests
    <3> QED
      BY <3>2, <3>3, <3>4
  <2>3. /\ challenges[i.email] # None /\ challenges[i.email].id = i.id
        /\ i.email \in Emails /\ i.at \in Nat /\ now \in Nat
    BY <1>2, <2>0 DEF Accounted, Whereabouts, TypeOK
  <2>4. challenges[i.email].until = i.at + ChallengeTTL
    BY <2>0, <2>3 DEF Issuing
  <2> QED
    BY <2>2, <2>3, <2>4, LimitsAssumption DEF Live
<1>3. ASSUME IInv, Accounted, [Next]_vars PROVE Accounted'
  BY <1>3, AccountedStep
<1>4. IInv /\ Accounted /\ [Next]_vars => [A]_vars
  BY <1>2
<1>5. IInv /\ Accounted /\ [Next]_vars => Accounted'
  BY <1>3
<1> QED
  BY <1>1, <1>4, <1>5, Inductive, PTL DEF Spec, ExpiredForACause
=============================================================================

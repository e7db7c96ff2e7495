---------------------------- MODULE LoginProofs ----------------------------
(***************************************************************************)
(* Proofs about Login, for any sets of users, credentials, devices and     *)
(* requests, any limits and any faults.                                    *)
(***************************************************************************)
EXTENDS Login, FiniteSetTheorems, TLAPS

\* The cause a request needs to be answered x by the await it is at.
Justified(r, x) ==
    /\ x = "locked" => LockedOut(who[r])
    /\ pc[r] = "fetch" /\ x = "expired" => ~Live(who[r])
    /\ pc[r] = "check" => ~Acceptable(r) \/ <<r, "db">> \in faced'
    /\ pc[r] = "session" => TokenTaken(who[r]) \/ <<r, "db">> \in faced'
    /\ x = "failed" => \/ pc[r] = "session"
                       \/ <<r, "audit">> \in faced'
                       \/ \E a \in audit' : a.req = r

(***************************************************************************)
(* Most actions end a request: they answer it and change nothing else but  *)
(* the audit rows and the rate limit cache.  Only "report" answers "ok".   *)
(***************************************************************************)
Ends(r) ==
    /\ pc[r] \notin {"done", "lost"}
    /\ \E x \in Outcomes : (x = "ok" => pc[r] = "report") /\ Answer(r, x) /\ Justified(r, x)
    /\ UNCHANGED <<now, stores, clients, locals, histories>>

\* An options request passes lockout and screening.
Passes(o) ==
    /\ pc[o] = "screen"
    /\ Move(o, "issue")
    /\ UNCHANGED <<now, stores, clients, locals, reply, histories>>

\* What a step can be, seen from the variables the invariant is about.
Step ==
    \/ \E r \in Requests : Ends(r)
    \/ \E o \in OptReqs, d \in Devices, i \in Identifiers, u \in Users : OptionsFound(o, d, i, u)
    \/ \E o \in OptReqs : Passes(o)
    \/ \E o \in OptReqs : OptionsIssued(o)
    \/ \E o \in OptReqs, c \in Creds : Sign(o, c)
    \/ \E v \in VerReqs, d \in Devices, i \in Identifiers, u \in Users,
          a \in assertions \cup {Junk} : VerifyFound(v, d, i, u, a)
    \/ \E v \in VerReqs : VerifyFetched(v)
    \/ \E v \in VerReqs : VerifyProven(v)
    \/ \E v \in VerReqs : StoreCount(v)
    \/ \E v \in VerReqs : CreateSession(v)
    \/ \E v \in VerReqs : Cleanup(v)
    \/ Tick
    \/ \E c \in Creds : Age(c)
    \/ Crash
    \/ UNCHANGED vars

\* A step only adds to what was met.
LEMMA Met ==
  ASSUME NEW r, NEW faults, Meet(r, faults)
  PROVE  \A f \in faults : <<r, f>> \in faced'
BY DEF Meet

\* What is left of a failure.
LEMMA Left ==
  ASSUME NEW r, NEW faults, NEW event, NEW status, NEW user,
         LogAfter(r, faults, event, status, user)
  PROVE  /\ \A f \in faults : <<r, f>> \in faced'
         /\ <<r, "audit">> \in faced' \/ \E a \in audit' : a.req = r
<1> DEFINE row == [req |-> r, action |-> event, status |-> status, user |-> user]
<1>1. CASE audit' = audit \cup {row} /\ Meet(r, faults)
  <2>1. row \in audit' /\ row.req = r
    BY <1>1
  <2> QED
    BY <1>1, <2>1, Met
<1>2. CASE Meet(r, faults \cup {"audit"})
  BY <1>2, Met
<1> QED
  BY <1>1, <1>2 DEF LogAfter

LEMMA StepShapes ==
  ASSUME [Next]_vars
  PROVE  Step
<1>1. ASSUME NEW o \in OptReqs, OptionsArrive(o)
      PROVE  Step
  <2>1. PICK d \in Devices :
            \/ OptionsLimited(o, d)
            \/ OptionsUnfound(o, d)
            \/ \E i \in Identifiers :
                \/ OptionsUnknown(o, d, i)
                \/ OptionsAmbiguous(o, d, i)
                \/ \E u \in Users : OptionsFound(o, d, i, u)
    BY <1>1 DEF OptionsArrive
  <2>2. CASE OptionsLimited(o, d) \/ OptionsUnfound(o, d)
    <3>1. Ends(o)
      BY <2>2 DEF OptionsLimited, OptionsUnfound, Ends, Justified, Outcomes
    <3> QED
      BY <3>1 DEF Step, Requests
  <2>3. ASSUME NEW i \in Identifiers, OptionsUnknown(o, d, i)
        PROVE  Step
    <3>1. Ends(o)
      BY <2>3 DEF OptionsUnknown, Ends, Justified, Outcomes
    <3> QED
      BY <3>1 DEF Step, Requests
  <2>4. ASSUME NEW i \in Identifiers, OptionsAmbiguous(o, d, i)
        PROVE  Step
    <3>1. Ends(o)
      BY <2>4 DEF OptionsAmbiguous, Ends, Justified, Outcomes
    <3> QED
      BY <3>1 DEF Step, Requests
  <2> QED
    BY <2>1, <2>2, <2>3, <2>4 DEF Step
<1>2. ASSUME NEW o \in OptReqs, OptionsProceed(o)
      PROVE  Step
  <2>1. CASE OptionsScreened(o)
    <3>1. Ends(o) \/ Passes(o)
      BY <2>1 DEF OptionsScreened, Ends, Justified, Passes, Outcomes
    <3> QED
      BY <3>1 DEF Step, Requests
  <2>2. CASE OptionsIssued(o)
    BY <2>2 DEF Step
  <2>3. CASE OptionsUnscreened(o) \/ OptionsUnread(o) \/ OptionsFailed(o) \/ OptionsReported(o)
    <3>1. Ends(o)
      BY <2>3 DEF OptionsUnscreened, OptionsUnread, OptionsFailed, OptionsReported, Ends, Justified, Outcomes
    <3> QED
      BY <3>1 DEF Step, Requests
  <2> QED
    BY <1>2, <2>1, <2>2, <2>3 DEF OptionsProceed
<1>3. ASSUME NEW v \in VerReqs, VerifyArrive(v)
      PROVE  Step
  <2>1. ASSUME NEW i \in Identifiers, VerifyUnknown(v, i)
        PROVE  Step
    <3>1. Ends(v)
      BY <2>1 DEF VerifyUnknown, Ends, Justified, Outcomes
    <3> QED
      BY <3>1 DEF Step, Requests
  <2>2. CASE VerifyUnread(v)
    <3>1. Ends(v)
      BY <2>2 DEF VerifyUnread, Ends, Justified, Outcomes
    <3> QED
      BY <3>1 DEF Step, Requests
  <2> QED
    BY <1>3, <2>1, <2>2 DEF VerifyArrive, Step
<1>4. ASSUME NEW v \in VerReqs, VerifyProceed(v)
      PROVE  Step
  <2>1. CASE VerifyFetched(v) \/ VerifyProven(v) \/ StoreCount(v) \/ CreateSession(v)
             \/ Cleanup(v)
    BY <2>1 DEF Step
  <2>2. CASE VerifyRejected(v)
    <3>1. Objection(v, challenges[who[v]]) \in Outcomes \ {"ok", "expired", "locked", "failed"}
      BY DEF Objection, Outcomes
    <3>2. Ends(v)
      BY <2>2, <3>1 DEF VerifyRejected, Ends, Justified
    <3> QED
      BY <3>2 DEF Step, Requests
  <2>3. CASE VerifyExpired(v) \/ VerifyUnreachable(v) \/ VerifyReported(v)
    <3>1. Ends(v)
      BY <2>3 DEF VerifyExpired, VerifyUnreachable, VerifyReported, Ends, Justified, Outcomes
    <3> QED
      BY <3>1 DEF Step, Requests
  <2>4. ASSUME NEW faults \in SUBSET {"redis", "db"}, Fail(v, faults),
               pc[v] \in {"check", "store", "cleanup"},
               pc[v] = "check" => ~Acceptable(v) \/ "db" \in faults,
               UNCHANGED <<now, stores, clients, locals, histories>>
        PROVE  Ends(v)
    <3>1. Justified(v, "failed")
      BY <2>4, Left DEF Fail, Justified
    <3> QED
      BY <2>4, <3>1 DEF Fail, Ends, Outcomes
  <2>5. CASE VerifyUnproven(v) \/ StoreFailed(v) \/ CleanupFailed(v)
    <3>1. Ends(v)
      BY <2>4, <2>5 DEF VerifyUnproven, StoreFailed, CleanupFailed
    <3> QED
      BY <3>1 DEF Step, Requests
  <2>6. CASE SessionFailed(v)
    <3>1. TokenTaken(who[v]) \/ <<v, "db">> \in faced'
      BY <2>6, Met DEF SessionFailed
    <3>2. Ends(v)
      BY <2>6, <3>1 DEF SessionFailed, Ends, Justified, Outcomes
    <3> QED
      BY <3>2 DEF Step, Requests
  <2> QED
    BY <1>4, <2>1, <2>2, <2>3, <2>5, <2>6 DEF VerifyProceed
<1> QED
  BY <1>1, <1>2, <1>3, <1>4 DEF Next, Step

-----------------------------------------------------------------------------
(* The inductive invariant. *)

Resting == {"idle", "done", "lost"}

\* What a suspended request has in its locals.
Stages ==
    /\ \A o \in OptReqs :
        /\ pc[o] \in Resting \cup OptSteps
        /\ pc[o] \in OptSteps => who[o] \in Users /\ device[o] \in Devices
    /\ \A v \in VerReqs :
        /\ pc[v] \in Resting \cup VerSteps
        /\ pc[v] \in VerSteps =>
               who[v] \in Users /\ device[v] \in Devices /\ proof[v] \in assertions \cup {Junk}
        /\ pc[v] \in VerSteps \ {"fetch"} => proof[v] # Junk /\ got[v] \in Challenge
    /\ \A r \in Requests : reply[r] # "none" => pc[r] = "done"

LEMMA AttemptsTyped ==
  ASSUME TypeOK, [Next]_vars
  PROVE  attempts' \in [Addresses -> SUBSET [n : OptReqs, at : Nat]]
<1>1. ASSUME NEW o \in OptReqs, NEW d \in Devices, CountAttempt(o, d)
      PROVE  attempts' \in [Addresses -> SUBSET [n : OptReqs, at : Nat]]
  <2>1. now \in Nat /\ attempts \in [Addresses -> SUBSET [n : OptReqs, at : Nat]]
    BY DEF TypeOK
  <2>2. Address[d] \in Addresses
    BY AccountsAssumption
  <2>3. attempts[Address[d]] \in SUBSET [n : OptReqs, at : Nat]
    BY <2>1, <2>2
  <2>4. Recorded(attempts[Address[d]], AuthLimit, o, now) \in SUBSET [n : OptReqs, at : Nat]
    BY <2>1, <2>3 DEF Recorded, Recent
  <2> QED
    BY <1>1, <2>1, <2>4 DEF CountAttempt
<1>2. ASSUME NEW o \in OptReqs, OptionsArrive(o)
      PROVE  \E d \in Devices : CountAttempt(o, d)
  BY <1>2 DEF OptionsArrive, OptionsLimited, OptionsUnfound, OptionsUnknown, OptionsAmbiguous,
              OptionsFound
<1>3. CASE Crash
  BY <1>3 DEF Crash
<1>4. ASSUME attempts' = attempts
      PROVE  attempts' \in [Addresses -> SUBSET [n : OptReqs, at : Nat]]
  BY <1>4 DEF TypeOK
<1>5. CASE UNCHANGED vars \/ Tick \/ \E c \in Creds : Age(c)
  BY <1>4, <1>5 DEF vars, Tick, Age
<1>6. CASE \E o \in OptReqs, c \in Creds : Sign(o, c)
  BY <1>4, <1>6 DEF Sign
<1>7. ASSUME NEW o \in OptReqs, OptionsProceed(o)
      PROVE  attempts' = attempts
  BY <1>7 DEF OptionsProceed, OptionsScreened, OptionsUnscreened, OptionsUnread, OptionsIssued,
              OptionsFailed, OptionsReported
<1>8. ASSUME NEW v \in VerReqs, VerifyArrive(v)
      PROVE  attempts' = attempts
  BY <1>8 DEF VerifyArrive, VerifyUnread, VerifyUnknown, VerifyFound
<1>9. ASSUME NEW v \in VerReqs, VerifyProceed(v)
      PROVE  attempts' = attempts
  <2>1. CASE VerifyRejected(v)
    BY <2>1 DEF VerifyRejected
  <2> QED
    BY <1>9, <2>1 DEF VerifyProceed, VerifyExpired, VerifyUnreachable, VerifyFetched,
       VerifyUnproven, VerifyProven, StoreCount, StoreFailed, CreateSession, SessionFailed,
       Cleanup, CleanupFailed, VerifyReported
<1> QED
  BY <1>1, <1>2, <1>3, <1>4, <1>5, <1>6, <1>7, <1>8, <1>9 DEF Next

\* Rows and met faults are only added, and the rows name other actions than
\* the one the lockout counts.
Grows ==
    /\ audit \subseteq audit' /\ faced \subseteq faced'
    /\ faced' \subseteq faced \cup ((Requests \cup {None}) \X Faults)
    /\ \A a \in audit' : a \in audit \/ a.action # "authentication"

LEMMA HistoryGrows ==
  ASSUME [Next]_vars
  PROVE  Grows
<1>1. ASSUME NEW r \in Requests \cup {None}, NEW faults, Meet(r, faults)
      PROVE  faced \subseteq faced' /\ faced' \subseteq faced \cup ((Requests \cup {None}) \X Faults)
  BY <1>1 DEF Meet
<1>2. ASSUME NEW r \in Requests, NEW faults, NEW event, NEW status, NEW user,
             LogAfter(r, faults, event, status, user), event # "authentication"
      PROVE  Grows
  BY <1>1, <1>2 DEF LogAfter, Grows
<1>3. ASSUME NEW r \in Requests, NEW event, NEW status, NEW user,
             Log(r, event, status, user), event # "authentication"
      PROVE  Grows
  BY <1>2, <1>3 DEF Log
<1>4. ASSUME NEW v \in VerReqs, NEW faults, Fail(v, faults)
      PROVE  Grows
  BY <1>2, <1>4 DEF Fail, Requests
<1>5. ASSUME NEW r \in Requests \cup {None}, NEW faults, Meet(r, faults), audit' = audit
      PROVE  Grows
  BY <1>1, <1>5 DEF Grows
<1>6. ASSUME UNCHANGED <<audit, faced>> PROVE Grows
  BY <1>6 DEF Grows
<1>7. ASSUME NEW o \in OptReqs, OptionsArrive(o) PROVE Grows
  <2>1. o \in Requests
    BY DEF Requests
  <2>2. PICK d \in Devices :
            \/ OptionsLimited(o, d)
            \/ OptionsUnfound(o, d)
            \/ \E i \in Identifiers :
                \/ OptionsUnknown(o, d, i)
                \/ OptionsAmbiguous(o, d, i)
                \/ \E u \in Users : OptionsFound(o, d, i, u)
    BY <1>7 DEF OptionsArrive
  <2>3. CASE OptionsLimited(o, d)
    BY <1>3, <2>1, <2>3 DEF OptionsLimited
  <2>4. CASE OptionsUnfound(o, d)
    BY <1>5, <2>1, <2>4 DEF OptionsUnfound
  <2>5. CASE \E i \in Identifiers : OptionsUnknown(o, d, i)
    BY <1>3, <2>1, <2>5 DEF OptionsUnknown
  <2>6. CASE \E i \in Identifiers : OptionsAmbiguous(o, d, i) \/ \E u \in Users : OptionsFound(o, d, i, u)
    BY <1>6, <2>6 DEF OptionsAmbiguous, OptionsFound
  <2> QED
    BY <2>2, <2>3, <2>4, <2>5, <2>6
<1>8. ASSUME NEW o \in OptReqs, OptionsProceed(o) PROVE Grows
  <2>1. o \in Requests
    BY DEF Requests
  <2>2. CASE OptionsScreened(o)
    <3>1. CASE LockedOut(who[o])
      BY <1>3, <2>1, <2>2, <3>1 DEF OptionsScreened
    <3>2. CASE ~LockedOut(who[o])
      BY <2>2, <3>2 DEF OptionsScreened, Grows
    <3> QED
      BY <3>1, <3>2
  <2>3. CASE OptionsUnscreened(o) \/ OptionsUnread(o)
    BY <1>5, <2>1, <2>3 DEF OptionsUnscreened, OptionsUnread
  <2>4. CASE OptionsIssued(o)
    BY <1>6, <2>4 DEF OptionsIssued
  <2>5. CASE OptionsFailed(o)
    BY <1>2, <1>3, <2>1, <2>5 DEF OptionsFailed
  <2>6. CASE OptionsReported(o)
    BY <1>3, <2>1, <2>6 DEF OptionsReported
  <2> QED
    BY <1>8, <2>2, <2>3, <2>4, <2>5, <2>6 DEF OptionsProceed
<1>9. ASSUME NEW v \in VerReqs, VerifyArrive(v) PROVE Grows
  BY <1>5, <1>6, <1>9 DEF VerifyArrive, VerifyUnread, VerifyUnknown, VerifyFound, Requests
<1>10. ASSUME NEW v \in VerReqs, VerifyProceed(v) PROVE Grows
  <2>1. v \in Requests
    BY DEF Requests
  <2>2. CASE VerifyRejected(v)
    <3> DEFINE event == CASE Objection(v, challenges[who[v]]) = "mismatch" -> "AUTH_USER_MISMATCH"
                          [] Objection(v, challenges[who[v]]) = "device"   -> "AUTH_DEVICE_MISMATCH"
                          [] OTHER                                         -> "AUTH_PRESENTATION_ATTACK"
    <3>1. event # "authentication"
      OBVIOUS
    <3>2. \E status : Log(v, event, status, who[v])
      BY <2>2 DEF VerifyRejected
    <3> HIDE DEF event
    <3> QED
      BY <1>3, <2>1, <3>1, <3>2
  <2>3. CASE VerifyExpired(v)
    BY <1>3, <2>1, <2>3 DEF VerifyExpired
  <2>4. CASE VerifyReported(v)
    BY <1>3, <2>1, <2>4 DEF VerifyReported
  <2>5. CASE VerifyUnproven(v) \/ StoreFailed(v) \/ CleanupFailed(v)
    BY <1>4, <2>5 DEF VerifyUnproven, StoreFailed, CleanupFailed
  <2>6. CASE VerifyUnreachable(v) \/ SessionFailed(v)
    BY <1>5, <2>1, <2>6 DEF VerifyUnreachable, SessionFailed
  <2>7. CASE VerifyFetched(v) \/ VerifyProven(v) \/ StoreCount(v) \/ CreateSession(v) \/ Cleanup(v)
    BY <1>6, <2>7 DEF VerifyFetched, VerifyProven, StoreCount, CreateSession, Cleanup
  <2> QED
    BY <1>10, <2>2, <2>3, <2>4, <2>5, <2>6, <2>7 DEF VerifyProceed
<1>11. CASE Crash
  BY <1>5, <1>11 DEF Crash
<1>12. CASE UNCHANGED vars \/ Tick \/ (\E c \in Creds : Age(c))
           \/ (\E o \in OptReqs, c \in Creds : Sign(o, c))
  BY <1>6, <1>12 DEF vars, Tick, Age, Sign
<1> QED
  BY <1>7, <1>8, <1>9, <1>10, <1>11, <1>12 DEF Next

LEMMA TypeStep ==
  ASSUME TypeOK, Stages, [Next]_vars
  PROVE  TypeOK'
<1> attempts' \in [Addresses -> SUBSET [n : OptReqs, at : Nat]]
  BY AttemptsTyped
<1> faced' \subseteq (Requests \cup {None}) \X Faults
  BY HistoryGrows DEF Grows, TypeOK
<1> USE DEF TypeOK, stores, clients, locals, histories, Move, Answer, Identify
<1>1. ASSUME NEW r \in Requests, Ends(r) PROVE TypeOK'
  BY <1>1 DEF Ends, Requests
<1>2. ASSUME NEW o \in OptReqs, NEW d \in Devices, NEW i \in Identifiers, NEW u \in Users,
             OptionsFound(o, d, i, u)
      PROVE  TypeOK'
  BY <1>2 DEF OptionsFound, Requests, OptSteps
<1>3. ASSUME NEW o \in OptReqs, Passes(o) PROVE TypeOK'
  BY <1>3 DEF Passes, Requests, OptSteps
<1>4. ASSUME NEW o \in OptReqs, OptionsIssued(o) PROVE TypeOK'
  BY <1>4, LimitsAssumption DEF OptionsIssued, Requests, OptSteps, Stages, Challenge, Issue, Usable
<1>5. ASSUME NEW o \in OptReqs, NEW c \in Creds, Sign(o, c) PROVE TypeOK'
  BY <1>5 DEF Sign, Assertion
<1>6. ASSUME NEW v \in VerReqs, NEW d \in Devices, NEW i \in Identifiers, NEW u \in Users,
             NEW a \in assertions \cup {Junk}, VerifyFound(v, d, i, u, a)
      PROVE  TypeOK'
  BY <1>6 DEF VerifyFound, Requests, VerSteps
<1>7. ASSUME NEW v \in VerReqs, VerifyFetched(v) PROVE TypeOK'
  <2>1. challenges[who[v]] \in Challenge
    BY <1>7 DEF VerifyFetched, Live, Stages, VerSteps
  <2> QED
    BY <1>7, <2>1 DEF VerifyFetched, Requests, VerSteps
<1>8. ASSUME NEW v \in VerReqs, VerifyProven(v) PROVE TypeOK'
  BY <1>8 DEF VerifyProven, Acceptable, Usable, Requests, VerSteps
<1>9. ASSUME NEW v \in VerReqs, StoreCount(v) PROVE TypeOK'
  <2>1. proof[v] \in Assertion
    BY <1>9 DEF StoreCount, Stages, VerSteps
  <2> QED
    BY <1>9, <2>1 DEF StoreCount, Requests, VerSteps, Assertion
<1>10. ASSUME NEW v \in VerReqs, CreateSession(v) PROVE TypeOK'
  BY <1>10 DEF CreateSession, Requests, VerSteps, SessionRow, Stages
<1>11. ASSUME NEW v \in VerReqs, Cleanup(v) PROVE TypeOK'
  BY <1>11 DEF Cleanup, Requests, VerSteps
<1>12. CASE Tick
  BY <1>12 DEF Tick
<1>13. ASSUME NEW c \in Creds, Age(c) PROVE TypeOK'
  BY <1>13 DEF Age
<1>14. CASE Crash
  BY <1>14 DEF Crash
<1>15. CASE UNCHANGED vars
  BY <1>15 DEF vars
<1> QED
  BY StepShapes, <1>1, <1>2, <1>3, <1>4, <1>5, <1>6, <1>7, <1>8, <1>9, <1>10, <1>11, <1>12,
     <1>13, <1>14, <1>15 DEF Step

LEMMA StagesStep ==
  ASSUME TypeOK, Stages, [Next]_vars
  PROVE  Stages'
<1> USE DEF stores, clients, locals, histories, Move, Answer, Identify, Requests,
            TypeOK, Stages, Resting, OptSteps, VerSteps
<1>1. ASSUME NEW r \in Requests, Ends(r) PROVE Stages'
  BY <1>1 DEF Ends
<1>2. ASSUME NEW o \in OptReqs, NEW d \in Devices, NEW i \in Identifiers, NEW u \in Users,
             OptionsFound(o, d, i, u)
      PROVE  Stages'
  BY <1>2, RequestsAssumption DEF OptionsFound
<1>3. ASSUME NEW o \in OptReqs, Passes(o) PROVE Stages'
  BY <1>3, RequestsAssumption DEF Passes
<1>4. ASSUME NEW o \in OptReqs, OptionsIssued(o) PROVE Stages'
  BY <1>4, RequestsAssumption DEF OptionsIssued
<1>5. ASSUME NEW o \in OptReqs, NEW c \in Creds, Sign(o, c) PROVE Stages'
  BY <1>5 DEF Sign
<1>6. ASSUME NEW v \in VerReqs, NEW d \in Devices, NEW i \in Identifiers, NEW u \in Users,
             NEW a \in assertions \cup {Junk}, VerifyFound(v, d, i, u, a)
      PROVE  Stages'
  BY <1>6, RequestsAssumption DEF VerifyFound
<1>7. ASSUME NEW v \in VerReqs, VerifyFetched(v) PROVE Stages'
  <2>1. challenges[who[v]] \in Challenge
    BY <1>7 DEF VerifyFetched, Live
  <2>2. proof[v] # Junk
    BY <1>7 DEF VerifyFetched, Objection
  <2> QED
    BY <1>7, <2>1, <2>2, RequestsAssumption DEF VerifyFetched
<1>8. ASSUME NEW v \in VerReqs, VerifyProven(v) PROVE Stages'
  BY <1>8, RequestsAssumption DEF VerifyProven
<1>9. ASSUME NEW v \in VerReqs, StoreCount(v) PROVE Stages'
  BY <1>9, RequestsAssumption DEF StoreCount
<1>10. ASSUME NEW v \in VerReqs, CreateSession(v) PROVE Stages'
  BY <1>10, RequestsAssumption DEF CreateSession
<1>11. ASSUME NEW v \in VerReqs, Cleanup(v) PROVE Stages'
  BY <1>11, RequestsAssumption DEF Cleanup
<1>12. CASE Tick
  BY <1>12 DEF Tick
<1>13. ASSUME NEW c \in Creds, Age(c) PROVE Stages'
  BY <1>13 DEF Age
<1>14. CASE Crash
  BY <1>14 DEF Crash, InFlight
<1>15. CASE UNCHANGED vars
  BY <1>15 DEF vars
<1> QED
  BY StepShapes, <1>1, <1>2, <1>3, <1>4, <1>5, <1>6, <1>7, <1>8, <1>9, <1>10, <1>11, <1>12,
     <1>13, <1>14, <1>15 DEF Step

\* A challenge in Redis is one that was issued to its user, and challenges
\* are told apart by their ids.
IssueOf(ch) ==
    \E i \in issued : /\ i.id = ch.id /\ i.user = ch.user /\ i.device = ch.device
                      /\ ch.until = i.at + ChallengeTTL

Issuing ==
    /\ \A i, j \in issued : i.id = j.id => i = j
    /\ \A i \in issued : pc[i.id] \notin {"idle", "screen", "issue"}
    /\ \A u \in Users : challenges[u] # None =>
           challenges[u].user = u /\ IssueOf(challenges[u])
    /\ \A a \in assertions : reply[a.challenge] = "ok"

LEMMA IssuingStep ==
  ASSUME TypeOK, Stages, Issuing, [Next]_vars
  PROVE  Issuing'
<1> USE DEF stores, clients, locals, histories, Move, Answer, Identify, Requests,
            TypeOK, Issuing, IssueOf
<1>1. ASSUME NEW r \in Requests, Ends(r) PROVE Issuing'
  BY <1>1 DEF Ends, Stages, Assertion, Issue
<1>2. ASSUME NEW o \in OptReqs, NEW d \in Devices, NEW i \in Identifiers, NEW u \in Users,
             OptionsFound(o, d, i, u)
      PROVE  Issuing'
  BY <1>2 DEF OptionsFound, Issue
<1>3. ASSUME NEW o \in OptReqs, Passes(o) PROVE Issuing'
  BY <1>3 DEF Passes, Issue
<1>4. ASSUME NEW o \in OptReqs, OptionsIssued(o) PROVE Issuing'
  <2> DEFINE new == [id |-> o, user |-> who[o], device |-> device[o], at |-> now,
                     allow |-> Usable(who[o])]
             ch  == [id |-> o, user |-> who[o], device |-> device[o],
                     until |-> now + ChallengeTTL]
  <2>1. /\ pc[o] = "issue" /\ who[o] \in Users
        /\ issued' = issued \cup {new}
        /\ challenges' = [challenges EXCEPT ![who[o]] = ch]
        /\ pc' = [pc EXCEPT ![o] = "report"]
        /\ UNCHANGED <<assertions, reply>>
    BY <1>4 DEF OptionsIssued, Stages, OptSteps
  <2>2. \A i \in issued : i.id \in Requests /\ i.id # o
    BY <2>1 DEF Issue
  <2>3. \A i, j \in issued' : i.id = j.id => i = j
    BY <2>1, <2>2
  <2>4. \A i \in issued' : pc'[i.id] \notin {"idle", "screen", "issue"}
    BY <2>1, <2>2
  <2>5. \A u \in Users : challenges'[u] # None =>
            /\ challenges'[u].user = u
            /\ \E i \in issued' :
                 /\ i.id = challenges'[u].id /\ i.user = challenges'[u].user
                 /\ i.device = challenges'[u].device
                 /\ i.at + ChallengeTTL = challenges'[u].until
    <3> SUFFICES ASSUME NEW u \in Users, challenges'[u] # None
                 PROVE  /\ challenges'[u].user = u
                        /\ \E i \in issued' :
                             /\ i.id = challenges'[u].id /\ i.user = challenges'[u].user
                             /\ i.device = challenges'[u].device
                             /\ i.at + ChallengeTTL = challenges'[u].until
      OBVIOUS
    <3>1. CASE u = who[o]
      <4>1. challenges'[u] = ch /\ new \in issued'
        BY <2>1, <3>1
      <4> QED
        BY <3>1, <4>1
    <3>2. CASE u # who[o]
      <4>1. challenges'[u] = challenges[u] /\ issued \subseteq issued'
        BY <2>1, <3>2
      <4> QED
        BY <4>1
    <3> QED
      BY <3>1, <3>2
  <2> QED
    BY <2>1, <2>3, <2>4, <2>5
<1>5. ASSUME NEW o \in OptReqs, NEW c \in Creds, Sign(o, c) PROVE Issuing'
  BY <1>5 DEF Sign
<1>6. ASSUME NEW v \in VerReqs, NEW d \in Devices, NEW i \in Identifiers, NEW u \in Users,
             NEW a \in assertions \cup {Junk}, VerifyFound(v, d, i, u, a)
      PROVE  Issuing'
  BY <1>6 DEF VerifyFound, Issue
<1>7. ASSUME NEW v \in VerReqs, VerifyFetched(v) PROVE Issuing'
  BY <1>7 DEF VerifyFetched, Issue
<1>8. ASSUME NEW v \in VerReqs, VerifyProven(v) PROVE Issuing'
  BY <1>8 DEF VerifyProven, Issue
<1>9. ASSUME NEW v \in VerReqs, StoreCount(v) PROVE Issuing'
  BY <1>9 DEF StoreCount, Issue
<1>10. ASSUME NEW v \in VerReqs, CreateSession(v) PROVE Issuing'
  BY <1>10 DEF CreateSession, Issue
<1>11. ASSUME NEW v \in VerReqs, Cleanup(v) PROVE Issuing'
  BY <1>11 DEF Cleanup, Issue
<1>12. CASE Tick
  BY <1>12 DEF Tick
<1>13. ASSUME NEW c \in Creds, Age(c) PROVE Issuing'
  BY <1>13 DEF Age
<1>14. CASE Crash
  BY <1>14 DEF Crash, Issue
<1>15. CASE UNCHANGED vars
  BY <1>15 DEF vars
<1> QED
  BY StepShapes, <1>1, <1>2, <1>3, <1>4, <1>5, <1>6, <1>7, <1>8, <1>9, <1>10, <1>11, <1>12,
     <1>13, <1>14, <1>15 DEF Step

\* What a verify request has established by the await it is suspended at.
Proven(v) ==
    /\ proof[v] \in assertions /\ Owner[proof[v].cred] = who[v]
    /\ \E i \in issued : /\ i.id = proof[v].challenge
                         /\ i.user = who[v] /\ i.device = device[v]

Proving ==
    \A v \in VerReqs :
        /\ pc[v] = "check" => \E i \in issued : /\ i.id = got[v].id
                                               /\ i.user = who[v] /\ i.device = device[v]
        /\ pc[v] \in {"store", "session"} => Proven(v)
        /\ pc[v] = "store" => seen[v] < proof[v].count
        /\ pc[v] = "session" => v \in recorded
        /\ pc[v] \in {"cleanup", "report"} \/ reply[v] = "ok" => \E s \in sessions : s.by = v

\* A session stands on what its request had established.
Backing ==
    \A s \in sessions :
        /\ pc[s.by] \in {"cleanup", "report", "done", "lost"} /\ s.by \in recorded
        /\ who[s.by] = s.user /\ Proven(s.by)

LEMMA ProvingStep ==
  ASSUME TypeOK, Stages, Issuing, Proving, Backing, [Next]_vars
  PROVE  Proving' /\ Backing'
<1> DEFINE Goal == Proving' /\ Backing'
<1> USE DEF stores, clients, locals, histories, Move, Answer, Identify, Requests,
            TypeOK, Stages, Proving, Backing, Proven, SessionRow
<1>1. ASSUME NEW r \in Requests, Ends(r) PROVE Goal
  BY <1>1 DEF Ends
<1>2. ASSUME NEW o \in OptReqs, NEW d \in Devices, NEW i \in Identifiers, NEW u \in Users,
             OptionsFound(o, d, i, u)
      PROVE  Goal
  BY <1>2, RequestsAssumption DEF OptionsFound
<1>3. ASSUME NEW o \in OptReqs, Passes(o) PROVE Goal
  BY <1>3, RequestsAssumption DEF Passes
<1>4. ASSUME NEW o \in OptReqs, OptionsIssued(o) PROVE Goal
  BY <1>4, RequestsAssumption DEF OptionsIssued
<1>5. ASSUME NEW o \in OptReqs, NEW c \in Creds, Sign(o, c) PROVE Goal
  BY <1>5 DEF Sign
<1>6. ASSUME NEW v \in VerReqs, NEW d \in Devices, NEW i \in Identifiers, NEW u \in Users,
             NEW a \in assertions \cup {Junk}, VerifyFound(v, d, i, u, a)
      PROVE  Goal
  BY <1>6, RequestsAssumption DEF VerifyFound
<1>7. ASSUME NEW v \in VerReqs, VerifyFetched(v) PROVE Goal
  <2>1. /\ who[v] \in Users
        /\ challenges[who[v]] # None
        /\ challenges[who[v]].user = who[v] /\ challenges[who[v]].device = device[v]
    BY <1>7 DEF VerifyFetched, Live, VerSteps, Objection
  <2>2. \E i \in issued : /\ i.id = challenges[who[v]].id
                          /\ i.user = who[v] /\ i.device = device[v]
    BY <2>1 DEF Issuing, IssueOf
  <2> QED
    BY <1>7, <2>2, RequestsAssumption DEF VerifyFetched
<1>8. ASSUME NEW v \in VerReqs, VerifyProven(v) PROVE Goal
  <2>1. /\ proof[v] \in assertions /\ proof[v] \in Assertion
        /\ proof[v].challenge = got[v].id /\ Owner[proof[v].cred] = who[v]
        /\ signCount[proof[v].cred] < proof[v].count
    BY <1>8 DEF VerifyProven, Acceptable, Usable, VerSteps, Assertion
  <2> QED
    BY <1>8, <2>1, RequestsAssumption DEF VerifyProven
<1>9. ASSUME NEW v \in VerReqs, StoreCount(v) PROVE Goal
  BY <1>9, RequestsAssumption DEF StoreCount
<1>10. ASSUME NEW v \in VerReqs, CreateSession(v) PROVE Goal
  <2> DEFINE new == [user |-> who[v], exp |-> now, by |-> v]
  <2>1. /\ pc[v] = "session" /\ sessions' = sessions \cup {new}
        /\ pc' = [pc EXCEPT ![v] = "cleanup"]
        /\ UNCHANGED <<who, device, proof, got, seen, reply, issued, recorded, assertions>>
    BY <1>10 DEF CreateSession
  <2>2. Proven(v) /\ v \in recorded
    BY <2>1
  <2>3. ASSUME NEW w \in VerReqs, pc'[w] \in {"cleanup", "report"} \/ reply'[w] = "ok"
        PROVE  \E s \in sessions' : s.by = w
    <3>1. CASE w = v
      <4>1. new \in sessions' /\ new.by = w
        BY <2>1, <3>1
      <4> QED
        BY <4>1
    <3>2. CASE w # v
      <4>1. pc[w] \in {"cleanup", "report"} \/ reply[w] = "ok"
        BY <2>1, <2>3, <3>2
      <4>2. PICK s \in sessions : s.by = w
        BY <4>1
      <4> QED
        BY <2>1, <4>2
    <3> QED
      BY <3>1, <3>2
  <2>4. ASSUME NEW w \in VerReqs
        PROVE  /\ pc'[w] = "check" => pc[w] = "check"
               /\ pc'[w] \in {"store", "session"} => pc[w] = pc'[w]
    BY <2>1
  <2>5. Proving'
    BY <2>1, <2>3, <2>4
  <2>6. Backing'
    BY <2>1, <2>2
  <2> QED
    BY <2>5, <2>6
<1>11. ASSUME NEW v \in VerReqs, Cleanup(v) PROVE Goal
  BY <1>11, RequestsAssumption DEF Cleanup
<1>12. CASE Tick
  BY <1>12 DEF Tick
<1>13. ASSUME NEW c \in Creds, Age(c) PROVE Goal
  BY <1>13 DEF Age
<1>14. CASE Crash
  BY <1>14 DEF Crash, InFlight
<1>15. CASE UNCHANGED vars
  BY <1>15 DEF vars
<1> QED
  BY StepShapes, <1>1, <1>2, <1>3, <1>4, <1>5, <1>6, <1>7, <1>8, <1>9, <1>10, <1>11, <1>12,
     <1>13, <1>14, <1>15 DEF Step

\* The challenge of a login that went through is gone from Redis.
Spent ==
    \A v \in VerReqs : pc[v] = "report" \/ reply[v] = "ok" =>
        \A u \in Users : challenges[u] # None => challenges[u].id # proof[v].challenge

LEMMA SpentStep ==
  ASSUME TypeOK, Stages, Issuing, Proving, Backing, Spent, [Next]_vars
  PROVE  Spent'
<1> USE DEF stores, clients, locals, histories, Move, Answer, Identify, Requests,
            TypeOK, Stages, Spent
<1>1. ASSUME NEW r \in Requests, Ends(r) PROVE Spent'
  BY <1>1 DEF Ends
<1>2. ASSUME NEW o \in OptReqs, NEW d \in Devices, NEW i \in Identifiers, NEW u \in Users,
             OptionsFound(o, d, i, u)
      PROVE  Spent'
  BY <1>2, RequestsAssumption DEF OptionsFound
<1>3. ASSUME NEW o \in OptReqs, Passes(o) PROVE Spent'
  BY <1>3, RequestsAssumption DEF Passes
<1>4. ASSUME NEW o \in OptReqs, OptionsIssued(o) PROVE Spent'
  <2>1. ASSUME NEW v \in VerReqs, pc[v] = "report" \/ reply[v] = "ok"
        PROVE  proof[v].challenge # o
    <3>1. proof[v] \in assertions
      BY <2>1 DEF Proving, Backing, Proven
    <3>2. reply[proof[v].challenge] = "ok"
      BY <3>1 DEF Issuing
    <3>3. reply[o] # "ok"
      BY <1>4 DEF OptionsIssued
    <3> QED
      BY <3>2, <3>3
  <2>2. ASSUME NEW v \in VerReqs, pc'[v] = "report" \/ reply'[v] = "ok"
        PROVE  pc[v] = "report" \/ reply[v] = "ok"
    BY <1>4, <2>2, RequestsAssumption DEF OptionsIssued
  <2>3. \A u \in Users : challenges'[u] = challenges[u] \/ challenges'[u].id = o
    BY <1>4 DEF OptionsIssued
  <2>4. proof' = proof
    BY <1>4 DEF OptionsIssued
  <2> QED
    BY <2>1, <2>2, <2>3, <2>4
<1>5. ASSUME NEW o \in OptReqs, NEW c \in Creds, Sign(o, c) PROVE Spent'
  BY <1>5 DEF Sign
<1>6. ASSUME NEW v \in VerReqs, NEW d \in Devices, NEW i \in Identifiers, NEW u \in Users,
             NEW a \in assertions \cup {Junk}, VerifyFound(v, d, i, u, a)
      PROVE  Spent'
  BY <1>6, RequestsAssumption DEF VerifyFound
<1>7. ASSUME NEW v \in VerReqs, VerifyFetched(v) PROVE Spent'
  BY <1>7, RequestsAssumption DEF VerifyFetched
<1>8. ASSUME NEW v \in VerReqs, VerifyProven(v) PROVE Spent'
  BY <1>8, RequestsAssumption DEF VerifyProven
<1>9. ASSUME NEW v \in VerReqs, StoreCount(v) PROVE Spent'
  BY <1>9, RequestsAssumption DEF StoreCount
<1>10. ASSUME NEW v \in VerReqs, CreateSession(v) PROVE Spent'
  BY <1>10, RequestsAssumption DEF CreateSession
<1>11. ASSUME NEW v \in VerReqs, Cleanup(v) PROVE Spent'
  <2>1. pc[v] = "cleanup" /\ who[v] \in Users
    BY <1>11 DEF Cleanup, VerSteps
  <2>2. \E i \in issued : i.id = proof[v].challenge /\ i.user = who[v]
    BY <2>1 DEF Proving, Backing, Proven
  <2>3. \A u \in Users : challenges[u] # None /\ challenges[u].id = proof[v].challenge =>
            u = who[v]
    BY <2>2 DEF Issuing, IssueOf
  <2>4. /\ challenges' = [challenges EXCEPT ![who[v]] = None]
        /\ pc' = [pc EXCEPT ![v] = "report"]
        /\ UNCHANGED <<proof, reply>>
    BY <1>11 DEF Cleanup
  <2> QED
    BY <2>1, <2>3, <2>4
<1>12. CASE Tick
  BY <1>12 DEF Tick
<1>13. ASSUME NEW c \in Creds, Age(c) PROVE Spent'
  BY <1>13 DEF Age
<1>14. CASE Crash
  BY <1>14 DEF Crash
<1>15. CASE UNCHANGED vars
  BY <1>15 DEF vars
<1> QED
  BY StepShapes, <1>1, <1>2, <1>3, <1>4, <1>5, <1>6, <1>7, <1>8, <1>9, <1>10, <1>11, <1>12,
     <1>13, <1>14, <1>15 DEF Step

IInv == TypeOK /\ Stages /\ Issuing /\ Proving /\ Backing /\ Spent

LEMMA InitInv ==
  ASSUME Init
  PROVE  IInv
<1>1. TypeOK
  BY DEF Init, TypeOK, Outcomes
<1>2. Stages
  BY DEF Init, Stages, Resting, OptSteps, VerSteps, Requests
<1>3. Issuing /\ Proving /\ Backing /\ Spent
  BY DEF Init, Issuing, Proving, Backing, Spent, Requests
<1> QED
  BY <1>1, <1>2, <1>3 DEF IInv

LEMMA StepInv ==
  ASSUME IInv, [Next]_vars
  PROVE  IInv'
BY TypeStep, StagesStep, IssuingStep, ProvingStep, SpentStep DEF IInv

LEMMA Inductive == Spec => []IInv
<1>1. Init => IInv
  BY InitInv
<1>2. IInv /\ [Next]_vars => IInv'
  BY StepInv
<1> QED
  BY <1>1, <1>2, PTL DEF Spec

-----------------------------------------------------------------------------
(* The theorems. *)

(***************************************************************************)
(* Every variable of the login ceremony keeps its type.                    *)
(***************************************************************************)
THEOREM TypeCorrect == Spec => []TypeOK
<1>1. IInv => TypeOK
  BY DEF IInv
<1> QED
  BY <1>1, Inductive, PTL

(***************************************************************************)
(* Every session row rests on an assertion by a credential of its user,    *)
(* over a challenge issued to that user and the device that sent it,       *)
(* however the ceremonies of login_options and login_verify overlap.       *)
(***************************************************************************)
THEOREM SessionsAreEarned == Spec => []SessionIsEarned
<1>1. IInv => SessionIsEarned
  BY DEF IInv, TypeOK, SessionRow, Backing, Proven, SessionIsEarned
<1> QED
  BY <1>1, Inductive, PTL

(***************************************************************************)
(* A login answered 200 has its session row, and no session row exists     *)
(* whose sign count was not committed first, crashes included.             *)
(***************************************************************************)
THEOREM SuccessesAreDurable == Spec => []SuccessIsDurable
<1>1. IInv => SuccessIsDurable
  BY DEF IInv, Proving, Backing, SuccessIsDurable
<1> QED
  BY <1>1, Inductive, PTL

(***************************************************************************)
(* Once a login is answered 200 its challenge is never in Redis again.     *)
(***************************************************************************)
THEOREM ChallengesAreUsedUp == Spec => []NoReuseAfterSuccess
<1>1. IInv => NoReuseAfterSuccess
  BY DEF IInv, Spent, NoReuseAfterSuccess
<1> QED
  BY <1>1, Inductive, PTL

(***************************************************************************)
(* A verify request that goes on after redis.get holds a challenge younger *)
(* than ChallengeTTL.                                                      *)
(***************************************************************************)
THEOREM FetchedChallengesAreFresh == Spec => ChallengesExpire
<1> DEFINE A == \A v \in VerReqs : pc[v] = "fetch" /\ pc'[v] = "check" =>
                    \E i \in issued : i.id = got'[v].id /\ now < i.at + ChallengeTTL
<1>1. ASSUME IInv, [Next]_vars PROVE A
  <2> USE DEF IInv, TypeOK, Move, Answer, Requests
  <2>1. ASSUME NEW w \in VerReqs, VerifyFetched(w) PROVE A
    <3>1. /\ who[w] \in Users /\ challenges[who[w]] # None
          /\ now < challenges[who[w]].until
          /\ got' = [got EXCEPT ![w] = challenges[who[w]]]
          /\ pc' = [pc EXCEPT ![w] = "check"]
      BY <1>1, <2>1 DEF VerifyFetched, Live, Stages, VerSteps
    <3>2. \E i \in issued : /\ i.id = challenges[who[w]].id
                            /\ now < i.at + ChallengeTTL
      BY <1>1, <3>1 DEF Issuing, IssueOf
    <3> QED
      BY <1>1, <3>1, <3>2
  <2>2. ASSUME ~\E w \in VerReqs : VerifyFetched(w)
        PROVE  \A v \in VerReqs : pc[v] = "fetch" => pc'[v] # "check"
    <3>1. Step
      BY <1>1, StepShapes
    <3> QED
      BY <1>1, <2>2, <3>1 DEF Step, Ends, OptionsFound, Passes, OptionsIssued, Sign, VerifyFound,
         VerifyProven, StoreCount, CreateSession, Cleanup, Tick, Age, Crash, vars
  <2> QED
    BY <2>1, <2>2
<1>2. IInv /\ [Next]_vars => [A]_vars
  BY <1>1
<1> QED
  BY <1>2, Inductive, PTL DEF Spec, ChallengesExpire

(***************************************************************************)
(* A stored sign count goes down only in a commit whose request selected   *)
(* it before another login of that credential committed.                   *)
(***************************************************************************)
THEOREM RegressionsOverlap == Spec => RegressionNeedsOverlap
<1> DEFINE A == \A c \in Creds : signCount'[c] < signCount[c] =>
                    \E v \in VerReqs : /\ pc[v] = "store" /\ proof[v].cred = c
                                       /\ seen[v] < signCount[c]
<1>1. ASSUME IInv, [Next]_vars PROVE A
  <2>1. ASSUME NEW v \in VerReqs, StoreCount(v) PROVE A
    <3>1. /\ pc[v] = "store" /\ proof[v] \in Assertion /\ seen[v] \in Nat
          /\ signCount \in [Creds -> Nat]
          /\ signCount' = [signCount EXCEPT ![proof[v].cred] = proof[v].count]
      BY <1>1, <2>1 DEF StoreCount, IInv, TypeOK, Stages, VerSteps
    <3>2. seen[v] < proof[v].count
      BY <1>1, <3>1 DEF IInv, Proving
    <3> QED
      BY <3>1, <3>2 DEF Assertion
  <2>2. ASSUME signCount' = signCount PROVE A
    BY <1>1, <2>2 DEF IInv, TypeOK
  <2>3. signCount' = signCount \/ \E v \in VerReqs : StoreCount(v)
    <3>1. Step
      BY <1>1, StepShapes
    <3> QED
      BY <3>1 DEF Step, stores, Ends, OptionsFound, Passes, OptionsIssued, Sign, VerifyFound,
         VerifyFetched, VerifyProven, CreateSession, Cleanup, Tick, Age, Crash, vars
  <2> QED
    BY <2>1, <2>2, <2>3
<1>2. IInv /\ [Next]_vars => [A]_vars
  BY <1>1
<1> QED
  BY <1>2, Inductive, PTL DEF Spec, RegressionNeedsOverlap

-----------------------------------------------------------------------------
(* Why a login that should succeed is refused. *)

\* Where a challenge that was stored has gone: it is in Redis, or another one
\* of its user came later, or a session of its user was made.
Whereabouts(i) ==
    \/ challenges[i.user] # None /\ challenges[i.user].id = i.id
    \/ \E j \in issued : j.user = i.user /\ j.id # i.id /\ j.at >= i.at
    \/ \E s \in sessions : s.user = i.user

\* A request whose count is committed is past the first commit, and when it
\* fails it has met a session of its user.
Settled(v) ==
    /\ pc[v] \in {"session", "cleanup", "report", "done", "lost"}
    /\ pc[v] = "done" /\ reply[v] # "ok" /\ <<v, "db">> \notin faced =>
           \E s \in sessions : s.user = who[v]

Accounted ==
    /\ \A i \in issued : i.at <= now /\ Whereabouts(i)
    /\ \A v \in recorded : Settled(v)

\* What a failed login has left behind.
Trace(v) ==
    \/ <<v, "db">> \in faced \/ <<v, "audit">> \in faced
    \/ \E a \in audit : a.req = v
    \/ \E s \in sessions : s.user = who[v] /\ s.by # v

Explained == \A v \in VerReqs : reply[v] = "failed" => Trace(v)

LEMMA ExplainedStep ==
  ASSUME IInv, Explained, [Next]_vars
  PROVE  Explained'
<1>0. TypeOK /\ Stages /\ Backing /\ Grows
  BY HistoryGrows DEF IInv
<1>1. Step
  BY StepShapes
<1>2. sessions \subseteq sessions'
  BY <1>1 DEF Step, stores, Ends, OptionsFound, Passes, OptionsIssued, Sign, VerifyFound,
     VerifyFetched, VerifyProven, StoreCount, CreateSession, Cleanup, Tick, Age, Crash, vars
<1>3. ASSUME NEW v \in VerReqs, reply[v] = "failed", reply'[v] = "failed", who'[v] = who[v]
      PROVE  Trace(v)'
  BY <1>0, <1>2, <1>3 DEF Explained, Trace, Grows
<1>4. ASSUME NEW v \in VerReqs, Ends(v), reply'[v] = "failed"
      PROVE  Trace(v)'
  <2>1. Justified(v, "failed") /\ who' = who
    BY <1>0, <1>4 DEF Ends, Answer, TypeOK, Requests, locals
  <2>2. CASE pc[v] = "session" /\ TokenTaken(who[v])
    <3>1. PICK s \in sessions : s.user = who[v]
      BY <2>2 DEF TokenTaken
    <3>2. s.by # v
      BY <1>0, <2>2 DEF Backing
    <3> QED
      BY <1>2, <2>1, <3>1, <3>2 DEF Trace
  <2> QED
    BY <2>1, <2>2 DEF Justified, Trace
<1>5. SUFFICES ASSUME NEW v \in VerReqs, reply'[v] = "failed" PROVE Trace(v)'
  BY DEF Explained
<1>6. CASE reply[v] = "failed"
  <2>1. pc[v] = "done"
    BY <1>0, <1>6 DEF Stages, Requests
  <2>2. who'[v] = who[v]
    BY <1>0, <1>1, <2>1, RequestsAssumption DEF Step, locals, Ends, OptionsFound, Passes, OptionsIssued,
       Sign, VerifyFound, VerifyFetched, VerifyProven, StoreCount, CreateSession, Cleanup,
       Tick, Age, Crash, vars, Identify, TypeOK, Requests
  <2> QED
    BY <1>3, <1>5, <1>6, <2>2
<1>7. CASE reply[v] # "failed"
  <2>1. reply' # reply
    BY <1>5, <1>7
  <2>2. PICK r \in Requests : Ends(r)
    BY <1>1, <2>1 DEF Step, OptionsFound, Passes, OptionsIssued, Sign, VerifyFound, VerifyFetched,
       VerifyProven, StoreCount, CreateSession, Cleanup, Tick, Age, Crash, vars
  <2>3. r = v
    BY <1>0, <1>5, <1>7, <2>2 DEF Ends, Answer, TypeOK, Requests
  <2> QED
    BY <1>4, <1>5, <2>2, <2>3
<1> QED
  BY <1>6, <1>7

LEMMA AccountedStep ==
  ASSUME IInv, Accounted, [Next]_vars
  PROVE  Accounted'
<1> USE DEF stores, clients, locals, histories, Move, Answer, Identify, Requests,
            Accounted, Whereabouts, Settled
<1>0. TypeOK /\ Stages /\ Issuing /\ Proving /\ Backing /\ faced \subseteq faced'
  BY HistoryGrows DEF IInv, Grows
<1>1. ASSUME NEW r \in Requests, Ends(r) PROVE Accounted'
  <2>1. ASSUME NEW v \in recorded PROVE Settled(v)'
    <3>1. CASE v # r
      BY <1>0, <1>1, <2>1, <3>1 DEF Ends, TypeOK
    <3>2. CASE v = r /\ pc[v] = "session"
      <4>1. TokenTaken(who[v]) \/ <<v, "db">> \in faced'
        BY <1>1, <3>2 DEF Ends, Justified
      <4> QED
        BY <1>0, <1>1, <2>1, <3>2, <4>1 DEF Ends, TypeOK, TokenTaken
    <3>3. CASE v = r /\ pc[v] \in {"cleanup", "report"}
      <4>1. v \in VerReqs
        BY <1>0, <2>1 DEF TypeOK
      <4>2. \E s \in sessions : s.by = v
        BY <1>0, <3>3, <4>1 DEF Proving
      <4>3. \E s \in sessions : s.user = who[v]
        BY <1>0, <4>2 DEF Backing
      <4> QED
        BY <1>0, <1>1, <3>3, <4>3 DEF Ends, TypeOK
    <3> QED
      BY <1>1, <2>1, <3>1, <3>2, <3>3 DEF Ends
  <2> QED
    BY <1>1, <2>1 DEF Ends
<1>2. ASSUME NEW o \in OptReqs, NEW d \in Devices, NEW i \in Identifiers, NEW u \in Users,
             OptionsFound(o, d, i, u)
      PROVE  Accounted'
  BY <1>0, <1>2, RequestsAssumption DEF OptionsFound, TypeOK
<1>3. ASSUME NEW o \in OptReqs, Passes(o) PROVE Accounted'
  BY <1>0, <1>3, RequestsAssumption DEF Passes, TypeOK
<1>4. ASSUME NEW o \in OptReqs, OptionsIssued(o) PROVE Accounted'
  <2> DEFINE new == [id |-> o, user |-> who[o], device |-> device[o], at |-> now,
                     allow |-> Usable(who[o])]
             ch  == [id |-> o, user |-> who[o], device |-> device[o],
                     until |-> now + ChallengeTTL]
  <2>1. /\ pc[o] = "issue" /\ who[o] \in Users /\ now \in Nat
        /\ issued' = issued \cup {new}
        /\ challenges' = [challenges EXCEPT ![who[o]] = ch]
        /\ pc' = [pc EXCEPT ![o] = "report"]
        /\ UNCHANGED <<now, sessions, recorded, reply, who>>
    BY <1>0, <1>4 DEF OptionsIssued, Stages, OptSteps, TypeOK
  <2>2. \A i \in issued : i.id # o /\ i.user \in Users /\ i.at <= now
    BY <1>0, <2>1 DEF Issuing, TypeOK, Issue
  <2>3. challenges'[who[o]] # None /\ challenges'[who[o]].id = o
    <3>1. device[o] \in Devices /\ ch \in Challenge
      BY <1>0, <2>1, LimitsAssumption DEF Stages, OptSteps, Challenge
    <3>2. challenges'[who[o]] = ch
      BY <1>0, <2>1 DEF TypeOK
    <3> QED
      BY <3>1, <3>2, ChallengeAssumption
  <2>4. Whereabouts(new)'
    BY <2>1, <2>3
  <2>5. ASSUME NEW i \in issued PROVE Whereabouts(i)'
    <3>1. CASE i.user = who[o]
      <4>1. new \in issued' /\ new.user = i.user /\ new.id # i.id /\ new.at >= i.at
        BY <2>1, <2>2, <3>1
      <4> QED
        BY <4>1
    <3>2. CASE i.user # who[o]
      <4>1. challenges'[i.user] = challenges[i.user]
        BY <1>0, <2>1, <2>2, <3>2 DEF TypeOK
      <4> QED
        BY <2>1, <4>1
    <3> QED
      BY <3>1, <3>2
  <2>6. \A v \in recorded : Settled(v)'
    BY <1>0, <2>1, RequestsAssumption DEF TypeOK
  <2> QED
    BY <2>1, <2>2, <2>4, <2>5, <2>6
<1>5. ASSUME NEW o \in OptReqs, NEW c \in Creds, Sign(o, c) PROVE Accounted'
  BY <1>5 DEF Sign
<1>6. ASSUME NEW v \in VerReqs, NEW d \in Devices, NEW i \in Identifiers, NEW u \in Users,
             NEW a \in assertions \cup {Junk}, VerifyFound(v, d, i, u, a)
      PROVE  Accounted'
  BY <1>0, <1>6 DEF VerifyFound, TypeOK
<1>7. ASSUME NEW v \in VerReqs, VerifyFetched(v) PROVE Accounted'
  BY <1>0, <1>7 DEF VerifyFetched, TypeOK
<1>8. ASSUME NEW v \in VerReqs, VerifyProven(v) PROVE Accounted'
  BY <1>0, <1>8 DEF VerifyProven, TypeOK
<1>9. ASSUME NEW v \in VerReqs, StoreCount(v) PROVE Accounted'
  BY <1>0, <1>9 DEF StoreCount, TypeOK
<1>10. ASSUME NEW v \in VerReqs, CreateSession(v) PROVE Accounted'
  BY <1>0, <1>10 DEF CreateSession, TypeOK
<1>11. ASSUME NEW v \in VerReqs, Cleanup(v) PROVE Accounted'
  <2>1. /\ pc[v] = "cleanup" /\ who[v] \in Users
        /\ challenges' = [challenges EXCEPT ![who[v]] = None]
        /\ pc' = [pc EXCEPT ![v] = "report"]
        /\ UNCHANGED <<now, issued, sessions, recorded, reply, who>>
    BY <1>0, <1>11 DEF Cleanup, Stages, VerSteps
  <2>2. \E s \in sessions : s.user = who[v]
    BY <1>0, <2>1 DEF Proving, Backing
  <2>3. \A i \in issued : Whereabouts(i)'
    BY <1>0, <2>1, <2>2 DEF TypeOK, Issue
  <2>4. \A w \in recorded : Settled(w)'
    BY <1>0, <2>1 DEF TypeOK
  <2> QED
    BY <2>1, <2>3, <2>4
<1>12. CASE Tick
  BY <1>0, <1>12 DEF Tick, TypeOK, Issue
<1>13. ASSUME NEW c \in Creds, Age(c) PROVE Accounted'
  BY <1>13 DEF Age
<1>14. CASE Crash
  BY <1>0, <1>14 DEF Crash, InFlight, TypeOK
<1>15. CASE UNCHANGED vars
  BY <1>15 DEF vars
<1> QED
  BY StepShapes, <1>1, <1>2, <1>3, <1>4, <1>5, <1>6, <1>7, <1>8, <1>9, <1>10, <1>11, <1>12,
     <1>13, <1>14, <1>15 DEF Step

LEMMA AccountedAlways == Spec => [](IInv /\ Accounted)
<1>1. Init => IInv /\ Accounted
  BY InitInv DEF Init, Accounted
<1>2. ASSUME IInv /\ Accounted, [Next]_vars PROVE (IInv /\ Accounted)'
  BY <1>2, StepInv, AccountedStep
<1> QED
  BY <1>1, <1>2, PTL DEF Spec

(***************************************************************************)
(* A login that fails after its count was committed has a session of its   *)
(* user before it, its own or the one with its refresh token; and one that *)
(* leaves no audit row has met the session of another login of its user,   *)
(* whose refresh token it repeats.  Failures of the database and of the    *)
(* audit row itself are excepted.                                          *)
(***************************************************************************)
THEOREM FailuresHaveCauses == Spec => []FailuresHaveCause
<1>1. Init => Explained
  BY DEF Init, Explained, Requests
<1>2. IInv /\ Explained /\ [Next]_vars => Explained'
  BY ExplainedStep
<1>3. ASSUME IInv, Accounted, Explained
      PROVE  FailuresHaveCause
  <2> SUFFICES ASSUME NEW v \in VerReqs, reply[v] = "failed", <<v, "db">> \notin faced
               PROVE  /\ v \in recorded => \E s \in sessions : s.user = who[v]
                      /\ \/ <<v, "audit">> \in faced
                         \/ \E a \in audit : a.req = v
                         \/ \E s \in sessions : s.user = who[v] /\ s.by # v
    BY DEF FailuresHaveCause
  <2>1. pc[v] = "done"
    BY <1>3 DEF IInv, Stages, Requests
  <2> QED
    BY <1>3, <2>1 DEF Accounted, Settled, Explained, Trace
<1>4. IInv /\ Accounted /\ Explained => FailuresHaveCause
  BY <1>3
<1> QED
  BY <1>1, <1>2, <1>4, AccountedAlways, PTL DEF Spec

(***************************************************************************)
(* login_verify answers "challenge expired" to a challenge that was stored *)
(* only when it is as old as its time to live, was replaced, or was taken  *)
(* away by the redis.delete of a login of the same user.                   *)
(***************************************************************************)
THEOREM ExpiryHasCause == Spec => ExpiredForACause
<1> DEFINE A == \A v \in VerReqs, i \in issued :
                    pc[v] = "fetch" /\ reply'[v] = "expired" /\ i.user = who[v] =>
                        \/ i.at + ChallengeTTL <= now
                        \/ \E j \in issued : j.user = i.user /\ j.id # i.id /\ j.at >= i.at
                        \/ \E s \in sessions : s.user = i.user
<1>1. ASSUME IInv, Accounted, [Next]_vars PROVE A
  <2> SUFFICES ASSUME NEW v \in VerReqs, NEW i \in issued,
                      pc[v] = "fetch", reply'[v] = "expired", i.user = who[v],
                      ~\E j \in issued : j.user = i.user /\ j.id # i.id /\ j.at >= i.at,
                      ~\E s \in sessions : s.user = i.user
               PROVE  i.at + ChallengeTTL <= now
    OBVIOUS
  <2>0. TypeOK /\ Stages /\ Issuing
    BY <1>1 DEF IInv
  <2>1. reply[v] = "none"
    BY <2>0 DEF Stages, Requests, TypeOK, Outcomes
  <2>2. Step
    BY <1>1, StepShapes
  <2>3. \E r \in Requests : Ends(r) /\ reply'[r] = "expired" /\ r = v
    <3>1. reply' # reply
      BY <2>1
    <3>2. PICK r \in Requests : Ends(r)
      BY <2>2, <3>1 DEF Step, OptionsFound, Passes, OptionsIssued, Sign, VerifyFound, VerifyFetched,
         VerifyProven, StoreCount, CreateSession, Cleanup, Tick, Age, Crash, vars
    <3>3. r = v
      BY <2>0, <2>1, <3>2 DEF Ends, Answer, TypeOK, Requests
    <3> QED
      BY <3>2, <3>3
  <2>4. ~Live(who[v])
    BY <2>0, <2>3 DEF Ends, Justified, Answer, TypeOK
  <2>5. challenges[i.user] # None /\ challenges[i.user].id = i.id
    BY <1>1 DEF Accounted, Whereabouts
  <2>6. IssueOf(challenges[i.user]) /\ i.user \in Users
    BY <2>0, <2>5 DEF Issuing, TypeOK, Issue
  <2>7. challenges[i.user].until = i.at + ChallengeTTL
    BY <2>0, <2>5, <2>6 DEF Issuing, IssueOf
  <2>8. i.at \in Nat /\ now \in Nat
    BY <2>0 DEF TypeOK, Issue
  <2> QED
    BY <2>4, <2>5, <2>7, <2>8, LimitsAssumption DEF Live
<1>2. IInv /\ Accounted /\ [Next]_vars => [A]_vars
  BY <1>1
<1> QED
  BY <1>2, AccountedAlways, PTL DEF Spec, ExpiredForACause

-----------------------------------------------------------------------------
(* The counters. *)

\* An authenticator either never counts or never repeats itself, and a stored
\* count is one that a committed login sent.
Counting ==
    /\ \A a \in assertions : IF a.cred \in Counterless THEN a.count = 0
                             ELSE 0 < a.count /\ a.count <= counter[a.cred]
    /\ \A a, b \in assertions :
           a.cred = b.cred /\ a.count = b.count => a = b \/ a.cred \in Counterless
    /\ \A c \in Creds : signCount[c] # 0 =>
           \E v \in recorded : /\ proof[v] \in assertions
                               /\ proof[v].cred = c /\ proof[v].count = signCount[c]
    /\ \A v \in recorded : proof[v].cred \notin Counterless

LEMMA CountingStep ==
  ASSUME IInv, Accounted, Counting, [Next]_vars
  PROVE  Counting'
<1> USE DEF stores, clients, locals, histories, Move, Answer, Identify, Requests, Counting
<1>0. TypeOK /\ Stages /\ Proving
  BY DEF IInv
<1>1. ASSUME NEW r \in Requests, Ends(r) PROVE Counting'
  BY <1>1 DEF Ends
<1>2. ASSUME NEW o \in OptReqs, NEW d \in Devices, NEW i \in Identifiers, NEW u \in Users,
             OptionsFound(o, d, i, u)
      PROVE  Counting'
  BY <1>2 DEF OptionsFound
<1>3. ASSUME NEW o \in OptReqs, Passes(o) PROVE Counting'
  BY <1>3 DEF Passes
<1>4. ASSUME NEW o \in OptReqs, OptionsIssued(o) PROVE Counting'
  BY <1>4 DEF OptionsIssued
<1>5. ASSUME NEW o \in OptReqs, NEW c \in Creds, Sign(o, c) PROVE Counting'
  <2> DEFINE new == [challenge |-> o, cred |-> c, count |-> counter'[c]]
  <2>1. /\ counter' = [counter EXCEPT ![c] = IF c \in Counterless THEN 0 ELSE counter[c] + 1]
        /\ assertions' = assertions \cup {new}
        /\ UNCHANGED <<signCount, recorded, proof>>
    BY <1>5 DEF Sign
  <2>2. counter \in [Creds -> Nat] /\ assertions \subseteq Assertion
    BY <1>0 DEF TypeOK
  <2>3. /\ counter'[c] = IF c \in Counterless THEN 0 ELSE counter[c] + 1
        /\ \A d \in Creds \ Counterless : counter[d] <= counter'[d]
    BY <2>1, <2>2
  <2>4. c \notin Counterless => \A a \in assertions : a.cred = c => a.count < new.count
    BY <2>2, <2>3 DEF Assertion
  <2>5. \A a \in assertions' : IF a.cred \in Counterless THEN a.count = 0
                                ELSE 0 < a.count /\ a.count <= counter'[a.cred]
    BY <2>1, <2>2, <2>3 DEF Assertion
  <2>6. \A a, b \in assertions' :
            a.cred = b.cred /\ a.count = b.count => a = b \/ a.cred \in Counterless
    BY <2>1, <2>2, <2>3, <2>4 DEF Assertion
  <2> QED
    BY <2>1, <2>5, <2>6
<1>6. ASSUME NEW v \in VerReqs, NEW d \in Devices, NEW i \in Identifiers, NEW u \in Users,
             NEW a \in assertions \cup {Junk}, VerifyFound(v, d, i, u, a)
      PROVE  Counting'
  <2>1. v \notin recorded
    BY <1>6 DEF VerifyFound, Accounted, Settled
  <2>2. \A w \in recorded : proof'[w] = proof[w]
    BY <1>0, <1>6, <2>1 DEF VerifyFound, TypeOK
  <2> QED
    BY <1>6, <2>2 DEF VerifyFound
<1>7. ASSUME NEW v \in VerReqs, VerifyFetched(v) PROVE Counting'
  BY <1>7 DEF VerifyFetched
<1>8. ASSUME NEW v \in VerReqs, VerifyProven(v) PROVE Counting'
  BY <1>8 DEF VerifyProven
<1>9. ASSUME NEW v \in VerReqs, StoreCount(v) PROVE Counting'
  <2>1. proof[v] \in assertions /\ proof[v] \in Assertion /\ seen[v] < proof[v].count
        /\ seen[v] \in Nat
    BY <1>0, <1>9 DEF StoreCount, Proving, Proven, TypeOK
  <2>4. proof[v].cred \notin Counterless
    BY <2>1 DEF Assertion
  <2>2. /\ signCount' = [signCount EXCEPT ![proof[v].cred] = proof[v].count]
        /\ recorded' = recorded \cup {v}
        /\ UNCHANGED <<assertions, counter, proof>>
    BY <1>9 DEF StoreCount
  <2>3. \A c \in Creds : \/ c = proof[v].cred /\ signCount'[c] = proof[v].count
                         \/ signCount'[c] = signCount[c]
    BY <1>0, <2>2 DEF TypeOK
  <2> QED
    BY <2>1, <2>2, <2>3, <2>4
<1>10. ASSUME NEW v \in VerReqs, CreateSession(v) PROVE Counting'
  BY <1>10 DEF CreateSession
<1>11. ASSUME NEW v \in VerReqs, Cleanup(v) PROVE Counting'
  BY <1>11 DEF Cleanup
<1>12. CASE Tick
  BY <1>12 DEF Tick
<1>13. ASSUME NEW c \in Creds, Age(c) PROVE Counting'
  BY <1>13 DEF Age
<1>14. CASE Crash
  BY <1>14 DEF Crash
<1>15. CASE UNCHANGED vars
  BY <1>15 DEF vars
<1> QED
  BY StepShapes, <1>1, <1>2, <1>3, <1>4, <1>5, <1>6, <1>7, <1>8, <1>9, <1>10, <1>11, <1>12,
     <1>13, <1>14, <1>15 DEF Step

LEMMA CountingAlways == Spec => [](IInv /\ Accounted /\ Counting)
<1>1. Init => Counting
  BY DEF Init, Counting
<1>2. ASSUME IInv, Accounted, Counting, [Next]_vars PROVE Counting'
  BY <1>2, CountingStep
<1>3. IInv /\ Accounted /\ Counting /\ [Next]_vars => Counting'
  BY <1>2
<1> QED
  BY <1>1, <1>3, AccountedAlways, PTL DEF Spec

(***************************************************************************)
(* The counter check of verify_authentication refuses no genuine assertion *)
(* of an authenticator that counts: only one that was used, or is older    *)
(* than one that was.  Any authenticators may be mixed, any faults happen. *)
(***************************************************************************)
THEOREM CountingLoginsAccepted == Spec => CountingLoginAccepted
<1> DEFINE A == \A v \in VerReqs : Genuine(v) /\ Refused(v) => proof[v].cred \in Counterless
<1>1. ASSUME IInv, Accounted, Counting, [Next]_vars PROVE A
  <2> SUFFICES ASSUME NEW v \in VerReqs, Genuine(v), Refused(v), proof[v].cred \notin Counterless
               PROVE  FALSE
    OBVIOUS
  <2>0. TypeOK /\ Stages /\ Proving
    BY <1>1 DEF IInv
  <2> USE DEF Genuine, Refused
  <2>1. Ends(v)
    <3>1. Step
      BY <1>1, StepShapes
    <3>2. ASSUME NEW r \in Requests, NEW x, pc[r] # "check", Move(r, x)
          PROVE  FALSE
      BY <2>0, <3>2 DEF Move, TypeOK, Requests
    <3>3. ASSUME NEW r \in Requests, Move(r, "store")
          PROVE  FALSE
      BY <2>0, <3>3 DEF Move, TypeOK, Requests
    <3>4. ASSUME NEW r \in Requests, Ends(r) PROVE r = v
      BY <2>0, <3>4 DEF Ends, Answer, Move, TypeOK, Requests
    <3>5. ~\E o \in OptReqs : Passes(o) \/ OptionsIssued(o)
      BY <3>2 DEF Passes, OptionsIssued, Requests
    <3>6. ~\E o \in OptReqs, d \in Devices, i \in Identifiers, u \in Users : OptionsFound(o, d, i, u)
      BY <3>2 DEF OptionsFound, Requests
    <3>7. ~\E w \in VerReqs, d \in Devices, i \in Identifiers, u \in Users,
             a \in assertions \cup {Junk} : VerifyFound(w, d, i, u, a)
      BY <3>2 DEF VerifyFound, Requests
    <3>8. ~\E w \in VerReqs : VerifyFetched(w) \/ StoreCount(w) \/ CreateSession(w) \/ Cleanup(w)
      BY <3>2 DEF VerifyFetched, StoreCount, CreateSession, Cleanup, Requests
    <3>9. ~\E w \in VerReqs : VerifyProven(w)
      BY <3>3 DEF VerifyProven, Requests
    <3>10. pc' # pc
      OBVIOUS
    <3>11. ~Crash
      BY <2>0 DEF Crash, InFlight, TypeOK, Requests
    <3> QED
      BY <3>1, <3>4, <3>5, <3>6, <3>7, <3>8, <3>9, <3>10, <3>11 DEF Step, Sign, Tick, Age, vars
  <2>2. ~Acceptable(v)
    BY <2>1 DEF Ends, Justified
  <2>3. proof[v] \in Assertion /\ proof[v] \in assertions /\ signCount \in [Creds -> Nat]
    BY <2>0 DEF Stages, VerSteps, TypeOK
  <2>4. proof[v].count <= signCount[proof[v].cred]
    BY <2>2, <2>3 DEF Acceptable, Assertion
  <2>5. PICK w \in recorded : /\ proof[w] \in assertions /\ proof[w].cred = proof[v].cred
                              /\ proof[w].count = signCount[proof[v].cred]
    BY <1>1, <2>3, <2>4 DEF Counting, Assertion
  <2>6. proof[w].count = proof[v].count
    BY <2>3, <2>4, <2>5 DEF Assertion
  <2> QED
    BY <1>1, <2>3, <2>5, <2>6 DEF Counting
<1>2. IInv /\ Accounted /\ Counting /\ [Next]_vars => [A]_vars
  BY <1>1
<1> QED
  BY <1>2, CountingAlways, PTL DEF Spec, CountingLoginAccepted

(***************************************************************************)
(* An authenticator whose counter stays at zero, as that of many phones    *)
(* does, never logs in: verify_authentication wants a count greater        *)
(* than the stored one, which starts at zero for such an authenticator.    *)
(***************************************************************************)
THEOREM CounterlessNeverLogsIn ==
  Spec => [](\A s \in sessions : proof[s.by].cred \notin Counterless)
<1>1. IInv /\ Counting => \A s \in sessions : proof[s.by].cred \notin Counterless
  BY DEF IInv, Backing, Counting
<1> QED
  BY <1>1, CountingAlways, PTL

-----------------------------------------------------------------------------
(* The account lockout. *)

\* No row is one that check_account_lockout counts.
Uncounted == \A a \in audit : a.action # "authentication"

(***************************************************************************)
(* The account lockout of login_options never refuses a request, for any   *)
(* limit, any number of failed logins and any faults: what                 *)
(* check_account_lockout counts is never written.                          *)
(***************************************************************************)
THEOREM LockoutRefusesNobody == Spec => []NobodyIsLockedOut
<1>1. Init => Uncounted /\ NobodyIsLockedOut
  BY DEF Init, Uncounted, NobodyIsLockedOut, Requests
<1>2. ASSUME IInv, Uncounted, NobodyIsLockedOut, [Next]_vars
      PROVE  Uncounted' /\ NobodyIsLockedOut'
  <2>1. Uncounted'
    BY <1>2, HistoryGrows DEF Uncounted, Grows
  <2>2. ASSUME NEW u PROVE ~LockedOut(u)
    <3>1. FailureRows(u) = {}
      BY <1>2 DEF Uncounted, FailureRows
    <3>2. Cardinality(FailureRows(u)) = 0
      BY <3>1, FS_EmptySet
    <3> QED
      BY <3>2, LimitsAssumption DEF LockedOut
  <2>3. ASSUME NEW r \in Requests, Ends(r) PROVE NobodyIsLockedOut'
    <3>1. PICK x : Answer(r, x) /\ Justified(r, x)
      BY <2>3 DEF Ends
    <3>2. x # "locked"
      BY <2>2, <3>1 DEF Justified
    <3> QED
      BY <1>2, <3>1, <3>2 DEF Answer, NobodyIsLockedOut, IInv, TypeOK, Requests
  <2>4. NobodyIsLockedOut'
    <3>1. Step
      BY <1>2, StepShapes
    <3>2. reply' = reply \/ \E r \in Requests : Ends(r)
      BY <3>1 DEF Step, OptionsFound, Passes, OptionsIssued, Sign, VerifyFound, VerifyFetched,
         VerifyProven, StoreCount, CreateSession, Cleanup, Tick, Age, Crash, vars
    <3> QED
      BY <1>2, <2>3, <3>2 DEF NobodyIsLockedOut
  <2> QED
    BY <2>1, <2>4
<1>3. IInv /\ Uncounted /\ NobodyIsLockedOut /\ [Next]_vars => Uncounted' /\ NobodyIsLockedOut'
  BY <1>2
<1> QED
  BY <1>1, <1>3, Inductive, PTL DEF Spec

-----------------------------------------------------------------------------
(* Which replays the counter check lets through. *)

\* A committed request holds an assertion, and the stored count of its
\* credential is that of a committed request.
Storing ==
    \A w \in recorded :
        /\ pc[w] # "idle" /\ proof[w] \in assertions
        /\ \E u \in recorded : /\ proof[u].cred = proof[w].cred
                               /\ proof[u].count = signCount[proof[w].cred]

LEMMA StoringStep ==
  ASSUME IInv, Storing, [Next]_vars
  PROVE  Storing'
<1> USE DEF stores, clients, locals, histories, Move, Answer, Identify, Requests, Storing
<1>0. /\ TypeOK /\ Proving
      /\ \A w \in recorded : w \in VerReqs /\ proof[w] \in Assertion /\ proof[w].cred \in Creds
  BY DEF IInv, TypeOK, Assertion
<1>1. ASSUME NEW r \in Requests, Ends(r) PROVE Storing'
  BY <1>0, <1>1 DEF Ends, TypeOK
<1>2. ASSUME NEW o \in OptReqs, NEW d \in Devices, NEW i \in Identifiers, NEW u \in Users,
             OptionsFound(o, d, i, u)
      PROVE  Storing'
  BY <1>0, <1>2 DEF OptionsFound, TypeOK
<1>3. ASSUME NEW o \in OptReqs, Passes(o) PROVE Storing'
  BY <1>0, <1>3 DEF Passes, TypeOK
<1>4. ASSUME NEW o \in OptReqs, OptionsIssued(o) PROVE Storing'
  BY <1>0, <1>4 DEF OptionsIssued, TypeOK
<1>5. ASSUME NEW o \in OptReqs, NEW c \in Creds, Sign(o, c) PROVE Storing'
  BY <1>5 DEF Sign
<1>6. ASSUME NEW v \in VerReqs, NEW d \in Devices, NEW i \in Identifiers, NEW u \in Users,
             NEW a \in assertions \cup {Junk}, VerifyFound(v, d, i, u, a)
      PROVE  Storing'
  <2>1. v \notin recorded
    BY <1>6 DEF VerifyFound
  <2>2. \A w \in recorded : proof'[w] = proof[w] /\ pc'[w] = pc[w]
    BY <1>0, <1>6, <2>1 DEF VerifyFound, TypeOK
  <2> QED
    BY <1>6, <2>2 DEF VerifyFound
<1>7. ASSUME NEW v \in VerReqs, VerifyFetched(v) PROVE Storing'
  BY <1>0, <1>7 DEF VerifyFetched, TypeOK
<1>8. ASSUME NEW v \in VerReqs, VerifyProven(v) PROVE Storing'
  BY <1>0, <1>8 DEF VerifyProven, TypeOK
<1>9. ASSUME NEW v \in VerReqs, StoreCount(v) PROVE Storing'
  <2>1. /\ proof[v] \in assertions /\ proof[v].cred \in Creds
        /\ signCount' = [signCount EXCEPT ![proof[v].cred] = proof[v].count]
        /\ recorded' = recorded \cup {v}
        /\ pc' = [pc EXCEPT ![v] = "session"]
        /\ UNCHANGED <<assertions, proof>>
    BY <1>0, <1>9 DEF StoreCount, Proving, Proven, TypeOK, Assertion
  <2>2. signCount'[proof[v].cred] = proof[v].count
    BY <1>0, <2>1 DEF TypeOK
  <2>3. \A c \in Creds : c # proof[v].cred => signCount'[c] = signCount[c]
    BY <1>0, <2>1 DEF TypeOK
  <2>4. ASSUME NEW w \in recorded'
        PROVE  \E u \in recorded' : /\ proof[u].cred = proof[w].cred
                                    /\ proof[u].count = signCount'[proof[w].cred]
    <3>1. CASE proof[w].cred = proof[v].cred
      BY <2>1, <2>2, <3>1
    <3>2. CASE proof[w].cred # proof[v].cred
      BY <1>0, <2>1, <2>3, <2>4, <3>2
    <3> QED
      BY <3>1, <3>2
  <2>5. \A w \in recorded' : pc'[w] # "idle" /\ proof'[w] \in assertions'
    BY <1>0, <2>1 DEF TypeOK
  <2> QED
    BY <2>1, <2>4, <2>5
<1>10. ASSUME NEW v \in VerReqs, CreateSession(v) PROVE Storing'
  BY <1>0, <1>10 DEF CreateSession, TypeOK
<1>11. ASSUME NEW v \in VerReqs, Cleanup(v) PROVE Storing'
  BY <1>0, <1>11 DEF Cleanup, TypeOK
<1>12. CASE Tick
  BY <1>12 DEF Tick
<1>13. ASSUME NEW c \in Creds, Age(c) PROVE Storing'
  BY <1>13 DEF Age
<1>14. CASE Crash
  BY <1>0, <1>14 DEF Crash, InFlight, TypeOK
<1>15. CASE UNCHANGED vars
  BY <1>15 DEF vars
<1> QED
  BY StepShapes, <1>1, <1>2, <1>3, <1>4, <1>5, <1>6, <1>7, <1>8, <1>9, <1>10, <1>11, <1>12,
     <1>13, <1>14, <1>15 DEF Step

(***************************************************************************)
(* Whatever is delivered twice and however logins overlap,                 *)
(* verify_authentication lets an assertion through after one that is as    *)
(* new or newer was used only when the stored count has been put back.     *)
(***************************************************************************)
THEOREM ReplaysNeedRegression == Spec => ReplayNeedsRegression
<1> DEFINE A == \A v \in VerReqs, w \in recorded :
                    pc[v] = "check" /\ pc'[v] = "store" /\ proof[w].cred = proof[v].cred =>
                        \/ proof[w].count < proof[v].count
                        \/ \E u \in recorded :
                              /\ proof[u].cred = proof[w].cred
                              /\ proof[u].count = signCount[proof[w].cred]
                              /\ proof[u].count < proof[w].count
<1>1. Init => Storing
  BY DEF Init, Storing
<1>2. ASSUME IInv, Storing, [Next]_vars PROVE A
  <2> SUFFICES ASSUME NEW v \in VerReqs, NEW w \in recorded,
                      pc[v] = "check", pc'[v] = "store", proof[w].cred = proof[v].cred,
                      ~(proof[w].count < proof[v].count)
               PROVE  \E u \in recorded :
                        /\ proof[u].cred = proof[w].cred
                        /\ proof[u].count = signCount[proof[w].cred]
                        /\ proof[u].count < proof[w].count
    OBVIOUS
  <2>0. TypeOK /\ Stages
    BY <1>2 DEF IInv
  <2>1. VerifyProven(v)
    <3>1. Step
      BY <1>2, StepShapes
    <3> QED
      BY <2>0, <3>1 DEF Step, Ends, OptionsFound, Passes, OptionsIssued, Sign, VerifyFound,
         VerifyFetched, VerifyProven, StoreCount, CreateSession, Cleanup, Tick, Age, Crash, vars,
         Move, Answer, InFlight, TypeOK, Requests
  <2>2. /\ proof[v] \in Assertion /\ proof[w] \in Assertion
        /\ signCount[proof[v].cred] < proof[v].count
        /\ signCount[proof[v].cred] \in Nat
    BY <1>2, <2>0, <2>1 DEF VerifyProven, Acceptable, Storing, Stages, VerSteps, TypeOK, Assertion
  <2>3. PICK u \in recorded : /\ proof[u].cred = proof[w].cred
                              /\ proof[u].count = signCount[proof[w].cred]
    BY <1>2 DEF Storing
  <2>4. proof[u].count < proof[w].count
    BY <2>2, <2>3 DEF Assertion
  <2> QED
    BY <2>3, <2>4
<1>3. ASSUME IInv, Storing, [Next]_vars PROVE Storing'
  BY <1>3, StoringStep
<1>4. IInv /\ Storing /\ [Next]_vars => [A]_vars
  BY <1>2
<1>5. IInv /\ Storing /\ [Next]_vars => Storing'
  BY <1>3
<1> QED
  BY <1>1, <1>4, <1>5, Inductive, PTL DEF Spec, ReplayNeedsRegression
=============================================================================

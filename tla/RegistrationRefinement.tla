----------------------- MODULE RegistrationRefinement -----------------------
(***************************************************************************)
(* The registration ceremony implements Ceremony, for any names, e-mails,  *)
(* devices and requests, any limits and any faults.                        *)
(***************************************************************************)
EXTENDS RegistrationProofs

(***************************************************************************)
(* What the mapping needs beyond the invariant of RegistrationProofs: a    *)
(* request holds a challenge from the fetch on, the attestation of one     *)
(* whose user is committed, or that was told of its success, is over that  *)
(* challenge, and options that were answered had their challenge stored.   *)
(***************************************************************************)
Linked ==
    /\ \A v \in VerReqs :
        /\ pc[v] \in {"idle", "fetch"} => got[v] = None
        /\ pc[v] \in VerSteps \ {"fetch"} => got[v] \in Challenge
        /\ pc[v] \in {"session", "cleanup", "report"} => proof[v].of = got[v].id
        /\ reply[v] = "ok" => got[v] # None /\ proof[v].of = got[v].id
    /\ \A o \in OptReqs : pc[o] = "report" \/ reply[o] = "ok" => \E i \in issued : i.id = o

LEMMA LinkedStep ==
  ASSUME TypeOK, Stages, Linked, [Next]_vars
  PROVE  Linked'
<1> USE DEF tables, locals, Move, Answer, Receive, Requests, TypeOK, Linked, VerSteps
<1>1. ASSUME NEW r \in Requests, Ends(r) PROVE Linked'
  BY <1>1, ChallengeAssumption DEF Ends
<1>2. ASSUME NEW o \in OptReqs, NEW d \in Devices, NEW f \in OptionsForm, OptionsNew(o, d, f) PROVE Linked'
  BY <1>2, RequestsAssumption DEF OptionsNew
<1>3. ASSUME NEW o \in OptReqs, OptionsIssued(o) PROVE Linked'
  <2> DEFINE new == [id |-> o, email |-> form[o].email, device |-> device[o], at |-> now]
  <2>1. /\ issued' = issued \cup {new} /\ pc' = [pc EXCEPT ![o] = "report"]
        /\ UNCHANGED <<got, proof, reply>>
    BY <1>3 DEF OptionsIssued
  <2>2. new.id = o
    OBVIOUS
  <2> HIDE DEF new
  <2> QED
    BY <2>1, <2>2, RequestsAssumption
<1>4. ASSUME NEW o \in OptReqs, Attest(o) PROVE Linked'
  BY <1>4 DEF Attest
<1>5. ASSUME NEW v \in VerReqs, NEW f \in Form, NEW d \in Devices, NEW p \in Credential,
             VerifyArrive(v, f, d, p)
      PROVE  Linked'
  BY <1>5, RequestsAssumption DEF VerifyArrive
<1>6. ASSUME NEW v \in VerReqs, VerifyFetched(v) PROVE Linked'
  <2>1. challenges[form[v].email] \in Challenge
    BY <1>6 DEF VerifyFetched, Live, Stages, VerSteps, Form
  <2> QED
    BY <1>6, <2>1, RequestsAssumption DEF VerifyFetched
<1>7. ASSUME NEW v \in VerReqs, EnterFirst(v) PROVE Linked'
  BY <1>7, RequestsAssumption DEF EnterFirst
<1>8. ASSUME NEW v \in VerReqs, Releases(v) PROVE Linked'
  BY <1>8, RequestsAssumption DEF Releases
<1>9. ASSUME NEW v \in VerReqs, StoreCredential(v) PROVE Linked'
  BY <1>9, RequestsAssumption DEF StoreCredential, Acceptable
<1>10. ASSUME NEW v \in VerReqs, CreateSession(v) PROVE Linked'
  BY <1>10, RequestsAssumption DEF CreateSession
<1>11. ASSUME NEW v \in VerReqs, Cleanup(v) PROVE Linked'
  BY <1>11, RequestsAssumption DEF Cleanup
<1>12. CASE Tick
  BY <1>12 DEF Tick
<1>13. CASE Crash
  BY <1>13 DEF Crash, InFlight
<1>14. CASE UNCHANGED vars
  BY <1>14 DEF vars
<1>15. ASSUME NEW v \in VerReqs, EnterSecond(v) PROVE Linked'
  BY <1>15, RequestsAssumption DEF EnterSecond
<1> QED
  BY StepShapes, <1>1, <1>2, <1>3, <1>4, <1>5, <1>6, <1>7, <1>8, <1>9, <1>10, <1>11, <1>12,
     <1>13, <1>14, <1>15 DEF Step

RInv == IInv /\ Linked

LEMMA RefinementInductive == Spec => []RInv
<1>1. Init => RInv
  BY InitInv DEF Init, RInv, Linked, VerSteps, Requests
<1>2. ASSUME RInv, [Next]_vars PROVE RInv'
  BY <1>2, StepInv, LinkedStep DEF RInv, IInv
<1> QED
  BY <1>1, <1>2, PTL DEF Spec

-----------------------------------------------------------------------------
(* How the mapped variables move. *)

\* The mapped variables other than the stage of claims.
Others == <<Current, Given, attested, Held>>

LEMMA OthersKept ==
  ASSUME UNCHANGED <<challenges, issued, attested, got, form, device>>
  PROVE  UNCHANGED Others
BY DEF Others, Current, Given, Held

LEMMA StageKept ==
  ASSUME users' = users,
         \A v \in VerReqs : pc'[v] = pc[v] /\ reply'[v] = reply[v]
  PROVE  Stage' = Stage
BY DEF Stage, StageOf

LEMMA Kept ==
  ASSUME UNCHANGED Others, Stage' = Stage
  PROVE  UNCHANGED C!cvars
BY DEF Others, C!cvars

\* The stage of a claim follows from its step.
LEMMA StageBefore ==
  ASSUME RInv, NEW v \in VerReqs
  PROVE  /\ pc[v] \in {"idle", "fetch"} => StageOf(v) = "open"
         /\ pc[v] \in {"flush", "index", "prove"} => StageOf(v) = "accepted"
         /\ pc[v] \in {"session", "cleanup", "report"} => StageOf(v) = "granted"
<1>1. pc[v] # "done" => reply[v] # "ok"
  BY DEF RInv, IInv, Stages, Requests
<1>2. pc[v] \in {"session", "cleanup", "report"} => \E u \in users : u.id = v
  <2>1. pc[v] \in {"session", "cleanup", "report"} => Row(v) \in users
    BY DEF RInv, IInv, Granting
  <2>2. Row(v).id = v
    BY DEF Row
  <2> QED
    BY <2>1, <2>2
<1>3. pc[v] \in {"idle", "fetch", "flush", "index", "prove"} => ~\E u \in users : u.id = v
  BY DEF RInv, IInv, Tables
<1> QED
  BY <1>1, <1>2, <1>3 DEF StageOf

\* Claims that end without an account are closed, the others stay.
LEMMA Closing ==
  ASSUME RInv, NEW S \in SUBSET VerReqs,
         UNCHANGED Others, users' = users,
         \A v \in VerReqs \ S : pc'[v] = pc[v] /\ reply'[v] = reply[v],
         \A v \in S : /\ pc[v] \notin {"done", "lost"} /\ pc'[v] \in {"done", "lost"}
                      /\ reply[v] # "ok" /\ reply'[v] # "ok"
  PROVE  C!CeremonyNext
<1> DEFINE T == {v \in S : ~\E u \in users : u.id = v}
<1>1. ASSUME NEW v \in T PROVE Stage[v] \in {"open", "accepted"} /\ StageOf(v)' = "closed"
  BY <1>1 DEF Stage, StageOf
<1>2. ASSUME NEW v \in VerReqs \ T PROVE StageOf(v)' = Stage[v]
  BY <1>2 DEF Stage, StageOf
<1>3. Stage' = [v \in VerReqs |-> IF v \in T THEN "closed" ELSE Stage[v]]
  BY <1>1, <1>2 DEF Stage
<1>4. C!Close(T)
  BY <1>1, <1>3 DEF C!Close, Others
<1> QED
  BY <1>4 DEF C!CeremonyNext

\* The answer to one request that does not succeed.
LEMMA Refusing ==
  ASSUME RInv, NEW v \in VerReqs, NEW x \in Outcomes, x # "ok",
         UNCHANGED Others, users' = users,
         pc[v] \notin {"done", "lost"}, Answer(v, x)
  PROVE  C!CeremonyNext
<1> DEFINE S == {v}
<1>1. TypeOK /\ Stages
  BY DEF RInv, IInv
<1>2. reply[v] # "ok"
  BY <1>1 DEF Stages, Requests
<1>3. /\ S \in SUBSET VerReqs
      /\ \A w \in VerReqs \ S : pc'[w] = pc[w] /\ reply'[w] = reply[w]
      /\ \A w \in S : /\ pc[w] \notin {"done", "lost"} /\ pc'[w] \in {"done", "lost"}
                      /\ reply[w] # "ok" /\ reply'[w] # "ok"
  BY <1>1, <1>2 DEF Answer, Move, TypeOK, Requests
<1> HIDE DEF S
<1> QED
  BY <1>3, Closing

-----------------------------------------------------------------------------
(* Every step of the ceremony is a step of Ceremony or leaves it unchanged. *)

LEMMA StepSimulated ==
  ASSUME RInv, [Next]_vars
  PROVE  [C!CeremonyNext]_C!cvars
<1> DEFINE Goal == [C!CeremonyNext]_C!cvars
<1> USE DEF tables, locals, Move, Receive, Requests
<1>0. TypeOK /\ Stages
  BY DEF RInv, IInv
<1>1. ASSUME NEW r \in Requests, Ends(r) PROVE Goal
  <2>1. UNCHANGED Others /\ users' = users
    BY <1>1, OthersKept DEF Ends
  <2>2. CASE r \in OptReqs
    <3>1. Stage' = Stage
      BY <1>1, <1>0, <2>2, RequestsAssumption, StageKept DEF Ends, Answer, TypeOK
    <3> QED
      BY <2>1, <3>1, Kept
  <2>3. ASSUME NEW x \in Outcomes, r \in VerReqs, x # "ok", pc[r] \notin {"done", "lost"},
               Answer(r, x)
        PROVE  Goal
    BY <2>1, <2>3, Refusing
  <2>4. ASSUME r \in VerReqs, pc[r] = "report", Answer(r, "ok")
        PROVE  Goal
    <3> USE DEF Answer
    <3>1. Stage[r] = "granted"
      BY <2>4, StageBefore DEF Stage
    <3>2. \A v \in VerReqs : StageOf(v)' = IF v = r THEN "completed" ELSE StageOf(v)
      BY <2>1, <2>4, <1>0 DEF StageOf, TypeOK
    <3>3. Stage' = [Stage EXCEPT ![r] = "completed"]
      BY <3>2 DEF Stage
    <3>4. /\ got[r] \in Challenge /\ form[r].email \in Emails
          /\ proof[r].of = got[r].id
      BY <2>4, <1>0 DEF Stages, VerSteps, Form, RInv, Linked
    <3>5. challenges[form[r].email] # None => challenges[form[r].email].id # got[r].id
      BY <2>4, <3>4 DEF RInv, IInv, Spent
    <3>6. Held[r].ticket = got[r].id /\ Held[r].subject = form[r].email /\ got[r].id # None
      BY <2>4, <3>4, ChallengeAssumption, RequestsAssumption DEF Held, Challenge
    <3>7. Current[Held[r].subject] # Held[r].ticket
      BY <3>4, <3>5, <3>6 DEF Current
    <3>8. C!Complete(r)
      BY <2>1, <3>1, <3>3, <3>7 DEF C!Complete, Others
    <3> QED
      BY <2>4, <3>8 DEF C!CeremonyNext
  <2> QED
    BY <1>1, <2>2, <2>3, <2>4 DEF Ends
<1>2. ASSUME NEW o \in OptReqs, NEW d \in Devices, NEW f \in OptionsForm, OptionsNew(o, d, f) PROVE Goal
  <2>1. \A v \in VerReqs : pc'[v] = pc[v] /\ form'[v] = form[v] /\ device'[v] = device[v]
    BY <1>2, <1>0, RequestsAssumption DEF OptionsNew, TypeOK
  <2>2. UNCHANGED <<got, reply, users, challenges, issued, attested>>
    BY <1>2 DEF OptionsNew
  <2>3. Stage' = Stage /\ UNCHANGED Others
    BY <2>1, <2>2 DEF Stage, StageOf, Others, Current, Given, Held
  <2> QED
    BY <2>3, Kept
<1>3. ASSUME NEW o \in OptReqs, OptionsIssued(o) PROVE Goal
  <2> DEFINE e == form[o].email
             ch == [id |-> o, device |-> device[o], until |-> now + ChallengeTTL]
             new == [id |-> o, email |-> e, device |-> device[o], at |-> now]
  <2>1. /\ pc[o] = "issue" /\ e \in Emails /\ device[o] \in Devices
        /\ challenges' = [challenges EXCEPT ![e] = ch]
        /\ issued' = issued \cup {new}
        /\ pc' = [pc EXCEPT ![o] = "report"]
        /\ UNCHANGED <<attested, got, form, device, users, reply>>
    BY <1>3, <1>0 DEF OptionsIssued, Stages, OptSteps, OptionsForm
  <2>2. ch \in Challenge /\ ch # None
    BY <2>1, <1>0, LimitsAssumption, ChallengeAssumption DEF Challenge, TypeOK
  <2>3. Given' = Given \cup {[ticket |-> o, subject |-> e, device |-> device[o]]}
    <3> DEFINE F(i) == [ticket |-> i.id, subject |-> i.email, device |-> i.device]
    <3>1. Given = {F(i) : i \in issued} /\ Given' = {F(i) : i \in issued'}
      BY DEF Given
    <3>2. F(new) = [ticket |-> o, subject |-> e, device |-> device[o]]
      OBVIOUS
    <3>3. issued' = issued \cup {new}
      BY <2>1
    <3> HIDE DEF F, new
    <3>4. Given' = Given \cup {F(new)}
      BY <3>1, <3>3
    <3> QED
      BY <3>2, <3>4
  <2>4. Current' = [Current EXCEPT ![e] = o]
    BY <2>1, <2>2, <1>0 DEF Current, TypeOK
  <2>5. \A g \in Given : g.ticket # o
    BY <2>1 DEF Given, RInv, IInv, Issuing
  <2>6. Held' = Held
    BY <2>1 DEF Held
  <2>7. Stage' = Stage
    BY <2>1, <1>0, RequestsAssumption, StageKept DEF TypeOK
  <2>8. C!Issue(o, e, device[o])
    BY <2>1, <2>3, <2>4, <2>5, <2>6, <2>7 DEF C!Issue
  <2> QED
    BY <2>1, <2>8 DEF C!CeremonyNext
<1>4. ASSUME NEW o \in OptReqs, Attest(o) PROVE Goal
  <2>1. attested' = attested \cup {o} /\ o \notin attested
    BY <1>4 DEF Attest
  <2>2. \E g \in Given : g.ticket = o
    <3>1. PICK i \in issued : i.id = o
      BY <1>4 DEF Attest, RInv, Linked
    <3>2. [ticket |-> i.id, subject |-> i.email, device |-> i.device] \in Given
      BY DEF Given
    <3> QED
      BY <3>1, <3>2
  <2>3. Current' = Current /\ Given' = Given /\ Held' = Held
    BY <1>4 DEF Attest, Current, Given, Held
  <2>4. Stage' = Stage
    BY <1>4, StageKept DEF Attest
  <2>5. C!Sign(o)
    BY <2>1, <2>2, <2>3, <2>4 DEF C!Sign
  <2> QED
    BY <2>5 DEF C!CeremonyNext
<1>5. ASSUME NEW v \in VerReqs, NEW f \in Form, NEW d \in Devices, NEW p \in Credential,
             VerifyArrive(v, f, d, p)
      PROVE  Goal
  <2>1. /\ pc[v] = "idle" /\ got[v] = None /\ pc' = [pc EXCEPT ![v] = "fetch"]
        /\ UNCHANGED <<got, reply, users, challenges, issued, attested>>
        /\ \A w \in VerReqs \ {v} : form'[w] = form[w] /\ device'[w] = device[w]
    BY <1>5, <1>0 DEF VerifyArrive, RInv, Linked, TypeOK
  <2>2. UNCHANGED Others
    BY <2>1 DEF Others, Current, Given, Held
  <2>3. Stage' = Stage
    BY <2>1, <1>0 DEF Stage, StageOf, TypeOK
  <2> QED
    BY <2>2, <2>3, Kept
<1>6. ASSUME NEW v \in VerReqs, VerifyFetched(v) PROVE Goal
  <2> DEFINE e == form[v].email
             ch == challenges[e]
             g == [ticket |-> ch.id, subject |-> e, device |-> device[v]]
  <2>1. /\ pc[v] = "fetch" /\ e \in Emails /\ ch # None /\ ch.device = device[v]
        /\ got' = [got EXCEPT ![v] = ch] /\ pc' = [pc EXCEPT ![v] = "flush"]
        /\ UNCHANGED <<form, device, reply, users, challenges, issued, attested>>
    BY <1>6, <1>0 DEF VerifyFetched, Live, Stages, VerSteps, Form, Objection
  <2>2. g \in Given
    <3>1. PICK i \in issued : i.id = ch.id /\ i.email = e /\ i.device = ch.device
      BY <2>1 DEF RInv, IInv, Issuing
    <3>2. [ticket |-> i.id, subject |-> i.email, device |-> i.device] \in Given
      BY DEF Given
    <3> QED
      BY <2>1, <3>1, <3>2
  <2>3. Current[g.subject] = g.ticket
    BY <2>1 DEF Current
  <2>4. Held' = [Held EXCEPT ![v] = g]
    BY <2>1, <1>0 DEF Held, TypeOK
  <2>5. Stage[v] = "open"
    BY <2>1, StageBefore DEF Stage
  <2>6. \A w \in VerReqs : StageOf(w)' = IF w = v THEN "accepted" ELSE StageOf(w)
    BY <2>1, <2>5, <1>0 DEF Stage, StageOf, TypeOK
  <2>7. Stage' = [Stage EXCEPT ![v] = "accepted"]
    BY <2>6 DEF Stage
  <2>8. Current' = Current /\ Given' = Given /\ attested' = attested
    BY <2>1 DEF Current, Given
  <2>9. C!Accept(v, g)
    BY <2>2, <2>3, <2>4, <2>5, <2>7, <2>8 DEF C!Accept
  <2> QED
    BY <2>2, <2>9 DEF C!CeremonyNext
<1>7. ASSUME NEW v \in VerReqs, EnterFirst(v) \/ EnterSecond(v) \/ CreateSession(v)
      PROVE  Goal
  <2>1. /\ \/ pc[v] = "flush" /\ pc' = [pc EXCEPT ![v] = "index"]
           \/ pc[v] = "index" /\ pc' = [pc EXCEPT ![v] = "prove"]
           \/ pc[v] = "session" /\ pc' = [pc EXCEPT ![v] = "cleanup"]
        /\ UNCHANGED <<reply, users, challenges, issued, attested, got, form, device>>
    BY <1>7 DEF EnterFirst, EnterSecond, CreateSession
  <2>2. UNCHANGED Others
    BY <2>1, OthersKept
  <2>3. pc[v] = "session" => \E u \in users : u.id = v
    <3>1. pc[v] = "session" => StageOf(v) = "granted"
      BY StageBefore
    <3> QED
      BY <3>1 DEF StageOf
  <2>4. Stage' = Stage
    BY <2>1, <2>3, <1>0 DEF Stage, StageOf, TypeOK
  <2> QED
    BY <2>2, <2>4, Kept
<1>8. ASSUME NEW v \in VerReqs, Releases(v) PROVE Goal
  <2>1. /\ pc[v] \in {"flush", "index", "prove"} /\ Answer(v, "failed") /\ users' = users
        /\ UNCHANGED <<challenges, issued, attested, got, form, device>>
    BY <1>8 DEF Releases
  <2>2. UNCHANGED Others
    BY <2>1, OthersKept
  <2>3. "failed" \in Outcomes
    BY DEF Outcomes
  <2> QED
    BY <2>1, <2>2, <2>3, Refusing
<1>9. ASSUME NEW v \in VerReqs, StoreCredential(v) PROVE Goal
  <2>1. /\ pc[v] = "prove" /\ users' = users \cup {Row(v)}
        /\ pc' = [pc EXCEPT ![v] = "session"]
        /\ proof[v].of = got[v].id
        /\ UNCHANGED <<reply, challenges, issued, attested, got, form, device>>
    BY <1>9, <1>0 DEF StoreCredential, Acceptable, Stages
  <2>2. UNCHANGED Others
    BY <2>1, OthersKept
  <2>3. Stage[v] = "accepted" /\ reply[v] # "ok"
    BY <2>1, <1>0, StageBefore DEF Stage, Stages
  <2>4. \A w \in VerReqs : (\E u \in users' : u.id = w) <=> w = v \/ \E u \in users : u.id = w
    <3>1. Row(v).id = v
      BY DEF Row
    <3> QED
      BY <2>1, <3>1
  <2>5. \A w \in VerReqs : StageOf(w)' = IF w = v THEN "granted" ELSE StageOf(w)
    BY <2>1, <2>3, <2>4, <1>0 DEF StageOf, TypeOK
  <2>6. Stage' = [Stage EXCEPT ![v] = "granted"]
    BY <2>5 DEF Stage
  <2>7. got[v] \in Challenge /\ proof[v].of \in attested
    BY <2>1 DEF RInv, Linked, IInv, Granting, VerSteps
  <2>8. Held[v].ticket \in attested
    BY <2>1, <2>7, ChallengeAssumption DEF Held
  <2>9. C!Award(v)
    BY <2>2, <2>3, <2>6, <2>8 DEF C!Award, Others
  <2> QED
    BY <2>9 DEF C!CeremonyNext
<1>11. ASSUME NEW v \in VerReqs, Cleanup(v) PROVE Goal
  <2>1. /\ pc[v] = "cleanup" /\ form[v].email \in Emails /\ got[v] \in Challenge
        /\ challenges' = [challenges EXCEPT ![form[v].email] = None]
        /\ pc' = [pc EXCEPT ![v] = "report"]
        /\ UNCHANGED <<reply, users, issued, attested, got, form, device>>
    BY <1>11, <1>0 DEF Cleanup, Stages, VerSteps, Form, RInv, Linked
  <2>2. Stage[v] = "granted" /\ \E u \in users : u.id = v
    BY <2>1, <1>0, StageBefore DEF Stage, StageOf, Stages
  <2>3. Held[v].subject = form[v].email
    BY <2>1, ChallengeAssumption DEF Held
  <2>4. Current' = [Current EXCEPT ![form[v].email] = None]
    BY <2>1, <1>0 DEF Current, TypeOK
  <2>5. Given' = Given /\ attested' = attested /\ Held' = Held
    BY <2>1 DEF Given, Held
  <2>6. Stage' = Stage
    BY <2>1, <2>2, <1>0 DEF Stage, StageOf, TypeOK
  <2>7. C!Withdraw(v)
    BY <2>2, <2>3, <2>4, <2>5, <2>6 DEF C!Withdraw
  <2> QED
    BY <2>7 DEF C!CeremonyNext
<1>12. CASE Tick
  BY <1>12, OthersKept, StageKept, Kept DEF Tick
<1>13. CASE Crash
  <2> DEFINE S == {v \in VerReqs : InFlight(v)}
  <2>1. UNCHANGED Others
    BY <1>13, OthersKept DEF Crash
  <2>2. users' = users
    BY <1>13 DEF Crash
  <2>3. \A v \in VerReqs \ S : pc'[v] = pc[v] /\ reply'[v] = reply[v]
    BY <1>13 DEF Crash
  <2>4. \A v \in S : /\ pc[v] \notin {"done", "lost"} /\ pc'[v] \in {"done", "lost"}
                     /\ reply[v] # "ok" /\ reply'[v] # "ok"
    BY <1>13, <1>0 DEF Crash, InFlight, Stages
  <2>5. S \in SUBSET VerReqs
    OBVIOUS
  <2> HIDE DEF S
  <2> QED
    BY <2>1, <2>2, <2>3, <2>4, <2>5, Closing
<1>14. CASE UNCHANGED vars
  BY <1>14, OthersKept, StageKept, Kept DEF vars
<1> QED
  BY StepShapes, <1>1, <1>2, <1>3, <1>4, <1>5, <1>6, <1>7, <1>8, <1>9, <1>11, <1>12,
     <1>13, <1>14 DEF Step

(***************************************************************************)
(* Every behaviour of registration_options and registration_verify is a    *)
(* behaviour of Ceremony.                                                  *)
(***************************************************************************)
THEOREM RegistrationIsACeremony == Spec => ImplementsCeremony
<1>1. Init => C!CeremonyInit
  BY DEF Init, C!CeremonyInit, Current, Given, Stage, StageOf, Held, Requests
<1>2. RInv /\ [Next]_vars => [C!CeremonyNext]_C!cvars
  BY StepSimulated
<1> QED
  BY <1>1, <1>2, RefinementInductive, PTL DEF Spec, ImplementsCeremony, C!CeremonySpec

(***************************************************************************)
(* What is proved of every Ceremony holds of the registration, stated of   *)
(* its own variables: a registration answered 200 holds an attested        *)
(* challenge that was issued for its e-mail and to its device, and Redis   *)
(* has that challenge no more.                                             *)
(***************************************************************************)
THEOREM RegistrationsCompleteForGood == Spec => []C!CompletedForGood
<1>1. ASSUME RInv, NEW v \in VerReqs, Stage[v] = "completed"
      PROVE  /\ Held[v] \in Given /\ Held[v].ticket \in attested
             /\ \A e \in Emails : Current[e] # Held[v].ticket
  <2>1. reply[v] = "ok"
    BY <1>1 DEF Stage, StageOf
  <2>2. Row(v) \in users
    BY <1>1, <2>1 DEF RInv, IInv, Granting
  <2>3. got[v] # None /\ proof[v].of = got[v].id
    BY <1>1, <2>1 DEF RInv, Linked
  <2>4. \E i \in issued : i.id = got[v].id /\ i.email = form[v].email /\ i.device = device[v]
    <3>1. Row(v).id = v
      BY DEF Row
    <3>2. Granted(v, proof[v].of)
      BY <1>1, <2>2, <3>1 DEF RInv, IInv, Tables
    <3> QED
      BY <2>3, <3>2 DEF Granted
  <2>5. Held[v] = [ticket |-> got[v].id, subject |-> form[v].email, device |-> device[v]]
    BY <2>3 DEF Held
  <2>6. Held[v] \in Given
    BY <2>4, <2>5 DEF Given
  <2>7. got[v].id \in attested /\ \A e \in Emails : challenges[e] # None => challenges[e].id # got[v].id
    BY <1>1, <2>1, <2>3 DEF RInv, IInv, Spent
  <2>8. got[v].id # None
    BY <1>1, <2>7, RequestsAssumption DEF RInv, IInv, TypeOK, Requests
  <2> QED
    BY <2>5, <2>6, <2>7, <2>8 DEF Current
<1>2. RInv => C!CompletedForGood
  BY <1>1 DEF C!CompletedForGood
<1> QED
  BY <1>2, RefinementInductive, PTL
=============================================================================

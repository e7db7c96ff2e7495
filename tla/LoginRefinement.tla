-------------------------- MODULE LoginRefinement --------------------------
(***************************************************************************)
(* The login ceremony implements Ceremony, for any users, credentials,     *)
(* devices and requests, any limits and any faults.                        *)
(***************************************************************************)
EXTENDS LoginProofs

(***************************************************************************)
(* What the mapping needs beyond the invariant of LoginProofs: a request   *)
(* holds a challenge only after the fetch, its assertion is over that      *)
(* challenge once checked and when it is told of its success, and its      *)
(* session comes after the second commit.                                  *)
(***************************************************************************)
Linked ==
    /\ \A v \in VerReqs :
        /\ pc[v] \in {"idle", "fetch"} => got[v] = None
        /\ pc[v] \in {"store", "session", "cleanup", "report"} =>
               proof[v].challenge = got[v].id
        /\ reply[v] = "ok" => got[v] # None /\ proof[v].challenge = got[v].id
    /\ \A s \in sessions : pc[s.by] \in {"cleanup", "report", "done", "lost"}

LEMMA LinkedStep ==
  ASSUME TypeOK, Stages, Linked, [Next]_vars
  PROVE  Linked'
<1> USE DEF stores, clients, locals, histories, Move, Answer, Identify, Requests,
            TypeOK, Linked, SessionRow
<1>1. ASSUME NEW r \in Requests, Ends(r) PROVE Linked'
  BY <1>1, ChallengeAssumption DEF Ends, Stages, VerSteps
<1>2. ASSUME NEW o \in OptReqs, NEW d \in Devices, NEW i \in Identifiers, NEW u \in Users,
             OptionsFound(o, d, i, u)
      PROVE  Linked'
  BY <1>2, RequestsAssumption DEF OptionsFound
<1>3. ASSUME NEW o \in OptReqs, Passes(o) PROVE Linked'
  BY <1>3, RequestsAssumption DEF Passes
<1>4. ASSUME NEW o \in OptReqs, OptionsIssued(o) PROVE Linked'
  BY <1>4, RequestsAssumption DEF OptionsIssued
<1>5. ASSUME NEW o \in OptReqs, NEW c \in Creds, Sign(o, c) PROVE Linked'
  BY <1>5 DEF Sign
<1>6. ASSUME NEW v \in VerReqs, NEW d \in Devices, NEW i \in Identifiers, NEW u \in Users,
             NEW a \in assertions \cup {Junk}, VerifyFound(v, d, i, u, a)
      PROVE  Linked'
  BY <1>6, RequestsAssumption DEF VerifyFound
<1>7. ASSUME NEW v \in VerReqs, VerifyFetched(v) PROVE Linked'
  BY <1>7, RequestsAssumption DEF VerifyFetched
<1>8. ASSUME NEW v \in VerReqs, VerifyProven(v) PROVE Linked'
  BY <1>8, RequestsAssumption DEF VerifyProven, Acceptable
<1>9. ASSUME NEW v \in VerReqs, StoreCount(v) PROVE Linked'
  BY <1>9, RequestsAssumption DEF StoreCount
<1>10. ASSUME NEW v \in VerReqs, CreateSession(v) PROVE Linked'
  BY <1>10, RequestsAssumption DEF CreateSession
<1>11. ASSUME NEW v \in VerReqs, Cleanup(v) PROVE Linked'
  BY <1>11, RequestsAssumption DEF Cleanup
<1>12. CASE Tick
  BY <1>12 DEF Tick
<1>13. ASSUME NEW c \in Creds, Age(c) PROVE Linked'
  BY <1>13 DEF Age
<1>14. CASE Crash
  BY <1>14 DEF Crash, InFlight
<1>15. CASE UNCHANGED vars
  BY <1>15 DEF vars
<1> QED
  BY StepShapes, <1>1, <1>2, <1>3, <1>4, <1>5, <1>6, <1>7, <1>8, <1>9, <1>10, <1>11, <1>12,
     <1>13, <1>14, <1>15 DEF Step

RInv == IInv /\ Linked

LEMMA RefinementInductive == Spec => []RInv
<1>1. Init => RInv
  BY InitInv DEF Init, RInv, Linked, Requests
<1>2. ASSUME RInv, [Next]_vars PROVE RInv'
  BY <1>2, StepInv, LinkedStep DEF RInv, IInv
<1> QED
  BY <1>1, <1>2, PTL DEF Spec

-----------------------------------------------------------------------------
(* How the mapped variables move. *)

\* The mapped variables other than the stage of claims.
Others == <<Current, Given, Signed, Held>>

LEMMA OthersKept ==
  ASSUME UNCHANGED <<challenges, issued, assertions, got, who, device>>
  PROVE  UNCHANGED Others
BY DEF Others, Current, Given, Signed, Held

LEMMA StageKept ==
  ASSUME sessions' = sessions,
         \A v \in VerReqs :
             /\ pc'[v] = pc[v]
             /\ reply'[v] = reply[v]
  PROVE  Stage' = Stage
BY DEF Stage, StageOf

LEMMA Kept ==
  ASSUME UNCHANGED Others, Stage' = Stage
  PROVE  UNCHANGED C!cvars
BY DEF Others, C!cvars

\* A claim that has neither session nor answer yet.
LEMMA StageBefore ==
  ASSUME RInv, NEW v \in VerReqs
  PROVE  /\ pc[v] \in {"idle", "fetch"} => StageOf(v) = "open"
         /\ pc[v] \in {"check", "store", "session"} => StageOf(v) = "accepted"
         /\ pc[v] \in {"cleanup", "report"} => StageOf(v) = "granted"
         /\ pc[v] = "lost" => StageOf(v) \in {"granted", "closed"}
<1>1. pc[v] # "done" => reply[v] # "ok"
  BY DEF RInv, IInv, Stages, Requests
<1>2. pc[v] \in {"cleanup", "report"} => \E s \in sessions : s.by = v
  BY DEF RInv, IInv, Proving
<1>3. pc[v] \in {"idle", "fetch", "check", "store", "session"} => ~\E s \in sessions : s.by = v
  BY DEF RInv, Linked
<1> QED
  BY <1>1, <1>2, <1>3 DEF StageOf

\* Claims that end without a session are closed, the others stay.
LEMMA Closing ==
  ASSUME RInv, NEW S \in SUBSET VerReqs,
         UNCHANGED Others, sessions' = sessions,
         \A v \in VerReqs \ S : pc'[v] = pc[v] /\ reply'[v] = reply[v],
         \A v \in S : /\ pc[v] \notin {"done", "lost"} /\ pc'[v] \in {"done", "lost"}
                      /\ reply[v] # "ok" /\ reply'[v] # "ok"
  PROVE  C!CeremonyNext
<1> DEFINE T == {v \in S : ~\E s \in sessions : s.by = v}
<1>1. ASSUME NEW v \in T PROVE Stage[v] \in {"open", "accepted"} /\ StageOf(v)' = "closed"
  BY <1>1 DEF Stage, StageOf
<1>2. ASSUME NEW v \in VerReqs \ T PROVE StageOf(v)' = Stage[v]
  BY <1>2 DEF Stage, StageOf
<1>3. Stage' = [v \in VerReqs |-> IF v \in T THEN "closed" ELSE Stage[v]]
  BY <1>1, <1>2 DEF Stage
<1>4. C!Close(T)
  BY <1>1, <1>3 DEF C!Close, Others
<1> QED
  BY <1>4 DEF C!CeremonyNext

-----------------------------------------------------------------------------
(* Every step of the ceremony is a step of Ceremony or leaves it unchanged. *)

LEMMA StepSimulated ==
  ASSUME RInv, [Next]_vars
  PROVE  [C!CeremonyNext]_C!cvars
<1> DEFINE Goal == [C!CeremonyNext]_C!cvars
<1> USE DEF stores, clients, locals, histories, Move, Answer, Identify, Requests
<1>0. TypeOK /\ Stages
  BY DEF RInv, IInv
<1>1. ASSUME NEW r \in Requests, Ends(r) PROVE Goal
  <2>1. UNCHANGED Others /\ sessions' = sessions
    BY <1>1, OthersKept DEF Ends
  <2>2. CASE r \in OptReqs
    <3>1. Stage' = Stage
      BY <1>1, <1>0, <2>2, RequestsAssumption, StageKept DEF Ends, TypeOK
    <3> QED
      BY <2>1, <3>1, Kept
  <2>3. ASSUME NEW x \in Outcomes, r \in VerReqs, x # "ok", pc[r] \notin {"done", "lost"},
               pc' = [pc EXCEPT ![r] = "done"], reply' = [reply EXCEPT ![r] = x]
        PROVE  Goal
    <3>1. reply[r] # "ok"
      BY <2>3, <1>0 DEF Stages
    <3>2. \A v \in VerReqs \ {r} : pc'[v] = pc[v] /\ reply'[v] = reply[v]
      BY <2>3, <1>0 DEF TypeOK
    <3>3. pc'[r] = "done" /\ reply'[r] = x
      BY <2>3, <1>0 DEF TypeOK
    <3> DEFINE S == {r}
    <3>4. /\ S \in SUBSET VerReqs
          /\ \A v \in VerReqs \ S : pc'[v] = pc[v] /\ reply'[v] = reply[v]
          /\ \A v \in S : /\ pc[v] \notin {"done", "lost"} /\ pc'[v] \in {"done", "lost"}
                         /\ reply[v] # "ok" /\ reply'[v] # "ok"
      BY <2>3, <3>1, <3>2, <3>3
    <3> HIDE DEF S
    <3> QED
      BY <2>1, <3>4, Closing
  <2>4. ASSUME r \in VerReqs, pc[r] = "report",
               pc' = [pc EXCEPT ![r] = "done"], reply' = [reply EXCEPT ![r] = "ok"]
        PROVE  Goal
    <3>1. Stage[r] = "granted"
      BY <2>4, StageBefore DEF Stage
    <3>2. \A v \in VerReqs : StageOf(v)' = IF v = r THEN "completed" ELSE StageOf(v)
      BY <2>1, <2>4, <1>0 DEF StageOf, TypeOK
    <3>3. Stage' = [Stage EXCEPT ![r] = "completed"]
      BY <3>2 DEF Stage
    <3>4. /\ got[r] \in Challenge /\ who[r] \in Users
          /\ proof[r].challenge = got[r].id
      BY <2>4, <1>0 DEF Stages, VerSteps, RInv, Linked
    <3>5. challenges[who[r]] # None => challenges[who[r]].id # got[r].id
      BY <2>4, <3>4 DEF RInv, IInv, Spent
    <3>6. Held[r].ticket = got[r].id /\ Held[r].subject = who[r] /\ got[r].id # None
      BY <2>4, <3>4, ChallengeAssumption, RequestsAssumption DEF Held, Challenge
    <3>7. Current[Held[r].subject] # Held[r].ticket
      BY <3>4, <3>5, <3>6 DEF Current
    <3>8. C!Complete(r)
      BY <2>1, <3>1, <3>3, <3>7 DEF C!Complete, Others
    <3> QED
      BY <2>4, <3>8 DEF C!CeremonyNext
  <2> QED
    BY <1>1, <2>2, <2>3, <2>4 DEF Ends
<1>2. ASSUME NEW o \in OptReqs, NEW d \in Devices, NEW i \in Identifiers, NEW u \in Users,
             OptionsFound(o, d, i, u)
      PROVE  Goal
  <2>1. \A v \in VerReqs : /\ pc'[v] = pc[v] /\ who'[v] = who[v] /\ device'[v] = device[v]
                           /\ UNCHANGED <<got, reply, sessions, challenges, issued, assertions>>
    BY <1>2, <1>0, RequestsAssumption DEF OptionsFound, TypeOK
  <2>2. UNCHANGED <<got, reply, sessions, challenges, issued, assertions>>
    BY <1>2 DEF OptionsFound
  <2>3. Stage' = Stage /\ UNCHANGED Others
    BY <2>1, <2>2 DEF Stage, StageOf, Others, Current, Given, Signed, Held
  <2> QED
    BY <2>3, Kept
<1>3. ASSUME NEW o \in OptReqs, Passes(o) PROVE Goal
  <2>1. UNCHANGED Others
    BY <1>3, OthersKept DEF Passes
  <2>2. Stage' = Stage
    BY <1>3, <1>0, RequestsAssumption, StageKept DEF Passes, TypeOK
  <2> QED
    BY <2>1, <2>2, Kept
<1>4. ASSUME NEW o \in OptReqs, OptionsIssued(o) PROVE Goal
  <2> DEFINE u == who[o]
             ch == [id |-> o, user |-> u, device |-> device[o], until |-> now + ChallengeTTL]
             new == [id |-> o, user |-> u, device |-> device[o], at |-> now, allow |-> Usable(u)]
  <2>1. /\ pc[o] = "issue" /\ u \in Users /\ device[o] \in Devices
        /\ challenges' = [challenges EXCEPT ![u] = ch]
        /\ issued' = issued \cup {new}
        /\ pc' = [pc EXCEPT ![o] = "report"]
        /\ UNCHANGED <<assertions, got, who, device, sessions, reply>>
    BY <1>4, <1>0 DEF OptionsIssued, Stages, OptSteps
  <2>2. ch \in Challenge /\ ch # None
    BY <2>1, <1>0, LimitsAssumption, ChallengeAssumption DEF Challenge, TypeOK
  <2>3. Given' = Given \cup {[ticket |-> o, subject |-> u, device |-> device[o]]}
    <3> DEFINE F(i) == [ticket |-> i.id, subject |-> i.user, device |-> i.device]
    <3>1. Given = {F(i) : i \in issued} /\ Given' = {F(i) : i \in issued'}
      BY DEF Given
    <3>2. F(new) = [ticket |-> o, subject |-> u, device |-> device[o]]
      OBVIOUS
    <3>3. issued' = issued \cup {new}
      BY <2>1
    <3> HIDE DEF F, new
    <3>4. Given' = Given \cup {F(new)}
      BY <3>1, <3>3
    <3> QED
      BY <3>2, <3>4
  <2>4. Current' = [Current EXCEPT ![u] = o]
    BY <2>1, <2>2, <1>0 DEF Current, TypeOK
  <2>5. \A g \in Given : g.ticket # o
    BY <2>1 DEF Given, RInv, IInv, Issuing
  <2>6. Signed' = Signed /\ Held' = Held
    BY <2>1 DEF Signed, Held
  <2>7. Stage' = Stage
    BY <2>1, <1>0, RequestsAssumption, StageKept DEF TypeOK
  <2>8. C!Issue(o, u, device[o])
    BY <2>3, <2>4, <2>5, <2>6, <2>7 DEF C!Issue
  <2> QED
    BY <2>1, <2>8 DEF C!CeremonyNext
<1>5. ASSUME NEW o \in OptReqs, NEW c \in Creds, Sign(o, c) PROVE Goal
  <2> DEFINE new == [challenge |-> o, cred |-> c, count |-> counter'[c]]
             F(a) == a.challenge
  <2>1. Signed' = Signed \cup {o} /\ o \notin Signed
    <3>1. assertions' = assertions \cup {new} /\ \A a \in assertions : F(a) # o
      BY <1>5 DEF Sign
    <3>2. Signed = {F(a) : a \in assertions} /\ Signed' = {F(a) : a \in assertions'}
      BY DEF Signed
    <3>3. F(new) = o
      OBVIOUS
    <3> HIDE DEF F, new
    <3> QED
      BY <3>1, <3>2, <3>3
  <2>2. \E g \in Given : g.ticket = o
    <3>1. PICK i \in issued : i.id = o
      BY <1>5 DEF Sign
    <3>2. [ticket |-> i.id, subject |-> i.user, device |-> i.device] \in Given
      BY DEF Given
    <3> QED
      BY <3>1, <3>2
  <2>3. Current' = Current /\ Given' = Given /\ Held' = Held
    BY <1>5 DEF Sign, Current, Given, Held
  <2>4. Stage' = Stage
    BY <1>5, StageKept DEF Sign
  <2>5. C!Sign(o)
    BY <2>1, <2>2, <2>3, <2>4 DEF C!Sign
  <2> QED
    BY <2>5 DEF C!CeremonyNext
<1>6. ASSUME NEW v \in VerReqs, NEW d \in Devices, NEW i \in Identifiers, NEW u \in Users,
             NEW a \in assertions \cup {Junk}, VerifyFound(v, d, i, u, a)
      PROVE  Goal
  <2>1. /\ pc[v] = "idle" /\ got[v] = None /\ pc' = [pc EXCEPT ![v] = "fetch"]
        /\ UNCHANGED <<got, reply, sessions, challenges, issued, assertions>>
        /\ \A w \in VerReqs \ {v} : who'[w] = who[w] /\ device'[w] = device[w]
    BY <1>6, <1>0 DEF VerifyFound, RInv, Linked, TypeOK
  <2>2. UNCHANGED Others
    BY <2>1 DEF Others, Current, Given, Signed, Held
  <2>3. ~\E s \in sessions : s.by = v
    BY <2>1 DEF RInv, Linked
  <2>4. Stage' = Stage
    BY <2>1, <2>3, <1>0 DEF Stage, StageOf, TypeOK
  <2> QED
    BY <2>2, <2>4, Kept
<1>7. ASSUME NEW v \in VerReqs, VerifyFetched(v) PROVE Goal
  <2> DEFINE ch == challenges[who[v]]
             g == [ticket |-> ch.id, subject |-> who[v], device |-> device[v]]
  <2>1. /\ pc[v] = "fetch" /\ who[v] \in Users /\ ch # None
        /\ ch.user = who[v] /\ ch.device = device[v]
        /\ got' = [got EXCEPT ![v] = ch] /\ pc' = [pc EXCEPT ![v] = "check"]
        /\ UNCHANGED <<who, device, reply, sessions, challenges, issued, assertions>>
    BY <1>7, <1>0 DEF VerifyFetched, Live, Stages, VerSteps, Objection
  <2>2. g \in Given
    <3>1. PICK i \in issued : i.id = ch.id /\ i.user = ch.user /\ i.device = ch.device
      BY <2>1 DEF RInv, IInv, Issuing, IssueOf
    <3>2. [ticket |-> i.id, subject |-> i.user, device |-> i.device] \in Given
      BY DEF Given
    <3> QED
      BY <2>1, <3>1, <3>2
  <2>3. Current[g.subject] = g.ticket
    BY <2>1 DEF Current
  <2>4. Held' = [Held EXCEPT ![v] = g]
    BY <2>1, <1>0 DEF Held, TypeOK
  <2>5. Stage[v] = "open"
    BY <2>1, StageBefore DEF Stage
  <2>6. \A w \in VerReqs : StageOf(w)' = IF w = v THEN "accepted" ELSE StageOf(w)
    BY <2>1, <2>5, <1>0 DEF Stage, StageOf, TypeOK
  <2>7. Stage' = [Stage EXCEPT ![v] = "accepted"]
    BY <2>6 DEF Stage
  <2>8. Current' = Current /\ Given' = Given /\ Signed' = Signed
    BY <2>1 DEF Current, Given, Signed
  <2>9. C!Accept(v, g)
    BY <2>2, <2>3, <2>4, <2>5, <2>7, <2>8 DEF C!Accept
  <2> QED
    BY <2>2, <2>9 DEF C!CeremonyNext
<1>8. ASSUME NEW v \in VerReqs, VerifyProven(v) \/ StoreCount(v) PROVE Goal
  <2>1. /\ pc[v] \in {"check", "store"}
        /\ \E p \in {"store", "session"} : pc' = [pc EXCEPT ![v] = p]
        /\ UNCHANGED <<reply, sessions, challenges, issued, assertions, got, who, device>>
    BY <1>8 DEF VerifyProven, StoreCount
  <2>2. UNCHANGED Others
    BY <2>1, OthersKept
  <2>3. Stage' = Stage
    BY <2>1, <1>0 DEF Stage, StageOf, TypeOK
  <2> QED
    BY <2>2, <2>3, Kept
<1>10. ASSUME NEW v \in VerReqs, CreateSession(v) PROVE Goal
  <2> DEFINE new == [user |-> who[v], exp |-> now, by |-> v]
  <2>1. /\ pc[v] = "session" /\ sessions' = sessions \cup {new}
        /\ pc' = [pc EXCEPT ![v] = "cleanup"]
        /\ UNCHANGED <<reply, challenges, issued, assertions, got, who, device>>
    BY <1>10 DEF CreateSession
  <2>2. UNCHANGED Others
    BY <2>1, OthersKept
  <2>3. Stage[v] = "accepted" /\ reply[v] # "ok"
    BY <2>1, <1>0, StageBefore DEF Stage, Stages
  <2>4. \A w \in VerReqs : (\E s \in sessions' : s.by = w) <=> w = v \/ \E s \in sessions : s.by = w
    <3>1. new.by = v
      OBVIOUS
    <3>2. sessions' = sessions \cup {new}
      BY <2>1
    <3> HIDE DEF new
    <3> QED
      BY <3>1, <3>2
  <2>5. \A w \in VerReqs : StageOf(w)' = IF w = v THEN "granted" ELSE StageOf(w)
    BY <2>1, <2>3, <2>4, <1>0 DEF StageOf, TypeOK
  <2>6. Stage' = [Stage EXCEPT ![v] = "granted"]
    BY <2>5 DEF Stage
  <2>7. /\ got[v] \in Challenge /\ proof[v].challenge = got[v].id /\ proof[v] \in assertions
    BY <2>1, <1>0 DEF Stages, VerSteps, RInv, Linked
  <2>8. Held[v].ticket \in Signed
    BY <2>7, ChallengeAssumption DEF Held, Signed
  <2>9. C!Award(v)
    BY <2>2, <2>3, <2>6, <2>8 DEF C!Award, Others
  <2> QED
    BY <2>9 DEF C!CeremonyNext
<1>11. ASSUME NEW v \in VerReqs, Cleanup(v) PROVE Goal
  <2>1. /\ pc[v] = "cleanup" /\ who[v] \in Users /\ got[v] \in Challenge
        /\ challenges' = [challenges EXCEPT ![who[v]] = None]
        /\ pc' = [pc EXCEPT ![v] = "report"]
        /\ UNCHANGED <<reply, sessions, issued, assertions, got, who, device>>
    BY <1>11, <1>0 DEF Cleanup, Stages, VerSteps
  <2>2. Stage[v] = "granted"
    BY <2>1, StageBefore DEF Stage
  <2>3. Held[v].subject = who[v]
    BY <2>1, ChallengeAssumption DEF Held
  <2>4. Current' = [Current EXCEPT ![who[v]] = None]
    BY <2>1, <1>0 DEF Current, TypeOK
  <2>5. Given' = Given /\ Signed' = Signed /\ Held' = Held
    BY <2>1 DEF Given, Signed, Held
  <2>6. Stage' = Stage
    <3>1. \E s \in sessions : s.by = v
      BY <2>1 DEF RInv, IInv, Proving
    <3> QED
      BY <2>1, <3>1, <1>0 DEF Stage, StageOf, TypeOK
  <2>7. C!Withdraw(v)
    BY <2>2, <2>3, <2>4, <2>5, <2>6 DEF C!Withdraw
  <2> QED
    BY <2>7 DEF C!CeremonyNext
<1>12. CASE Tick
  BY <1>12, OthersKept, StageKept, Kept DEF Tick
<1>13. ASSUME NEW c \in Creds, Age(c) PROVE Goal
  BY <1>13, OthersKept, StageKept, Kept DEF Age
<1>14. CASE Crash
  <2> DEFINE S == {v \in VerReqs : InFlight(v)}
  <2>1. UNCHANGED Others
    BY <1>14, OthersKept DEF Crash
  <2>2. sessions' = sessions
    BY <1>14 DEF Crash
  <2>3. \A v \in VerReqs \ S : pc'[v] = pc[v] /\ reply'[v] = reply[v]
    BY <1>14 DEF Crash
  <2>4. \A v \in S : /\ pc[v] \notin {"done", "lost"} /\ pc'[v] \in {"done", "lost"}
                     /\ reply[v] # "ok" /\ reply'[v] # "ok"
    BY <1>14, <1>0 DEF Crash, InFlight, Stages
  <2>5. S \in SUBSET VerReqs
    OBVIOUS
  <2> HIDE DEF S
  <2> QED
    BY <2>1, <2>2, <2>3, <2>4, <2>5, Closing
<1>15. CASE UNCHANGED vars
  BY <1>15, OthersKept, StageKept, Kept DEF vars
<1> QED
  BY StepShapes, <1>1, <1>2, <1>3, <1>4, <1>5, <1>6, <1>7, <1>8, <1>10, <1>11, <1>12,
     <1>13, <1>14, <1>15 DEF Step

(***************************************************************************)
(* Every behaviour of login_options and login_verify is a behaviour of     *)
(* Ceremony.                                                               *)
(***************************************************************************)
THEOREM LoginIsACeremony == Spec => ImplementsCeremony
<1>1. Init => C!CeremonyInit
  BY DEF Init, C!CeremonyInit, Current, Given, Signed, Stage, StageOf, Held, Requests
<1>2. RInv /\ [Next]_vars => [C!CeremonyNext]_C!cvars
  BY StepSimulated
<1> QED
  BY <1>1, <1>2, RefinementInductive, PTL DEF Spec, ImplementsCeremony, C!CeremonySpec

(***************************************************************************)
(* What is proved of every Ceremony holds of the login, stated of its own  *)
(* variables: a login answered 200 holds a signed challenge that was       *)
(* issued to its user and device, and Redis has that challenge no more.    *)
(***************************************************************************)
THEOREM LoginsCompleteForGood == Spec => []C!CompletedForGood
<1>1. ASSUME RInv, NEW v \in VerReqs, Stage[v] = "completed"
      PROVE  /\ Held[v] \in Given /\ Held[v].ticket \in Signed
             /\ \A u \in Users : Current[u] # Held[v].ticket
  <2>1. reply[v] = "ok"
    BY <1>1 DEF Stage, StageOf
  <2>2. PICK s \in sessions : s.by = v
    BY <1>1, <2>1 DEF RInv, IInv, Proving
  <2>3. /\ proof[v] \in assertions
        /\ \E i \in issued : /\ i.id = proof[v].challenge
                             /\ i.user = who[v] /\ i.device = device[v]
    BY <1>1, <2>2 DEF RInv, IInv, Backing, Proven
  <2>4. got[v] # None /\ proof[v].challenge = got[v].id
    BY <1>1, <2>1 DEF RInv, Linked
  <2>5. Held[v] = [ticket |-> got[v].id, subject |-> who[v], device |-> device[v]]
    BY <2>4 DEF Held
  <2>6. Held[v] \in Given
    BY <2>3, <2>4, <2>5 DEF Given
  <2>7. Held[v].ticket \in Signed
    BY <2>3, <2>4, <2>5 DEF Signed
  <2>8. ASSUME NEW u \in Users PROVE Current[u] # got[v].id
    <3>1. challenges[u] # None => challenges[u].id # proof[v].challenge
      BY <1>1, <2>1 DEF RInv, IInv, Spent
    <3>2. proof[v].challenge \in OptReqs
      BY <1>1, <2>3 DEF RInv, IInv, TypeOK, Assertion
    <3> QED
      BY <2>4, <3>1, <3>2, RequestsAssumption DEF Current, Requests
  <2> QED
    BY <2>5, <2>6, <2>7, <2>8
<1>2. RInv => C!CompletedForGood
  BY <1>1 DEF C!CompletedForGood
<1> QED
  BY <1>2, RefinementInductive, PTL
=============================================================================

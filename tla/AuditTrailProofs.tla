-------------------------- MODULE AuditTrailProofs --------------------------
(***************************************************************************)
(* The properties of AuditTrail for any callers and any number of calls.   *)
(* The strengthening says where a row that its caller staged can be: in    *)
(* the database, still in the session, or gone with a call that failed.    *)
(***************************************************************************)
EXTENDS AuditTrail, TLAPS

StagedIsWork == \A c \in Callers : \A r \in staged[c] : r \in work /\ r.caller = c

\* Rows and calls carry the number of the call that made them.
Numbered ==
    /\ \A r \in work \cup durable \cup failures : r.n <= calls[r.caller]
    /\ StagedIsWork
    /\ \A r \in work : r.way = "work"

\* An open session has a row, or the database, or a later call has lost it.
Accounted ==
    \A r \in work : outcome[r.caller] \in {"open", "committed"} =>
        \/ r \in durable \/ r \in staged[r.caller]
        \/ \E f \in failures : f.caller = r.caller /\ r.n < f.n

\* The same for a caller that was not told of an exception.
Untold ==
    \A r \in work : outcome[r.caller] = "open" /\ r.caller \notin told =>
        \/ r \in durable \/ r \in staged[r.caller] \/ ~usable[r.caller]
        \/ \E e \in swallowed : e.caller = r.caller /\ e.way = "wrapper" /\ e.n > r.n

Inv == /\ TypeOK /\ Numbered /\ Accounted /\ Untold
       /\ HalfDoneOnlyByCalls /\ WorkLostOnlyByWrapper /\ EventsAreWhole

LEMMA InitInv == Init => Inv
BY MaxCallsAssumption DEF Init, Inv, TypeOK, Numbered, StagedIsWork, Accounted, Untold, HalfDoneOnlyByCalls,
   WorkLostOnlyByWrapper, EventsAreWhole

\* The number of the next call, and the row or call it makes.
LEMMA NextCall ==
    ASSUME Inv, NEW c \in Callers, Calls(c), NEW w
    PROVE  /\ calls[c] + 1 \in 1..MaxCalls /\ outcome[c] = "open"
           /\ calls' \in [Callers -> 0..MaxCalls]
           /\ \A d \in Callers : calls'[d] = IF d = c THEN calls[c] + 1 ELSE calls[d]
           /\ RowOf(c, w).caller = c /\ RowOf(c, w).n = calls[c] + 1 /\ RowOf(c, w).way = w
           /\ w \in EventWays \cup {"work"} => RowOf(c, w) \in Row
           /\ w \in EventWays \cup {"revoke", "caller"} => RowOf(c, w) \in Call
BY MaxCallsAssumption DEF Inv, TypeOK, Calls, RowOf, Row, Call

\* The rows of the invariant are rows, and their callers callers.
LEMMA RowsAreRows ==
    ASSUME Inv
    PROVE  /\ \A r \in work \cup durable \cup swallowed :
                r.caller \in Callers /\ r.n \in Nat /\ r.n \in 1..MaxCalls
           /\ \A r \in failures \cup commits : r.caller \in Callers /\ r.n \in Nat
BY DEF Inv, TypeOK, Row, Call

LEMMA DoWorkInv == ASSUME Inv, NEW c \in Callers, DoWork(c) PROVE Inv'
<1> DEFINE new == RowOf(c, "work")
<1>1. /\ new.caller = c /\ new.n = calls[c] + 1 /\ new.way = "work" /\ new \in Row
      /\ \A d \in Callers : calls'[d] = IF d = c THEN calls[c] + 1 ELSE calls[d]
      /\ calls' \in [Callers -> 0..MaxCalls] /\ outcome[c] = "open"
  BY NextCall DEF DoWork
<1>2. /\ work' = work \cup {new}
      /\ \A d \in Callers : staged'[d] = IF d = c THEN staged[c] \cup {new} ELSE staged[d]
      /\ UNCHANGED <<usable, outcome, durable, told, swallowed, commits, failures>>
  BY DEF DoWork, Inv, TypeOK
<1> HIDE DEF new
<1>3. TypeOK'
  BY <1>1, <1>2 DEF DoWork, new, Inv, TypeOK
<1>4. Numbered'
  BY <1>1, <1>2, RowsAreRows DEF Inv, Numbered, StagedIsWork, TypeOK
<1>5. Accounted' /\ Untold'
  BY <1>1, <1>2, RowsAreRows DEF Inv, Accounted, Untold
<1>6. HalfDoneOnlyByCalls' /\ WorkLostOnlyByWrapper'
  BY <1>1, <1>2 DEF Inv, HalfDoneOnlyByCalls, WorkLostOnlyByWrapper
<1>7. EventsAreWhole'
  BY <1>1, <1>2, RowsAreRows DEF Inv, EventsAreWhole, Numbered, TypeOK
<1> QED BY <1>3, <1>4, <1>5, <1>6, <1>7 DEF Inv

\* A call that ends without a commit or a failure.
LEMMA IdleInv ==
    ASSUME Inv, NEW c \in Callers, Calls(c),
           UNCHANGED <<staged, usable, outcome, durable, told, work, swallowed, commits, failures>>
    PROVE  Inv'
<1>1. /\ \A d \in Callers : calls'[d] \in Nat /\ calls[d] \in Nat /\ calls'[d] >= calls[d]
      /\ calls' \in [Callers -> 0..MaxCalls]
  BY MaxCallsAssumption DEF Calls, Inv, TypeOK
<1>2. TypeOK'
  BY <1>1 DEF Inv, TypeOK
<1>3. Numbered'
  BY <1>1, RowsAreRows DEF Inv, Numbered, StagedIsWork
<1> QED BY <1>2, <1>3 DEF Inv, Accounted, Untold, HalfDoneOnlyByCalls, WorkLostOnlyByWrapper, EventsAreWhole

\* A commit of the session of c, by one of the functions it calls or by itself.
LEMMA CommitInv ==
    ASSUME Inv, NEW c \in Callers, Calls(c), NEW w \in EventWays \cup {"revoke", "caller"}, NEW rows,
           Commit(c, w, rows), UNCHANGED <<told, swallowed>>,
           \/ w \in EventWays /\ rows = CommittedWith(c, w)
           \/ w \notin EventWays /\ rows = staged[c],
           \/ w # "caller" /\ UNCHANGED outcome
           \/ w = "caller" /\ outcome' = [outcome EXCEPT ![c] = "committed"]
    PROVE  Inv'
<1> DEFINE new == RowOf(c, w)
<1>1. /\ new.caller = c /\ new.n = calls[c] + 1 /\ new.way = w /\ new \in Call
      /\ w \in EventWays => new \in Row
      /\ \A d \in Callers : calls'[d] = IF d = c THEN calls[c] + 1 ELSE calls[d]
      /\ calls' \in [Callers -> 0..MaxCalls] /\ outcome[c] = "open"
  BY NextCall
<1>2. /\ durable' = durable \cup rows /\ commits' = commits \cup {new} /\ usable[c]
      /\ \A d \in Callers : staged'[d] = IF d = c THEN {} ELSE staged[d]
      /\ staged' \in [Callers -> SUBSET Row]
      /\ UNCHANGED <<usable, work, failures, told, swallowed>>
  BY DEF Commit, Inv, TypeOK
<1>3. /\ staged[c] \subseteq rows /\ rows \subseteq staged[c] \cup {new}
      /\ new \in rows => w \in EventWays \/ new \in staged[c]
  BY DEF CommittedWith
<1>4. /\ outcome' \in [Callers -> {"open", "committed", "failed", "crashed"}]
      /\ \A d \in Callers : d # c => outcome'[d] = outcome[d]
      /\ outcome'[c] = IF w = "caller" THEN "committed" ELSE "open"
  BY <1>1 DEF Inv, TypeOK
<1> HIDE DEF new
<1>5. \A r \in staged[c] : r \in Row /\ r.caller = c /\ r.way = "work" /\ r.n \in Nat
  BY DEF Inv, TypeOK, Numbered, StagedIsWork, Row
<1>6. TypeOK'
  <2>1. durable' \subseteq Row
    BY <1>1, <1>2, <1>3, <1>5 DEF Inv, TypeOK
  <2> QED BY <1>1, <1>2, <1>4, <2>1 DEF Inv, TypeOK
<1>7. Numbered'
  <2>1. \A r \in work \cup durable' \cup failures : r.n <= calls'[r.caller]
    <3> SUFFICES ASSUME NEW r \in work \cup durable' \cup failures PROVE r.n <= calls'[r.caller]
      OBVIOUS
    <3>1. CASE r \in work \cup durable \cup failures
      <4>1. r.caller \in Callers /\ r.n \in Nat /\ r.n <= calls[r.caller] /\ calls[r.caller] \in Nat
        BY <3>1, RowsAreRows DEF Inv, Numbered, TypeOK
      <4> QED BY <4>1, <1>1
    <3>2. CASE r \in staged[c]
      <4> SUFFICES ASSUME r \notin durable PROVE r.n <= calls'[r.caller]
        BY <3>1
      <4>1. r \in work
        BY <3>2 DEF Inv, Numbered, StagedIsWork
      <4> QED BY <3>1, <4>1
    <3>3. CASE r = new
      BY <3>3, <1>1 DEF Inv, TypeOK
    <3> QED BY <3>1, <3>2, <3>3, <1>2, <1>3
  <2> QED BY <1>2, <2>1 DEF Inv, Numbered, StagedIsWork
<1>8. Accounted' /\ Untold'
  BY <1>1, <1>2, <1>3, <1>4, RowsAreRows DEF Inv, Accounted, Untold
<1>9. HalfDoneOnlyByCalls'
  <2> SUFFICES ASSUME NEW r \in durable', outcome'[r.caller] # "committed"
               PROVE \E k \in commits' : k.caller = r.caller /\ k.n >= r.n /\ k.way # "caller"
    BY DEF HalfDoneOnlyByCalls
  <2>1. CASE r \in durable
    <3>1. r.caller \in Callers /\ outcome[r.caller] # "committed"
      BY <2>1, <1>1, <1>4, RowsAreRows
    <3> QED BY <2>1, <3>1, <1>2 DEF Inv, HalfDoneOnlyByCalls
  <2>2. CASE r \in rows
    <3>1. r.caller = c /\ w # "caller" /\ r.n \in Nat /\ r.n <= calls[c] + 1 /\ calls[c] \in Nat
      BY <2>2, <1>1, <1>3, <1>4, <1>5, <1>7 DEF Inv, TypeOK, Numbered, StagedIsWork
    <3> QED BY <3>1, <1>1, <1>2
  <2> QED BY <1>2, <2>1, <2>2
<1>10. WorkLostOnlyByWrapper'
  <2> SUFFICES ASSUME NEW r \in work, outcome'[r.caller] = "committed", r.caller \notin told
               PROVE \/ r \in durable'
                     \/ \E e \in swallowed : e.caller = r.caller /\ e.way = "wrapper" /\ e.n > r.n
    BY <1>2 DEF WorkLostOnlyByWrapper
  <2>1. CASE r.caller = c
    BY <2>1, <1>1, <1>2, <1>3 DEF Inv, Untold
  <2>2. CASE r.caller # c
    BY <2>2, <1>2, <1>4, RowsAreRows DEF Inv, WorkLostOnlyByWrapper
  <2> QED BY <2>1, <2>2
<1>11. EventsAreWhole'
  <2> SUFFICES ASSUME NEW e \in durable', NEW r \in work, e.way # "work", r.caller = e.caller, r.n < e.n
               PROVE \/ r \in durable'
                     \/ \E f \in failures : f.caller = e.caller /\ r.n < f.n /\ f.n < e.n
    BY <1>2 DEF EventsAreWhole
  <2>1. CASE e \in durable
    BY <2>1, <1>2 DEF Inv, EventsAreWhole
  <2>2. CASE e = new
    <3>1. r.caller = c
      BY <2>2, <1>1
    <3>2. CASE r \in durable \/ r \in staged[c]
      BY <3>2, <1>2, <1>3
    <3>3. CASE \E f \in failures : f.caller = c /\ r.n < f.n
      <4>1. PICK f \in failures : f.caller = c /\ r.n < f.n
        BY <3>3
      <4>2. f.n <= calls[c] /\ calls[c] \in Nat /\ f.n \in Nat
        BY <4>1, RowsAreRows DEF Inv, Numbered, TypeOK
      <4> QED BY <2>2, <3>1, <4>1, <4>2, <1>1
    <3> QED BY <3>1, <3>2, <3>3, <1>1 DEF Inv, Accounted
  <2> QED BY <2>1, <2>2, <1>2, <1>3, <1>5
<1> QED BY <1>6, <1>7, <1>8, <1>9, <1>10, <1>11 DEF Inv

\* A call that loses the open transaction of c.
LEMMA LoseInv ==
    ASSUME Inv, NEW c \in Callers, Calls(c), NEW w \in EventWays \cup {"revoke", "caller"},
           NEW after \in BOOLEAN, Lose(c, w, after),
           \/ told' = told \cup {c} /\ swallowed' = swallowed
           \/ /\ told' = told /\ w \in EventWays /\ swallowed' = swallowed \cup {RowOf(c, w)}
              /\ w = "wrapper" \/ after = FALSE,
           \/ w # "caller" /\ UNCHANGED outcome
           \/ w = "caller" /\ outcome' = [outcome EXCEPT ![c] = "failed"]
    PROVE  Inv'
<1> DEFINE new == RowOf(c, w)
<1>1. /\ new.caller = c /\ new.n = calls[c] + 1 /\ new.way = w /\ new \in Call
      /\ w \in EventWays => new \in Row
      /\ \A d \in Callers : calls'[d] = IF d = c THEN calls[c] + 1 ELSE calls[d]
      /\ calls' \in [Callers -> 0..MaxCalls] /\ outcome[c] = "open" /\ calls[c] \in Nat
  BY NextCall DEF Inv, TypeOK
<1>2. /\ failures' = failures \cup {new}
      /\ \A d \in Callers : staged'[d] = IF d = c THEN {} ELSE staged[d]
      /\ \A d \in Callers : usable'[d] = IF d = c THEN after ELSE usable[d]
      /\ staged' \in [Callers -> SUBSET Row] /\ usable' \in [Callers -> BOOLEAN]
      /\ UNCHANGED <<durable, work, commits>>
  BY DEF Lose, Inv, TypeOK
<1>3. /\ outcome' \in [Callers -> {"open", "committed", "failed", "crashed"}]
      /\ \A d \in Callers : d # c => outcome'[d] = outcome[d]
      /\ outcome'[c] \in {"open", "failed"}
  BY <1>1 DEF Inv, TypeOK
<1>4. swallowed \subseteq swallowed' /\ told \subseteq told' /\ swallowed' \subseteq Row /\ told' \subseteq Callers
  BY <1>1 DEF Inv, TypeOK
<1>5. c \in told' \/ after = FALSE \/ (w = "wrapper" /\ new \in swallowed')
  OBVIOUS
<1> HIDE DEF new
<1>6. TypeOK'
  BY <1>1, <1>2, <1>3, <1>4 DEF Inv, TypeOK
<1>7. Numbered'
  <2>1. \A r \in work \cup durable \cup failures : r.n <= calls'[r.caller]
    BY <1>1, RowsAreRows DEF Inv, Numbered, TypeOK
  <2> QED BY <1>1, <1>2, <2>1 DEF Inv, Numbered, StagedIsWork
<1>8. \A r \in work : r.caller = c => r.n \in Nat /\ r.n < new.n
  BY <1>1, RowsAreRows DEF Inv, Numbered
<1>9. Accounted'
  BY <1>1, <1>2, <1>3, <1>8, RowsAreRows DEF Inv, Accounted
<1>10. Untold'
  <2> SUFFICES ASSUME NEW r \in work, outcome'[r.caller] = "open", r.caller \notin told'
               PROVE \/ r \in durable \/ r \in staged'[r.caller] \/ ~usable'[r.caller]
                     \/ \E e \in swallowed' : e.caller = r.caller /\ e.way = "wrapper" /\ e.n > r.n
    BY <1>2 DEF Untold
  <2>1. CASE r.caller = c
    BY <2>1, <1>1, <1>2, <1>5, <1>8
  <2>2. CASE r.caller # c
    <3>1. r.caller \in Callers /\ outcome[r.caller] = "open" /\ r.caller \notin told
      BY <2>2, <1>3, <1>4, RowsAreRows
    <3> QED BY <2>2, <3>1, <1>2, <1>4 DEF Inv, Untold
  <2> QED BY <2>1, <2>2
<1>11. HalfDoneOnlyByCalls'
  BY <1>1, <1>2, <1>3, RowsAreRows DEF Inv, HalfDoneOnlyByCalls
<1>12. WorkLostOnlyByWrapper'
  BY <1>1, <1>2, <1>3, <1>4, RowsAreRows DEF Inv, WorkLostOnlyByWrapper
<1>13. EventsAreWhole'
  BY <1>2 DEF Inv, EventsAreWhole
<1> QED BY <1>6, <1>7, <1>9, <1>10, <1>11, <1>12, <1>13 DEF Inv

LEMMA GiveUpInv ==
    ASSUME Inv, NEW c \in Callers, NEW how \in {"failed", "crashed"}, GiveUp(c, how)
    PROVE  Inv'
<1>1. /\ \A d \in Callers : outcome'[d] = IF d = c THEN how ELSE outcome[d]
      /\ outcome' \in [Callers -> {"open", "committed", "failed", "crashed"}] /\ outcome[c] = "open"
      /\ \A d \in Callers : staged'[d] = IF d = c THEN {} ELSE staged[d]
      /\ staged' \in [Callers -> SUBSET Row]
      /\ UNCHANGED <<calls, usable, durable, told, work, swallowed, commits, failures>>
  BY DEF GiveUp, Inv, TypeOK
<1>2. TypeOK' /\ Numbered'
  BY <1>1 DEF Inv, TypeOK, Numbered, StagedIsWork
<1>3. Accounted' /\ Untold' /\ WorkLostOnlyByWrapper' /\ HalfDoneOnlyByCalls'
  BY <1>1, RowsAreRows DEF Inv, Accounted, Untold, WorkLostOnlyByWrapper, HalfDoneOnlyByCalls
<1>4. EventsAreWhole'
  BY <1>1 DEF Inv, EventsAreWhole
<1> QED BY <1>2, <1>3, <1>4 DEF Inv

LEMMA StepInv == Inv /\ [Next]_vars => Inv'
<1> SUFFICES ASSUME Inv, [Next]_vars PROVE Inv'
  OBVIOUS
<1>1. CASE UNCHANGED vars
  BY <1>1 DEF vars, Inv, TypeOK, Numbered, StagedIsWork, Accounted, Untold, WorkLostOnlyByWrapper, HalfDoneOnlyByCalls,
              EventsAreWhole
<1>2. ASSUME NEW c \in Callers, DoWork(c) PROVE Inv'
  BY <1>2, DoWorkInv
<1>3. ASSUME NEW c \in Callers, ServiceLog(c) PROVE Inv'
  <2>1. CASE Records(c, "service")
    BY <1>3, <2>1, CommitInv DEF ServiceLog, Records, EventWays
  <2>2. CASE ServiceLoses(c)
    BY <1>3, <2>2, LoseInv DEF ServiceLog, ServiceLoses, EventWays
  <2> QED BY <1>3, <2>1, <2>2 DEF ServiceLog
<1>4. ASSUME NEW c \in Callers, LogEvent(c) PROVE Inv'
  <2>1. CASE Records(c, "logger")
    BY <1>4, <2>1, CommitInv DEF LogEvent, Records, EventWays
  <2>2. CASE Raises(c, "logger")
    BY <1>4, <2>2, LoseInv DEF LogEvent, Raises, EventWays
  <2> QED BY <1>4, <2>1, <2>2 DEF LogEvent
<1>5. ASSUME NEW c \in Callers, LogQuietly(c) PROVE Inv'
  <2>1. CASE Records(c, "wrapper")
    BY <1>5, <2>1, CommitInv DEF LogQuietly, Records, EventWays
  <2>2. CASE WrapperLoses(c)
    BY <1>5, <2>2, LoseInv DEF LogQuietly, WrapperLoses, EventWays
  <2> QED BY <1>5, <2>1, <2>2 DEF LogQuietly
<1>6. ASSUME NEW c \in Callers, Revoke(c) PROVE Inv'
  <2>1. CASE Commit(c, "revoke", staged[c]) /\ UNCHANGED <<outcome, told, swallowed>>
    BY <1>6, <2>1, CommitInv DEF Revoke, EventWays
  <2>2. CASE Raises(c, "revoke")
    BY <1>6, <2>2, LoseInv DEF Revoke, Raises, EventWays
  <2>3. CASE UNCHANGED <<staged, usable, outcome, durable, told, work, swallowed, commits, failures>>
    BY <1>6, <2>3, IdleInv DEF Revoke
  <2> QED BY <1>6, <2>1, <2>2, <2>3 DEF Revoke
<1>7. ASSUME NEW c \in Callers, CommitWork(c) PROVE Inv'
  <2>1. CASE Commit(c, "caller", staged[c]) /\ outcome' = [outcome EXCEPT ![c] = "committed"]
             /\ UNCHANGED told
    BY <1>7, <2>1, CommitInv DEF CommitWork, EventWays
  <2>2. CASE Lose(c, "caller", TRUE) /\ outcome' = [outcome EXCEPT ![c] = "failed"] /\ told' = told \cup {c}
    BY <1>7, <2>2, LoseInv DEF CommitWork, EventWays
  <2> QED BY <1>7, <2>1, <2>2 DEF CommitWork
<1>8. ASSUME NEW c \in Callers, NEW how \in {"failed", "crashed"}, GiveUp(c, how) PROVE Inv'
  BY <1>8, GiveUpInv
<1> QED BY <1>1, <1>2, <1>3, <1>4, <1>5, <1>6, <1>7, <1>8 DEF Next

LEMMA Invariance == Spec => []Inv
  BY InitInv, StepInv, PTL DEF Spec

-----------------------------------------------------------------------------
\* Every variable has its type, for any callers and any number of calls.
THEOREM TypeCorrect == Spec => []TypeOK
  BY Invariance, PTL DEF Inv

\* A unit of work is broken up only by the functions that commit its session.
THEOREM HalvesComeFromCalls == Spec => []HalfDoneOnlyByCalls
  BY Invariance, PTL DEF Inv

\* A caller that was never told of an exception loses work before a successful
\* commit only to the wrappers of audit.py.
THEOREM LossesComeFromWrappers == Spec => []WorkLostOnlyByWrapper
  BY Invariance, PTL DEF Inv

\* No event is in the database without what was staged before it.
THEOREM EventsFollowTheirWork == Spec => []EventsAreWhole
  BY Invariance, PTL DEF Inv
=============================================================================

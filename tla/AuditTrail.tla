----------------------------- MODULE AuditTrail -----------------------------
(***************************************************************************)
(* Audit events written through the AsyncSession of their caller.          *)
(*                                                                         *)
(* A caller (a request handler) has one session.  It stages rows in it,    *)
(* and calls functions that commit that session themselves:                *)
(*   service   SecurityService.log_security_event: catches what the commit *)
(*             raises and does not roll back                               *)
(*   logger    AuditLogger.log_event, audit.log_security_event: rolls back *)
(*             and raises                                                  *)
(*   wrapper   log_login_attempt, log_registration, log_credential_added,  *)
(*             log_token_issued: catch what log_event raises               *)
(*   revoke    WebAuthnService.revoke_credential: rolls back and raises;   *)
(*             what it should delete it does not (delete is not awaited)   *)
(* The caller's own commit is the way "caller".                            *)
(*                                                                         *)
(* A failed commit takes all that is staged with it and leaves the session *)
(* unusable (every use of it raises) until it is rolled back.  A commit    *)
(* may fail at any time; with asyncpg that of an AuditLogger event always  *)
(* does, for its time stamp has a zone and the column has none.            *)
(***************************************************************************)
EXTENDS Naturals

CONSTANTS
    Callers,
    MaxCalls        \* bound on the calls of one caller

ASSUME MaxCallsAssumption == MaxCalls \in Nat

VARIABLES
    calls,          \* number of calls each caller has made; numbers the rows
    staged,         \* rows in the open transaction of each session
    usable,         \* a failed commit has been rolled back
    outcome,        \* what each caller has come to
    durable,        \* rows in the database
    told,           \* callers that have met an exception
    work,           \* history: the rows callers staged themselves
    swallowed,      \* history: events lost without an exception
    commits,        \* history: the commits that succeeded
    failures        \* history: the calls that lost what was staged

vars == <<calls, staged, usable, outcome, durable, told, work, swallowed, commits, failures>>

EventWays == {"service", "logger", "wrapper"}
Row == [caller : Callers, n : 1..MaxCalls, way : EventWays \cup {"work"}]
Call == [caller : Callers, n : 1..MaxCalls, way : EventWays \cup {"revoke", "caller"}]

\* Every variable has its type.
TypeOK ==
    /\ calls \in [Callers -> 0..MaxCalls]
    /\ staged \in [Callers -> SUBSET Row]
    /\ usable \in [Callers -> BOOLEAN]
    /\ outcome \in [Callers -> {"open", "committed", "failed", "crashed"}]
    /\ durable \subseteq Row /\ told \subseteq Callers
    /\ work \subseteq Row /\ swallowed \subseteq Row
    /\ commits \subseteq Call /\ failures \subseteq Call

Init ==
    /\ calls = [c \in Callers |-> 0]
    /\ staged = [c \in Callers |-> {}]
    /\ usable = [c \in Callers |-> TRUE]
    /\ outcome = [c \in Callers |-> "open"]
    /\ durable = {} /\ told = {} /\ work = {} /\ swallowed = {} /\ commits = {} /\ failures = {}

RowOf(c, w) == [caller |-> c, n |-> calls[c] + 1, way |-> w]

Calls(c) ==
    /\ outcome[c] = "open" /\ calls[c] < MaxCalls
    /\ calls' = [calls EXCEPT ![c] = @ + 1]

\* The rows of a session become durable; those of other sessions do not matter.
Commit(c, w, rows) ==
    /\ usable[c]
    /\ durable' = durable \cup rows
    /\ staged' = [staged EXCEPT ![c] = {}]
    /\ commits' = commits \cup {RowOf(c, w)}
    /\ UNCHANGED <<usable, work, failures>>

\* Nothing of the open transaction is left; "after": whether a rollback followed.
Lose(c, w, after) ==
    /\ staged' = [staged EXCEPT ![c] = {}]
    /\ usable' = [usable EXCEPT ![c] = after]
    /\ failures' = failures \cup {RowOf(c, w)}
    /\ UNCHANGED <<durable, work, commits>>

\* The caller adds or changes a row, or reads under an open transaction.
DoWork(c) ==
    /\ Calls(c)
    /\ staged' = [staged EXCEPT ![c] = @ \cup {RowOf(c, "work")}]
    /\ work' = work \cup {RowOf(c, "work")}
    /\ UNCHANGED <<usable, outcome, durable, told, swallowed, commits, failures>>

\* Variant: the event is committed in a transaction of its own.
CommittedWithAlone(c, w) == {RowOf(c, w)}

\* The commit of an event is the commit of whatever its caller has staged.
CommittedWith(c, w) == staged[c] \cup {RowOf(c, w)}

Records(c, w) ==
    /\ Commit(c, w, CommittedWith(c, w))
    /\ UNCHANGED <<outcome, told, swallowed>>

\* Variant: log_security_event rolls back like the others.
ServiceLosesAndRollsBack(c) ==
    /\ Lose(c, "service", TRUE)
    /\ swallowed' = swallowed \cup {RowOf(c, "service")}
    /\ UNCHANGED <<outcome, told>>

ServiceLoses(c) ==
    /\ Lose(c, "service", FALSE)
    /\ swallowed' = swallowed \cup {RowOf(c, "service")}
    /\ UNCHANGED <<outcome, told>>

ServiceLog(c) == Calls(c) /\ (Records(c, "service") \/ ServiceLoses(c))

\* Variant: the exception is none the caller's handlers know.
RaisesUnknown(c, w) ==
    /\ Lose(c, w, TRUE)
    /\ outcome' = [outcome EXCEPT ![c] = "unknown"]
    /\ UNCHANGED <<told, swallowed>>

\* The exception reaches the caller, which may go on.
Raises(c, w) ==
    /\ Lose(c, w, TRUE)
    /\ told' = told \cup {c}
    /\ UNCHANGED <<outcome, swallowed>>

LogEvent(c) == Calls(c) /\ (Records(c, "logger") \/ Raises(c, "logger"))

WrapperLoses(c) ==
    /\ Lose(c, "wrapper", TRUE)
    /\ swallowed' = swallowed \cup {RowOf(c, "wrapper")}
    /\ UNCHANGED <<outcome, told>>

LogQuietly(c) == Calls(c) /\ (Records(c, "wrapper") \/ WrapperLoses(c))

\* A credential that is not found is answered False at once; of one that is found
\* nothing is deleted, but the caller's rows are committed.
Revoke(c) ==
    /\ Calls(c)
    /\ \/ usable[c] /\ UNCHANGED <<staged, usable, outcome, durable, told, work, swallowed, commits, failures>>
       \/ Commit(c, "revoke", staged[c]) /\ UNCHANGED <<outcome, told, swallowed>>
       \/ Raises(c, "revoke")

\* The caller's own commit; its except clause rolls back and answers with an error.
CommitWork(c) ==
    /\ Calls(c)
    /\ \/ /\ Commit(c, "caller", staged[c])
          /\ outcome' = [outcome EXCEPT ![c] = "committed"]
          /\ UNCHANGED told
       \/ /\ Lose(c, "caller", TRUE)
          /\ outcome' = [outcome EXCEPT ![c] = "failed"]
          /\ told' = told \cup {c}
    /\ UNCHANGED swallowed

\* Variant: the session is closed with a commit.
GiveUpCommitting(c, how) ==
    /\ outcome[c] = "open"
    /\ outcome' = [outcome EXCEPT ![c] = how]
    /\ durable' = durable \cup staged[c]
    /\ staged' = [staged EXCEPT ![c] = {}]
    /\ UNCHANGED <<calls, usable, told, work, swallowed, commits, failures>>

\* The caller answers with an error of its own, or dies; its session is closed.
GiveUp(c, how) ==
    /\ outcome[c] = "open"
    /\ outcome' = [outcome EXCEPT ![c] = how]
    /\ staged' = [staged EXCEPT ![c] = {}]
    /\ UNCHANGED <<calls, usable, durable, told, work, swallowed, commits, failures>>

Next == \E c \in Callers :
    \/ DoWork(c) \/ ServiceLog(c) \/ LogEvent(c) \/ LogQuietly(c) \/ Revoke(c) \/ CommitWork(c)
    \/ \E how \in {"failed", "crashed"} : GiveUp(c, how)

Spec == Init /\ [][Next]_vars

-----------------------------------------------------------------------------
(***************************************************************************)
(* A caller that did not commit has a row in the database only when a      *)
(* function it called after that row committed its session: audit events   *)
(* and revocations break up the unit of work of their caller, nothing else *)
(* does.                                                                   *)
(***************************************************************************)
HalfDoneOnlyByCalls ==
    \A r \in durable : outcome[r.caller] # "committed" =>
        \E k \in commits : k.caller = r.caller /\ k.n >= r.n /\ k.way # "caller"

(***************************************************************************)
(* A caller whose commit succeeded and that never met an exception has all *)
(* its rows, unless one of the audit.py wrappers lost an event after them: *)
(* the wrappers roll back the work of their caller and do not tell.        *)
(* (log_security_event loses events silently too, but it leaves the        *)
(* session unusable, and the caller's commit fails.)                       *)
(***************************************************************************)
WorkLostOnlyByWrapper ==
    \A r \in work : outcome[r.caller] = "committed" /\ r.caller \notin told =>
        \/ r \in durable
        \/ \E e \in swallowed : e.caller = r.caller /\ e.way = "wrapper" /\ e.n > r.n

(***************************************************************************)
(* An event in the database is preceded there by every row its caller had  *)
(* staged, but for those that an earlier failed call has lost: the trail   *)
(* does not tell of work that is still to be decided.                      *)
(***************************************************************************)
EventsAreWhole ==
    \A e \in durable, r \in work :
        e.way # "work" /\ r.caller = e.caller /\ r.n < e.n =>
            \/ r \in durable
            \/ \E f \in failures : f.caller = e.caller /\ r.n < f.n /\ f.n < e.n
=============================================================================

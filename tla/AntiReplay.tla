----------------------------- MODULE AntiReplay -----------------------------
(***************************************************************************)
(* AntiReplayMiddleware: the nonce cache of every server process, and what *)
(* _check_replay_protection decides with it.  The check has no await, so   *)
(* the caller uses it as one atomic step.  The caches start empty and are  *)
(* lost when the process stops.                                            *)
(***************************************************************************)
EXTENDS Integers, FiniteSets

CONSTANTS
    Procs,              \* incarnations of the server process
    Requests,           \* deliveries of messages
    Nonces,             \* values of the x-nonce header
    None,               \* an absent header
    Garbage,            \* an x-timestamp that float() refuses
    Window,             \* window_seconds
    CleanupInterval,    \* seconds between two clean-ups
    MaxNonces           \* the cache may hold that many when cleaned up

ASSUME ReplayAssumption ==
    /\ Window \in Nat /\ CleanupInterval \in Nat /\ MaxNonces \in Nat
    /\ None \notin Nonces

VARIABLES
    nonces,         \* _nonce_cache of each process
    lastCleanup,    \* _last_cleanup of each process
    era,            \* history: how often the process has cleared its cache
    admitted        \* history: the requests whose nonce was taken, and in which era

replayVars == <<nonces, lastCleanup, era, admitted>>

Admission == [proc : Procs, nonce : Nonces, req : Requests, era : Nat]

ReplayTypeOK ==
    /\ nonces \in [Procs -> SUBSET Nonces]
    /\ lastCleanup \in [Procs -> Nat]
    /\ era \in [Procs -> Nat]
    /\ admitted \subseteq Admission

ReplayInit ==
    /\ nonces = [p \in Procs |-> {}]
    /\ lastCleanup = [p \in Procs |-> 0]
    /\ era = [p \in Procs |-> 0]
    /\ admitted = {}

\* A process builds its middleware, or ends, at time t.
ReplayReset(p, t) ==
    /\ nonces' = [nonces EXCEPT ![p] = {}]
    /\ lastCleanup' = [lastCleanup EXCEPT ![p] = t]
    /\ UNCHANGED <<era, admitted>>

\* Variant: a time stamp that is no number is taken for none.
CheckedIfNumeric(m) == m.stamp \notin {None, Garbage} /\ m.nonce # None

\* The check takes place only for a message that has both headers.
Checked(m) == m.stamp # None /\ m.nonce # None

Stale(m, t) == m.stamp # Garbage /\ (t - m.stamp > Window \/ m.stamp - t > Window)

Repeated(p, m) == m.nonce \in nonces[p]

\* Why process p refuses m at time t, or None.
Refusal(p, m, t) ==
    CASE m.stamp = Garbage -> "format"
      [] Stale(m, t) -> "stale"
      [] m.stamp # Garbage /\ ~Stale(m, t) /\ Repeated(p, m) -> "replay"
      [] OTHER -> None

\* Variant: the nonce is added before the checks.
RefuseRemembering(p, m) ==
    /\ nonces' = [nonces EXCEPT ![p] = @ \cup {m.nonce}]
    /\ UNCHANGED <<lastCleanup, era, admitted>>

\* A refusal leaves no trace.
Refuse(p, m) == UNCHANGED replayVars

CleanupDue(p, t) == t - lastCleanup[p] > CleanupInterval

\* Variant: every clean-up clears.
ClearsAnySize(p, m, t) == CleanupDue(p, t)

\* A clean-up clears a cache that holds too much, the nonce just added included.
Clears(p, m, t) ==
    CleanupDue(p, t) /\ Cardinality(nonces[p] \cup {m.nonce}) > MaxNonces

\* The nonce is taken, and the cache cleaned up when it is time to.
Admit(p, m, r, t) ==
    /\ nonces' = [nonces EXCEPT ![p] = IF Clears(p, m, t) THEN {} ELSE @ \cup {m.nonce}]
    /\ era' = [era EXCEPT ![p] = IF Clears(p, m, t) THEN @ + 1 ELSE @]
    /\ lastCleanup' = [lastCleanup EXCEPT ![p] = IF CleanupDue(p, t) THEN t ELSE @]
    /\ admitted' = admitted \cup
                     {[proc |-> p, nonce |-> m.nonce, req |-> r, era |-> era[p]]}

-----------------------------------------------------------------------------
\* The nonces process p took in one era.
TakenIn(p, e) == {a.nonce : a \in {b \in admitted : b.proc = p /\ b.era = e}}

(***************************************************************************)
(* A process takes a nonce a second time only after it has taken more than *)
(* MaxNonces different ones since it took it the first time and forgotten  *)
(* them all: within the window the clean-up is the only hole in the        *)
(* replay protection of one process.                                       *)
(***************************************************************************)
NonceOnce ==
    \A a, b \in admitted :
        a # b /\ a.proc = b.proc /\ a.nonce = b.nonce /\ a.era <= b.era =>
            /\ a.era < b.era
            /\ Cardinality(TakenIn(a.proc, a.era)) > MaxNonces
=============================================================================

---------------------------- MODULE RateLimiter ----------------------------
(***************************************************************************)
(* SecurityService.is_rate_limited as the server processes run it: every   *)
(* process keeps its own in-memory _rate_limit_cache, which starts empty   *)
(* and is lost when the process stops.  A process serves its calls one at  *)
(* a time (the function has no await), so a call is one atomic action.     *)
(***************************************************************************)
EXTENDS SlidingWindow

CONSTANTS
    Procs,      \* incarnations of the server process (a restart is a new one)
    Clients,    \* values of client_ip
    Actions,    \* values of the "action" argument
    Limits,     \* RATE_LIMITS: action |-> [attempts, window]
    MaxTime,    \* bound on the clock
    MaxCalls    \* bound on the number of calls

ASSUME LimitsAssumption ==
    /\ DOMAIN Limits \subseteq Actions
    /\ \A a \in DOMAIN Limits : Limits[a] \in [attempts : Nat \ {0}, window : Nat \ {0}]

ASSUME BoundsAssumption == MaxTime \in Nat /\ MaxCalls \in Nat

VARIABLES
    now,        \* time.time()
    calls,      \* number of calls made so far; numbers the entries
    state,      \* state[p]: "new", "up" or "down"
    cache,      \* cache[p][c][a]: the entries of key "c:a" in process p
    served,     \* history: served[p][c][a], the calls p answered False
    refused     \* history: refused[p][c][a], the calls p answered True

vars == <<now, calls, state, cache, served, refused>>

Entry == [n : Nat, at : Nat]

\* Every counter and cache entry has its type.
TypeOK ==
    /\ now \in Nat
    /\ calls \in Nat
    /\ state \in [Procs -> {"new", "up", "down"}]
    /\ cache \in [Procs -> [Clients -> [DOMAIN Limits -> SUBSET Entry]]]
    /\ served \in [Procs -> [Clients -> [Actions -> SUBSET Entry]]]
    /\ refused \in [Procs -> [Clients -> [Actions -> SUBSET Entry]]]

Init ==
    /\ now = 0
    /\ calls = 0
    /\ state = [p \in Procs |-> "new"]
    /\ cache = [p \in Procs |-> [c \in Clients |-> [a \in DOMAIN Limits |-> {}]]]
    /\ served = [p \in Procs |-> [c \in Clients |-> [a \in Actions |-> {}]]]
    /\ refused = [p \in Procs |-> [c \in Clients |-> [a \in Actions |-> {}]]]

Tick ==
    /\ now < MaxTime
    /\ now' = now + 1
    /\ UNCHANGED <<calls, state, cache, served, refused>>

Start(p) ==
    /\ state[p] = "new"
    /\ state' = [state EXCEPT ![p] = "up"]
    /\ UNCHANGED <<now, calls, cache, served, refused>>

\* The process ends and takes its cache with it.
Stop(p) ==
    /\ state[p] = "up"
    /\ state' = [state EXCEPT ![p] = "down"]
    /\ cache' = [cache EXCEPT ![p] = [c \in Clients |-> [a \in DOMAIN Limits |-> {}]]]
    /\ UNCHANGED <<now, calls, served, refused>>

\* An action without a limit ("global" is one) is answered False at once.
CallUnlimited(p, c, a) ==
    /\ a \notin DOMAIN Limits
    /\ served' = [served EXCEPT ![p][c][a] = @ \cup {[n |-> calls, at |-> now]}]
    /\ UNCHANGED <<cache, refused>>

CallServed(p, c, a) ==
    /\ a \in DOMAIN Limits
    /\ ~Limited(cache[p][c][a], Limits[a], now)
    /\ cache' = [cache EXCEPT ![p][c][a] = Recorded(@, Limits[a], calls, now)]
    /\ served' = [served EXCEPT ![p][c][a] = @ \cup {[n |-> calls, at |-> now]}]
    /\ UNCHANGED refused

CallRefused(p, c, a) ==
    /\ a \in DOMAIN Limits
    /\ Limited(cache[p][c][a], Limits[a], now)
    /\ cache' = [cache EXCEPT ![p][c][a] = Recorded(@, Limits[a], calls, now)]
    /\ refused' = [refused EXCEPT ![p][c][a] = @ \cup {[n |-> calls, at |-> now]}]
    /\ UNCHANGED served

Call(p, c, a) ==
    /\ state[p] = "up"
    /\ calls < MaxCalls
    /\ calls' = calls + 1
    /\ \/ CallUnlimited(p, c, a)
       \/ CallServed(p, c, a)
       \/ CallRefused(p, c, a)
    /\ UNCHANGED <<now, state>>

Next ==
    \/ Tick
    \/ \E p \in Procs : Start(p) \/ Stop(p)
    \/ \E p \in Procs, c \in Clients, a \in Actions : Call(p, c, a)

Spec == Init /\ [][Next]_vars

-----------------------------------------------------------------------------
\* The calls of a history that lie in the window that ends at t.
InWindow(entries, limit, t) == {e \in Recent(entries, limit, t) : e.at <= t}

(***************************************************************************)
(* Whatever way the calls of a client are spread over time, one process    *)
(* serves at most "attempts" of them in any interval one window long.      *)
(* (is_rate_limited cleans, counts and appends on a moving list; the       *)
(* boundary is the entry exactly one window old.)                          *)
(***************************************************************************)
WindowBound ==
    \A p \in Procs, c \in Clients, a \in DOMAIN Limits : \A t \in 0..now :
        Cardinality(InWindow(served[p][c][a], Limits[a], t)) <= Limits[a].attempts

(***************************************************************************)
(* No client is refused early: behind every refusal stand exactly          *)
(* "attempts" served calls of the same process in the window that ends     *)
(* there, so refusals never prolong themselves.                            *)
(***************************************************************************)
RefusedOnlyWhenFull ==
    \A p \in Procs, c \in Clients, a \in DOMAIN Limits : \A r \in refused[p][c][a] :
        Cardinality({e \in InWindow(served[p][c][a], Limits[a], r.at) : e.n < r.n})
            = Limits[a].attempts

(***************************************************************************)
(* The pruned list is as good as the whole history: a process answers      *)
(* every call as if it remembered all it ever served, however its calls,   *)
(* clean-ups and the clock are ordered (Limiter).                          *)
(***************************************************************************)
L == INSTANCE Limiter
ImplementsLimiter == L!Spec
=============================================================================

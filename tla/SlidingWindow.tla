--------------------------- MODULE SlidingWindow ---------------------------
(***************************************************************************)
(* The bookkeeping of SecurityService.is_rate_limited for one key of       *)
(* _rate_limit_cache.  The code keeps a Python list of time.time() values; *)
(* it only ever filters that list and takes its length, so the list is     *)
(* modelled as a set of entries [n |-> call, at |-> time], where the call  *)
(* number n keeps two attempts of the same instant apart.  A limit is a    *)
(* value of RATE_LIMITS: [attempts |-> ..., window |-> ...].               *)
(***************************************************************************)
EXTENDS Integers, FiniteSets

\* Variant: an entry exactly one window old is kept.
RecentInclusive(entries, limit, t) == {e \in entries : e.at >= t - limit.window}

\* What the clean-up keeps: an entry exactly one window old is dropped.
Recent(entries, limit, t) == {e \in entries : e.at > t - limit.window}

\* Variant: one call more than the limit is let through.
LimitedOffByOne(entries, limit, t) ==
    Cardinality(Recent(entries, limit, t)) > limit.attempts

\* The answer of is_rate_limited.
Limited(entries, limit, t) ==
    Cardinality(Recent(entries, limit, t)) >= limit.attempts

\* Variant: window_start is recorded in place of current_time.
RecordedAtWindowStart(entries, limit, n, t) ==
    Recent(entries, limit, t) \cup
        {e \in {[n |-> n, at |-> t - limit.window]} : ~Limited(entries, limit, t)}

\* The cache after call n at time t: a refused call cleans but is not recorded.
Recorded(entries, limit, n, t) ==
    Recent(entries, limit, t) \cup
        {e \in {[n |-> n, at |-> t]} : ~Limited(entries, limit, t)}
=============================================================================

--------------------------- MODULE MCRateLimiter ---------------------------
(* A small instance of RateLimiter for TLC. *)
EXTENDS RateLimiter, TLC
CONSTANTS p1, p2

MCActions == {"registration", "global"}

\* RATE_LIMITS scaled down; an action without a limit, as "global", is never refused.
MCLimits == [registration |-> [attempts |-> 2, window |-> 3]]

Symmetry == Permutations({p1, p2})
=============================================================================

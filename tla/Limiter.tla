------------------------------ MODULE Limiter ------------------------------
(***************************************************************************)
(* What is_rate_limited promises, whatever it keeps in memory: a process   *)
(* remembers every call it ever let through, and refuses the next one      *)
(* exactly when as many of the client's calls as the limit allows lie      *)
(* less than a window back.  Nothing else makes it refuse: no other        *)
(* client, action or process, and no refused call.                         *)
(*                                                                         *)
(* RateLimiter implements this module with a list that it prunes.          *)
(***************************************************************************)
EXTENDS Integers, FiniteSets

CONSTANTS Procs, Clients, Actions, Limits

VARIABLES now, calls, served, refused

lvars == <<now, calls, served, refused>>

NoCalls == [p \in Procs |-> [c \in Clients |-> [a \in Actions |-> {}]]]

Init == now = 0 /\ calls = 0 /\ served = NoCalls /\ refused = NoCalls

\* The client has used up its limit for the window that ends now.
Exhausted(p, c, a) ==
    /\ a \in DOMAIN Limits
    /\ Cardinality({e \in served[p][c][a] : now - e.at < Limits[a].window}) >= Limits[a].attempts

Entered(calls_of, p, c, a) ==
    [calls_of EXCEPT ![p][c][a] = @ \cup {[n |-> calls, at |-> now]}]

Tick == now' = now + 1 /\ UNCHANGED <<calls, served, refused>>

Answer(p, c, a) ==
    /\ calls' = calls + 1
    /\ \/ Exhausted(p, c, a) /\ refused' = Entered(refused, p, c, a) /\ UNCHANGED served
       \/ ~Exhausted(p, c, a) /\ served' = Entered(served, p, c, a) /\ UNCHANGED refused
    /\ UNCHANGED now

Next == Tick \/ \E p \in Procs, c \in Clients, a \in Actions : Answer(p, c, a)

Spec == Init /\ [][Next]_lvars
=============================================================================

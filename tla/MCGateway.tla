----------------------------- MODULE MCGateway -----------------------------
(* A small instance of Gateway for TLC. *)
EXTENDS Gateway, TLC

CONSTANTS p1, r1, r2, r3, look

Plain == [look |-> look, route |-> "post_auth", stamp |-> 1, nonce |-> "n1",
          foreign |-> FALSE, huge |-> FALSE, odd |-> {}]

\* Two messages with nonces.
ReplayMessages == {Plain, [Plain EXCEPT !.nonce = "n2"]}

\* One of everything else the layers tell apart.
OddMessages ==
    {[Plain EXCEPT !.foreign = TRUE], [Plain EXCEPT !.stamp = Garbage], [Plain EXCEPT !.stamp = 3],
     [Plain EXCEPT !.nonce = None, !.huge = TRUE, !.odd = {"insecure", "content"}],
     [Plain EXCEPT !.route = "other", !.odd = {"slow"}], [Plain EXCEPT !.route = "preflight"]}

MCMessages == ReplayMessages \cup OddMessages

FileRank == [l \in {"INFO", "WARNING", "ERROR"} |->
                CASE l = "INFO" -> 1 [] l = "WARNING" -> 2 [] OTHER -> 3]

\* Three requests that repeat nonces; or two, one of them of any kind, while the log
\* is cleared and a file fails.
Received == {r \in Requests : msg[r] # None}
Bounded ==
    \/ /\ clears = {} /\ broken = {}
       /\ \A r \in Received : msg[r] \in ReplayMessages
    \/ /\ now <= 1 /\ Cardinality(Received) <= 2
       /\ Cardinality({r \in Received : msg[r] # Plain}) <= 1

Symmetry == Permutations({r1, r2, r3})
=============================================================================

------------------------------ MODULE MCLogin ------------------------------
(* Small instances of Login for TLC. *)
EXTENDS Login, TLC

CONSTANTS u1, u2, c1, c2, o1, o2, v1, v2

\* One account with one credential, on two devices behind one address.
OneEmail == [u \in {u1} |-> "e1"]
OneName == [u \in {u1} |-> "n1"]
OneOwner == [c \in {c1} |-> u1]
OneAddress == [d \in {"d1", "d2"} |-> "ip1"]
OwnAgents == [d \in {"d1", "d2"} |-> IF d = "d1" THEN "a1" ELSE "a2"]

\* Two accounts; the username of the second is the e-mail of the first.
TwoEmails == [u \in {u1, u2} |-> IF u = u1 THEN "e1" ELSE "e2"]
TwoNames == [u \in {u1, u2} |-> IF u = u1 THEN "n1" ELSE "e1"]
LoneAddress == [d \in {"d1"} |-> "ip1"]
LoneAgent == [d \in {"d1"} |-> "a1"]

\* A limit that is never reached, and one request per second.
TightLimit == [attempts |-> 1, window |-> 1]
WideLimit == [attempts |-> 2, window |-> 2]

Symmetry == Permutations({o1, o2}) \cup Permutations({v1, v2})
=============================================================================

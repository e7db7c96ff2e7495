--------------------------- MODULE MCRegistration ---------------------------
(* Small instances of Registration for TLC. *)
EXTENDS Registration, TLC

CONSTANTS e1, e2, o1, o2, v1, v2, v3

TwoAddresses == [d \in {"d1", "d2"} |-> "ip1"]
LoneAddress == [d \in {"d1"} |-> "ip1"]

\* Two requests per window, and one: the second is refused.
WideLimit == [attempts |-> 2, window |-> 2]
TightLimit == [attempts |-> 1, window |-> 1]

Symmetry == Permutations({e1, e2}) \cup Permutations({o1, o2}) \cup Permutations({v1, v2, v3})
=============================================================================

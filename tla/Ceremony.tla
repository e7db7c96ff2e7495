------------------------------ MODULE Ceremony ------------------------------
(***************************************************************************)
(* What a WebAuthn ceremony promises, whichever of the two it is and       *)
(* however the server does it.                                             *)
(*                                                                         *)
(* The server hands a ticket (the challenge of an options response) to a   *)
(* subject (a user who logs in, an e-mail that registers) at a device.  An *)
(* authenticator signs tickets.  A claim (a verify request) that the       *)
(* server lets in holds the ticket that is current for its subject; it is  *)
(* granted (a session, an account) only for a signed ticket, and told that *)
(* it succeeded only when the ticket it holds is current no more.          *)
(*                                                                         *)
(* Login and Registration implement this module; Page is built on it.      *)
(***************************************************************************)
CONSTANTS Subjects, Devices, Tickets, Claims, None

VARIABLES
    current,        \* the ticket a claim of each subject may hold, or None
    given,          \* which subject and device each ticket was issued to
    signed,         \* tickets an authenticator has answered
    stage,          \* how far each claim has come
    held            \* what a claim that was let in holds, or None

cvars == <<current, given, signed, stage, held>>

Grant == [ticket : Tickets, subject : Subjects, device : Devices]
Stages == {"open", "accepted", "granted", "completed", "closed"}

\* Every variable has its type.
CeremonyTypeOK ==
    /\ current \in [Subjects -> Tickets \cup {None}]
    /\ given \subseteq Grant
    /\ signed \subseteq Tickets
    /\ stage \in [Claims -> Stages]
    /\ held \in [Claims -> Grant \cup {None}]

CeremonyInit ==
    /\ current = [s \in Subjects |-> None]
    /\ given = {} /\ signed = {}
    /\ stage = [c \in Claims |-> "open"]
    /\ held = [c \in Claims |-> None]

\* A new ticket replaces the one the subject had.
Issue(t, s, d) ==
    /\ \A g \in given : g.ticket # t
    /\ given' = given \cup {[ticket |-> t, subject |-> s, device |-> d]}
    /\ current' = [current EXCEPT ![s] = t]
    /\ UNCHANGED <<signed, stage, held>>

Sign(t) ==
    /\ \E g \in given : g.ticket = t
    /\ t \notin signed
    /\ signed' = signed \cup {t}
    /\ UNCHANGED <<current, given, stage, held>>

\* The claim is let in with the ticket that is current for its subject.
Accept(c, g) ==
    /\ stage[c] = "open"
    /\ g \in given /\ current[g.subject] = g.ticket
    /\ stage' = [stage EXCEPT ![c] = "accepted"]
    /\ held' = [held EXCEPT ![c] = g]
    /\ UNCHANGED <<current, given, signed>>

\* What the claim asked for becomes durable.
Award(c) ==
    /\ stage[c] = "accepted"
    /\ held[c].ticket \in signed
    /\ stage' = [stage EXCEPT ![c] = "granted"]
    /\ UNCHANGED <<current, given, signed, held>>

\* Whatever ticket the subject of a granted claim has now is withdrawn.
Withdraw(c) ==
    /\ stage[c] = "granted"
    /\ current' = [current EXCEPT ![held[c].subject] = None]
    /\ UNCHANGED <<given, signed, stage, held>>

\* Variant: the client is told without a look at the ticket.
CompleteUnwithdrawn(c) ==
    /\ stage[c] = "granted"
    /\ stage' = [stage EXCEPT ![c] = "completed"]
    /\ UNCHANGED <<current, given, signed, held>>

\* The client is told of its success.
Complete(c) ==
    /\ stage[c] = "granted"
    /\ current[held[c].subject] # held[c].ticket
    /\ stage' = [stage EXCEPT ![c] = "completed"]
    /\ UNCHANGED <<current, given, signed, held>>

\* Claims come to nothing: one that is refused, or all that a process dies with.
Close(S) ==
    /\ \A c \in S : stage[c] \in {"open", "accepted"}
    /\ stage' = [c \in Claims |-> IF c \in S THEN "closed" ELSE stage[c]]
    /\ UNCHANGED <<current, given, signed, held>>

CeremonyNext ==
    \/ \E t \in Tickets, s \in Subjects, d \in Devices : Issue(t, s, d)
    \/ \E t \in Tickets : Sign(t)
    \/ \E c \in Claims, g \in given : Accept(c, g)
    \/ \E c \in Claims : Award(c) \/ Withdraw(c) \/ Complete(c)
    \/ \E S \in SUBSET Claims : Close(S)

CeremonySpec == CeremonyInit /\ [][CeremonyNext]_cvars

-----------------------------------------------------------------------------

(***************************************************************************)
(* A completed claim holds a signed ticket that was issued to its subject  *)
(* and device, and no later claim can be let in with it: the promise the   *)
(* two verify handlers make with their 200.                                *)
(***************************************************************************)
CompletedForGood ==
    \A c \in Claims : stage[c] = "completed" =>
        /\ held[c] \in given /\ held[c].ticket \in signed
        /\ \A s \in Subjects : current[s] # held[c].ticket
=============================================================================

-------------------------------- MODULE Page --------------------------------
(***************************************************************************)
(* The React page and the server together: handleRegister, handleLogin and *)
(* getUserInfo of App.tsx, the two ceremonies as Ceremony specifies them,  *)
(* access tokens and GET /userinfo.                                        *)
(*                                                                         *)
(* A click starts a run of a handler.  The page does not wait for it:      *)
(* further clicks start more runs, each with the input fields and the      *)
(* token as they were rendered at its click, and all of them write to the  *)
(* same token and message.  A run is the claim of a ceremony, and its      *)
(* options request draws the ticket of the same name.  A run may see a     *)
(* network error while its request is on the way, being served, or         *)
(* answered; the server does not notice.                                   *)
(***************************************************************************)
EXTENDS Ceremony, Integers

CONSTANTS
    Users,
    Known,          \* users that are registered at the start
    Pages, Device,  \* Device[p]: the browser a page is open in
    Asks,           \* clicks on "Get User Info"
    TokenTTL,       \* ACCESS_TOKEN_EXPIRE_MINUTES
    MaxTime         \* bound on the clock

ASSUME PageAssumption ==
    /\ Subjects = {"login", "register"} \X Users /\ Tickets = Claims
    /\ Known \subseteq Users /\ Device \in [Pages -> Devices]
    /\ TokenTTL \in Nat /\ MaxTime \in Nat

VARIABLES
    now,
    at,             \* the await each run is suspended at
    page, subj,     \* the page of a run, and whose ceremony it is
    request,        \* the request of a run the server has not answered, or "none"
    answer,         \* the answer on its way to the run, or "none"
    minted,         \* the access token a login was granted
    token,          \* state of each page: the token of its last login
    message,        \* state of each page: what it shows, and which click it is about
    asked           \* getUserInfo: page and token at the click, and the answer

pvars == <<now, at, page, subj, request, answer, minted, token, message, asked>>
vars == <<cvars, pvars>>

Token == [user : Users, exp : Nat, by : Claims]
Ask == [page : Pages, token : Token, answer : {"none", "info", "refused"}, served : Nat, ended : BOOLEAN]
Shown == {"input", "failed", "done", "info"}

\* The absent value is none of those it stands in for.
ASSUME NoneAssumption ==
    None \notin Tickets /\ None \notin Grant /\ None \notin Token /\ None \notin Ask

\* Every variable has its type.
TypeOK ==
    /\ CeremonyTypeOK
    /\ now \in Nat
    /\ at \in [Claims -> {"unused", "options", "prompt", "verify", "ended"}]
    /\ page \in [Claims -> Pages \cup {None}]
    /\ subj \in [Claims -> Subjects \cup {None}]
    /\ request \in [Claims -> {"none", "options", "verify"}]
    /\ answer \in [Claims -> {"none", "ok", "refused"}]
    /\ minted \in [Claims -> Token \cup {None}]
    /\ token \in [Pages -> Token \cup {None}]
    /\ message \in [Pages -> [what : Shown, of : Claims \cup Asks \cup {None}]]
    /\ asked \in [Asks -> Ask \cup {None}]

Init ==
    /\ CeremonyInit
    /\ now = 0
    /\ at = [r \in Claims |-> "unused"]
    /\ page = [r \in Claims |-> None] /\ subj = [r \in Claims |-> None]
    /\ request = [r \in Claims |-> "none"] /\ answer = [r \in Claims |-> "none"]
    /\ minted = [r \in Claims |-> None]
    /\ token = [p \in Pages |-> None]
    /\ message = [p \in Pages |-> [what |-> "input", of |-> None]]
    /\ asked = [a \in Asks |-> None]

Tick ==
    /\ now < MaxTime
    /\ now' = now + 1
    /\ UNCHANGED <<cvars, at, page, subj, request, answer, minted, token, message, asked>>

-----------------------------------------------------------------------------
(* handleRegister and handleLogin *)

Ends(r, what) ==
    /\ at' = [at EXCEPT ![r] = "ended"]
    /\ message' = [message EXCEPT ![page[r]] = [what |-> what, of |-> r]]

\* The fields are filled in; a click that finds them empty only says so.
Click(r, p, s) ==
    /\ at[r] = "unused"
    /\ at' = [at EXCEPT ![r] = "options"]
    /\ page' = [page EXCEPT ![r] = p] /\ subj' = [subj EXCEPT ![r] = s]
    /\ request' = [request EXCEPT ![r] = "options"]
    /\ UNCHANGED <<cvars, now, answer, minted, token, message, asked>>

ClickEmpty(p) ==
    /\ message' = [message EXCEPT ![p] = [what |-> "input", of |-> None]]
    /\ UNCHANGED <<cvars, now, at, page, subj, request, answer, minted, token, asked>>

GotOptions(r) ==
    /\ at[r] = "options" /\ answer[r] # "none"
    /\ answer' = [answer EXCEPT ![r] = "none"]
    /\ \/ answer[r] = "ok" /\ at' = [at EXCEPT ![r] = "prompt"] /\ UNCHANGED message
       \/ answer[r] = "refused" /\ Ends(r, "failed")
    /\ UNCHANGED <<cvars, now, page, subj, request, minted, token, asked>>

\* startRegistration, startAuthentication: the user confirms, or cancels.
Prompt(r) ==
    /\ at[r] = "prompt"
    /\ \/ /\ Sign(r)
          /\ at' = [at EXCEPT ![r] = "verify"]
          /\ request' = [request EXCEPT ![r] = "verify"]
          /\ UNCHANGED message
       \/ Ends(r, "failed") /\ UNCHANGED <<cvars, request>>
    /\ UNCHANGED <<now, page, subj, answer, minted, token, asked>>

IsLogin(r) == subj[r][1] = "login"

\* Variant: an earlier token is kept.
TokenKept(r) ==
    IF IsLogin(r) /\ token[page[r]] = None THEN [token EXCEPT ![page[r]] = minted[r]] ELSE token

\* handleLogin keeps the access token; handleRegister does not look at its answer.
TokenAfter(r) == IF IsLogin(r) THEN [token EXCEPT ![page[r]] = minted[r]] ELSE token

GotVerify(r) ==
    /\ at[r] = "verify" /\ answer[r] # "none"
    /\ \/ answer[r] = "ok" /\ token' = TokenAfter(r) /\ Ends(r, "done")
       \/ answer[r] = "refused" /\ Ends(r, "failed") /\ UNCHANGED token
    /\ UNCHANGED <<cvars, now, page, subj, request, answer, minted, asked>>

\* axios gives up on a request: it was lost, its answer was, or the server died.
NetworkError(r) ==
    /\ at[r] \in {"options", "verify"}
    /\ Ends(r, "failed")
    /\ UNCHANGED <<cvars, now, page, subj, request, answer, minted, token, asked>>

-----------------------------------------------------------------------------
(* The server: what Login and Registration do, as Ceremony has it *)

Answers(r, what) ==
    /\ request' = [request EXCEPT ![r] = "none"]
    /\ answer' = [answer EXCEPT ![r] = what]

Registered(u) ==
    \/ u \in Known
    \/ \E c \in Claims : /\ stage[c] \in {"granted", "completed"}
                         /\ held[c].subject = <<"register", u>>

\* A login is for a user there is, a registration for one there is not.
Admissible(s) == Registered(s[2]) <=> s[1] = "login"

ServeOptions(r) ==
    /\ request[r] = "options"
    /\ \/ /\ Admissible(subj[r])
          /\ Issue(r, subj[r], Device[page[r]])
          /\ Answers(r, "ok")
       \/ Answers(r, "refused") /\ UNCHANGED cvars
    /\ UNCHANGED <<now, at, page, subj, minted, token, message, asked>>

AcceptVerify(r) ==
    /\ request[r] = "verify"
    /\ \E g \in given : /\ g.subject = subj[r] /\ g.device = Device[page[r]]
                        /\ Accept(r, g)
    /\ UNCHANGED pvars

RefuseVerify(r) ==
    /\ request[r] = "verify"
    /\ Answers(r, "refused")
    /\ \/ stage[r] = "granted" /\ UNCHANGED cvars
       \/ Close({r})
    /\ UNCHANGED <<now, at, page, subj, minted, token, message, asked>>

\* Variant: what the authenticator signed is not compared with what is held.
ProvesAnything(r) == TRUE

\* The credential in the request was made over the ticket the run was issued.
Proves(r) == held[r].ticket = r

\* Variant: the lifetime is taken off the current time.
ExpiryPast == now - TokenTTL

\* create_access_token: the token runs out TokenTTL from now.
Expiry == now + TokenTTL

AwardVerify(r) ==
    /\ request[r] = "verify" /\ stage[r] = "accepted"
    /\ Proves(r) /\ Admissible(subj[r])
    /\ Award(r)
    /\ minted' = IF IsLogin(r)
                 THEN [minted EXCEPT ![r] = [user |-> subj[r][2], exp |-> Expiry, by |-> r]]
                 ELSE minted
    /\ UNCHANGED <<now, at, page, subj, request, answer, token, message, asked>>

WithdrawVerify(r) ==
    /\ request[r] = "verify" /\ Withdraw(r)
    /\ UNCHANGED pvars

CompleteVerify(r) ==
    /\ request[r] = "verify"
    /\ Complete(r)
    /\ Answers(r, "ok")
    /\ UNCHANGED <<now, at, page, subj, minted, token, message, asked>>

\* The server stops and is started again: what it was serving is not answered.
ServerDies ==
    /\ \E r \in Claims : request[r] # "none"
    /\ request' = [r \in Claims |-> "none"]
    /\ Close({r \in Claims : request[r] = "verify" /\ stage[r] \in {"open", "accepted"}})
    /\ UNCHANGED <<now, at, page, subj, answer, minted, token, message, asked>>

-----------------------------------------------------------------------------
(* getUserInfo, GET /userinfo and get_current_user *)

\* The button is there once the page has a token.
ClickInfo(a, p) ==
    /\ asked[a] = None /\ token[p] # None
    /\ asked' = [asked EXCEPT ![a] =
                    [page |-> p, token |-> token[p], answer |-> "none", served |-> 0,
                     ended |-> FALSE]]
    /\ UNCHANGED <<cvars, now, at, page, subj, request, answer, minted, token, message>>

\* Variant: the expiry is not looked at.
HonouredForever(t) == Registered(t.user)

\* A token is honoured up to the second it expires in; the session is not consulted.
Honoured(t) == t.exp >= now /\ Registered(t.user)

ServeInfo(a) ==
    /\ asked[a] # None /\ asked[a].answer = "none"
    /\ asked' = [asked EXCEPT ![a].answer = IF Honoured(asked[a].token) THEN "info" ELSE "refused",
                              ![a].served = now]
    /\ UNCHANGED <<cvars, now, at, page, subj, request, answer, minted, token, message>>

\* The answer is shown, or an error because it was refused or lost.
GotInfo(a) ==
    /\ asked[a] # None /\ ~asked[a].ended
    /\ asked' = [asked EXCEPT ![a].ended = TRUE]
    /\ \E what \in {"failed"} \cup ({"info"} \cap {asked[a].answer}) :
         message' = [message EXCEPT ![asked[a].page] = [what |-> what, of |-> a]]
    /\ UNCHANGED <<cvars, now, at, page, subj, request, answer, minted, token>>

Next ==
    \/ Tick \/ ServerDies
    \/ \E r \in Claims, p \in Pages, s \in Subjects : Click(r, p, s)
    \/ \E p \in Pages : ClickEmpty(p)
    \/ \E r \in Claims :
         \/ GotOptions(r) \/ Prompt(r) \/ GotVerify(r) \/ NetworkError(r)
         \/ ServeOptions(r) \/ AcceptVerify(r) \/ RefuseVerify(r) \/ AwardVerify(r)
         \/ WithdrawVerify(r) \/ CompleteVerify(r)
    \/ \E a \in Asks : ServeInfo(a) \/ GotInfo(a) \/ \E p \in Pages : ClickInfo(a, p)

Spec == Init /\ [][Next]_vars

-----------------------------------------------------------------------------
(***************************************************************************)
(* Whatever runs overlap, a page holds only a token of a registered user   *)
(* that a login of that page earned by signing the ticket it was issued.   *)
(***************************************************************************)
TokenIsEarned ==
    \A p \in Pages : token[p] # None =>
        LET r == token[p].by
        IN  /\ page[r] = p /\ subj[r] = <<"login", token[p].user>>
            /\ stage[r] = "completed" /\ held[r].ticket = r /\ r \in signed
            /\ Registered(token[p].user)

(***************************************************************************)
(* A page that shows a success shows that of a completed ceremony, and     *)
(* when it is a login the page holds the token of that login: the message  *)
(* and the token are never of two different runs.                          *)
(***************************************************************************)
MessageIsHonest ==
    \A p \in Pages : message[p].what = "done" =>
        LET r == message[p].of
        IN  /\ stage[r] = "completed" /\ Registered(subj[r][2])
            /\ IsLogin(r) => token[p] # None /\ token[p].by = r

(***************************************************************************)
(* User information is shown only for a token that came from a login of    *)
(* the page, at most TokenTTL before the request was served.               *)
(***************************************************************************)
InfoIsFresh ==
    \A p \in Pages : message[p].what = "info" =>
        LET a == asked[message[p].of]
        IN  a.page = p /\ a.served <= a.token.exp /\ minted[a.token.by] = a.token
            /\ page[a.token.by] = p
=============================================================================

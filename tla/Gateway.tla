------------------------------ MODULE Gateway ------------------------------
(***************************************************************************)
(* The layers every HTTP request passes on its way to a route and back,    *)
(* in the order they have at run time: the one added last is outermost.    *)
(*                                                                         *)
(*   global_exception_handler, LoggingMiddleware, CORSMiddleware,          *)
(*   AntiReplayMiddleware, BiometricSecurityMiddleware,                    *)
(*   SecurityMiddleware, the router                                        *)
(*                                                                         *)
(* A request may be suspended on its way from layer to layer.  What the    *)
(* two inner layers do before the route, and what SecurityMiddleware does  *)
(* after it, only writes to the log and is one action with its neighbour.  *)
(* Requests share the nonce cache and the log cache of their process; the  *)
(* log files outlive processes.                                            *)
(* A message may be delivered again, to the same or to another process.    *)
(*                                                                         *)
(* The rate limit SecurityMiddleware asks for is that of the action        *)
(* "global", which has none (CallUnlimited in RateLimiter).                *)
(***************************************************************************)
EXTENDS AntiReplay, Logger

CONSTANTS
    Looks,          \* what a request line shows: client, method, path, user agent
    Stamps,         \* values of x-timestamp that are numbers
    Messages,       \* the messages clients send
    Breakable,      \* the levels whose file may become unwritable
    MaxClears,      \* bound on the calls of clear_logs
    MaxTime         \* bound on the clock

\* route: what the layers do with the path and method; foreign: its origin is
\* not one BiometricSecurityMiddleware knows; odd: what is warned about and let
\* through, and whether the route may take more than five seconds over it.
Message == [look : Looks, route : {"post_auth", "auth", "other", "preflight"},
            stamp : Stamps \cup {None, Garbage}, nonce : Nonces \cup {None},
            foreign : BOOLEAN, huge : BOOLEAN, odd : SUBSET {"insecure", "content", "slow"}]

Reasons == {"format", "stale", "replay", "origin", "size", "route", "crash"}
Codes == {200, 400, 413, 500}
Layers == {"replay", "inner", "route", "answered", "raised"}

ASSUME MessagesAssumption ==
    /\ Messages \subseteq Message
    /\ Stamps \subseteq Int /\ {None, Garbage} \cap Stamps = {} /\ None # Garbage
    /\ None \notin Messages /\ None \notin Procs /\ None \notin Reasons
    /\ LogProcs = Procs /\ {"INFO", "WARNING", "ERROR"} \subseteq Levels
    /\ Breakable \subseteq Levels

VARIABLES
    now,            \* whole seconds
    up,             \* up[p]: "new", "up" or "down"
    pc,             \* the layer each request has come to
    home,           \* the process that serves it
    msg,            \* the message it delivers
    cause,          \* why a layer or the route refused it, or None
    answer          \* HTTP status on its way to the client, or None

vars == <<now, up, pc, home, msg, cause, answer, replayVars, logVars>>

\* Every variable has its type.
TypeOK ==
    /\ now \in Nat
    /\ up \in [Procs -> {"new", "up", "down"}]
    /\ pc \in [Requests -> {"idle", "done", "lost"} \cup Layers]
    /\ home \in [Requests -> Procs \cup {None}]
    /\ msg \in [Requests -> Messages \cup {None}]
    /\ cause \in [Requests -> Reasons \cup {None}]
    /\ answer \in [Requests -> Codes \cup {None}]
    /\ ReplayTypeOK /\ LogTypeOK

Init ==
    /\ now = 0
    /\ up = [p \in Procs |-> "new"]
    /\ pc = [r \in Requests |-> "idle"]
    /\ home = [r \in Requests |-> None]
    /\ msg = [r \in Requests |-> None]
    /\ cause = [r \in Requests |-> None]
    /\ answer = [r \in Requests |-> None]
    /\ ReplayInit /\ LogInit

\* A text: what it is, and the parts of the request and the answer it shows.
Text(what, about) == [what |-> what, about |-> about]
LineAt(level, text) == [level |-> level, text |-> text, at |-> now]

Tick ==
    /\ now < MaxTime
    /\ now' = now + 1
    /\ UNCHANGED <<up, pc, home, msg, cause, answer, replayVars, logVars>>

-----------------------------------------------------------------------------
(* Processes *)

Starting == LineAt("INFO", Text("starting", <<>>))
Started == LineAt("INFO", Text("started", <<>>))

\* lifespan; without the database it raises and the process ends.
Start(p) ==
    /\ up[p] = "new"
    /\ \/ /\ up' = [up EXCEPT ![p] = "up"]
          /\ Write(p, {Starting, Started})
       \/ /\ up' = [up EXCEPT ![p] = "down"]
          /\ Write(p, {Starting})
    /\ ReplayReset(p, now)
    /\ UNCHANGED <<now, pc, home, msg, cause, answer>>

ServedBy(p) == {r \in Requests : home[r] = p /\ pc[r] \in Layers}

\* The process ends with its caches and the requests it was serving.
Stop(p) ==
    /\ up[p] = "up"
    /\ up' = [up EXCEPT ![p] = "down"]
    /\ pc' = [r \in Requests |-> IF r \in ServedBy(p) THEN "lost" ELSE pc[r]]
    /\ logCache' = Forgotten(p)
    /\ ReplayReset(p, now)
    /\ UNCHANGED <<now, home, msg, cause, answer, onFile, broken, logged, doubled, clears>>

Clear(p, targets) ==
    /\ up[p] = "up" /\ Cardinality(clears) < MaxClears
    /\ ClearLogs(p, targets, now)
    /\ UNCHANGED <<now, up, pc, home, msg, cause, answer, replayVars>>

Break(l) ==
    /\ Toggle(l)
    /\ UNCHANGED <<now, up, pc, home, msg, cause, answer, replayVars>>

-----------------------------------------------------------------------------
(* The way in *)

Goes(r, layer) == pc' = [pc EXCEPT ![r] = layer]

\* A layer refuses the request, and the status it gets for that is on its way.
Refused(r, why, code, layer) ==
    /\ Goes(r, layer)
    /\ cause' = [cause EXCEPT ![r] = why]
    /\ answer' = [answer EXCEPT ![r] = code]

\* Variant: an exception no handler takes has no status.
RaisedUnanswered(r, why) == Refused(r, why, 0, "raised")

\* An HTTPException raised outside the router meets no handler of HTTPExceptions:
\* global_exception_handler makes it a 500.
Raised(r, why) == Refused(r, why, 500, "raised")

Passes(r, layer) == Goes(r, layer) /\ UNCHANGED <<cause, answer>>

\* LoggingMiddleware logs the request; CORSMiddleware answers a preflight itself.
Receive(r, p, m) ==
    /\ pc[r] = "idle" /\ up[p] = "up"
    /\ home' = [home EXCEPT ![r] = p]
    /\ msg' = [msg EXCEPT ![r] = m]
    /\ Write(p, {LineAt("INFO", Text("request", <<m.look>>))})
    /\ IF m.route = "preflight"
       THEN /\ Goes(r, "answered")
            /\ \E code \in {200, 400} : answer' = [answer EXCEPT ![r] = code]
            /\ UNCHANGED cause
       ELSE Passes(r, "replay")
    /\ UNCHANGED <<now, up, replayVars>>

ReplayLine(why, m) ==
    IF why = "replay" THEN LineAt("ERROR", Text(why, <<m.nonce>>))
                      ELSE LineAt("WARNING", Text(why, <<m.stamp>>))

\* AntiReplayMiddleware looks at POST requests below /auth/ that have both headers.
CheckReplay(r) ==
    LET p == home[r]
        m == msg[r]
        why == Refusal(p, m, now)
    IN /\ pc[r] = "replay"
       /\ \/ /\ ~(m.route = "post_auth" /\ Checked(m))
             /\ Passes(r, "inner")
             /\ UNCHANGED <<replayVars, logVars>>
          \/ /\ m.route = "post_auth" /\ Checked(m) /\ why = None
             /\ Passes(r, "inner")
             /\ Admit(p, m, r, now)
             /\ Write(p, IF Clears(p, m, now)
                         THEN {LineAt("INFO", Text("cleared", <<>>))} ELSE {})
          \/ /\ m.route = "post_auth" /\ Checked(m) /\ why # None
             /\ Raised(r, why)
             /\ Refuse(p, m)
             /\ Write(p, {ReplayLine(why, m)})
       /\ UNCHANGED <<now, up, home, msg>>

OddLines(m) ==
    {LineAt("WARNING", Text(w, <<>>)) :
        w \in m.odd \cap IF m.route = "post_auth" THEN {"insecure", "content"} ELSE {"insecure"}}

\* BiometricSecurityMiddleware looks at the origin of requests below /auth/;
\* SecurityMiddleware warns of what it lets through, and answers what it refuses.
EnterRoute(r) ==
    LET m == msg[r]
        badOrigin == m.route # "other" /\ m.foreign
    IN /\ pc[r] = "inner"
       /\ \/ /\ badOrigin
             /\ Raised(r, "origin")
             /\ Write(home[r], {LineAt("WARNING", Text("origin", <<>>))})
          \/ /\ ~badOrigin /\ m.huge
             /\ Refused(r, "size", 413, "answered")
             /\ Write(home[r], OddLines(m) \cup {LineAt("WARNING", Text("size", <<>>))})
          \/ /\ ~badOrigin /\ ~m.huge
             /\ Passes(r, "route")
             /\ Write(home[r], OddLines(m))
       /\ UNCHANGED <<now, up, home, msg, replayVars>>

CrashLines == {LineAt("ERROR", Text("error", <<>>)), LineAt("ERROR", Text("traceback", <<>>))}

\* What the log shows of the time a request took.
Durations(m) == IF "slow" \in m.odd THEN {"quick", "slow"} ELSE {"quick"}

\* The metrics of an answer, logged when it was slow or is an error.
MetricLines(m, code, took) ==
    IF took = "slow" THEN {LineAt("WARNING", Text("slow", <<m.look, code>>))}
    ELSE IF code >= 400 THEN {LineAt("INFO", Text("metrics", <<m.look, code>>))}
    ELSE {}

\* The route answers, refuses, or raises what SecurityMiddleware answers with a 500.
Route(r) ==
    /\ pc[r] = "route"
    /\ \/ /\ Goes(r, "answered")
          /\ answer' = [answer EXCEPT ![r] = 200] /\ UNCHANGED cause
          /\ \E took \in Durations(msg[r]) : Write(home[r], MetricLines(msg[r], 200, took))
       \/ /\ Refused(r, "route", 400, "answered")
          /\ \E took \in Durations(msg[r]) : Write(home[r], MetricLines(msg[r], 400, took))
       \/ /\ Refused(r, "crash", 500, "answered")
          /\ Write(home[r], CrashLines)
    /\ UNCHANGED <<now, up, home, msg, replayVars>>

-----------------------------------------------------------------------------
(* The way out *)

\* LoggingMiddleware logs the answer, or what passes it by as an exception.
Respond(r) ==
    /\ pc[r] \in {"answered", "raised"}
    /\ Goes(r, "done")
    /\ \E took \in Durations(msg[r]) :
         Write(home[r], {IF pc[r] = "answered"
                         THEN LineAt("INFO", Text("response", <<msg[r], answer[r], took>>))
                         ELSE LineAt("ERROR", Text("exception", <<msg[r], cause[r], answer[r], took>>))})
    /\ UNCHANGED <<now, up, home, msg, cause, answer, replayVars>>

Next ==
    \/ Tick
    \/ \E p \in Procs : Start(p) \/ Stop(p) \/ Clear(p, Levels)
    \/ \E p \in Procs, l \in Levels : Clear(p, {l})
    \/ \E l \in Breakable : Break(l)
    \/ \E r \in Requests, p \in Procs, m \in Messages : Receive(r, p, m)
    \/ \E r \in Requests : CheckReplay(r) \/ EnterRoute(r) \/ Route(r) \/ Respond(r)

Spec == Init /\ [][Next]_vars

-----------------------------------------------------------------------------
(***************************************************************************)
(* A request is refused as a replay only when an earlier request brought   *)
(* the nonce to the same process and had it taken: refusals of the other   *)
(* kinds leave no nonce behind, and a client may try again with it.        *)
(***************************************************************************)
ReplayHasOriginal ==
    \A r \in Requests : cause[r] = "replay" =>
        \E a \in admitted : a.proc = home[r] /\ a.nonce = msg[r].nonce /\ a.req # r

\* A POST below /auth/ with both headers that the replay check did not refuse.
Passed(r) ==
    /\ pc[r] \in {"inner", "route", "answered", "raised", "done"}
    /\ msg[r].route = "post_auth" /\ msg[r].stamp # None /\ msg[r].nonce # None
    /\ cause[r] \notin {"format", "stale", "replay"}

(***************************************************************************)
(* A process lets two requests with one nonce past the check only when it  *)
(* took the nonce and has since forgotten it in a clean-up, with more than *)
(* MaxNonces others; whatever their time stamps are, and wherever in the   *)
(* layers the requests overtake each other.                                *)
(***************************************************************************)
PassedOnce ==
    \A q, r \in Requests :
        q # r /\ Passed(q) /\ Passed(r) /\ home[q] = home[r] /\ msg[q].nonce = msg[r].nonce =>
            \E a \in admitted :
                /\ a.proc = home[r] /\ a.nonce = msg[r].nonce /\ a.era < era[a.proc]
                /\ Cardinality(TakenIn(a.proc, a.era)) > MaxNonces

(***************************************************************************)
(* What the checks of the request headers refuse is answered 400, the      *)
(* status they raise.  (The comment on the stack says that the security    *)
(* layers are outermost; then SecurityMiddleware would answer it so.)      *)
(***************************************************************************)
RefusedWith400 ==
    \A r \in Requests :
        cause[r] \in {"format", "stale", "replay", "origin"} => answer[r] = 400
=============================================================================

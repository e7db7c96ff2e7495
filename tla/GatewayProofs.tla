--------------------------- MODULE GatewayProofs ---------------------------
(***************************************************************************)
(* The safety properties of Gateway, for any processes, requests, messages *)
(* and bounds.  The inductive invariant has three parts: what the nonce    *)
(* caches hold (ReplayInv), what the log caches hold (LogInv), and where   *)
(* the requests are (FlowInv).                                             *)
(***************************************************************************)
EXTENDS Gateway, TLAPS

\* The process has not ended; one that has not started has empty caches.
Alive(p) == up[p] # "down"

\* The nonces a process holds are those it took in its present era; in each era
\* before it took too many, and in none a nonce twice.
Holding == \A p \in Procs : Alive(p) => nonces[p] = TakenIn(p, era[p])
ErasFull == \A p \in Procs, e \in Nat : e < era[p] => Cardinality(TakenIn(p, e)) > MaxNonces
ErasPast == \A a \in admitted : a.era <= era[a.proc]
OncePerEra ==
    \A a, b \in admitted : a.proc = b.proc /\ a.nonce = b.nonce /\ a.era = b.era => a = b
Unused == \A p \in Procs : up[p] = "new" => nonces[p] = {}
ReplayInv == Holding /\ ErasFull /\ ErasPast /\ OncePerEra /\ Unused

\* A request is served by a live process, and takes its nonce on the way in.
Served == \A r \in Requests : pc[r] \in Layers =>
              home[r] \in Procs /\ msg[r] \in Messages /\ up[home[r]] = "up"
Blameless == \A r \in Requests : pc[r] \in {"idle", "replay", "inner", "route"} => cause[r] = None
TakenOnEntry == \A a \in admitted : pc[a.req] \notin {"idle", "replay"}
TakenFor(r) == \E a \in admitted : a.req = r /\ a.proc = home[r] /\ a.nonce = msg[r].nonce
PassedTaken == \A r \in Requests : Passed(r) => TakenFor(r)
FlowInv == Served /\ Blameless /\ TakenOnEntry /\ PassedTaken /\ ReplayHasOriginal

\* What a live process remembers it has logged, and what is in the files it
\* remembers unless it has called clear_logs since.
InThePast ==
    /\ \A w \in onFile \cup logged : w.line.at <= now
    /\ \A c \in clears : c.at <= now
Remembering == \A p \in Procs : Alive(p) =>
                   \A l \in logCache[p] : [proc |-> p, line |-> l] \in logged
Suppressing == \A w \in onFile : Alive(w.proc) =>
                   \/ w.line \in logCache[w.proc]
                   \/ \E c \in clears : c.proc = w.proc /\ c.at >= w.line.at
Shaped == \A w \in onFile \cup logged : w = [proc |-> w.proc, line |-> w.line]
LogInv == InThePast /\ Remembering /\ Suppressing /\ Shaped /\ LogComplete /\ LogDeduplicated

GatewayInv == TypeOK /\ ReplayInv /\ FlowInv /\ LogInv

-----------------------------------------------------------------------------
(* The nonce cache *)

\* A refusal and every step that leaves the nonce caches alone keep ReplayInv, as
\* long as no process comes back.
LEMMA ReplayUntouched ==
    ASSUME ReplayInv, UNCHANGED replayVars,
           \A p \in Procs : Alive(p)' => Alive(p),
           \A p \in Procs : up'[p] = "new" => up[p] = "new"
    PROVE  ReplayInv'
BY DEF ReplayInv, Holding, ErasFull, ErasPast, OncePerEra, Unused, TakenIn, replayVars

\* A process that starts or ends.
LEMMA ReplayResets ==
    ASSUME TypeOK, ReplayInv, NEW p \in Procs, NEW t \in Nat, ReplayReset(p, t),
           up[p] = "new" \/ ~Alive(p)', up'[p] # "new",
           \A q \in Procs \ {p} : up'[q] = up[q]
    PROVE  ReplayInv'
<1>1. UNCHANGED <<era, admitted>> /\ \A q \in Procs : nonces'[q] = IF q = p THEN {} ELSE nonces[q]
  BY DEF ReplayReset, TypeOK, ReplayTypeOK
<1>2. Holding'
  <2> SUFFICES ASSUME NEW q \in Procs, Alive(q)' PROVE nonces'[q] = TakenIn(q, era[q])
    BY <1>1 DEF Holding, TakenIn
  <2>1. CASE q = p
    BY <1>1, <2>1 DEF ReplayInv, Holding, Unused, Alive
  <2>2. CASE q # p
    BY <1>1, <2>2 DEF ReplayInv, Holding, Alive
  <2> QED BY <2>1, <2>2
<1>3. Unused'
  BY <1>1 DEF ReplayInv, Unused
<1> QED
  BY <1>1, <1>2, <1>3 DEF ReplayInv, ErasFull, ErasPast, OncePerEra, TakenIn

\* A live process takes a nonce it does not hold.
LEMMA ReplayAdmits ==
    ASSUME TypeOK, ReplayInv, NEW p \in Procs, up[p] = "up", NEW m \in Messages, NEW r \in Requests,
           NEW t \in Nat, m.nonce \in Nonces, m.nonce \notin nonces[p], Admit(p, m, r, t),
           UNCHANGED up
    PROVE  /\ ReplayInv' /\ ReplayTypeOK'
           /\ admitted' = admitted \cup {[proc |-> p, nonce |-> m.nonce, req |-> r, era |-> era[p]]}
<1> DEFINE new == [proc |-> p, nonce |-> m.nonce, req |-> r, era |-> era[p]]
<1>1. admitted' = admitted \cup {new}
  BY DEF Admit
<1>2. nonces[p] = TakenIn(p, era[p]) /\ era[p] \in Nat /\ lastCleanup[p] \in Nat
  BY DEF ReplayInv, Holding, Alive, TypeOK, ReplayTypeOK
<1>3. new \in Admission /\ admitted \subseteq Admission
  BY <1>2 DEF Admission, TypeOK, ReplayTypeOK
<1>4. ReplayTypeOK'
  <2>1. admitted' \subseteq Admission
    BY <1>1, <1>3
  <2>2. nonces' \in [Procs -> SUBSET Nonces]
    BY DEF Admit, TypeOK, ReplayTypeOK
  <2>3. lastCleanup' \in [Procs -> Nat]
    BY <1>2 DEF Admit, TypeOK, ReplayTypeOK
  <2>4. era' \in [Procs -> Nat]
    BY <1>2 DEF Admit, TypeOK, ReplayTypeOK
  <2> QED BY <2>1, <2>2, <2>3, <2>4 DEF ReplayTypeOK
<1>5. \A q \in Procs, e \in Nat :
        TakenIn(q, e)' = IF q = p /\ e = era[p] THEN TakenIn(q, e) \cup {m.nonce} ELSE TakenIn(q, e)
  BY <1>1, <1>3 DEF TakenIn
<1>6. \A q \in Procs : q # p => era'[q] = era[q] /\ nonces'[q] = nonces[q]
  BY DEF Admit, TypeOK, ReplayTypeOK
<1>7. CASE Clears(p, m, t)
  <2>1. era'[p] = era[p] + 1 /\ nonces'[p] = {}
    BY <1>7, <1>2 DEF Admit, TypeOK, ReplayTypeOK
  <2>2. \A e \in Nat : e = era[p] => Cardinality(TakenIn(p, e)') > MaxNonces
    BY <1>7, <1>2, <1>5 DEF Clears
  <2>3. TakenIn(p, era[p] + 1) = {}
    BY <1>2, <1>3 DEF TakenIn, ReplayInv, ErasPast, Admission
  <2>4. Holding'
    <3> SUFFICES ASSUME NEW q \in Procs, Alive(q), NEW e \in Nat, e = era'[q]
                 PROVE nonces'[q] = TakenIn(q, e)'
      BY <1>4 DEF Holding, Alive, TakenIn, ReplayTypeOK
    <3>1. CASE q = p
      BY <3>1, <1>2, <1>5, <2>1, <2>3
    <3>2. CASE q # p
      <4>1. nonces[q] = TakenIn(q, era[q]) /\ era[q] \in Nat
        BY DEF ReplayInv, Holding, TypeOK, ReplayTypeOK
      <4> QED BY <3>2, <4>1, <1>5, <1>6
    <3> QED BY <3>1, <3>2
  <2>5. ErasFull'
    <3> SUFFICES ASSUME NEW q \in Procs, NEW e \in Nat, e < era'[q]
                 PROVE Cardinality(TakenIn(q, e)') > MaxNonces
      BY DEF ErasFull
    <3>1. CASE q = p /\ e = era[p]
      BY <3>1, <2>2
    <3>2. CASE ~(q = p /\ e = era[p])
      <4>1. era[q] \in Nat /\ e < era[q]
        BY <3>2, <1>2, <1>6, <2>1 DEF TypeOK, ReplayTypeOK
      <4> QED BY <3>2, <4>1, <1>5 DEF ReplayInv, ErasFull
    <3> QED BY <3>1, <3>2
  <2>6. ErasPast'
    BY <1>1, <1>2, <1>3, <1>6, <2>1 DEF ErasPast, ReplayInv, Admission, TypeOK, ReplayTypeOK
  <2>7. Unused'
    BY <1>6, <2>1 DEF ReplayInv, Unused
  <2>8. OncePerEra'
    BY <1>1, <1>2, <1>3 DEF ReplayInv, OncePerEra, TakenIn
  <2> QED BY <1>1, <1>4, <2>4, <2>5, <2>6, <2>7, <2>8 DEF ReplayInv
<1>8. CASE ~Clears(p, m, t)
  <2>1. era' = era /\ nonces'[p] = nonces[p] \cup {m.nonce}
    BY <1>8, <1>2 DEF Admit, TypeOK, ReplayTypeOK
  <2>4. Holding'
    <3> SUFFICES ASSUME NEW q \in Procs, Alive(q) PROVE nonces'[q] = TakenIn(q, era[q])'
      BY <2>1 DEF Holding, Alive
    <3>1. nonces[q] = TakenIn(q, era[q]) /\ era[q] \in Nat
      BY DEF ReplayInv, Holding, TypeOK, ReplayTypeOK
    <3> QED BY <3>1, <1>5, <1>6, <2>1
  <2>5. ErasFull'
    <3> SUFFICES ASSUME NEW q \in Procs, NEW e \in Nat, e < era[q]
                 PROVE Cardinality(TakenIn(q, e)') > MaxNonces
      BY <2>1 DEF ErasFull
    <3>1. ~(q = p /\ e = era[p])
      BY <1>2
    <3> QED BY <3>1, <1>5 DEF ReplayInv, ErasFull
  <2>6. ErasPast'
    BY <1>1, <1>2, <2>1 DEF ErasPast, ReplayInv
  <2>7. Unused'
    BY <1>6, <2>1 DEF ReplayInv, Unused
  <2>8. OncePerEra'
    BY <1>1, <1>2, <1>3 DEF ReplayInv, OncePerEra, TakenIn
  <2> QED BY <1>1, <1>4, <2>4, <2>5, <2>6, <2>7, <2>8 DEF ReplayInv
<1> QED BY <1>7, <1>8

-----------------------------------------------------------------------------
(* The log *)

\* A step that leaves the log alone while time goes on and processes end.
LEMMA LogUntouched ==
    ASSUME TypeOK, LogInv, UNCHANGED <<onFile, logged, doubled, clears, logCache>>, now' >= now, now' \in Nat,
           \A p \in Procs : Alive(p)' => Alive(p)
    PROVE  LogInv'
<1>1. \A w \in onFile \cup logged : w.line.at \in Nat /\ w.proc \in Procs
  BY MessagesAssumption DEF TypeOK, LogTypeOK, IsLine
<1>2. \A c \in clears : c.at \in Nat
  BY DEF TypeOK, LogTypeOK
<1>3. InThePast'
  BY <1>1, <1>2 DEF LogInv, InThePast, TypeOK
<1>4. Remembering' /\ Suppressing' /\ Shaped' /\ LogComplete' /\ LogDeduplicated'
  BY <1>1 DEF LogInv, Remembering, Suppressing, Shaped, LogComplete, LogDeduplicated
<1> QED BY <1>3, <1>4 DEF LogInv

\* The lines of one step of a live process.
LEMMA LogWrites ==
    ASSUME TypeOK, LogInv, NEW p \in Procs, Alive(p), NEW lines, Write(p, lines),
           \A l \in lines : IsLine(l) /\ l.at = now,
           now' = now, \A q \in Procs : Alive(q)' => Alive(q)
    PROVE  LogInv' /\ LogTypeOK'
<1> DEFINE new == By(p, Written(p, lines))
<1>1. /\ onFile' = onFile \cup new
      /\ logged' = logged \cup By(p, {l \in lines : l \in logCache[p] \/ l.level \notin broken})
      /\ doubled' = doubled \cup (new \cap onFile)
      /\ clears' = clears /\ broken' = broken
  BY DEF Write
<1>2. \A q \in Procs : logCache'[q] = IF q = p THEN logCache[p] \cup Written(p, lines) ELSE logCache[q]
  BY MessagesAssumption DEF Write, Remembered, TypeOK, LogTypeOK
<1>3. \A w \in new : w.proc = p /\ w.line \in Written(p, lines) /\ w = [proc |-> p, line |-> w.line]
  BY DEF By
<1>4. \A l \in Written(p, lines) : /\ [proc |-> p, line |-> l] \in new
                                   /\ l \in lines /\ l \notin logCache[p] /\ l.level \notin broken
  BY DEF By, Written, Fresh
<1>5. \A w \in logged' : \/ w \in logged
                         \/ /\ w.proc = p /\ w.line \in lines /\ w = [proc |-> p, line |-> w.line]
                            /\ w.line \in logCache[p] \/ w.line \in Written(p, lines)
  BY <1>1 DEF By, Written, Fresh
<1>6. \A l \in Written(p, lines) : [proc |-> p, line |-> l] \in logged'
  BY <1>1, <1>4 DEF By
<1>7. LogTypeOK'
  <2>1. \A w \in onFile' \cup logged' \cup doubled' : w.proc \in LogProcs /\ IsLine(w.line)
    BY <1>1, <1>3, <1>4, <1>5, MessagesAssumption DEF TypeOK, LogTypeOK
  <2>2. logCache' = [q \in LogProcs |-> logCache'[q]]
    BY DEF Write, TypeOK, LogTypeOK
  <2>3. \A q \in LogProcs : \A l \in logCache'[q] : IsLine(l)
    BY <1>2, <1>4, MessagesAssumption DEF TypeOK, LogTypeOK
  <2> QED BY <1>1, <2>1, <2>2, <2>3 DEF LogTypeOK, TypeOK, IsLine
<1>8. InThePast'
  BY <1>1, <1>3, <1>4, <1>5 DEF LogInv, InThePast, TypeOK
<1>9. Remembering'
  BY <1>1, <1>2, <1>6 DEF LogInv, Remembering
<1>10. Suppressing'
  <2> SUFFICES ASSUME NEW w \in onFile', Alive(w.proc)'
               PROVE \/ w.line \in logCache'[w.proc]
                     \/ \E c \in clears : c.proc = w.proc /\ c.at >= w.line.at
    BY <1>1 DEF Suppressing
  <2>1. CASE w \in new
    BY <2>1, <1>2, <1>3
  <2>2. CASE w \in onFile
    <3>1. w.proc \in Procs
      BY <2>2, MessagesAssumption DEF TypeOK, LogTypeOK
    <3> QED BY <2>2, <3>1, <1>2 DEF LogInv, Suppressing
  <2> QED BY <1>1, <2>1, <2>2
<1>11. Shaped'
  BY <1>1, <1>3, <1>5 DEF LogInv, Shaped
<1>12. LogComplete'
  <2> SUFFICES ASSUME NEW w \in logged', w \notin logged
               PROVE w \in onFile' \/ \E c \in clears : c.at >= w.line.at
    BY <1>1 DEF LogInv, LogComplete
  <2>1. CASE w.line \in Written(p, lines)
    BY <2>1, <1>1, <1>4, <1>5
  <2>2. CASE w.line \in logCache[p]
    BY <2>2, <1>5 DEF LogInv, Remembering
  <2> QED BY <1>5, <2>1, <2>2
<1>13. LogDeduplicated'
  <2> SUFFICES ASSUME NEW w \in new, w \in onFile
               PROVE \E c \in clears : c.proc = w.proc /\ c.at = w.line.at
    BY <1>1 DEF LogInv, LogDeduplicated
  <2>1. w.line \notin logCache[p] /\ w.proc = p /\ w.line.at = now
    BY <1>3, <1>4
  <2>2. PICK c \in clears : c.proc = p /\ c.at >= now
    BY <2>1 DEF LogInv, Suppressing
  <2>3. c.at \in Nat /\ now \in Nat /\ c.at <= now
    BY DEF TypeOK, LogTypeOK, LogInv, InThePast
  <2> QED BY <2>1, <2>2, <2>3
<1> QED BY <1>7, <1>8, <1>9, <1>10, <1>11, <1>12, <1>13 DEF LogInv

\* clear_logs, whichever files it gets to.
LEMMA LogClears ==
    ASSUME TypeOK, LogInv, NEW p \in Procs, NEW targets \in SUBSET Levels, ClearLogs(p, targets, now),
           now' = now, UNCHANGED up
    PROVE  LogInv' /\ LogTypeOK'
<1> DEFINE c0 == [proc |-> p, at |-> now]
<1>1. /\ onFile' \subseteq onFile /\ logged' = logged /\ doubled' = doubled /\ broken' = broken
      /\ clears' = clears \cup {c0} /\ now \in Nat
  BY DEF ClearLogs, TypeOK
<1>2. \A q \in Procs : q # p => logCache'[q] = logCache[q]
  BY DEF ClearLogs, TypeOK, LogTypeOK
<1>3. logCache'[p] = {} \/ logCache'[p] = logCache[p]
  BY MessagesAssumption DEF ClearLogs, TypeOK, LogTypeOK
<1>a. \A w \in onFile \cup logged : now >= w.line.at
  BY MessagesAssumption DEF LogInv, InThePast, TypeOK, LogTypeOK, IsLine
<1>b. c0 \in clears' /\ c0.at = now /\ c0.proc = p
  BY <1>1
<1>4. LogTypeOK'
  <2>1. logCache' = [q \in LogProcs |-> logCache'[q]]
    BY DEF ClearLogs, TypeOK, LogTypeOK
  <2>2. \A q \in LogProcs : \A l \in logCache'[q] : IsLine(l)
    BY <1>2, <1>3, MessagesAssumption DEF TypeOK, LogTypeOK
  <2>3. clears' \subseteq [proc : LogProcs, at : Nat]
    BY <1>1, MessagesAssumption DEF TypeOK, LogTypeOK
  <2>4. \A w \in onFile' \cup logged' \cup doubled' : w.proc \in LogProcs /\ IsLine(w.line)
    BY <1>1 DEF TypeOK, LogTypeOK
  <2> QED BY <1>1, <2>1, <2>2, <2>3, <2>4 DEF LogTypeOK, TypeOK, IsLine
<1>5. InThePast'
  BY <1>1 DEF LogInv, InThePast, TypeOK
<1>6. Remembering' /\ Shaped' /\ LogDeduplicated'
  BY <1>1, <1>2, <1>3 DEF LogInv, Remembering, Shaped, LogDeduplicated, Alive
<1>7. LogComplete'
  BY <1>1, <1>a, <1>b DEF LogInv, LogComplete
<1>8. Suppressing'
  <2> SUFFICES ASSUME NEW w \in onFile', Alive(w.proc)
               PROVE \/ w.line \in logCache'[w.proc]
                     \/ \E c \in clears' : c.proc = w.proc /\ c.at >= w.line.at
    BY DEF Suppressing, Alive
  <2>1. w \in onFile /\ w.proc \in Procs /\ w.line.at <= now
    BY <1>1, MessagesAssumption DEF LogInv, InThePast, TypeOK, LogTypeOK
  <2>2. CASE w.proc = p
    BY <2>1, <2>2, <1>a, <1>b
  <2>3. CASE w.proc # p
    BY <2>1, <2>3, <1>1, <1>2 DEF LogInv, Suppressing
  <2> QED BY <2>2, <2>3
<1> QED BY <1>4, <1>5, <1>6, <1>7, <1>8 DEF LogInv
-----------------------------------------------------------------------------
(* The requests *)

\* A request that is being served goes on to another layer.
LEMMA FlowMoves ==
    ASSUME TypeOK, FlowInv, NEW r \in Requests, NEW layer, NEW why, pc[r] \in Layers,
           layer \notin {"idle", "replay"}, Goes(r, layer), UNCHANGED <<up, home, msg>>,
           cause' = [cause EXCEPT ![r] = why],
           why = "replay" /\ cause[r] # "replay" =>
               \E a \in admitted : a.proc = home[r] /\ a.nonce = msg[r].nonce /\ a.req # r,
           admitted \subseteq admitted', \A a \in admitted' \ admitted : a.req = r,
           layer \in {"inner", "route"} => why = None, Passed(r)' => Passed(r) \/ TakenFor(r)'
    PROVE  FlowInv'
<1>1. \A q \in Requests : /\ pc'[q] = IF q = r THEN layer ELSE pc[q]
                          /\ cause'[q] = IF q = r THEN why ELSE cause[q]
  BY DEF Goes, TypeOK
<1>2. Served' /\ Blameless'
  BY <1>1 DEF FlowInv, Served, Blameless
<1>3. TakenOnEntry'
  <2> SUFFICES ASSUME NEW a \in admitted' PROVE pc'[a.req] \notin {"idle", "replay"}
    BY DEF TakenOnEntry
  <2>1. CASE a.req = r
    BY <2>1, <1>1
  <2>2. CASE a.req # r
    <3>1. a \in admitted
      BY <2>2
    <3>2. a.req \in Requests
      BY <3>1 DEF TypeOK, ReplayTypeOK, Admission
    <3> QED BY <2>2, <3>1, <3>2, <1>1 DEF FlowInv, TakenOnEntry
  <2> QED BY <2>1, <2>2
<1>4. ReplayHasOriginal'
  BY <1>1 DEF FlowInv, ReplayHasOriginal
<1>5. PassedTaken'
  <2> SUFFICES ASSUME NEW q \in Requests, Passed(q)' PROVE TakenFor(q)'
    BY DEF PassedTaken
  <2>1. CASE Passed(q)
    BY <2>1 DEF FlowInv, PassedTaken, TakenFor
  <2>2. CASE q # r
    <3>1. Passed(q)
      BY <2>2, <1>1 DEF Passed
    <3> QED BY <3>1, <2>1
  <2> QED BY <2>1, <2>2
<1> QED BY <1>2, <1>3, <1>4, <1>5 DEF FlowInv

\* A step that only logs, and moves a request on without a look at its nonce.
LEMMA PassingOn ==
    ASSUME GatewayInv, NEW r \in Requests, pc[r] \in Layers \ {"replay"},
           NEW layer \in {"done", "inner", "route", "answered", "raised"}, Goes(r, layer),
           \/ UNCHANGED cause /\ (layer \in {"inner", "route"} => cause[r] = None)
           \/ /\ layer \notin {"inner", "route"} /\ cause[r] = None
              /\ cause' = [cause EXCEPT ![r] = cause'[r]] /\ cause'[r] \in Reasons \ {"replay"},
           answer' \in [Requests -> Codes \cup {None}],
           UNCHANGED <<now, up, home, msg, replayVars>>, NEW lines,
           \A l \in lines : IsLine(l) /\ l.at = now,
           Write(home[r], lines)
    PROVE  GatewayInv'
<1> USE DEF GatewayInv
<1>1. home[r] \in Procs /\ Alive(home[r])
  BY DEF FlowInv, Served, Alive
<1>2. LogInv' /\ LogTypeOK'
  BY <1>1, LogWrites DEF Alive
<1>3. ReplayInv'
  BY ReplayUntouched DEF Alive
<1>4. /\ cause' = [cause EXCEPT ![r] = cause'[r]]
      /\ cause'[r] = cause[r] \/ (cause[r] = None /\ cause'[r] # "replay")
      /\ layer \in {"inner", "route"} => cause'[r] = None
      /\ cause' \in [Requests -> Reasons \cup {None}]
  <2>1. cause \in [Requests -> Reasons \cup {None}]
    BY DEF TypeOK
  <2>2. CASE UNCHANGED cause /\ (layer \in {"inner", "route"} => cause[r] = None)
    <3>1. cause = [cause EXCEPT ![r] = cause[r]]
      BY <2>1
    <3> QED BY <2>1, <2>2, <3>1
  <2>3. CASE /\ layer \notin {"inner", "route"} /\ cause[r] = None
             /\ cause' = [cause EXCEPT ![r] = cause'[r]] /\ cause'[r] \in Reasons \ {"replay"}
    <3>1. cause' \in [Requests -> Reasons \cup {None}]
      BY <2>1, <2>3
    <3> QED BY <2>3, <3>1
  <2> QED BY <2>2, <2>3
<1>7. Passed(r)' => Passed(r)
  <2>1. None \notin {"format", "stale", "replay"}
    BY MessagesAssumption DEF Reasons
  <2> QED BY <1>4, <2>1 DEF Passed, Layers
<1>5. FlowInv'
  BY <1>4, <1>7, FlowMoves DEF replayVars
<1>6. TypeOK'
  BY <1>2, <1>4 DEF TypeOK, ReplayTypeOK, replayVars, Goes, Layers
<1> QED BY <1>2, <1>3, <1>5, <1>6

\* The same when a layer behind the replay check, or the route, refuses the request.
LEMMA RefusedOn ==
    ASSUME GatewayInv, NEW r \in Requests, pc[r] \in Layers \ {"replay"}, cause[r] = None,
           NEW why \in Reasons \ {"replay"}, NEW code \in Codes,
           NEW layer \in {"answered", "raised"}, Refused(r, why, code, layer),
           UNCHANGED <<now, up, home, msg, replayVars>>, NEW lines,
           \A l \in lines : IsLine(l) /\ l.at = now,
           Write(home[r], lines)
    PROVE  GatewayInv'
<1>1. cause' = [cause EXCEPT ![r] = cause'[r]] /\ cause'[r] \in Reasons \ {"replay"}
  BY DEF Refused, GatewayInv, TypeOK
<1>2. answer' \in [Requests -> Codes \cup {None}]
  BY DEF Refused, GatewayInv, TypeOK
<1>3. Goes(r, layer) /\ layer \notin {"inner", "route"}
  BY DEF Refused
<1> QED BY <1>1, <1>2, <1>3, PassingOn

\* The same when nothing is logged.
LEMMA PassingSilently ==
    ASSUME GatewayInv, NEW r \in Requests, NEW layer \in {"inner", "route"}, pc[r] \in Layers,
           cause[r] = None, ~(msg[r].route = "post_auth" /\ Checked(msg[r])), Passes(r, layer), UNCHANGED <<now, up, home, msg, replayVars, logVars>>
    PROVE  GatewayInv'
<1> USE DEF GatewayInv
<1>1. LogInv'
  BY LogUntouched DEF logVars, TypeOK, Alive
<1>2. ReplayInv'
  BY ReplayUntouched DEF Alive
<1>3. cause' = [cause EXCEPT ![r] = cause[r]] /\ Goes(r, layer)
  BY DEF TypeOK, Passes
<1>6. ~Passed(r)'
  BY DEF Passed, Checked
<1>4. FlowInv'
  BY <1>3, <1>6, FlowMoves DEF replayVars
<1>5. TypeOK'
  BY DEF TypeOK, ReplayTypeOK, LogTypeOK, IsLine, replayVars, logVars, Goes, Layers, Passes
<1> QED BY <1>1, <1>2, <1>4, <1>5

\* What every step that logs gives LogWrites.
LEMMA LinesAreLines ==
    ASSUME now \in Nat, NEW text, NEW level \in {"INFO", "WARNING", "ERROR"}
    PROVE  IsLine(LineAt(level, text)) /\ LineAt(level, text).at = now
BY MessagesAssumption DEF IsLine, LineAt
-----------------------------------------------------------------------------
(* The invariant is inductive *)

LEMMA InitInv == Init => GatewayInv
<1> SUFFICES ASSUME Init PROVE GatewayInv
  OBVIOUS
<1> USE DEF Init, ReplayInit, LogInit
<1>1. TypeOK
  BY MessagesAssumption DEF TypeOK, ReplayTypeOK, LogTypeOK
<1>2. ReplayInv
  BY DEF ReplayInv, Holding, ErasFull, ErasPast, OncePerEra, Unused, TakenIn
<1>3. FlowInv
  BY MessagesAssumption DEF FlowInv, Served, Blameless, TakenOnEntry, ReplayHasOriginal, Layers, Reasons,
                             PassedTaken, Passed
<1>4. LogInv
  BY MessagesAssumption DEF LogInv, InThePast, Remembering, Suppressing, Shaped, LogComplete, LogDeduplicated
<1> QED BY <1>1, <1>2, <1>3, <1>4 DEF GatewayInv

LEMMA TickInv == ASSUME GatewayInv, Tick PROVE GatewayInv'
<1> USE DEF GatewayInv, Tick
<1>1. TypeOK'
  BY DEF TypeOK, ReplayTypeOK, LogTypeOK, IsLine, replayVars, logVars
<1>2. ReplayInv'
  BY ReplayUntouched DEF Alive
<1>3. FlowInv'
  BY DEF FlowInv, Served, Blameless, TakenOnEntry, ReplayHasOriginal, PassedTaken, Passed, TakenFor,
         replayVars
<1>4. LogInv'
  BY LogUntouched DEF TypeOK, logVars, Alive
<1> QED BY <1>1, <1>2, <1>3, <1>4

LEMMA StartInv == ASSUME GatewayInv, NEW p \in Procs, Start(p) PROVE GatewayInv'
<1> USE DEF GatewayInv
<1>1. /\ up[p] = "new" /\ up'[p] \in {"up", "down"} /\ up' \in [Procs -> {"new", "up", "down"}]
      /\ \A q \in Procs \ {p} : up'[q] = up[q]
      /\ UNCHANGED <<now, pc, home, msg, cause, answer, admitted, era>> /\ now \in Nat
  BY DEF Start, TypeOK, ReplayReset
<1>2. LogInv' /\ LogTypeOK'
  <2>1. PICK lines : lines \subseteq {Starting, Started} /\ Write(p, lines)
    BY DEF Start
  <2>2. \A l \in lines : IsLine(l) /\ l.at = now
    BY <2>1, <1>1, LinesAreLines DEF Starting, Started
  <2> QED BY <1>1, <2>1, <2>2, LogWrites DEF Alive
<1>3. ReplayInv'
  BY <1>1, ReplayResets DEF Start
<1>4. FlowInv'
  BY <1>1 DEF FlowInv, Served, Blameless, TakenOnEntry, ReplayHasOriginal, PassedTaken, Passed, TakenFor
<1>5. TypeOK'
  BY <1>1, <1>2 DEF Start, ReplayReset, TypeOK, ReplayTypeOK
<1> QED BY <1>2, <1>3, <1>4, <1>5

LEMMA StopInv == ASSUME GatewayInv, NEW p \in Procs, Stop(p) PROVE GatewayInv'
<1> USE DEF GatewayInv
<1>1. /\ up' = [up EXCEPT ![p] = "down"] /\ ReplayReset(p, now) /\ now \in Nat
      /\ logCache' = Forgotten(p)
      /\ pc' = [r \in Requests |-> IF r \in ServedBy(p) THEN "lost" ELSE pc[r]]
      /\ UNCHANGED <<now, home, msg, cause, answer, onFile, broken, logged, doubled, clears>>
      /\ UNCHANGED <<admitted, era>>
  BY DEF Stop, TypeOK, ReplayReset
<1>2. ~Alive(p)' /\ \A q \in Procs : Alive(q)' => Alive(q) /\ q # p
  BY <1>1 DEF Alive, TypeOK
<1>3. \A q \in Procs : q # p => logCache'[q] = logCache[q]
  BY <1>1, MessagesAssumption DEF Forgotten, TypeOK, LogTypeOK
<1>4. LogTypeOK'
  <2>1. logCache' = [q \in LogProcs |-> logCache'[q]]
    BY <1>1 DEF Forgotten, TypeOK, LogTypeOK
  <2>2. \A q \in LogProcs : logCache'[q] \in {{}, logCache[q]}
    BY <1>1 DEF Forgotten, TypeOK, LogTypeOK
  <2> QED BY <1>1, <2>1, <2>2 DEF TypeOK, LogTypeOK, IsLine
<1>5. LogInv'
  <2>1. \A w \in onFile : w.proc \in Procs
    BY MessagesAssumption DEF TypeOK, LogTypeOK
  <2> QED BY <2>1, <1>1, <1>2, <1>3 DEF LogInv, InThePast, Remembering, Suppressing, Shaped,
                                         LogComplete, LogDeduplicated
<1>6. ReplayInv'
  BY <1>1, <1>2, ReplayResets DEF TypeOK
<1>7. FlowInv'
  <2>1. \A r \in Requests : pc'[r] \in Layers => pc'[r] = pc[r] /\ home[r] # p
    BY <1>1 DEF ServedBy, Layers
  <2>2. Served'
    BY <2>1, <1>1 DEF FlowInv, Served, TypeOK
  <2>3. Blameless' /\ ReplayHasOriginal'
    BY <1>1 DEF FlowInv, Blameless, ReplayHasOriginal
  <2>5. PassedTaken'
    BY <1>1 DEF FlowInv, PassedTaken, Passed, TakenFor
  <2>4. TakenOnEntry'
    <3> SUFFICES ASSUME NEW a \in admitted PROVE pc'[a.req] \notin {"idle", "replay"}
      BY <1>1 DEF TakenOnEntry
    <3>1. a.req \in Requests
      BY DEF TypeOK, ReplayTypeOK, Admission
    <3> QED BY <3>1, <1>1 DEF FlowInv, TakenOnEntry
  <2> QED BY <2>2, <2>3, <2>4, <2>5 DEF FlowInv
<1>8. TypeOK'
  BY <1>1, <1>4 DEF ReplayReset, TypeOK, ReplayTypeOK
<1> QED BY <1>5, <1>6, <1>7, <1>8

LEMMA ClearInv ==
    ASSUME GatewayInv, NEW p \in Procs, NEW targets \in SUBSET Levels, Clear(p, targets)
    PROVE  GatewayInv'
<1> USE DEF GatewayInv, Clear
<1>1. LogInv' /\ LogTypeOK'
  BY LogClears
<1>2. TypeOK'
  BY <1>1 DEF TypeOK, ReplayTypeOK, replayVars
<1>3. ReplayInv'
  BY ReplayUntouched DEF Alive
<1>4. FlowInv'
  BY DEF FlowInv, Served, Blameless, TakenOnEntry, ReplayHasOriginal, PassedTaken, Passed, TakenFor,
         replayVars
<1> QED BY <1>1, <1>2, <1>3, <1>4

LEMMA BreakInv == ASSUME GatewayInv, NEW l \in Breakable, Break(l) PROVE GatewayInv'
<1> USE MessagesAssumption DEF GatewayInv, Break, Toggle
<1>1. TypeOK'
  BY DEF TypeOK, ReplayTypeOK, LogTypeOK, IsLine, replayVars
<1>2. ReplayInv'
  BY ReplayUntouched DEF Alive
<1>3. FlowInv'
  BY DEF FlowInv, Served, Blameless, TakenOnEntry, ReplayHasOriginal, PassedTaken, Passed, TakenFor,
         replayVars
<1>4. LogInv'
  BY LogUntouched DEF TypeOK, Alive
<1> QED BY <1>1, <1>2, <1>3, <1>4

LEMMA ReceiveInv ==
    ASSUME GatewayInv, NEW r \in Requests, NEW p \in Procs, NEW m \in Messages, Receive(r, p, m)
    PROVE  GatewayInv'
<1> USE DEF GatewayInv
<1>1. /\ pc[r] = "idle" /\ up[p] = "up" /\ cause[r] = None /\ UNCHANGED <<now, up, replayVars, cause>>
      /\ home' = [home EXCEPT ![r] = p] /\ msg' = [msg EXCEPT ![r] = m]
      /\ now \in Nat
  BY DEF Receive, Passes, FlowInv, Blameless, TypeOK
<1>2. \E layer \in {"answered", "replay"} : pc' = [pc EXCEPT ![r] = layer]
  BY DEF Receive, Passes, Goes
<1>3. LogInv' /\ LogTypeOK'
  <2>1. \A l \in {LineAt("INFO", Text("request", <<m.look>>))} : IsLine(l) /\ l.at = now
    BY <1>1, LinesAreLines
  <2> QED BY <2>1, <1>1, LogWrites DEF Receive, Alive
<1>4. ReplayInv'
  BY <1>1, ReplayUntouched DEF Alive
<1>5. FlowInv'
  <2>1. \A a \in admitted : a.req \in Requests /\ a.req # r
    BY <1>1 DEF TypeOK, ReplayTypeOK, Admission, FlowInv, TakenOnEntry
  <2>2. Served' /\ Blameless'
    BY <1>1, <1>2 DEF FlowInv, Served, Blameless, TypeOK
  <2>3. TakenOnEntry'
    BY <1>1, <1>2, <2>1 DEF FlowInv, TakenOnEntry, TypeOK, replayVars
  <2>4. ReplayHasOriginal'
    BY <1>1, MessagesAssumption DEF FlowInv, ReplayHasOriginal, TypeOK, replayVars, Reasons
  <2>5. ~Passed(r)'
    BY <1>1 DEF Receive, Passes, Goes, Passed, TypeOK
  <2>6. PassedTaken'
    BY <1>1, <1>2, <2>5 DEF FlowInv, PassedTaken, Passed, TakenFor, TypeOK, replayVars
  <2> QED BY <2>2, <2>3, <2>4, <2>6 DEF FlowInv
<1>6. TypeOK'
  <2>1. pc' \in [Requests -> {"idle", "done", "lost"} \cup Layers]
    BY <1>2 DEF TypeOK, Layers
  <2>2. answer' \in [Requests -> Codes \cup {None}]
    BY DEF Receive, Passes, TypeOK, Codes
  <2> QED BY <1>1, <1>3, <2>1, <2>2 DEF TypeOK, ReplayTypeOK, replayVars
<1> QED BY <1>3, <1>4, <1>5, <1>6

LEMMA RefusalsHaveReasons ==
    ASSUME NEW p \in Procs, NEW m \in Messages, NEW t \in Nat
    PROVE  /\ Refusal(p, m, t) \in {"format", "stale", "replay", None}
           /\ Refusal(p, m, t) = "replay" => Repeated(p, m)
           /\ Refusal(p, m, t) = None => ~Repeated(p, m)
<1>1. None \notin {"format", "stale", "replay"}
  BY MessagesAssumption DEF Reasons
<1> QED BY <1>1 DEF Refusal

LEMMA CheckReplayInv == ASSUME GatewayInv, NEW r \in Requests, CheckReplay(r) PROVE GatewayInv'
<1> USE DEF GatewayInv
<1> DEFINE p == home[r]
           m == msg[r]
           why == Refusal(p, m, now)
<1>1. /\ pc[r] = "replay" /\ pc[r] \in Layers /\ UNCHANGED <<now, up, home, msg>> /\ now \in Nat
      /\ p \in Procs /\ m \in Messages /\ up[p] = "up" /\ Alive(p) /\ cause[r] = None
  BY DEF CheckReplay, FlowInv, Served, Blameless, TypeOK, Alive, Layers
<1>2. CASE ~(m.route = "post_auth" /\ Checked(m))
  BY <1>1, <1>2, PassingSilently DEF CheckReplay
<1>3. CASE m.route = "post_auth" /\ Checked(m) /\ why = None
  <2>1. /\ Passes(r, "inner") /\ Admit(p, m, r, now) /\ UNCHANGED <<cause, answer>>
    BY <1>3 DEF CheckReplay, Passes
  <2>2. m.nonce \in Nonces /\ m.nonce \notin nonces[p]
    BY <1>1, <1>3, RefusalsHaveReasons, MessagesAssumption DEF Checked, Message, Repeated
  <2>3. ReplayInv' /\ ReplayTypeOK'
        /\ admitted' = admitted \cup {[proc |-> p, nonce |-> m.nonce, req |-> r, era |-> era[p]]}
    BY <1>1, <2>1, <2>2, ReplayAdmits
  <2>4. LogInv' /\ LogTypeOK'
    <3>1. PICK lines : /\ lines \subseteq {LineAt("INFO", Text("cleared", <<>>))} /\ Write(p, lines)
      BY <1>3 DEF CheckReplay
    <3>2. \A l \in lines : IsLine(l) /\ l.at = now
      BY <1>1, <3>1, LinesAreLines
    <3> QED BY <1>1, <3>1, <3>2, LogWrites DEF Alive
  <2>5. FlowInv'
    <3>1. cause' = [cause EXCEPT ![r] = cause[r]] /\ Goes(r, "inner")
      BY <2>1 DEF TypeOK, Passes
    <3>2. admitted \subseteq admitted' /\ \A a \in admitted' \ admitted : a.req = r
      BY <2>3
    <3>3. TakenFor(r)'
      <4> DEFINE new == [proc |-> p, nonce |-> m.nonce, req |-> r, era |-> era[p]]
      <4>1. new.req = r /\ new.proc = home'[r] /\ new.nonce = msg'[r].nonce
        BY <1>1
      <4>2. new \in admitted'
        BY <2>3
      <4> HIDE DEF new
      <4> QED BY <4>1, <4>2 DEF TakenFor
    <3> QED BY <1>1, <3>1, <3>2, <3>3, FlowMoves
  <2>6. TypeOK'
    BY <1>1, <2>1, <2>3, <2>4 DEF TypeOK, Passes, Goes, Layers
  <2> QED BY <2>3, <2>4, <2>5, <2>6
<1>4. CASE m.route = "post_auth" /\ Checked(m) /\ why # None
  <2>1. /\ Raised(r, why) /\ UNCHANGED replayVars /\ Write(p, {ReplayLine(why, m)})
    BY <1>4 DEF CheckReplay, Refuse
  <2>2. why \in {"format", "stale", "replay"} /\ (why = "replay" => m.nonce \in nonces[p])
    BY <1>1, <1>4, RefusalsHaveReasons DEF Repeated
  <2>3. IsLine(ReplayLine(why, m)) /\ ReplayLine(why, m).at = now
    BY <1>1, LinesAreLines DEF ReplayLine
  <2>4. LogInv' /\ LogTypeOK'
    BY <1>1, <2>1, <2>3, LogWrites DEF Alive
  <2>5. ReplayInv'
    BY <1>1, <2>1, ReplayUntouched DEF Alive
  <2>6. why = "replay" =>
          \E a \in admitted : a.proc = home[r] /\ a.nonce = msg[r].nonce /\ a.req # r
    <3> SUFFICES ASSUME why = "replay"
                 PROVE \E a \in admitted : a.proc = p /\ a.nonce = m.nonce /\ a.req # r
      OBVIOUS
    <3>1. m.nonce \in TakenIn(p, era[p])
      BY <1>1, <2>2 DEF ReplayInv, Holding
    <3>2. PICK a \in admitted : a.proc = p /\ a.nonce = m.nonce
      BY <3>1 DEF TakenIn
    <3>3. a.req # r
      BY <1>1 DEF FlowInv, TakenOnEntry
    <3> QED BY <3>2, <3>3
  <2>7. Goes(r, "raised") /\ cause' = [cause EXCEPT ![r] = why] /\ answer' = [answer EXCEPT ![r] = 500]
    BY <2>1 DEF Raised, Refused
  <2>10. ~Passed(r)'
    BY <2>2, <2>7 DEF Passed, TypeOK
  <2>8. FlowInv'
    BY <1>1, <2>1, <2>6, <2>7, <2>10, FlowMoves DEF replayVars
  <2>9. TypeOK'
    <3>1. cause' \in [Requests -> Reasons \cup {None}]
      BY <2>2, <2>7 DEF TypeOK, Reasons
    <3>2. answer' \in [Requests -> Codes \cup {None}]
      BY <2>7 DEF TypeOK, Codes
    <3>3. pc' \in [Requests -> {"idle", "done", "lost"} \cup Layers]
      BY <2>7 DEF TypeOK, Goes, Layers
    <3>4. ReplayTypeOK'
      BY <2>1 DEF TypeOK, ReplayTypeOK, replayVars
    <3> QED BY <1>1, <2>4, <3>1, <3>2, <3>3, <3>4 DEF TypeOK
  <2> QED BY <2>4, <2>5, <2>8, <2>9
<1> QED BY <1>2, <1>3, <1>4 DEF CheckReplay

LEMMA EnterRouteInv == ASSUME GatewayInv, NEW r \in Requests, EnterRoute(r) PROVE GatewayInv'
<1>1. /\ pc[r] \in Layers \ {"replay"} /\ cause[r] = None /\ answer \in [Requests -> Codes \cup {None}]
      /\ UNCHANGED <<now, up, home, msg, replayVars>> /\ now \in Nat
  BY DEF EnterRoute, GatewayInv, FlowInv, Blameless, TypeOK, Layers
<1>2. \A l \in OddLines(msg[r]) : IsLine(l) /\ l.at = now
  BY <1>1, LinesAreLines DEF OddLines
<1>3. /\ {"origin", "size"} \subseteq Reasons \ {"replay"} /\ {500, 413} \subseteq Codes
  BY DEF Reasons, Codes
<1>4. CASE /\ Raised(r, "origin")
           /\ Write(home[r], {LineAt("WARNING", Text("origin", <<>>))})
  <2>1. \A l \in {LineAt("WARNING", Text("origin", <<>>))} : IsLine(l) /\ l.at = now
    BY <1>1, LinesAreLines
  <2> QED BY <1>1, <1>3, <1>4, <2>1, RefusedOn DEF Raised
<1>5. CASE /\ Refused(r, "size", 413, "answered")
           /\ Write(home[r], OddLines(msg[r]) \cup {LineAt("WARNING", Text("size", <<>>))})
  <2>1. \A l \in OddLines(msg[r]) \cup {LineAt("WARNING", Text("size", <<>>))} : IsLine(l) /\ l.at = now
    BY <1>1, <1>2, LinesAreLines
  <2> QED BY <1>1, <1>3, <1>5, <2>1, RefusedOn
<1>6. CASE Passes(r, "route") /\ Write(home[r], OddLines(msg[r]))
  BY <1>1, <1>2, <1>6, PassingOn DEF Passes
<1> QED BY <1>4, <1>5, <1>6 DEF EnterRoute

LEMMA RouteInv == ASSUME GatewayInv, NEW r \in Requests, Route(r) PROVE GatewayInv'
<1>1. /\ pc[r] \in Layers \ {"replay"} /\ cause[r] = None /\ answer \in [Requests -> Codes \cup {None}]
      /\ UNCHANGED <<now, up, home, msg, replayVars>> /\ now \in Nat
  BY DEF Route, GatewayInv, FlowInv, Blameless, TypeOK, Layers
<1>2. ASSUME NEW code, NEW took PROVE \A l \in MetricLines(msg[r], code, took) : IsLine(l) /\ l.at = now
  BY <1>1, LinesAreLines DEF MetricLines
<1>3. /\ {"route", "crash"} \subseteq Reasons \ {"replay"} /\ {200, 400, 500} \subseteq Codes
  BY DEF Reasons, Codes
<1>4. CASE /\ Goes(r, "answered") /\ answer' = [answer EXCEPT ![r] = 200] /\ UNCHANGED cause
           /\ \E took \in Durations(msg[r]) : Write(home[r], MetricLines(msg[r], 200, took))
  <2>1. PICK took : Write(home[r], MetricLines(msg[r], 200, took))
    BY <1>4
  <2>2. \A l \in MetricLines(msg[r], 200, took) : IsLine(l) /\ l.at = now
    BY <1>2
  <2>3. answer' \in [Requests -> Codes \cup {None}]
    BY <1>1, <1>3, <1>4
  <2> QED BY <1>1, <1>4, <2>1, <2>2, <2>3, PassingOn
<1>5. CASE /\ Refused(r, "route", 400, "answered")
           /\ \E took \in Durations(msg[r]) : Write(home[r], MetricLines(msg[r], 400, took))
  <2>1. PICK took : Write(home[r], MetricLines(msg[r], 400, took))
    BY <1>5
  <2>2. \A l \in MetricLines(msg[r], 400, took) : IsLine(l) /\ l.at = now
    BY <1>2
  <2> QED BY <1>1, <1>3, <1>5, <2>1, <2>2, RefusedOn
<1>6. CASE Refused(r, "crash", 500, "answered") /\ Write(home[r], CrashLines)
  <2>1. \A l \in CrashLines : IsLine(l) /\ l.at = now
    BY <1>1, LinesAreLines DEF CrashLines
  <2> QED BY <1>1, <1>3, <1>6, <2>1, RefusedOn
<1> QED BY <1>4, <1>5, <1>6 DEF Route

LEMMA RespondInv == ASSUME GatewayInv, NEW r \in Requests, Respond(r) PROVE GatewayInv'
<1>1. /\ pc[r] \in Layers \ {"replay"} /\ UNCHANGED <<now, up, home, msg, cause, answer, replayVars>>
      /\ Goes(r, "done") /\ now \in Nat /\ answer \in [Requests -> Codes \cup {None}]
  BY DEF Respond, GatewayInv, TypeOK, Layers
<1>2. PICK lines : Write(home[r], lines) /\ \A l \in lines : IsLine(l) /\ l.at = now
  BY <1>1, LinesAreLines DEF Respond
<1> QED BY <1>1, <1>2, PassingOn

LEMMA StepInv == GatewayInv /\ [Next]_vars => GatewayInv'
<1> SUFFICES ASSUME GatewayInv, [Next]_vars PROVE GatewayInv'
  OBVIOUS
<1>1. CASE UNCHANGED vars
  <2>1. ReplayInv'
    BY <1>1, ReplayUntouched DEF vars, GatewayInv, Alive
  <2>2. FlowInv' /\ TypeOK'
    BY <1>1 DEF vars, GatewayInv, FlowInv, Served, Blameless, TakenOnEntry, ReplayHasOriginal, TypeOK,
                PassedTaken, Passed, TakenFor, ReplayTypeOK, LogTypeOK, IsLine, replayVars, logVars
  <2>3. LogInv'
    BY <1>1, LogUntouched DEF vars, logVars, GatewayInv, TypeOK, Alive
  <2> QED BY <2>1, <2>2, <2>3 DEF GatewayInv
<1>2. CASE Next
  BY <1>2, TickInv, StartInv, StopInv, ClearInv, BreakInv, ReceiveInv, CheckReplayInv, EnterRouteInv,
     RouteInv, RespondInv DEF Next
<1> QED BY <1>1, <1>2

LEMMA Invariance == Spec => []GatewayInv
  BY InitInv, StepInv, PTL DEF Spec

-----------------------------------------------------------------------------
\* Every value the gateway reaches has its type, for any processes, messages and bounds.
THEOREM TypeCorrect == Spec => []TypeOK
  BY Invariance, PTL DEF GatewayInv

LEMMA InvImpliesNonceOnce == GatewayInv => NonceOnce
<1> SUFFICES ASSUME GatewayInv, NEW a \in admitted, NEW b \in admitted, a # b, a.proc = b.proc,
                    a.nonce = b.nonce, a.era <= b.era
             PROVE  a.era < b.era /\ Cardinality(TakenIn(a.proc, a.era)) > MaxNonces
  BY DEF NonceOnce
<1>1. a.era \in Nat /\ b.era \in Nat /\ a.proc \in Procs /\ era[a.proc] \in Nat
  BY DEF GatewayInv, TypeOK, ReplayTypeOK, Admission
<1>2. a.era < b.era /\ b.era <= era[a.proc]
  BY <1>1 DEF GatewayInv, ReplayInv, OncePerEra, ErasPast
<1> QED BY <1>1, <1>2 DEF GatewayInv, ReplayInv, ErasFull

\* No process takes a nonce twice unless its clean-up has forgotten more than
\* MaxNonces in between, however requests overlap (_check_replay_protection).
THEOREM NoncesAreTakenOnce == Spec => []NonceOnce
  BY Invariance, InvImpliesNonceOnce, PTL

\* Whatever was refused before it leaves no nonce that refuses a request as a replay.
THEOREM ReplaysHaveOriginals == Spec => []ReplayHasOriginal
  BY Invariance, PTL DEF GatewayInv, FlowInv

LEMMA InvImpliesPassedOnce == GatewayInv => PassedOnce
<1> SUFFICES ASSUME GatewayInv, NEW q \in Requests, NEW r \in Requests, q # r, Passed(q), Passed(r),
                    home[q] = home[r], msg[q].nonce = msg[r].nonce
             PROVE  \E a \in admitted :
                      /\ a.proc = home[r] /\ a.nonce = msg[r].nonce /\ a.era < era[a.proc]
                      /\ Cardinality(TakenIn(a.proc, a.era)) > MaxNonces
  BY DEF PassedOnce
<1>1. PICK a, b \in admitted : /\ a.req = q /\ b.req = r /\ a.proc = home[r] /\ b.proc = home[r]
                               /\ a.nonce = msg[r].nonce /\ b.nonce = msg[r].nonce
  BY DEF GatewayInv, FlowInv, PassedTaken, TakenFor
<1>2. /\ a.era \in Nat /\ b.era \in Nat /\ a.proc \in Procs /\ era[a.proc] \in Nat
      /\ a.era <= era[a.proc] /\ b.era <= era[b.proc]
  BY DEF GatewayInv, TypeOK, ReplayTypeOK, Admission, ReplayInv, ErasPast
<1>3. a.era # b.era
  BY <1>1 DEF GatewayInv, ReplayInv, OncePerEra
<1>4. a.era < era[a.proc] \/ b.era < era[b.proc]
  BY <1>1, <1>2, <1>3
<1> QED BY <1>1, <1>2, <1>4 DEF GatewayInv, ReplayInv, ErasFull

\* Two requests with one nonce get past AntiReplayMiddleware of one process only
\* around a clean-up that forgot more than MaxNonces nonces, that one among them.
THEOREM NoncesPassOnce == Spec => []PassedOnce
  BY Invariance, InvImpliesPassedOnce, PTL

\* _write_log loses no line by its suppression of duplicates, for any number of
\* processes that share the files, and any calls of clear_logs and failing files.
THEOREM LogsAreComplete == Spec => []LogComplete
  BY Invariance, PTL DEF GatewayInv, LogInv

\* _write_log doubles no line but in the second of a clear_logs.
THEOREM LogsAreDeduplicated == Spec => []LogDeduplicated
  BY Invariance, PTL DEF GatewayInv, LogInv
=============================================================================

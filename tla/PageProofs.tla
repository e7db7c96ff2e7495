----------------------------- MODULE PageProofs -----------------------------
(***************************************************************************)
(* The promise of Ceremony, which every implementation of it inherits, and *)
(* the properties of Page, for any users, pages, runs and lifetimes.       *)
(***************************************************************************)
EXTENDS Page, TLAPS

\* Tickets are told apart from their absence.
TicketsAreReal == None \notin Tickets /\ None \notin Grant

(***************************************************************************)
(* A ticket has one subject, what is current was given to its subject, and *)
(* a claim that was let in holds a given ticket, signed once it is granted *)
(* and out of date once it is completed.                                   *)
(***************************************************************************)
CeremonyInv ==
    /\ CeremonyTypeOK
    /\ \A g, h \in given : g.ticket = h.ticket => g = h
    /\ \A s \in Subjects : current[s] # None =>
           \E g \in given : g.ticket = current[s] /\ g.subject = s
    /\ \A c \in Claims :
        /\ stage[c] \in {"accepted", "granted", "completed"} => held[c] \in given
        /\ stage[c] \in {"granted", "completed"} => held[c].ticket \in signed
        /\ stage[c] = "completed" => current[held[c].subject] # held[c].ticket

LEMMA CeremonyStep ==
  ASSUME TicketsAreReal, CeremonyInv, [CeremonyNext]_cvars
  PROVE  CeremonyInv'
<1> USE DEF CeremonyInv, CeremonyTypeOK, Stages
<1>1. ASSUME NEW t \in Tickets, NEW s \in Subjects, NEW d \in Devices, Issue(t, s, d) PROVE CeremonyInv'
  <2> DEFINE new == [ticket |-> t, subject |-> s, device |-> d]
  <2>1. /\ given' = given \cup {new} /\ new \in Grant
        /\ \A g \in given : g.ticket # t
        /\ current' = [current EXCEPT ![s] = t]
        /\ UNCHANGED <<signed, stage, held>>
    BY <1>1 DEF Issue, Grant
  <2>2. CeremonyTypeOK'
    BY <2>1
  <2>3. \A g, h \in given' : g.ticket = h.ticket => g = h
    BY <2>1
  <2>4. ASSUME NEW r \in Subjects, current'[r] # None
        PROVE  \E g \in given' : g.ticket = current'[r] /\ g.subject = r
    <3>1. CASE r = s
      <4>1. new \in given' /\ new.ticket = current'[r] /\ new.subject = r
        BY <2>1, <3>1
      <4> QED
        BY <4>1
    <3>2. CASE r # s
      <4>1. current'[r] = current[r]
        BY <2>1, <3>2
      <4> QED
        BY <2>1, <2>4, <4>1
    <3> QED
      BY <3>1, <3>2
  <2>5. ASSUME NEW c \in Claims, stage'[c] = "completed"
        PROVE  current'[held'[c].subject] # held'[c].ticket
    <3>1. held[c] \in given /\ current[held[c].subject] # held[c].ticket /\ held'[c] = held[c]
      BY <2>1, <2>5
    <3>2. held[c].ticket # t
      BY <2>1, <3>1
    <3> QED
      BY <2>1, <3>1, <3>2
  <2> QED
    BY <2>1, <2>2, <2>3, <2>4, <2>5
<1>2. ASSUME NEW t \in Tickets, Sign(t) PROVE CeremonyInv'
  BY <1>2 DEF Sign
<1>3. ASSUME NEW c \in Claims, NEW g \in given, Accept(c, g) PROVE CeremonyInv'
  BY <1>3 DEF Accept
<1>4. ASSUME NEW c \in Claims, Award(c) PROVE CeremonyInv'
  BY <1>4 DEF Award
<1>5. ASSUME NEW c \in Claims, Withdraw(c) PROVE CeremonyInv'
  <2>1. /\ held[c] \in given /\ held[c].subject \in Subjects
        /\ current' = [current EXCEPT ![held[c].subject] = None]
        /\ UNCHANGED <<given, signed, stage, held>>
    BY <1>5 DEF Withdraw, Grant
  <2>2. \A e \in Claims : stage[e] = "completed" => held[e].ticket # None
    BY DEF TicketsAreReal, Grant
  <2>3. \A s \in Subjects : current'[s] # None => current'[s] = current[s]
    BY <2>1
  <2>4. \A e \in Claims : stage[e] = "completed" =>
            current'[held[e].subject] # held[e].ticket
    BY <2>1, <2>2
  <2> QED
    BY <2>1, <2>3, <2>4
<1>6. ASSUME NEW c \in Claims, Complete(c) PROVE CeremonyInv'
  BY <1>6 DEF Complete
<1>7. ASSUME NEW S \in SUBSET Claims, Close(S) PROVE CeremonyInv'
  BY <1>7 DEF Close
<1>8. CASE UNCHANGED cvars
  BY <1>8 DEF cvars
<1> QED
  BY <1>1, <1>2, <1>3, <1>4, <1>5, <1>6, <1>7, <1>8 DEF CeremonyNext

(***************************************************************************)
(* Whatever implements Ceremony: a completed claim holds a signed ticket   *)
(* issued to its subject and device, and no subject can be let in with     *)
(* that ticket again.                                                      *)
(***************************************************************************)
THEOREM CompletionIsFinal ==
  ASSUME TicketsAreReal
  PROVE  CeremonySpec => []CompletedForGood
<1>1. CeremonyInit => CeremonyInv
  BY DEF CeremonyInit, CeremonyInv, CeremonyTypeOK, Stages
<1>2. CeremonyInv /\ [CeremonyNext]_cvars => CeremonyInv'
  BY CeremonyStep
<1>3. ASSUME CeremonyInv, NEW c \in Claims, stage[c] = "completed", NEW s \in Subjects,
             current[s] = held[c].ticket
      PROVE  FALSE
  <2>1. held[c] \in given /\ held[c].ticket # None
    BY <1>3 DEF CeremonyInv, CeremonyTypeOK, Grant, TicketsAreReal
  <2>2. PICK g \in given : g.ticket = held[c].ticket /\ g.subject = s
    BY <1>3, <2>1 DEF CeremonyInv
  <2>3. held[c].subject = s
    BY <1>3, <2>1, <2>2 DEF CeremonyInv
  <2> QED
    BY <1>3, <2>3 DEF CeremonyInv
<1>4. CeremonyInv => CompletedForGood
  BY <1>3 DEF CeremonyInv, CompletedForGood
<1> QED
  BY <1>1, <1>2, <1>4, PTL DEF CeremonySpec
-----------------------------------------------------------------------------
(***************************************************************************)
(* The page.  An answer "ok" means something else to a run that waits for  *)
(* its options than to one that waits for its verification; Runs keeps the *)
(* two apart.                                                              *)
(***************************************************************************)
Runs == \A r \in Claims :
    /\ at[r] = "unused" => request[r] = "none" /\ answer[r] = "none" /\ stage[r] = "open"
    /\ at[r] # "unused" => page[r] \in Pages /\ subj[r] \in Subjects
    /\ request[r] # "none" => answer[r] = "none"
    /\ request[r] = "options" => at[r] \in {"options", "ended"}
    /\ request[r] = "verify" => at[r] \in {"verify", "ended"}
    /\ at[r] = "prompt" => request[r] = "none" /\ answer[r] = "none"
    /\ at[r] = "verify" /\ answer[r] = "ok" => stage[r] = "completed"

\* What a claim that was let in, or granted, has established.
Awarded == \A r \in Claims :
    /\ stage[r] \in {"accepted", "granted", "completed"} => held[r].subject = subj[r]
    /\ stage[r] \in {"granted", "completed"} =>
           /\ held[r].ticket = r /\ Registered(subj[r][2])
           /\ IsLogin(r) => /\ minted[r] \in Token
                            /\ minted[r].user = subj[r][2] /\ minted[r].by = r

\* t is the access token a completed login of page p was granted.
EarnedAt(t, p) ==
    /\ t \in Token
    /\ page[t.by] = p /\ stage[t.by] = "completed" /\ IsLogin(t.by) /\ minted[t.by] = t

Tokens == \A p \in Pages : token[p] # None => EarnedAt(token[p], p)

Messages == \A p \in Pages : message[p].what = "done" =>
    LET r == message[p].of
    IN  /\ r \in Claims /\ stage[r] = "completed" /\ page[r] = p
        /\ IsLogin(r) => token[p] # None /\ token[p].by = r

Questions == \A a \in Asks : asked[a] # None =>
    /\ EarnedAt(asked[a].token, asked[a].page)
    /\ asked[a].answer = "info" => asked[a].served <= asked[a].token.exp

Infos == \A p \in Pages : message[p].what = "info" =>
    LET a == message[p].of
    IN  a \in Asks /\ asked[a] # None /\ asked[a].answer = "info" /\ asked[a].page = p

PageInv == TypeOK /\ CeremonyInv /\ Runs /\ Awarded /\ Tokens /\ Messages /\ Questions /\ Infos

LEMMA Real == TicketsAreReal
BY NoneAssumption DEF TicketsAreReal

\* Every step of the page and the server is one of the ceremony or leaves it alone.
LEMMA StepsOfCeremony ==
  ASSUME PageInv, [Next]_vars
  PROVE  [CeremonyNext]_cvars
<1> USE PageAssumption DEF PageInv, CeremonyNext
<1>1. ASSUME NEW r \in Claims, ServeOptions(r) PROVE [CeremonyNext]_cvars
  <2>1. subj[r] \in Subjects /\ Device[page[r]] \in Devices
    BY <1>1 DEF ServeOptions, Runs
  <2> QED
    BY <1>1, <2>1 DEF ServeOptions
<1>2. ASSUME NEW r \in Claims, Prompt(r) PROVE [CeremonyNext]_cvars
  BY <1>2 DEF Prompt
<1>3. ASSUME NEW r \in Claims, AcceptVerify(r) PROVE [CeremonyNext]_cvars
  BY <1>3 DEF AcceptVerify
<1>4. ASSUME NEW r \in Claims, RefuseVerify(r) PROVE [CeremonyNext]_cvars
  <2>1. {r} \in SUBSET Claims
    OBVIOUS
  <2> QED
    BY <1>4, <2>1 DEF RefuseVerify
<1>5. ASSUME NEW r \in Claims, AwardVerify(r) \/ WithdrawVerify(r) \/ CompleteVerify(r)
      PROVE  [CeremonyNext]_cvars
  BY <1>5 DEF AwardVerify, WithdrawVerify, CompleteVerify
<1>6. CASE ServerDies
  <2> DEFINE dying == {r \in Claims : request[r] = "verify" /\ stage[r] \in {"open", "accepted"}}
  <2>1. dying \in SUBSET Claims /\ Close(dying)
    BY <1>6 DEF ServerDies
  <2> HIDE DEF dying
  <2> QED
    BY <2>1
<1>7. ASSUME UNCHANGED cvars PROVE [CeremonyNext]_cvars
  BY <1>7
<1> QED
  BY <1>1, <1>2, <1>3, <1>4, <1>5, <1>6, <1>7 DEF Next, vars, Tick, Click, ClickEmpty,
     GotOptions, GotVerify, NetworkError, ServeInfo, GotInfo, ClickInfo

\* What a run was started for, and what it was granted, does not change.
Fixed == \A c \in Claims :
    /\ at[c] # "unused" => page'[c] = page[c] /\ subj'[c] = subj[c]
    /\ stage[c] # "accepted" => minted'[c] = minted[c]

\* What a claim has reached it keeps, and who is registered stays so.
Onward ==
    /\ CeremonyInv'
    /\ \A c \in Claims : stage[c] \in {"granted", "completed"} =>
           stage'[c] \in {"granted", "completed"} /\ held'[c] = held[c]
    /\ \A c \in Claims : stage[c] = "completed" => stage'[c] = "completed"
    /\ \A u \in Users : Registered(u) => Registered(u)'
    /\ Fixed
    /\ \A t, p : EarnedAt(t, p) => EarnedAt(t, p)'

LEMMA Lasting ==
  ASSUME PageInv, [Next]_vars
  PROVE  Onward
<1>1. [CeremonyNext]_cvars
  BY StepsOfCeremony
<1>2. CeremonyInv'
  BY <1>1, CeremonyStep, Real DEF PageInv
<1>3. \A c \in Claims :
        /\ stage[c] \in {"granted", "completed"} =>
               stage'[c] \in {"granted", "completed"} /\ held'[c] = held[c]
        /\ stage[c] = "completed" => stage'[c] = "completed"
  BY <1>1 DEF PageInv, CeremonyInv, CeremonyTypeOK, CeremonyNext, cvars, Issue, Sign, Accept, Award,
     Withdraw, Complete, Close
<1>4. Fixed
  <2> USE DEF PageInv, TypeOK, Fixed
  <2>1. ASSUME NEW r \in Claims, NEW p \in Pages, NEW s \in Subjects, Click(r, p, s)
        PROVE  Fixed
    BY <2>1 DEF Click
  <2>2. ASSUME NEW r \in Claims, AwardVerify(r) PROVE Fixed
    BY <2>2 DEF AwardVerify, Award
  <2>3. ASSUME UNCHANGED <<page, subj, minted>> PROVE Fixed
    BY <2>3
  <2> QED
    BY <2>1, <2>2, <2>3 DEF Next, vars, pvars, Tick, ClickEmpty, GotOptions, Prompt, GotVerify,
       NetworkError, ServeOptions, AcceptVerify, RefuseVerify, WithdrawVerify, CompleteVerify,
       ServerDies, ClickInfo, ServeInfo, GotInfo
<1>5. \A t, p : EarnedAt(t, p) => EarnedAt(t, p)'
  <2>1. ASSUME NEW t, NEW p, EarnedAt(t, p) PROVE EarnedAt(t, p)'
    <3>1. t \in Token /\ t.by \in Claims /\ stage[t.by] = "completed" /\ at[t.by] # "unused"
      BY <2>1 DEF EarnedAt, Token, PageInv, Runs
    <3> QED
      BY <2>1, <3>1, <1>3, <1>4 DEF EarnedAt, IsLogin, Fixed
  <2> QED
    BY <2>1
<1> QED
  BY <1>2, <1>3, <1>4, <1>5 DEF Registered, Onward

\* A run that ends tells its page.
LEMMA Ending ==
  ASSUME TypeOK, NEW r \in Claims, page[r] \in Pages, NEW what \in Shown, Ends(r, what)
  PROVE  /\ at' \in [Claims -> {"unused", "options", "prompt", "verify", "ended"}]
         /\ message' \in [Pages -> [what : Shown, of : Claims \cup Asks \cup {None}]]
         /\ \A c \in Claims : at'[c] = IF c = r THEN "ended" ELSE at[c]
         /\ \A q \in Pages : message'[q] = IF q = page[r] THEN [what |-> what, of |-> r]
                                                          ELSE message[q]
BY DEF TypeOK, Ends

\* A failure that is shown leaves what the other pages show as it is.
LEMMA FailureShown ==
  ASSUME PageInv, Onward, NEW r \in Claims, page[r] \in Pages, Ends(r, "failed"),
         UNCHANGED <<page, subj, token, asked>>
  PROVE  Messages' /\ Infos'
<1>1. \A p \in Pages : message'[p] = IF p = page[r] THEN [what |-> "failed", of |-> r]
                                                   ELSE message[p]
  BY Ending DEF PageInv, Shown
<1>2. \A p \in Pages : message'[p].what \in {"done", "info"} => message'[p] = message[p]
  BY <1>1
<1>3. Messages'
  BY <1>2 DEF PageInv, Messages, Onward, IsLogin
<1>4. Infos'
  BY <1>2 DEF PageInv, Infos
<1> QED
  BY <1>3, <1>4

PageRest == Runs /\ Awarded /\ Tokens /\ Messages /\ Questions /\ Infos

LEMMA ClickSteps ==
  ASSUME PageInv, Next, NEW r \in Claims, NEW p \in Pages, NEW s \in Subjects, Click(r, p, s)
  PROVE  TypeOK' /\ PageRest'
<1> USE PageAssumption DEF PageInv, TypeOK, CeremonyTypeOK, Stages, cvars, Click
<1>1. Onward
  BY Lasting
<1>2. TypeOK'
  BY <1>1 DEF Onward, CeremonyInv, Token, Ask, Shown
<1>3. Runs'
  BY DEF Runs
<1>4. Awarded'
  BY <1>1 DEF Onward, Fixed, Awarded, IsLogin, Runs
<1>5. Tokens' /\ Questions'
  BY <1>1 DEF Onward, Tokens, Questions
<1>6. Messages' /\ Infos'
  BY <1>1 DEF Onward, Fixed, Messages, Infos, IsLogin, Tokens, Runs
<1> QED
  BY <1>2, <1>3, <1>4, <1>5, <1>6 DEF PageRest

LEMMA ClickEmptySteps ==
  ASSUME PageInv, Next, NEW p \in Pages, ClickEmpty(p)
  PROVE  TypeOK' /\ PageRest'
<1> USE PageAssumption DEF PageInv, TypeOK, CeremonyTypeOK, Stages, cvars, ClickEmpty
<1>1. Onward
  BY Lasting
<1>2. TypeOK'
  BY <1>1 DEF Onward, CeremonyInv, Token, Ask, Shown
<1>3. Runs'
  BY DEF Runs
<1>4. Awarded'
  BY <1>1 DEF Onward, Fixed, Awarded, IsLogin, Runs
<1>5. Tokens' /\ Questions'
  BY <1>1 DEF Onward, Tokens, Questions
<1>6. Messages' /\ Infos'
  BY <1>1 DEF Onward, Fixed, Messages, Infos, IsLogin, Tokens, Runs
<1> QED
  BY <1>2, <1>3, <1>4, <1>5, <1>6 DEF PageRest

LEMMA TickSteps ==
  ASSUME PageInv, Next, Tick
  PROVE  TypeOK' /\ PageRest'
<1> USE PageAssumption DEF PageInv, TypeOK, CeremonyTypeOK, Stages, cvars, Tick
<1>1. Onward
  BY Lasting
<1>2. TypeOK'
  BY <1>1 DEF Onward, CeremonyInv, Token, Ask, Shown
<1>3. Runs'
  BY DEF Runs
<1>4. Awarded'
  BY <1>1 DEF Onward, Fixed, Awarded, IsLogin, Runs
<1>5. Tokens' /\ Questions'
  BY <1>1 DEF Onward, Tokens, Questions
<1>6. Messages' /\ Infos'
  BY <1>1 DEF Onward, Fixed, Messages, Infos, IsLogin, Tokens, Runs
<1> QED
  BY <1>2, <1>3, <1>4, <1>5, <1>6 DEF PageRest

LEMMA GotOptionsSteps ==
  ASSUME PageInv, Next, NEW r \in Claims, GotOptions(r)
  PROVE  TypeOK' /\ PageRest'
<1> USE PageAssumption DEF PageInv, TypeOK, CeremonyTypeOK, Stages, cvars, GotOptions
<1>1. Onward
  BY Lasting
<1> USE DEF Runs
<1>2. TypeOK'
  <2>1. CASE Ends(r, "failed")
    BY <1>1, <2>1, Ending DEF Onward, CeremonyInv, Shown
  <2>2. CASE at' = [at EXCEPT ![r] = "prompt"] /\ UNCHANGED message
    BY <1>1, <2>2 DEF Onward, CeremonyInv
  <2> QED
    BY <2>1, <2>2
<1>3. Runs'
  BY DEF Runs, Ends
<1>4. Awarded'
  BY <1>1 DEF Onward, Fixed, Awarded, IsLogin, Runs
<1>5. Tokens' /\ Questions'
  BY <1>1 DEF Onward, Tokens, Questions
<1>6. Messages' /\ Infos'
  <2>1. CASE Ends(r, "failed")
    <3>1. page[r] \in Pages
      OBVIOUS
    <3> QED
      BY <1>1, <2>1, <3>1, FailureShown
  <2>2. CASE UNCHANGED message
    BY <1>1, <2>2 DEF Onward, Fixed, Messages, Infos, IsLogin
  <2> QED
    BY <2>1, <2>2
<1> QED
  BY <1>2, <1>3, <1>4, <1>5, <1>6 DEF PageRest

LEMMA PromptSteps ==
  ASSUME PageInv, Next, NEW r \in Claims, Prompt(r)
  PROVE  TypeOK' /\ PageRest'
<1> USE PageAssumption DEF PageInv, TypeOK, CeremonyTypeOK, Stages, cvars, Prompt, Sign
<1>1. Onward
  BY Lasting
<1> USE DEF Runs
<1>2. TypeOK'
  <2>1. CASE Ends(r, "failed") /\ UNCHANGED <<cvars, request>>
    BY <1>1, <2>1, Ending DEF Onward, CeremonyInv, Shown
  <2>2. CASE at' = [at EXCEPT ![r] = "verify"] /\ request' = [request EXCEPT ![r] = "verify"]
             /\ UNCHANGED message
    BY <1>1, <2>2 DEF Onward, CeremonyInv
  <2> QED
    BY <2>1, <2>2
<1>3. Runs'
  BY DEF Runs, Ends
<1>4. Awarded'
  BY <1>1 DEF Onward, Fixed, Awarded, IsLogin, Runs
<1>5. Tokens' /\ Questions'
  BY <1>1 DEF Onward, Tokens, Questions
<1>6. Messages' /\ Infos'
  <2>1. CASE Ends(r, "failed")
    <3>1. page[r] \in Pages
      OBVIOUS
    <3> QED
      BY <1>1, <2>1, <3>1, FailureShown
  <2>2. CASE UNCHANGED message
    BY <1>1, <2>2 DEF Onward, Fixed, Messages, Infos, IsLogin
  <2> QED
    BY <2>1, <2>2
<1> QED
  BY <1>2, <1>3, <1>4, <1>5, <1>6 DEF PageRest

LEMMA GotVerifySteps ==
  ASSUME PageInv, Next, NEW r \in Claims, GotVerify(r)
  PROVE  TypeOK' /\ PageRest'
<1> USE PageAssumption DEF PageInv, TypeOK, CeremonyTypeOK, Stages, cvars, GotVerify, TokenAfter
<1>1. Onward
  BY Lasting
<1> USE DEF Runs
<1>2. /\ page[r] \in Pages /\ subj[r] \in Subjects
      /\ answer[r] = "ok" =>
             /\ stage[r] = "completed" /\ stage'[r] = "completed"
             /\ IsLogin(r) => EarnedAt(minted[r], page[r]) /\ minted[r].by = r
      /\ (answer[r] = "ok" /\ Ends(r, "done") /\ token' = TokenAfter(r))
            \/ (answer[r] = "refused" /\ Ends(r, "failed") /\ UNCHANGED token)
  BY DEF Awarded, EarnedAt
<1>7. \A q \in Pages : token'[q] = IF answer[r] = "ok" /\ IsLogin(r) /\ q = page[r]
                                  THEN minted[r] ELSE token[q]
  BY <1>2
<1>8. TypeOK'
  <2>1. token' \in [Pages -> Token \cup {None}]
    BY <1>2
  <2>2. /\ at' \in [Claims -> {"unused", "options", "prompt", "verify", "ended"}]
        /\ message' \in [Pages -> [what : Shown, of : Claims \cup Asks \cup {None}]]
    BY <1>2, Ending DEF Shown
  <2> QED
    BY <1>1, <2>1, <2>2 DEF Onward, CeremonyInv
<1>3. Runs'
  BY DEF Runs, Ends
<1>4. Awarded'
  BY <1>1 DEF Onward, Fixed, Awarded, IsLogin, Runs
<1>5. Tokens' /\ Questions'
  BY <1>1, <1>2, <1>7 DEF Onward, Tokens, Questions
<1>6. Messages' /\ Infos'
  <2> DEFINE what == IF answer[r] = "ok" THEN "done" ELSE "failed"
  <2>1. Ends(r, what) /\ what \in Shown
    BY <1>2 DEF Shown
  <2>2. \A q \in Pages : message'[q] = IF q = page[r] THEN [what |-> what, of |-> r]
                                                     ELSE message[q]
    BY <1>2, <2>1, Ending
  <2>3. UNCHANGED <<stage, page, subj, asked, minted>>
    OBVIOUS
  <2>4. ASSUME NEW p \in Pages, message'[p].what = "done", p = page[r]
        PROVE  /\ message'[p].of = r /\ stage[r] = "completed"
               /\ IsLogin(r) => token'[p] # None /\ token'[p].by = r
    BY <1>2, <1>7, <2>2, <2>4, NoneAssumption DEF EarnedAt
  <2>5. Messages'
    BY <1>2, <1>7, <2>2, <2>3, <2>4 DEF Messages, IsLogin
  <2>6. Infos'
    BY <2>2, <2>3 DEF Infos
  <2> QED
    BY <2>5, <2>6
<1> QED
  BY <1>8, <1>3, <1>4, <1>5, <1>6 DEF PageRest

LEMMA NetworkErrorSteps ==
  ASSUME PageInv, Next, NEW r \in Claims, NetworkError(r)
  PROVE  TypeOK' /\ PageRest'
<1> USE PageAssumption DEF PageInv, TypeOK, CeremonyTypeOK, Stages, cvars, NetworkError, Ends
<1>1. Onward
  BY Lasting
<1>2. TypeOK'
  BY <1>1 DEF Onward, CeremonyInv, Token, Ask, Shown
<1>3. Runs'
  BY DEF Runs
<1>4. Awarded'
  BY <1>1 DEF Onward, Fixed, Awarded, IsLogin, Runs
<1>5. Tokens' /\ Questions'
  BY <1>1 DEF Onward, Tokens, Questions
<1>6. Messages' /\ Infos'
  BY <1>1 DEF Onward, Fixed, Messages, Infos, IsLogin, Tokens, Runs
<1> QED
  BY <1>2, <1>3, <1>4, <1>5, <1>6 DEF PageRest

LEMMA ServeOptionsSteps ==
  ASSUME PageInv, Next, NEW r \in Claims, ServeOptions(r)
  PROVE  TypeOK' /\ PageRest'
<1> USE PageAssumption DEF PageInv, TypeOK, CeremonyTypeOK, Stages, cvars, ServeOptions, Answers, Issue
<1>1. Onward
  BY Lasting
<1>2. TypeOK'
  <2>1. CeremonyTypeOK'
    BY <1>1 DEF Onward, CeremonyInv
  <2>2. /\ request' \in [Claims -> {"none", "options", "verify"}]
        /\ answer' \in [Claims -> {"none", "ok", "refused"}]
    OBVIOUS
  <2> QED
    BY <2>1, <2>2
<1>3. Runs'
  BY DEF Runs
<1>4. Awarded'
  BY <1>1 DEF Onward, Fixed, Awarded, IsLogin, Runs
<1>5. Tokens' /\ Questions'
  BY <1>1 DEF Onward, Tokens, Questions
<1>6. Messages' /\ Infos'
  BY <1>1 DEF Onward, Fixed, Messages, Infos, IsLogin, Tokens, Runs
<1> QED
  BY <1>2, <1>3, <1>4, <1>5, <1>6 DEF PageRest

LEMMA AcceptSteps ==
  ASSUME PageInv, Next, NEW r \in Claims, AcceptVerify(r)
  PROVE  TypeOK' /\ PageRest'
<1> USE PageAssumption DEF PageInv, TypeOK, CeremonyTypeOK, Stages, cvars, AcceptVerify, Accept, pvars
<1>1. Onward
  BY Lasting
<1>2. TypeOK'
  BY <1>1 DEF Onward, CeremonyInv, Token, Ask, Shown
<1>3. Runs'
  BY DEF Runs
<1>4. Awarded'
  BY <1>1 DEF Onward, Fixed, Awarded, IsLogin, Runs
<1>5. Tokens' /\ Questions'
  BY <1>1 DEF Onward, Tokens, Questions
<1>6. Messages' /\ Infos'
  BY <1>1 DEF Onward, Fixed, Messages, Infos, IsLogin, Tokens, Runs
<1> QED
  BY <1>2, <1>3, <1>4, <1>5, <1>6 DEF PageRest

LEMMA RefuseSteps ==
  ASSUME PageInv, Next, NEW r \in Claims, RefuseVerify(r)
  PROVE  TypeOK' /\ PageRest'
<1> USE PageAssumption DEF PageInv, TypeOK, CeremonyTypeOK, Stages, cvars, RefuseVerify, Answers, Close
<1>1. Onward
  BY Lasting
<1>2. TypeOK'
  BY <1>1 DEF Onward, CeremonyInv, Token, Ask, Shown
<1>3. Runs'
  BY DEF Runs
<1>4. Awarded'
  BY <1>1 DEF Onward, Fixed, Awarded, IsLogin, Runs
<1>5. Tokens' /\ Questions'
  BY <1>1 DEF Onward, Tokens, Questions
<1>6. Messages' /\ Infos'
  BY <1>1 DEF Onward, Fixed, Messages, Infos, IsLogin, Tokens, Runs
<1> QED
  BY <1>2, <1>3, <1>4, <1>5, <1>6 DEF PageRest

LEMMA AwardSteps ==
  ASSUME PageInv, Next, NEW r \in Claims, AwardVerify(r)
  PROVE  TypeOK' /\ PageRest'
<1> USE PageAssumption DEF PageInv, TypeOK, CeremonyTypeOK, Stages, cvars, AwardVerify, Award, Proves, Admissible, Expiry
<1>1. Onward
  BY Lasting
<1>2. TypeOK'
  <2>1. CeremonyTypeOK'
    BY <1>1 DEF Onward, CeremonyInv
  <2>2. minted' \in [Claims -> Token \cup {None}]
    <3>1. CASE IsLogin(r)
      <4>1. subj[r][2] \in Users /\ now + TokenTTL \in Nat
        BY DEF Runs
      <4>2. [user |-> subj[r][2], exp |-> now + TokenTTL, by |-> r] \in Token
        BY <4>1 DEF Token
      <4> QED
        BY <3>1, <4>2
    <3>2. CASE ~IsLogin(r)
      BY <3>2
    <3> QED
      BY <3>1, <3>2
  <2> QED
    BY <2>1, <2>2
<1>3. Runs'
  BY DEF Runs
<1>4. Awarded'
  <2>1. /\ subj[r] \in Subjects /\ subj[r][2] \in Users
        /\ held[r].subject = subj[r] /\ held[r].ticket = r
        /\ UNCHANGED <<subj, held>>
        /\ \A c \in Claims : stage'[c] = IF c = r THEN "granted" ELSE stage[c]
        /\ \A c \in Claims : minted'[c] = IF c = r /\ IsLogin(r) THEN
               [user |-> subj[r][2], exp |-> now + TokenTTL, by |-> r] ELSE minted[c]
    BY DEF Runs, Awarded
  <2>2. Registered(subj[r][2])'
    <3>1. CASE IsLogin(r)
      BY <1>1, <2>1, <3>1 DEF Onward, IsLogin
    <3>2. CASE ~IsLogin(r)
      <4>1. subj[r] = <<"register", subj[r][2]>>
        BY <2>1, <3>2 DEF IsLogin
      <4> QED
        BY <2>1, <4>1 DEF Registered
    <3> QED
      BY <3>1, <3>2
  <2>3. minted'[r] \in Token \/ ~IsLogin(r)
    BY <2>1 DEF Token
  <2>4. ASSUME NEW c \in Claims, c # r
        PROVE  /\ stage[c] \in {"accepted", "granted", "completed"} => held[c].subject = subj[c]
               /\ stage[c] \in {"granted", "completed"} =>
                    /\ held[c].ticket = c /\ Registered(subj[c][2])'
                    /\ IsLogin(c) => /\ minted'[c] \in Token
                                     /\ minted'[c].user = subj[c][2] /\ minted'[c].by = c
    <3>1. stage[c] \in {"granted", "completed"} => subj[c][2] \in Users
      BY DEF Runs
    <3> QED
      BY <1>1, <2>1, <2>4, <3>1 DEF Onward, Awarded
  <2> QED
    BY <2>1, <2>2, <2>3, <2>4 DEF Awarded, IsLogin
<1>5. Tokens' /\ Questions'
  BY <1>1 DEF Onward, Tokens, Questions
<1>6. Messages' /\ Infos'
  BY <1>1 DEF Onward, Fixed, Messages, Infos, IsLogin, Tokens, Runs
<1> QED
  BY <1>2, <1>3, <1>4, <1>5, <1>6 DEF PageRest

LEMMA WithdrawSteps ==
  ASSUME PageInv, Next, NEW r \in Claims, WithdrawVerify(r)
  PROVE  TypeOK' /\ PageRest'
<1> USE PageAssumption DEF PageInv, TypeOK, CeremonyTypeOK, Stages, cvars, WithdrawVerify, Withdraw, pvars
<1>1. Onward
  BY Lasting
<1>2. TypeOK'
  BY <1>1 DEF Onward, CeremonyInv, Token, Ask, Shown
<1>3. Runs'
  BY DEF Runs
<1>4. Awarded'
  BY <1>1 DEF Onward, Fixed, Awarded, IsLogin, Runs
<1>5. Tokens' /\ Questions'
  BY <1>1 DEF Onward, Tokens, Questions
<1>6. Messages' /\ Infos'
  BY <1>1 DEF Onward, Fixed, Messages, Infos, IsLogin, Tokens, Runs
<1> QED
  BY <1>2, <1>3, <1>4, <1>5, <1>6 DEF PageRest

LEMMA CompleteSteps ==
  ASSUME PageInv, Next, NEW r \in Claims, CompleteVerify(r)
  PROVE  TypeOK' /\ PageRest'
<1> USE PageAssumption DEF PageInv, TypeOK, CeremonyTypeOK, Stages, cvars, CompleteVerify, Complete, Answers
<1>1. Onward
  BY Lasting
<1>2. TypeOK'
  BY <1>1 DEF Onward, CeremonyInv, Token, Ask, Shown
<1>3. Runs'
  BY DEF Runs
<1>4. Awarded'
  BY <1>1 DEF Onward, Fixed, Awarded, IsLogin, Runs
<1>5. Tokens' /\ Questions'
  BY <1>1 DEF Onward, Tokens, Questions
<1>6. Messages' /\ Infos'
  BY <1>1 DEF Onward, Fixed, Messages, Infos, IsLogin, Tokens, Runs
<1> QED
  BY <1>2, <1>3, <1>4, <1>5, <1>6 DEF PageRest

LEMMA ServerDiesSteps ==
  ASSUME PageInv, Next, ServerDies
  PROVE  TypeOK' /\ PageRest'
<1> USE PageAssumption DEF PageInv, TypeOK, CeremonyTypeOK, Stages, cvars, ServerDies, Close
<1>1. Onward
  BY Lasting
<1>2. TypeOK'
  BY <1>1 DEF Onward, CeremonyInv, Token, Ask, Shown
<1>3. Runs'
  BY DEF Runs
<1>4. Awarded'
  BY <1>1 DEF Onward, Fixed, Awarded, IsLogin, Runs
<1>5. Tokens' /\ Questions'
  BY <1>1 DEF Onward, Tokens, Questions
<1>6. Messages' /\ Infos'
  BY <1>1 DEF Onward, Fixed, Messages, Infos, IsLogin, Tokens, Runs
<1> QED
  BY <1>2, <1>3, <1>4, <1>5, <1>6 DEF PageRest

LEMMA ClickInfoSteps ==
  ASSUME PageInv, Next, NEW a \in Asks, NEW p \in Pages, ClickInfo(a, p)
  PROVE  TypeOK' /\ PageRest'
<1> USE PageAssumption DEF PageInv, TypeOK, CeremonyTypeOK, Stages, cvars, ClickInfo
<1>1. Onward
  BY Lasting
<1>2. TypeOK'
  BY <1>1 DEF Onward, CeremonyInv, Token, Ask, Shown
<1>3. Runs'
  BY DEF Runs
<1>4. Awarded'
  BY <1>1 DEF Onward, Fixed, Awarded, IsLogin, Runs
<1>5. Tokens' /\ Questions'
  BY <1>1 DEF Onward, Tokens, Questions
<1>6. Messages' /\ Infos'
  BY <1>1 DEF Onward, Fixed, Messages, Infos, IsLogin, Tokens, Runs
<1> QED
  BY <1>2, <1>3, <1>4, <1>5, <1>6 DEF PageRest

LEMMA ServeInfoSteps ==
  ASSUME PageInv, Next, NEW a \in Asks, ServeInfo(a)
  PROVE  TypeOK' /\ PageRest'
<1> USE PageAssumption DEF PageInv, TypeOK, CeremonyTypeOK, Stages, cvars, ServeInfo, Honoured
<1>1. Onward
  BY Lasting
<1>2. TypeOK'
  <2>1. asked[a] \in Ask
    OBVIOUS
  <2>2. asked'[a] \in Ask /\ asked' = [asked EXCEPT ![a] = asked'[a]]
    BY <2>1 DEF Ask
  <2>3. asked' \in [Asks -> Ask \cup {None}]
    BY <2>2
  <2> QED
    BY <1>1, <2>3 DEF Onward, CeremonyInv
<1>3. Runs'
  BY DEF Runs
<1>4. Awarded'
  BY <1>1 DEF Onward, Fixed, Awarded, IsLogin, Runs
<1>5. Tokens' /\ Questions'
  BY <1>1 DEF Onward, Tokens, Questions
<1>6. Messages' /\ Infos'
  BY <1>1 DEF Onward, Fixed, Messages, Infos, IsLogin, Tokens, Runs
<1> QED
  BY <1>2, <1>3, <1>4, <1>5, <1>6 DEF PageRest

LEMMA GotInfoSteps ==
  ASSUME PageInv, Next, NEW a \in Asks, GotInfo(a)
  PROVE  TypeOK' /\ PageRest'
<1> USE PageAssumption DEF PageInv, TypeOK, CeremonyTypeOK, Stages, cvars, GotInfo
<1>1. Onward
  BY Lasting
<1>2. TypeOK'
  <2>1. asked[a] \in Ask
    OBVIOUS
  <2>2. asked'[a] \in Ask /\ asked' = [asked EXCEPT ![a] = asked'[a]]
    BY <2>1 DEF Ask
  <2>3. asked' \in [Asks -> Ask \cup {None}]
    BY <2>2
  <2>4. message' \in [Pages -> [what : Shown, of : Claims \cup Asks \cup {None}]]
    BY <2>1 DEF Ask, Shown
  <2> QED
    BY <1>1, <2>3, <2>4 DEF Onward, CeremonyInv
<1>3. Runs'
  BY DEF Runs
<1>4. Awarded'
  BY <1>1 DEF Onward, Fixed, Awarded, IsLogin, Runs
<1>5. Tokens' /\ Questions'
  BY <1>1 DEF Onward, Tokens, Questions
<1>6. Messages' /\ Infos'
  BY <1>1 DEF Onward, Fixed, Messages, Infos, IsLogin, Tokens, Runs
<1> QED
  BY <1>2, <1>3, <1>4, <1>5, <1>6 DEF PageRest

-----------------------------------------------------------------------------

LEMMA PageStart == Init => PageInv
<1> SUFFICES ASSUME Init PROVE PageInv
  OBVIOUS
<1> USE DEF Init, CeremonyInit
<1>1. CeremonyInv
  BY DEF CeremonyInv, CeremonyTypeOK, Stages
<1>2. TypeOK
  BY <1>1, PageAssumption DEF TypeOK, CeremonyInv, Shown
<1>3. Runs /\ Awarded /\ Tokens /\ Messages /\ Questions /\ Infos
  BY DEF Runs, Awarded, Tokens, Messages, Questions, Infos
<1> QED
  BY <1>1, <1>2, <1>3 DEF PageInv

LEMMA PageStep ==
  ASSUME PageInv, [Next]_vars
  PROVE  PageInv'
<1>1. CASE Next
  <2>1. CeremonyInv'
    BY Lasting DEF Onward
  <2>2. TypeOK' /\ PageRest'
    BY <1>1, TickSteps, ClickSteps, ClickEmptySteps, GotOptionsSteps, PromptSteps, GotVerifySteps,
       NetworkErrorSteps, ServeOptionsSteps, AcceptSteps, RefuseSteps, AwardSteps, WithdrawSteps,
       CompleteSteps, ServerDiesSteps, ClickInfoSteps, ServeInfoSteps, GotInfoSteps DEF Next
  <2> QED
    BY <2>1, <2>2 DEF PageInv, PageRest
<1>2. CASE UNCHANGED vars
  <2>1. UNCHANGED <<cvars, now, at, page, subj, request, answer, minted, token, message, asked>>
    BY <1>2 DEF vars, pvars
  <2>2. CeremonyInv'
    BY Lasting DEF Onward
  <2>3. TypeOK'
    BY <2>1 DEF PageInv, TypeOK, CeremonyTypeOK, cvars
  <2>4. Runs' /\ Awarded'
    BY <2>1 DEF PageInv, Runs, Awarded, IsLogin, Registered, cvars
  <2>5. Tokens' /\ Messages' /\ Questions' /\ Infos'
    BY <2>1 DEF PageInv, Tokens, EarnedAt, Messages, Questions, Infos, IsLogin, cvars
  <2> QED
    BY <2>2, <2>3, <2>4, <2>5 DEF PageInv
<1> QED
  BY <1>1, <1>2

LEMMA PageInductive == Spec => []PageInv
BY PageStart, PageStep, PTL DEF Spec

(***************************************************************************)
(* Page keeps its types, for any users, pages, runs and lifetimes.         *)
(***************************************************************************)
THEOREM TypeCorrect == Spec => []TypeOK
<1>1. PageInv => TypeOK
  BY DEF PageInv
<1> QED
  BY <1>1, PageInductive, PTL

(***************************************************************************)
(* However its runs overlap and whatever answers are lost, a page holds    *)
(* only a token that a login of its own earned.                            *)
(***************************************************************************)
THEOREM TokensAreEarned == Spec => []TokenIsEarned
<1>1. PageInv => TokenIsEarned
  <2> SUFFICES ASSUME PageInv, NEW p \in Pages, token[p] # None
               PROVE  LET r == token[p].by
                      IN  /\ page[r] = p /\ subj[r] = <<"login", token[p].user>>
                          /\ stage[r] = "completed" /\ held[r].ticket = r /\ r \in signed
                          /\ Registered(token[p].user)
    BY DEF TokenIsEarned
  <2> DEFINE r == token[p].by
  <2>1. EarnedAt(token[p], p) /\ r \in Claims
    BY DEF PageInv, Tokens, EarnedAt, Token
  <2>2. /\ page[r] = p /\ stage[r] = "completed" /\ IsLogin(r) /\ minted[r] = token[p]
        /\ at[r] # "unused"
    BY <2>1 DEF EarnedAt, PageInv, Runs
  <2>3. held[r].ticket = r /\ Registered(subj[r][2]) /\ token[p].user = subj[r][2]
    BY <2>1, <2>2 DEF PageInv, Awarded
  <2>4. subj[r] = <<"login", subj[r][2]>>
    BY <2>1, <2>2, PageAssumption DEF PageInv, Runs, IsLogin
  <2>5. r \in signed
    BY <2>1, <2>2, <2>3 DEF PageInv, CeremonyInv
  <2> QED
    BY <2>2, <2>3, <2>4, <2>5
<1> QED
  BY <1>1, PageInductive, PTL

(***************************************************************************)
(* A page that shows a success shows that of a completed ceremony, and     *)
(* holds its token when it was a login.                                    *)
(***************************************************************************)
THEOREM MessagesAreHonest == Spec => []MessageIsHonest
<1>1. PageInv => MessageIsHonest
  BY DEF PageInv, Messages, Awarded, MessageIsHonest
<1> QED
  BY <1>1, PageInductive, PTL

(***************************************************************************)
(* User information on a page was asked for with a token of a login of the *)
(* page, before the token expired.                                         *)
(***************************************************************************)
THEOREM InfosAreFresh == Spec => []InfoIsFresh
<1>1. PageInv => InfoIsFresh
  BY DEF PageInv, Infos, Questions, EarnedAt, InfoIsFresh
<1> QED
  BY <1>1, PageInductive, PTL

(***************************************************************************)
(* The page and its server, with crashes, cancelled prompts and lost       *)
(* answers, make no step on a ceremony that Ceremony does not allow.       *)
(***************************************************************************)
THEOREM PageIsACeremony == Spec => CeremonySpec
<1>1. Init => CeremonyInit
  BY DEF Init
<1>2. PageInv /\ [Next]_vars => [CeremonyNext]_cvars
  BY StepsOfCeremony
<1> QED
  BY <1>1, <1>2, PageInductive, PTL DEF Spec, CeremonySpec

(***************************************************************************)
(* So a completed run of the page holds a signed ticket of its own subject *)
(* and device, and nobody is let in with that ticket again.                *)
(***************************************************************************)
THEOREM RunsCompleteForGood == Spec => []CompletedForGood
BY PageIsACeremony, CompletionIsFinal, Real, PTL
=============================================================================

------------------------ MODULE RefreshTokensProofs ------------------------
(***************************************************************************)
(* What RefreshTokens keeps for any number of tokens and requests: the     *)
(* types, rotation, and the detection of reuse.                            *)
(***************************************************************************)
EXTENDS RefreshTokens, TLAPS

\* Call c was sent with token t and has not been served.
Sends(c, t) == /\ calls[c].token = t /\ calls[c].kind # "login"
               /\ calls[c].at \in {"find", "revoke", "burn", "issue", "logout"}

\* A handler knows the token it was sent.
HandlersOK == \A c \in Calls :
    /\ calls[c].at \in {"find", "revoke", "burn"} => calls[c].kind = "refresh"
    /\ calls[c].at = "issue" => calls[c].kind \in {"login", "refresh"}
    /\ calls[c].at = "logout" => calls[c].kind = "logout"
    /\ Sends(c, calls[c].token) => calls[c].token \in presented

\* The families are named by tokens that exist.
FamiliesOK == (\A t \in issued : family[t] \in issued) /\ burned \subseteq issued

\* Two requests with one token have sent it twice.
OneSender == \A c, d \in Calls, t \in issued : Sends(c, t) /\ Sends(d, t) /\ c # d => t \in again

\* In a clean family a token is revoked by the request that carries it, and by no other.
DeadIsUsed == \A t \in issued \ live : Clean(family[t]) =>
    t \in presented /\ \A c \in Calls : ~(Sends(c, t) /\ calls[c].at \in {"find", "revoke"})

\* In a clean family a rotation that is about to issue a token is the only one, and no
\* other token is valid.
Line == \A c \in Calls : Rotating(c, family[calls[c].token]) /\ calls[c].at = "issue"
                         /\ Clean(family[calls[c].token]) =>
    /\ \A t \in live : family[t] # family[calls[c].token]
    /\ \A d \in Calls \ {c} : ~(calls[d].at = "issue" /\ Rotating(d, family[calls[c].token]))

\* Nothing can bring a burned family back.
NoRevival == \A f \in burned, c \in Calls : ~Rotating(c, f)

IInv == /\ TypeOK /\ HandlersOK /\ FamiliesOK
        /\ OneSender /\ DeadIsUsed
        /\ Line /\ NoRevival
        /\ OneLive /\ NoFalseAlarm /\ BurnedIsDead

Call == [at : Labels, kind : Kinds, token : issued \cup {NoToken}, waiting : BOOLEAN]

-----------------------------------------------------------------------------
(***************************************************************************)
(* The steps.                                                              *)
(***************************************************************************)
\* The invariant holds of a service without rows.
LEMMA InitOK == Init => IInv
BY TokensAssumption DEF Init, IInv, TypeOK, HandlersOK, FamiliesOK, OneSender, DeadIsUsed,
   Line, NoRevival, OneLive, NoFalseAlarm, BurnedIsDead, Sends, Rotating, Clean, Idle, Labels,
   Kinds

\* A call that ends, is given up or starts a login changes nothing that the invariant is
\* about.
LEMMA QuietKeeps ==
    ASSUME IInv, NEW c \in Calls, NEW call \in Call,
           UNCHANGED <<rows, history>>,
           calls' = [calls EXCEPT ![c] = call],
           stored' \in issued \cup {NoToken},
           \/ call = [calls[c] EXCEPT !.waiting = FALSE]
           \/ call.at \in {"idle", "done", "failed"}
           \/ call.at = "issue" /\ call.kind = "login"
    PROVE  IInv'
<1>1. TypeOK' /\ HandlersOK' /\ FamiliesOK'
  BY TokensAssumption DEF IInv, TypeOK, HandlersOK, FamiliesOK, Sends, rows, history, Call
<1>2. OneSender' /\ DeadIsUsed'
  BY TokensAssumption DEF IInv, TypeOK, OneSender, DeadIsUsed, Sends, Clean, rows, history
<1>3. Line' /\ NoRevival'
  BY TokensAssumption DEF IInv, TypeOK, Line, NoRevival, Rotating, Clean, rows, history
<1>4. OneLive' /\ NoFalseAlarm' /\ BurnedIsDead'
  BY TokensAssumption DEF IInv, TypeOK, OneLive, NoFalseAlarm, BurnedIsDead, Clean, rows,
     history
<1>. QED  BY <1>1, <1>2, <1>3, <1>4 DEF IInv

\* What the browser does without presenting a token, and a failure of the service.
LEMMA QuietSteps ==
    ASSUME IInv, NEW c \in Calls,
           Login(c) \/ Answer(c) \/ Lose(c) \/ Close(c) \/ ServiceFails(c)
    PROVE  IInv'
<1>1. calls \in [Calls -> Call] /\ stored \in issued \cup {NoToken}
  BY DEF IInv, TypeOK, Call
<1>2. Idle \in Call
  BY DEF Idle, Call, Labels, Kinds
<1>3. CASE Login(c)
  <2>1. [Idle EXCEPT !.at = "issue", !.waiting = TRUE] \in Call
    BY DEF Idle, Call, Labels, Kinds
  <2>. QED  BY <1>1, <1>3, <2>1, QuietKeeps DEF Login, Idle
<1>4. CASE Answer(c)
  BY <1>1, <1>2, <1>4, QuietKeeps DEF Answer, AfterError, Idle, Call
<1>5. CASE Lose(c) \/ Close(c)
  <2>1. [calls[c] EXCEPT !.waiting = FALSE] \in Call
    BY <1>1 DEF Call
  <2>2. calls' = [calls EXCEPT ![c] = [calls[c] EXCEPT !.waiting = FALSE]]
    BY <1>1, <1>5 DEF Lose, Close
  <2>. QED  BY <1>1, <1>5, <2>1, <2>2, QuietKeeps DEF Lose, Close, AfterError
<1>6. CASE ServiceFails(c)
  <2>1. [calls[c] EXCEPT !.at = "failed"] \in Call
    BY <1>1 DEF Call, Labels
  <2>2. calls' = [calls EXCEPT ![c] = [calls[c] EXCEPT !.at = "failed"]]
    BY <1>1, <1>6 DEF ServiceFails, Goto
  <2>. QED  BY <1>1, <1>6, <2>1, <2>2, QuietKeeps DEF ServiceFails, Call
<1>. QED  BY <1>3, <1>4, <1>5, <1>6

\* Whoever presents a token for a second time makes its family unclean.
LEMMA PresentKeeps ==
    ASSUME IInv, NEW c \in Calls, NEW kind, NEW label, Present(c, kind, label),
           \/ kind = "refresh" /\ label = "find"
           \/ kind = "logout" /\ label = "logout"
    PROVE  IInv'
<1>1. TypeOK' /\ HandlersOK' /\ FamiliesOK'
  BY TokensAssumption DEF Present, IInv, TypeOK, HandlersOK, FamiliesOK, Sends, rows, Labels,
     Kinds
<1>2. OneSender' /\ DeadIsUsed'
  BY TokensAssumption DEF Present, IInv, HandlersOK, OneSender, DeadIsUsed, Sends, Clean, rows
<1>3. Line' /\ NoRevival'
  BY TokensAssumption DEF Present, IInv, Line, NoRevival, Rotating, Clean, rows
<1>4. OneLive' /\ NoFalseAlarm' /\ BurnedIsDead'
  BY TokensAssumption DEF Present, IInv, OneLive, NoFalseAlarm, BurnedIsDead, Clean, rows
<1>. QED  BY <1>1, <1>2, <1>3, <1>4 DEF IInv

\* A token that is found revoked has been sent twice, or its family is unclean anyway.
LEMMA FindKeeps == ASSUME IInv, NEW c \in Calls, Find(c) PROVE IInv'
<1>1. UNCHANGED <<rows, stored, history>> /\ calls[c].at = "find"
  BY DEF Find
<1>2. PICK label \in {"revoke", "burn", "failed"} :
         /\ Goto(c, label)
         /\ label = "revoke" => calls[c].token \in live
         /\ label = "burn" => calls[c].token \notin live
  <2>1. CASE Goto(c, IF calls[c].token \in live THEN "revoke" ELSE "burn")
    BY <2>1
  <2>2. CASE Goto(c, "failed")
    BY <2>2
  <2>. QED  BY <2>1, <2>2 DEF Find
<1>3. TypeOK' /\ HandlersOK' /\ FamiliesOK'
  BY <1>1, <1>2, TokensAssumption DEF IInv, TypeOK, HandlersOK, FamiliesOK, Sends, rows,
     history, Goto, Labels
<1>4. OneSender' /\ DeadIsUsed'
  BY <1>1, <1>2, TokensAssumption DEF IInv, OneSender, DeadIsUsed, Sends, Clean, rows,
     history, Goto
<1>5. Line' /\ NoRevival'
  BY <1>1, <1>2, TokensAssumption DEF IInv, Line, NoRevival, BurnedIsDead, Rotating, Clean,
     rows, history, Goto
<1>6. OneLive' /\ NoFalseAlarm' /\ BurnedIsDead'
  BY <1>1, <1>2, TokensAssumption DEF IInv, TypeOK, HandlersOK, DeadIsUsed, OneLive,
     NoFalseAlarm, BurnedIsDead, Sends, Clean, rows, history, Goto
<1>. QED  BY <1>3, <1>4, <1>5, <1>6 DEF IInv

\* The last valid token of a clean family goes before the next one comes.
LEMMA RevokeKeeps == ASSUME IInv, NEW c \in Calls, Revoke(c) PROVE IInv'
<1>1. TypeOK' /\ HandlersOK' /\ FamiliesOK'
  BY TokensAssumption DEF Revoke, IInv, TypeOK, HandlersOK, FamiliesOK, Sends, history, Goto,
     Labels
<1>2. OneSender' /\ DeadIsUsed'
  BY TokensAssumption DEF Revoke, IInv, TypeOK, HandlersOK, OneSender, DeadIsUsed, Sends,
     Clean, history, Goto
<1>3. Line' /\ NoRevival'
  BY TokensAssumption DEF Revoke, IInv, TypeOK, HandlersOK, DeadIsUsed, Line, NoRevival,
     OneLive, BurnedIsDead, Sends, Rotating, Clean, history, Goto, Labels
<1>4. OneLive' /\ NoFalseAlarm' /\ BurnedIsDead'
  BY TokensAssumption DEF Revoke, IInv, OneLive, NoFalseAlarm, BurnedIsDead, Clean, history,
     Goto
<1>. QED  BY <1>1, <1>2, <1>3, <1>4 DEF IInv

\* It comes when there is no other.
LEMMA IssueKeeps == ASSUME IInv, NEW c \in Calls, Issue(c) PROVE IInv'
<1>. DEFINE f(t) == IF calls[c].kind = "login" THEN t ELSE family[calls[c].token]
<1>1. PICK t \in Tokens \ issued :
         /\ issued' = issued \cup {t}
         /\ live' = live \cup {t}
         /\ family' = [family EXCEPT ![t] = f(t)]
         /\ calls' = [calls EXCEPT ![c] = [@ EXCEPT !.at = "done", !.token = t]]
  BY DEF Issue
<1>2. calls[c].at = "issue" /\ UNCHANGED <<stored, presented, again, burned>>
  BY DEF Issue, history
<1>3. calls[c].kind # "login" => /\ calls[c].kind = "refresh" /\ calls[c].token \in presented
                                /\ Rotating(c, f(t))
  BY <1>2 DEF IInv, HandlersOK, Sends, Rotating
<1>4. /\ family' \in [Tokens -> Tokens] /\ family'[t] = f(t) /\ f(t) \in issued'
      /\ \A u \in issued : family'[u] = family[u]
  BY <1>1, <1>3 DEF IInv, TypeOK, FamiliesOK
<1>5. /\ calls'[c].at = "done" /\ calls'[c].token = t /\ calls'[c].kind = calls[c].kind
      /\ \A d \in Calls \ {c} : calls'[d] = calls[d]
  BY <1>1 DEF IInv, TypeOK
<1>6. TypeOK' /\ HandlersOK' /\ FamiliesOK'
  <2>1. calls' \in [Calls -> [at : Labels, kind : Kinds, token : issued' \cup {NoToken},
                             waiting : BOOLEAN]]
    BY <1>1 DEF IInv, TypeOK, Labels
  <2>2. TypeOK'
    BY <1>1, <1>2, <1>4, <2>1 DEF IInv, TypeOK
  <2>3. HandlersOK'
    BY <1>2, <1>5 DEF IInv, TypeOK, HandlersOK, Sends
  <2>. QED  BY <1>1, <1>2, <1>4, <2>2, <2>3 DEF IInv, FamiliesOK
<1>7. \A d \in Calls : \A u : Sends(d, u)' => d # c /\ Sends(d, u)
  BY <1>5 DEF Sends
<1>8. OneSender' /\ DeadIsUsed'
  <2>1. OneSender'
    <3>. SUFFICES ASSUME NEW d \in Calls, NEW e \in Calls, NEW u \in issued',
                         Sends(d, u)', Sends(e, u)', d # e
                  PROVE  u \in again'
      BY DEF OneSender
    <3>1. Sends(d, u) /\ Sends(e, u)
      BY <1>7
    <3>2. u \in issued
      BY <3>1 DEF IInv, TypeOK, HandlersOK, Sends
    <3>. QED  BY <1>2, <3>1, <3>2 DEF IInv, OneSender
  <2>2. DeadIsUsed'
    <3>. SUFFICES ASSUME NEW u \in issued' \ live', Clean(family[u])'
                  PROVE  u \in presented' /\ \A d \in Calls :
                            ~(Sends(d, u)' /\ calls'[d].at \in {"find", "revoke"})
      BY DEF DeadIsUsed
    <3>1. u \in issued \ live /\ Clean(family[u])
      BY <1>1, <1>2, <1>4 DEF IInv, TypeOK, Clean
    <3>. QED  BY <1>2, <1>5, <1>7, <3>1 DEF IInv, TypeOK, DeadIsUsed
  <2>. QED  BY <2>1, <2>2
<1>9. \A d \in Calls : \A g : Rotating(d, g)' => d # c /\ Rotating(d, g)
  <2>. SUFFICES ASSUME NEW d \in Calls, NEW g, Rotating(d, g)'
                PROVE  d # c /\ Rotating(d, g)
    OBVIOUS
  <2>1. d # c /\ calls'[d] = calls[d]
    BY <1>5 DEF Rotating
  <2>2. calls[d].token \in issued
    BY <2>1 DEF IInv, TypeOK, HandlersOK, Sends, Rotating
  <2>. QED  BY <1>4, <2>1, <2>2 DEF Rotating
<1>10. \A g : Clean(g)' => Clean(g)
  BY <1>2, <1>4 DEF IInv, TypeOK, Clean
<1>11. Line' /\ NoRevival'
  <2>1. ASSUME NEW d \in Calls, Rotating(d, family[calls[d].token])', calls'[d].at = "issue",
               Clean(family[calls[d].token])'
        PROVE  /\ \A u \in live' : family'[u] # family'[calls'[d].token]
               /\ \A e \in Calls \ {d} :
                      ~(calls'[e].at = "issue" /\ Rotating(e, family[calls[d].token])')
    <3>1. d # c /\ calls'[d] = calls[d] /\ calls[d].token \in issued
      BY <1>5, <1>9, <2>1 DEF IInv, TypeOK, HandlersOK, Sends, Rotating
    <3>2. family'[calls'[d].token] = family[calls[d].token]
      BY <1>4, <3>1
    <3>3. /\ Rotating(d, family[calls[d].token]) /\ Clean(family[calls[d].token])
          /\ calls[d].at = "issue"
      BY <1>9, <1>10, <2>1, <3>1, <3>2
    <3>4. f(t) # family[calls[d].token]
      <4>1. CASE calls[c].kind = "login"
        BY <3>1, <4>1 DEF IInv, FamiliesOK
      <4>2. CASE calls[c].kind # "login"
        BY <1>2, <1>3, <3>1, <3>3, <4>2 DEF IInv, Line
      <4>. QED  BY <4>1, <4>2
    <3>. QED  BY <1>1, <1>4, <1>5, <1>9, <3>1, <3>2, <3>3, <3>4 DEF IInv, TypeOK, Line
  <2>. QED  BY <1>2, <1>9, <2>1 DEF IInv, Line, NoRevival
<1>12. OneLive' /\ NoFalseAlarm' /\ BurnedIsDead'
  <2>1. Clean(f(t)) => \A u \in live : family[u] # f(t)
    BY <1>1, <1>2, <1>3 DEF IInv, TypeOK, FamiliesOK, Line
  <2>2. OneLive'
    BY <1>1, <1>4, <1>10, <2>1 DEF IInv, TypeOK, OneLive
  <2>3. NoFalseAlarm'
    <3>. SUFFICES ASSUME NEW d \in Calls, calls'[d].at = "burn"
                  PROVE  ~Clean(family[calls[d].token])'
      BY DEF NoFalseAlarm
    <3>1. calls'[d] = calls[d] /\ calls[d].at = "burn"
      BY <1>5
    <3>2. calls[d].token \in issued
      BY <3>1 DEF IInv, TypeOK, HandlersOK, Sends
    <3>3. family'[calls'[d].token] = family[calls[d].token]
      BY <1>4, <3>1, <3>2
    <3>. QED  BY <1>10, <3>1, <3>3 DEF IInv, NoFalseAlarm
  <2>4. f(t) \notin burned
    BY <1>3 DEF IInv, FamiliesOK, NoRevival
  <2>5. BurnedIsDead'
    BY <1>1, <1>2, <1>4, <2>4 DEF IInv, TypeOK, BurnedIsDead
  <2>. QED  BY <2>2, <2>3, <2>5
<1>. QED  BY <1>6, <1>8, <1>11, <1>12 DEF IInv

\* A burn leaves nothing valid, and nothing on its way unless it is not counted as one.
LEMMA BurnKeeps == ASSUME IInv, NEW c \in Calls, Burn(c) PROVE IInv'
<1>1. TypeOK' /\ HandlersOK' /\ FamiliesOK'
  BY TokensAssumption DEF Burn, IInv, TypeOK, HandlersOK, FamiliesOK, Sends, Goto, Labels
<1>2. OneSender' /\ DeadIsUsed'
  BY TokensAssumption DEF Burn, IInv, OneSender, DeadIsUsed, NoFalseAlarm, Sends, Clean,
     Family, Goto
<1>3. Line' /\ NoRevival'
  BY TokensAssumption DEF Burn, IInv, Line, NoRevival, Rotating, Clean, Goto
<1>4. OneLive' /\ NoFalseAlarm' /\ BurnedIsDead'
  BY TokensAssumption DEF Burn, IInv, TypeOK, OneLive, NoFalseAlarm, BurnedIsDead, Clean,
     Family, Goto
<1>. QED  BY <1>1, <1>2, <1>3, <1>4 DEF IInv

\* A logout revokes the token it was sent with.
LEMMA RevokeOneKeeps == ASSUME IInv, NEW c \in Calls, RevokeOne(c) PROVE IInv'
<1>1. TypeOK' /\ HandlersOK' /\ FamiliesOK'
  BY TokensAssumption DEF RevokeOne, IInv, TypeOK, HandlersOK, FamiliesOK, Sends, history,
     Goto, Labels
<1>2. OneSender' /\ DeadIsUsed'
  BY TokensAssumption DEF RevokeOne, IInv, HandlersOK, OneSender, DeadIsUsed, Sends, Clean,
     history, Goto
<1>3. Line' /\ NoRevival'
  BY TokensAssumption DEF RevokeOne, IInv, Line, NoRevival, Rotating, Clean, history, Goto
<1>4. OneLive' /\ NoFalseAlarm' /\ BurnedIsDead'
  BY TokensAssumption DEF RevokeOne, IInv, OneLive, NoFalseAlarm, BurnedIsDead, Clean,
     history, Goto
<1>. QED  BY <1>1, <1>2, <1>3, <1>4 DEF IInv

-----------------------------------------------------------------------------
(***************************************************************************)
(* The theorems.                                                           *)
(***************************************************************************)
\* Every step of every call keeps the invariant.
LEMMA NextKeeps == IInv /\ [Next]_vars => IInv'
<1>1. ASSUME IInv, NEW c \in Calls, Browser(c) PROVE IInv'
  BY <1>1, QuietSteps, PresentKeeps DEF Browser, Refresh, Logout
<1>2. ASSUME IInv, NEW c \in Calls, Service(c) PROVE IInv'
  BY <1>2, QuietSteps, FindKeeps, RevokeKeeps, IssueKeeps, BurnKeeps, RevokeOneKeeps DEF Service
<1>3. ASSUME IInv, UNCHANGED vars PROVE IInv'
  BY <1>3 DEF vars, IInv, TypeOK, HandlersOK, FamiliesOK, OneSender, DeadIsUsed, Line,
     NoRevival, OneLive, NoFalseAlarm, BurnedIsDead, Sends, Rotating, Clean, rows, history
<1>. QED  BY <1>1, <1>2, <1>3 DEF Next

\* The invariant holds in every reachable state.
LEMMA Invariance == Spec => []IInv
BY InitOK, NextKeeps, PTL DEF Spec

\* Every reachable state is well formed: nobody holds a token without a row.
THEOREM TypeCorrect == Spec => []TypeOK
<1>1. IInv => TypeOK  BY DEF IInv
<1>. QED  BY <1>1, Invariance, PTL

\* Rotation (token.service.ts:95-139): a family has one valid token at most, unless one of
\* its tokens was sent twice.
THEOREM RotationIsLinear == Spec => []OneLive
<1>1. IInv => OneLive  BY DEF IInv
<1>. QED  BY <1>1, Invariance, PTL

\* Reuse detection (token.service.ts:111-118) accuses nobody who sends each token once.
THEOREM HonestIsNotAccused == Spec => []NoFalseAlarm
<1>1. IInv => NoFalseAlarm  BY DEF IInv
<1>. QED  BY <1>1, Invariance, PTL

\* A family burned while none of its rotations is under way has no valid token any more.
THEOREM BurnedForGood == Spec => []BurnedIsDead
<1>1. IInv => BurnedIsDead  BY DEF IInv
<1>. QED  BY <1>1, Invariance, PTL
=============================================================================

--------------------------- MODULE RefreshTokens ---------------------------
(***************************************************************************)
(* Refresh tokens: TokenService (apps/backend/src/auth/token.service.ts)   *)
(* and the browser that uses it, authStore.ts and api.ts under             *)
(* apps/frontend/src.                                                      *)
(*                                                                         *)
(* A call is one HTTP request for login, refresh or logout, with the       *)
(* handler that serves it: the handler goes on when the browser has given  *)
(* the request up.  The pages of the browser share its local storage.      *)
(* Only what the service stored is presented to it: hashes and signatures  *)
(* always match.  Access tokens are left out.                              *)
(***************************************************************************)
EXTENDS Naturals

CONSTANTS Tokens,   \* the refresh tokens there may be, named by their jti
          NoToken,
          Calls     \* bound: requests in flight

ASSUME TokensAssumption == NoToken \notin Tokens

VARIABLES issued,     \* rows of RefreshToken
          live,       \* those whose revokedAt is null
          family,     \* the family of each row, named by its first token
          stored,     \* the token in the local storage
          calls,
          presented,  \* history: tokens sent for refresh or logout
          again,      \* history: those sent more than once
          burned      \* history: families revoked for reuse while no rotation of theirs was on

rows == <<issued, live, family>>
history == <<presented, again, burned>>
vars == <<rows, stored, calls, history>>

Kinds == {"login", "refresh", "logout"}
Labels == {"idle", "find", "revoke", "burn", "issue", "logout", "done", "failed"}
Idle == [at |-> "idle", kind |-> "login", token |-> NoToken, waiting |-> FALSE]

\* Nobody has a token without a row.
TypeOK == /\ issued \subseteq Tokens /\ live \subseteq issued
          /\ family \in [Tokens -> Tokens]
          /\ stored \in issued \cup {NoToken}
          /\ calls \in [Calls -> [at : Labels, kind : Kinds, token : issued \cup {NoToken},
                                  waiting : BOOLEAN]]
          /\ presented \subseteq issued /\ again \subseteq presented
          /\ burned \subseteq Tokens

Family(f) == {t \in issued : family[t] = f}
Goto(c, label) == calls' = [calls EXCEPT ![c].at = label]
Free == {c \in Calls : calls[c] = Idle}

\* A rotation of family f has read its token and not yet stored the next one.
Rotating(c, f) == /\ calls[c].kind = "refresh" /\ calls[c].at \in {"revoke", "issue"}
                  /\ family[calls[c].token] = f

-----------------------------------------------------------------------------
(***************************************************************************)
(* Faulty variants of steps below.                                         *)
(***************************************************************************)
\* The token is handed out and its row is not created.
IssueWithoutRow(c) ==
    /\ calls[c].at = "issue"
    /\ \E t \in Tokens \ issued :
          calls' = [calls EXCEPT ![c] = [@ EXCEPT !.at = "done", !.token = t]]
    /\ UNCHANGED <<rows, stored, history>>

\* The presented token is not revoked.
RevokeNothing(c) == /\ calls[c].at = "revoke"
                    /\ Goto(c, "issue")
                    /\ UNCHANGED <<rows, stored, history>>

\* What is revoked with the presented token is its family, once the next token is there.
IssueThenRevoke(c) ==
    /\ calls[c].at = "issue"
    /\ \E t \in Tokens \ issued :
          LET f == IF calls[c].kind = "login" THEN t ELSE family[calls[c].token]
          IN /\ issued' = issued \cup {t}
             /\ live' = IF calls[c].kind = "login" THEN live \cup {t} ELSE live \ Family(f)
             /\ family' = [family EXCEPT ![t] = f]
             /\ calls' = [calls EXCEPT ![c] = [@ EXCEPT !.at = "done", !.token = t]]
    /\ UNCHANGED <<stored, history>>

\* Reuse revokes the presented token instead of its family.
BurnPresented(c) ==
    LET f == family[calls[c].token]
    IN /\ calls[c].at = "burn"
       /\ live' = live \ {calls[c].token}
       /\ burned' = IF \E d \in Calls : Rotating(d, f) THEN burned ELSE burned \cup {f}
       /\ Goto(c, "failed")
       /\ UNCHANGED <<issued, family, stored, presented, again>>

-----------------------------------------------------------------------------
(***************************************************************************)
(* The browser sends a request.                                            *)
(***************************************************************************)
\* login, register and playAsGuest.
Login(c) == /\ c \in Free
            /\ calls' = [calls EXCEPT ![c] = [Idle EXCEPT !.at = "issue", !.waiting = TRUE]]
            /\ UNCHANGED <<rows, stored, history>>

Present(c, kind, label) ==
    /\ c \in Free
    /\ stored # NoToken
    /\ calls' = [calls EXCEPT ![c] = [at |-> label, kind |-> kind, token |-> stored,
                                       waiting |-> TRUE]]
    /\ presented' = presented \cup {stored}
    /\ again' = again \cup ({stored} \cap presented)
    /\ UNCHANGED <<rows, stored, burned>>

\* bootstrap, and every request that was answered with 401, each for itself.
Refresh(c) == Present(c, "refresh", "find")
Logout(c) == Present(c, "logout", "logout")

-----------------------------------------------------------------------------
(***************************************************************************)
(* The service.                                                            *)
(***************************************************************************)
\* rotate: the token is verified and its row is read.  It may have expired.
Find(c) == /\ calls[c].at = "find"
           /\ \/ Goto(c, IF calls[c].token \in live THEN "revoke" ELSE "burn")
              \/ Goto(c, "failed")
           /\ UNCHANGED <<rows, stored, history>>

\* The user is there, the row is revoked: whatever has happened to it meanwhile.
Revoke(c) == /\ calls[c].at = "revoke"
             /\ live' = live \ {calls[c].token}
             /\ Goto(c, "issue")
             /\ UNCHANGED <<issued, family, stored, history>>

\* signRefresh: in the family of the presented token, or in one of its own.
Issue(c) ==
    /\ calls[c].at = "issue"
    /\ \E t \in Tokens \ issued :
          /\ issued' = issued \cup {t}
          /\ live' = live \cup {t}
          /\ family' = [family EXCEPT ![t] = IF calls[c].kind = "login" THEN t
                                             ELSE family[calls[c].token]]
          /\ calls' = [calls EXCEPT ![c] = [@ EXCEPT !.at = "done", !.token = t]]
    /\ UNCHANGED <<stored, history>>

\* A revoked token was presented: its family is revoked.
Burn(c) == LET f == family[calls[c].token]
           IN /\ calls[c].at = "burn"
              /\ live' = live \ Family(f)
              /\ burned' = IF \E d \in Calls : Rotating(d, f) THEN burned ELSE burned \cup {f}
              /\ Goto(c, "failed")
              /\ UNCHANGED <<issued, family, stored, presented, again>>

\* revoke, for logout.
RevokeOne(c) == /\ calls[c].at = "logout"
                /\ live' = live \ {calls[c].token}
                /\ Goto(c, "done")
                /\ UNCHANGED <<issued, family, stored, history>>

\* A statement fails, or the node goes down.
ServiceFails(c) == /\ calls[c].at \in {"find", "revoke", "burn", "issue", "logout"}
                   /\ Goto(c, "failed")
                   /\ UNCHANGED <<rows, stored, history>>

-----------------------------------------------------------------------------
(***************************************************************************)
(* The browser takes the answer, or does without.                          *)
(***************************************************************************)
\* What an error leaves in the local storage: a failed refresh and any logout clear it,
\* whatever it holds by then.
AfterError(c) == IF calls[c].kind = "login" THEN stored ELSE NoToken

Answer(c) == /\ calls[c].at \in {"done", "failed"}
             /\ stored' = CASE ~calls[c].waiting -> stored
                            [] calls[c].at = "done" /\ calls[c].kind # "logout" -> calls[c].token
                            [] OTHER -> AfterError(c)
             /\ calls' = [calls EXCEPT ![c] = Idle]
             /\ UNCHANGED <<rows, history>>

\* The connection fails under a request; the handler may go on.
Lose(c) == /\ calls[c].waiting
           /\ stored' = AfterError(c)
           /\ calls' = [calls EXCEPT ![c].waiting = FALSE]
           /\ UNCHANGED <<rows, history>>

\* The page is closed or loaded anew.
Close(c) == /\ calls[c].waiting
            /\ calls' = [calls EXCEPT ![c].waiting = FALSE]
            /\ UNCHANGED <<rows, stored, history>>

-----------------------------------------------------------------------------
Init == /\ issued = {} /\ live = {}
        /\ family = [t \in Tokens |-> t]
        /\ stored = NoToken
        /\ calls = [c \in Calls |-> Idle]
        /\ presented = {} /\ again = {} /\ burned = {}

Browser(c) == Login(c) \/ Refresh(c) \/ Logout(c) \/ Answer(c) \/ Lose(c) \/ Close(c)
Service(c) == Find(c) \/ Revoke(c) \/ Issue(c) \/ Burn(c) \/ RevokeOne(c) \/ ServiceFails(c)
Next == \E c \in Calls : Browser(c) \/ Service(c)

Spec == Init /\ [][Next]_vars

-----------------------------------------------------------------------------
(***************************************************************************)
(* Properties.                                                             *)
(***************************************************************************)
\* No token of the family was sent twice.
Clean(f) == \A t \in again : family[t] # f

\* Rotation: a family has one valid token at most, whatever is lost, fails or is closed on
\* the way, unless the browser itself has sent one of its tokens twice.
OneLive == \A t, u \in live : family[t] = family[u] /\ Clean(family[t]) => t = u

\* Reuse is detected in families only in which a token was sent twice: a browser that
\* sends each of them once is never taken for a thief (token.service.ts:111).
NoFalseAlarm == \A c \in Calls : calls[c].at = "burn" => ~Clean(family[calls[c].token])

\* "Reuse burns the family" (ARCHITECTURE.md:170): no token of it is valid, ever again.
\* A family that was burned while a rotation of it was under way gets that one's token yet.
BurnedIsDead == \A t \in live : family[t] \notin burned
=============================================================================

------------------------------ MODULE RefreshTokens ------------------------------
(***************************************************************************)
(* The sessions of apps/api: sign-in, refresh-token rotation, sign-out and *)
(* sign-out from all sessions, run by any number of concurrent requests    *)
(* over the table auth.refresh_tokens (rows with grant_type 'password').   *)
(*                                                                         *)
(* The database is PostgreSQL at its default isolation level, READ         *)
(* COMMITTED.  A DELETE decides which rows it is about when it starts,     *)
(* from what is committed then (target).  It takes their row locks one by  *)
(* one, waits for a row that another open transaction has deleted, and     *)
(* skips the row if that transaction commits.  A row inserted after the    *)
(* statement started is never seen by it.                                  *)
(*                                                                         *)
(* A request runs once: a repeated call is another member of Requests.     *)
(* The uuid a request draws (uuidv4 never repeats itself) is named after   *)
(* the request, so r names the token that r mints and the session r opens. *)
(***************************************************************************)
CONSTANTS
  Requests,            \* the HTTP requests, each handled once
  Users,               \* auth.users.id
  NoClaims             \* no token minted

Claims == [token : Requests, session : Requests, user : Users]

ASSUME NoClaimsAssumption == NoClaims \notin Claims

VARIABLES
  rows,                \* the committed rows of auth.refresh_tokens
  pc,                  \* where each request is; the status code once answered
  op,                  \* the route each request called
  arg,                 \* the claims of the token the request presented
  target,              \* the rows its DELETE is about: those matching at its start
  todo,                \* the members of target the DELETE has not visited yet
  deleted,             \* rows its open transaction has deleted, and so locked
  issue                \* the row it inserted, NoClaims when none or rolled back

vars == <<rows, pc, op, arg, target, todo, deleted, issue>>

SignOutOps == {"sign_out", "sign_out_all"}
Ops == {"none", "sign_in", "refresh", "sign_out", "sign_out_all"}
InFlight == {"deleting", "minting", "committing"}
\* "error" is a 500, a lost connection, or an API process that died.
Answered == {"200", "204", "400", "404", "error"}

TypeOK ==
  /\ rows \subseteq Claims
  /\ pc \in [Requests -> {"idle"} \cup InFlight \cup Answered]
  /\ op \in [Requests -> Ops]
  /\ arg \in [Requests -> Claims \cup {NoClaims}]
  /\ target \in [Requests -> SUBSET Claims]
  /\ todo \in [Requests -> SUBSET Claims]
  /\ deleted \in [Requests -> SUBSET Claims]
  /\ issue \in [Requests -> Claims \cup {NoClaims}]

Init ==
  /\ rows = {}
  /\ pc = [r \in Requests |-> "idle"]
  /\ op = [r \in Requests |-> "none"]
  /\ arg = [r \in Requests |-> NoClaims]
  /\ target = [r \in Requests |-> {}]
  /\ todo = [r \in Requests |-> {}]
  /\ deleted = [r \in Requests |-> {}]
  /\ issue = [r \in Requests |-> NoClaims]
----------------------------------------------------------------------------
(* A client holds the refresh token of each answer it received, and the    *)
(* access token, with the same session and user, that came with it.        *)

Held == {issue[r] : r \in {q \in Requests : pc[q] = "200"}}

(* The rows that the WHERE clause of each DELETE matches. *)

TokenRows(c) == rows \cap {c}

SessionRows(c) == {x \in rows : x.user = c.user /\ x.session = c.session}

UserRows(c) == {x \in rows : x.user = c.user}

\* Another open transaction has deleted x and not ended yet.
Locked(r, x) == \E q \in Requests \ {r} : x \in deleted[q]
----------------------------------------------------------------------------
(* mfaChallengeController: one INSERT, which commits by itself.  The       *)
(* answer can be lost after the INSERT took effect.                        *)

\* Mutant: the session id is taken from a token the caller holds.
SignInReusingSession(r, u) ==
  /\ pc[r] = "idle"
  /\ op' = [op EXCEPT ![r] = "sign_in"]
  /\ \E s \in {r} \cup {c.session : c \in Held} :
       LET c == [token |-> r, session |-> s, user |-> u]
       IN  /\ rows' = rows \cup {c}
           /\ issue' = [issue EXCEPT ![r] = c]
  /\ pc' = [pc EXCEPT ![r] = "200"]
  /\ UNCHANGED <<arg, target, todo, deleted>>

SignIn(r, u) ==
  LET c == [token |-> r, session |-> r, user |-> u]
  IN
  /\ pc[r] = "idle"
  /\ op' = [op EXCEPT ![r] = "sign_in"]
  /\ \/ /\ rows' = rows \cup {c}
        /\ issue' = [issue EXCEPT ![r] = c]
        /\ pc' \in {[pc EXCEPT ![r] = "200"], [pc EXCEPT ![r] = "error"]}
     \/ /\ pc' = [pc EXCEPT ![r] = "error"]
        /\ UNCHANGED <<rows, issue>>
  /\ UNCHANGED <<arg, target, todo, deleted>>

(* The three routes that DELETE.  The statement starts: its snapshot is    *)
(* taken, nothing is locked yet.                                           *)

StartDelete(r, o, c, found) ==
  /\ pc[r] = "idle"
  /\ c \in Held
  /\ pc' = [pc EXCEPT ![r] = "deleting"]
  /\ op' = [op EXCEPT ![r] = o]
  /\ arg' = [arg EXCEPT ![r] = c]
  /\ target' = [target EXCEPT ![r] = found]
  /\ todo' = [todo EXCEPT ![r] = found]
  /\ UNCHANGED <<rows, deleted, issue>>

Refresh(r, c) == StartDelete(r, "refresh", c, TokenRows(c))

SignOut(r, c) == StartDelete(r, "sign_out", c, SessionRows(c))

SignOutAll(r, c) == StartDelete(r, "sign_out_all", c, UserRows(c))

\* Mutant: DELETE ... SKIP LOCKED, a locked row counts as gone.
DeleteRowSkippingLocked(r, x) ==
  /\ pc[r] = "deleting"
  /\ x \in todo[r]
  /\ todo' = [todo EXCEPT ![r] = @ \ {x}]
  /\ deleted' = IF Locked(r, x) THEN deleted
                 ELSE [deleted EXCEPT ![r] = @ \cup ({x} \cap rows)]
  /\ UNCHANGED <<rows, pc, op, arg, target, issue>>

DeleteRow(r, x) ==
  /\ pc[r] = "deleting"
  /\ x \in todo[r]
  /\ ~Locked(r, x)
  /\ todo' = [todo EXCEPT ![r] = @ \ {x}]
  /\ deleted' = [deleted EXCEPT ![r] = @ \cup ({x} \cap rows)]
  /\ UNCHANGED <<rows, pc, op, arg, target, issue>>

Scanned(r) == pc[r] = "deleting" /\ todo[r] = {}

(* refreshTokenController, inside withTransaction: no row deleted means    *)
(* the token was not valid, and the transaction rolls back.                *)

\* Mutant: a status no route documents.
RejectRefreshAs500(r) ==
  /\ Scanned(r) /\ op[r] = "refresh" /\ deleted[r] = {}
  /\ pc' = [pc EXCEPT ![r] = "500"]
  /\ UNCHANGED <<rows, op, arg, target, todo, deleted, issue>>

RejectRefresh(r) ==
  /\ Scanned(r)
  /\ op[r] = "refresh"
  /\ deleted[r] = {}
  /\ pc' = [pc EXCEPT ![r] = "400"]
  /\ UNCHANGED <<rows, op, arg, target, todo, deleted, issue>>

\* Mutant: rowCount is not looked at.
AcceptRefreshUnchecked(r) ==
  /\ Scanned(r)
  /\ op[r] = "refresh"
  /\ pc' = [pc EXCEPT ![r] = "minting"]
  /\ UNCHANGED <<rows, op, arg, target, todo, deleted, issue>>

AcceptRefresh(r) ==
  /\ Scanned(r)
  /\ op[r] = "refresh"
  /\ deleted[r] # {}
  /\ pc' = [pc EXCEPT ![r] = "minting"]
  /\ UNCHANGED <<rows, op, arg, target, todo, deleted, issue>>

\* generateAccessToken: a new jti for the session of the presented token.
SaveRefreshToken(r) ==
  /\ pc[r] = "minting"
  /\ issue' = [issue EXCEPT ![r] = [arg[r] EXCEPT !.token = r]]
  /\ pc' = [pc EXCEPT ![r] = "committing"]
  /\ UNCHANGED <<rows, op, arg, target, todo, deleted>>

\* COMMIT takes effect; its answer, or the response, may still be lost.
Commit(r) ==
  /\ pc[r] = "committing"
  /\ rows' = (rows \ deleted[r]) \cup {issue[r]}
  /\ deleted' = [deleted EXCEPT ![r] = {}]
  /\ pc' \in {[pc EXCEPT ![r] = "200"], [pc EXCEPT ![r] = "error"]}
  /\ UNCHANGED <<op, arg, target, todo, issue>>

(* The sign-out routes: the DELETE commits by itself when it has visited   *)
(* every row; the status says whether it deleted any.                      *)

\* Mutant: the status is 204 whatever rowCount is.
FinishSignOutAlways204(r) ==
  /\ Scanned(r)
  /\ op[r] \in SignOutOps
  /\ rows' = rows \ deleted[r]
  /\ deleted' = [deleted EXCEPT ![r] = {}]
  /\ pc' = [pc EXCEPT ![r] = "204"]
  /\ UNCHANGED <<op, arg, target, todo, issue>>

FinishSignOut(r) ==
  /\ Scanned(r)
  /\ op[r] \in SignOutOps
  /\ rows' = rows \ deleted[r]
  /\ deleted' = [deleted EXCEPT ![r] = {}]
  /\ LET status == IF deleted[r] # {} THEN "204" ELSE "404"
     IN  pc' \in {[pc EXCEPT ![r] = status], [pc EXCEPT ![r] = "error"]}
  /\ UNCHANGED <<op, arg, target, todo, issue>>

(* A statement fails, the connection breaks or the API process dies: the   *)
(* transaction leaves no trace and its locks are released.                 *)

\* Mutant: the DELETE ran outside the transaction and is not undone.
AbortKeepingDelete(r) ==
  /\ pc[r] \in InFlight
  /\ rows' = rows \ deleted[r]
  /\ todo' = [todo EXCEPT ![r] = {}]
  /\ deleted' = [deleted EXCEPT ![r] = {}]
  /\ issue' = [issue EXCEPT ![r] = NoClaims]
  /\ pc' = [pc EXCEPT ![r] = "error"]
  /\ UNCHANGED <<op, arg, target>>

\* Mutant: no ROLLBACK is sent, the pooled connection keeps its locks.
AbortWithoutRollback(r) ==
  /\ pc[r] \in InFlight
  /\ todo' = [todo EXCEPT ![r] = {}]
  /\ issue' = [issue EXCEPT ![r] = NoClaims]
  /\ pc' = [pc EXCEPT ![r] = "error"]
  /\ UNCHANGED <<rows, op, arg, target, deleted>>

Abort(r) ==
  /\ pc[r] \in InFlight
  /\ todo' = [todo EXCEPT ![r] = {}]
  /\ deleted' = [deleted EXCEPT ![r] = {}]
  /\ issue' = [issue EXCEPT ![r] = NoClaims]
  /\ pc' = [pc EXCEPT ![r] = "error"]
  /\ UNCHANGED <<rows, op, arg, target>>

\* Every row a member of the group waits for is locked by another member.
Deadlocked(group) ==
  \A q \in group :
    /\ pc[q] = "deleting"
    /\ todo[q] # {}
    /\ \A x \in todo[q] : \E p \in group \ {q} : x \in deleted[p]

\* PostgreSQL's deadlock detector aborts a statement that waits in a cycle.
DeadlockVictim(r) ==
  /\ \E group \in SUBSET Requests : r \in group /\ Deadlocked(group)
  /\ Abort(r)

\* Nothing is in flight: the service waits for requests.
Quiescent ==
  /\ \A r \in Requests : pc[r] \notin InFlight
  /\ UNCHANGED vars

Next ==
  \/ \E r \in Requests :
       \/ \E u \in Users : SignIn(r, u)
       \/ \E c \in Claims : \/ Refresh(r, c)
                            \/ SignOut(r, c)
                            \/ SignOutAll(r, c)
                            \/ DeleteRow(r, c)
       \/ RejectRefresh(r)
       \/ AcceptRefresh(r)
       \/ SaveRefreshToken(r)
       \/ Commit(r)
       \/ FinishSignOut(r)
       \/ Abort(r)
  \/ Quiescent

Spec == Init /\ [][Next]_vars

\* The database executes every statement it was sent, a row lock is handed to
\* a waiter when its holder ends, and Node's event loop resumes every handler
\* whose query has resolved.  Users owe nothing: no request has to be made.
Fairness ==
  \A r \in Requests :
    /\ WF_vars(\E x \in Claims : DeleteRow(r, x))
    /\ WF_vars(RejectRefresh(r))
    /\ WF_vars(AcceptRefresh(r))
    /\ WF_vars(SaveRefreshToken(r))
    /\ WF_vars(Commit(r))
    /\ WF_vars(FinishSignOut(r))
    /\ WF_vars(DeadlockVictim(r))

FairSpec == Spec /\ Fairness
----------------------------------------------------------------------------
(* Properties *)

\* A token that was redeemed, or the sign-in token: its INSERT has committed.
Committed(r) == issue[r] # NoClaims /\ pc[r] # "committing"

\* A session never has two redeemable refresh tokens, however many refreshes
\* of it race (tokenController.ts deletes before it inserts).
OneTokenPerSession ==
  \A x, y \in rows : x.session = y.session => x = y

\* Two requests that present the same refresh token never both get a new one.
RedeemedOnce ==
  \A q, r \in Requests :
    /\ op[q] = "refresh" /\ Committed(q)
    /\ op[r] = "refresh" /\ Committed(r)
    /\ arg[q] = arg[r]
    => q = r

\* Rotation never forks a session.
RotationIsExclusive == OneTokenPerSession /\ RedeemedOnce

\* POST /auth/sign-out that answered 204 has ended the session for good, also
\* against a refresh that was in flight at the same time.
SignOutFinal ==
  \A r \in Requests :
    op[r] = "sign_out" /\ pc[r] = "204" =>
      \A x \in rows : x.session # arg[r].session

\* A refresh token answered with 400 'Invalid refresh token.' is never valid
\* afterwards: the client that drops it loses nothing.
RejectedIsDead ==
  \A r \in Requests : op[r] = "refresh" /\ pc[r] = "400" => arg[r] \notin rows

\* What the API has called over stays over.
OverIsOver == SignOutFinal /\ RejectedIsDead

\* A session that was handed to a client ends only by a sign-out that found it:
\* no refresh, refused, failed or cut off half-way, takes it away.  Until then a
\* client holds its token, unless the one whose COMMIT made that token did not
\* get the answer: such a session goes on with a token nobody has.
SessionKept ==
  \A c \in Held :
    \/ \E x \in rows \cap Held : x.session = c.session
    \/ \E r \in Requests :
         pc[r] = "error" /\ issue[r] \in rows /\ issue[r].session = c.session
    \/ \E r \in Requests :
         /\ op[r] \in SignOutOps
         /\ pc[r] \in {"204", "error"}
         /\ \E x \in target[r] : x.session = c.session

\* A session that survives a sign-out from all sessions was being refreshed:
\* the token the sign-out found was exchanged for another one under it.
SurvivorsWereRotated ==
  \A r \in Requests :
    op[r] = "sign_out_all" /\ pc[r] = "204" =>
      \A x \in target[r], y \in rows :
        y.session = x.session =>
          \E q \in Requests : op[q] = "refresh" /\ arg[q] = x /\ Committed(q)

\* "Signs the user out from all active sessions."
\* (packages/stexs-client/src/StexsAuthClient.ts:290): after 204, none of the
\* sessions that were active when the request was made is active.
AllSessionsEnded ==
  \A r \in Requests :
    op[r] = "sign_out_all" /\ pc[r] = "204" =>
      \A x \in target[r], y \in rows : y.session # x.session

\* Every request is answered: no row lock is waited for in vain, whoever
\* aborts and whatever else is running.
EveryRequestAnswered ==
  \A r \in Requests : pc[r] \in InFlight ~> pc[r] \in Answered

UsedClaims == {issue[r] : r \in {q \in Requests : Committed(q)}}

S == INSTANCE Sessions WITH live <- rows, used <- UsedClaims

\* Whatever the requests interleave, the table goes through the steps of
\* Sessions: open, exchange one token for one, close, and a closed session
\* stays closed.
ImplementsSessions == S!Spec
----------------------------------------------------------------------------
(* The inductive invariant behind the safety properties *)

\* c is the row of a request whose INSERT has committed.
Known(c) == c \in Claims /\ c = issue[c.token] /\ Committed(c.token)

\* Which routes can be at which point.
ControlInv ==
  \A r \in Requests :
    /\ op[r] = "none" <=> pc[r] = "idle"
    /\ op[r] = "sign_in" => pc[r] \in {"200", "error"}
    /\ op[r] \in SignOutOps => pc[r] \in {"deleting", "204", "404", "error"}
    /\ op[r] = "refresh" => pc[r] \in InFlight \cup {"200", "400", "error"}

\* A minted row carries its request's token; a session is named after the
\* sign-in that opened it; a refresh keeps session and user.
IssueInv ==
  \A r \in Requests :
    /\ issue[r] # NoClaims =>
         /\ op[r] \in {"sign_in", "refresh"}
         /\ pc[r] \in {"committing", "200", "error"}
         /\ issue[r].token = r
         /\ op[issue[r].session] = "sign_in"
         /\ op[r] = "sign_in" => issue[r].session = r
         /\ op[r] = "refresh" => /\ issue[r].session = arg[r].session
                                 /\ issue[r].user = arg[r].user
    /\ pc[r] \in {"committing", "200"} => issue[r] # NoClaims

\* Every row, and every token presented or found, once committed.
KnownInv ==
  /\ \A x \in rows : Known(x)
  /\ \A r \in Requests :
       /\ op[r] \notin {"none", "sign_in"} => Known(arg[r])
       /\ \A x \in target[r] : Known(x)

\* What a DELETE has found and what it has visited so far.
TargetInv ==
  \A r \in Requests :
    /\ op[r] \in {"none", "sign_in"} => target[r] = {}
    /\ todo[r] \subseteq target[r]
    /\ \A x \in target[r] : x.user = arg[r].user
    /\ op[r] = "refresh" => target[r] \subseteq {arg[r]}
    /\ op[r] = "sign_out" => \A x \in target[r] : x.session = arg[r].session
    /\ pc[r] = "deleting" =>
         /\ target[r] \cap rows \subseteq todo[r] \cup deleted[r]
         /\ op[r] = "refresh" /\ arg[r] \in rows => arg[r] \in target[r]
    /\ pc[r] \in {"204", "404"} => target[r] \cap rows = {}

\* Row locks are exclusive, on live rows, and held by requests in flight.
LockInv ==
  \A r \in Requests :
    /\ deleted[r] \subseteq rows \cap target[r]
    /\ deleted[r] # {} => pc[r] \in InFlight
    /\ pc[r] \in {"minting", "committing"} => deleted[r] = {arg[r]}
    /\ \A q \in Requests \ {r} : deleted[q] \cap deleted[r] = {}

\* A redeemed token is gone.
RedeemedIsDead ==
  \A r \in Requests : op[r] = "refresh" /\ Committed(r) => arg[r] \notin rows

\* A session that once was is live, or a sign-out found it.
SessionEnds ==
  \A c \in Claims : Known(c) =>
    \/ \E x \in rows : x.session = c.session
    \/ \E r \in Requests :
         /\ op[r] \in SignOutOps
         /\ pc[r] \in {"204", "error"}
         /\ \E x \in target[r] : x.session = c.session

\* A token that once was is live, or redeemed, or its session has no token.
TokenEnds ==
  \A c \in Claims : Known(c) =>
    \/ c \in rows
    \/ \E q \in Requests : op[q] = "refresh" /\ arg[q] = c /\ Committed(q)
    \/ \A y \in rows : y.session # c.session

IInv ==
  /\ TypeOK
  /\ ControlInv
  /\ IssueInv
  /\ KnownInv
  /\ TargetInv
  /\ LockInv
  /\ OneTokenPerSession
  /\ RedeemedIsDead
  /\ RedeemedOnce
  /\ SignOutFinal
  /\ RejectedIsDead
  /\ SessionEnds
  /\ TokenEnds
=================================================================================

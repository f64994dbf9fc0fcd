--------------------------------- MODULE OAuth2 ---------------------------------
(***************************************************************************)
(* OAuth2 authorization codes and connections for one user and one client  *)
(* application, with the requests that touch them run concurrently:        *)
(* POST /auth/oauth2/authorize, POST /auth/token?grant_type=               *)
(* authorization_code, DELETE /auth/oauth2/connections/:id, and the row    *)
(* delete PostgREST offers; and with what the application's owners do: the *)
(* scopes it may ask for change, and it is deleted.  Every other statement *)
(* names the user and the application, or a row of theirs, so other pairs  *)
(* do not interfere.                                                       *)
(*                                                                         *)
(* Both handlers decide something before the statement that acts on it:    *)
(* authorize checks the application, then looks for a connection and then  *)
(* issues a code; the redemption reads code and scopes and then deletes    *)
(* "the code's row" by its id.                                             *)
(*                                                                         *)
(* A code, a code row and a connection are named after the request that    *)
(* made them (uuids and serial ids do not repeat).  The application's      *)
(* redirect URL and secret do not change.                                  *)
(***************************************************************************)
CONSTANTS
  Requests,            \* the HTTP requests, each handled once
  Scopes,              \* the user scopes there are
  None                 \* no row; no request

CodeRows == [id : Requests, code : Requests, scopes : SUBSET Scopes]
Connections == [id : Requests, scopes : SUBSET Scopes]

ASSUME OAuth2Assumption ==
  /\ None \notin Requests
  /\ \A S \in SUBSET Scopes : S # None
  /\ \A row \in CodeRows : row # None
  /\ \A row \in Connections : row # None

VARIABLES
  app,                 \* the application's rows of oauth2_app_scopes; None: deleted
  code,                \* the committed row of auth.oauth2_authorization_codes
  expired,             \* the codes older than AUTHORIZATION_CODE_EXPIRATION
  conn,                \* the committed row of public.oauth2_connections
  tokens,              \* connection_id of the rows of auth.refresh_tokens
  lock,                \* who has inserted, updated or deleted code, uncommitted
  pc,                  \* where each request is; its outcome once it ended
  op,                  \* the route of each request
  arg,                 \* the scopes it asks for, or the code or id it presents
  seen,                \* the code row a redemption has validated
  peers                \* history: the requests it was in flight with

vars == <<app, code, expired, conn, tokens, lock, pc, op, arg, seen, peers>>

InFlight == {"authorizing", "extending", "issuing", "scoping", "redeeming", "connecting"}
\* "lost": it took effect and the client was not told.  "error": it did not.
Answered == {"200", "204", "400", "404", "500", "lost", "error"}
Ops == {"none", "authorize", "redeem", "delete", "drop"}

TypeOK ==
  /\ app \in (SUBSET Scopes) \cup {None}
  /\ code \in CodeRows \cup {None}
  /\ expired \subseteq Requests
  /\ conn \in Connections \cup {None}
  /\ tokens \subseteq Requests
  /\ lock \in Requests \cup {None}
  /\ pc \in [Requests -> {"idle"} \cup InFlight \cup Answered]
  /\ op \in [Requests -> Ops]
  /\ arg \in [Requests -> Requests \cup (SUBSET Scopes)]
  /\ seen \in [Requests -> CodeRows \cup {None}]
  /\ peers \in [Requests -> SUBSET Requests]

Init ==
  /\ app = Scopes
  /\ code = None
  /\ expired = {}
  /\ conn = None
  /\ tokens = {}
  /\ lock = None
  /\ pc = [r \in Requests |-> "idle"]
  /\ op = [r \in Requests |-> "none"]
  /\ arg = [r \in Requests |-> {}]
  /\ seen = [r \in Requests |-> None]
  /\ peers = [r \in Requests |-> {}]
----------------------------------------------------------------------------
\* The codes an application was handed, and the connections a user can list.
Codes == {r \in Requests : op[r] = "authorize" /\ pc[r] = "200"}
ConnectionIds == {r \in Requests : op[r] = "redeem" /\ pc[r] \in {"200", "lost"}}

\* Request r calls route o with a; status is its answer, or how it goes on.
Call(r, o, a, status) ==
  /\ pc[r] = "idle"
  /\ pc' = [pc EXCEPT ![r] = status]
  /\ op' = [op EXCEPT ![r] = o]
  /\ arg' = [arg EXCEPT ![r] = a]
  /\ LET others == {q \in Requests : pc[q] \in InFlight}
     IN  peers' = IF status \in {"400", "404"} THEN peers
                  ELSE [q \in Requests |->
                          IF q = r THEN others
                          ELSE IF q \in others THEN peers[q] \cup {r}
                          ELSE peers[q]]

\* Its work is committed, and the status may not reach the client.
Answer(r, status) ==
  /\ pc' \in {[pc EXCEPT ![r] = status], [pc EXCEPT ![r] = "lost"]}
  /\ UNCHANGED <<op, arg, seen, peers>>

\* It throws: the transaction is rolled back, and its locks are released.
RollBack(r, status) ==
  /\ pc' = [pc EXCEPT ![r] = status]
  /\ lock' = IF lock = r THEN None ELSE lock
  /\ UNCHANGED <<app, code, expired, conn, tokens, op, arg, seen, peers>>
----------------------------------------------------------------------------
(* POST /auth/oauth2/authorize *)

\* getRedirectUrlAndScopesByClientId, outside the transaction.
Authorize(r, s) ==
  /\ Call(r, "authorize", s, IF app = None THEN "404"
                             ELSE IF s \subseteq app THEN "authorizing" ELSE "400")
  /\ UNCHANGED <<app, code, expired, conn, tokens, lock, seen>>

\* Mutant: a code is issued whether or not there is a connection.
AlwaysIssue(r) ==
  /\ pc[r] = "authorizing"
  /\ pc' = [pc EXCEPT ![r] = "issuing"]
  /\ UNCHANGED <<app, code, expired, conn, tokens, lock, op, arg, seen, peers>>

\* connectionExistsByUserIdAndClientId.
FindConnection(r) ==
  /\ pc[r] = "authorizing"
  /\ pc' = [pc EXCEPT ![r] = IF conn # None THEN "extending" ELSE "issuing"]
  /\ UNCHANGED <<app, code, expired, conn, tokens, lock, op, arg, seen, peers>>

\* INSERT ... SELECT: no row is inserted when the connection is gone.
UpdateConnectionScopes(r) ==
  /\ pc[r] = "extending"
  /\ conn' = IF conn = None THEN None
             ELSE [conn EXCEPT !.scopes = @ \cup arg[r]]
  /\ Answer(r, "204")
  /\ UNCHANGED <<app, code, expired, tokens, lock>>

\* INSERT ... ON CONFLICT (user_id, app_id) DO UPDATE.  It fails without the
\* application, whose id it looks up.
SetAuthorizationCode(r) ==
  /\ pc[r] = "issuing"
  /\ app # None
  /\ lock = None
  /\ lock' = r
  /\ pc' = [pc EXCEPT ![r] = "scoping"]
  /\ UNCHANGED <<app, code, expired, conn, tokens, op, arg, seen, peers>>

\* The scopes the code row already has are not inserted again.
NewScopes(r) == IF code = None THEN arg[r] ELSE arg[r] \ code.scopes

\* Mutant: a status the route does not document.
RefuseScopesAs409(r) ==
  /\ pc[r] = "scoping"
  /\ NewScopes(r) = {}
  /\ RollBack(r, "409")

\* insertOrUpdateAuthorizationCodeScopes inserted no row.
RefuseScopes(r) ==
  /\ pc[r] = "scoping"
  /\ NewScopes(r) = {}
  /\ RollBack(r, "500")

IssueCode(r) ==
  /\ pc[r] = "scoping"
  /\ NewScopes(r) # {}
  /\ code' = [id |-> IF code = None THEN r ELSE code.id,
              code |-> r, scopes |-> arg[r]]
  /\ lock' = None
  /\ Answer(r, "200")
  /\ UNCHANGED <<app, expired, conn, tokens>>
----------------------------------------------------------------------------
(* POST /auth/token?grant_type=authorization_code *)

\* Mutant: any code of the user and the application is good.
RedeemAnyCode(r, c) ==
  /\ Call(r, "redeem", c, IF code = None THEN "400" ELSE "redeeming")
  /\ seen' = [seen EXCEPT ![r] = code]
  /\ UNCHANGED <<app, code, expired, conn, tokens, lock>>

\* validateAuthorizationCode: there is a row with this code.
Stored(c) == code # None /\ code.code = c

Redeem(r, c) ==
  LET valid == Stored(c) /\ c \notin expired
  IN
  /\ Call(r, "redeem", c, IF valid THEN "redeeming" ELSE "400")
  /\ seen' = [seen EXCEPT ![r] = IF valid THEN code ELSE None]
  /\ UNCHANGED <<app, code, expired, conn, tokens, lock>>

\* The row the DELETE looks for, by its id alone.
Found(r) == code # None /\ code.id = seen[r].id

DeleteCode(r) ==
  /\ pc[r] = "redeeming"
  /\ Found(r)
  /\ lock = None
  /\ lock' = r
  /\ pc' = [pc EXCEPT ![r] = "connecting"]
  /\ UNCHANGED <<app, code, expired, conn, tokens, op, arg, seen, peers>>

\* Mutant: rowCount of the DELETE is not looked at.
MissCodeAndGoOn(r) ==
  /\ pc[r] = "redeeming"
  /\ ~Found(r)
  /\ lock = None
  /\ lock' = r
  /\ pc' = [pc EXCEPT ![r] = "connecting"]
  /\ UNCHANGED <<app, code, expired, conn, tokens, op, arg, seen, peers>>

MissCode(r) ==
  /\ pc[r] = "redeeming"
  /\ ~Found(r)
  /\ RollBack(r, "500")

\* createOAuth2Connection, saveRefreshToken and COMMIT.
CreateConnection(r) ==
  /\ pc[r] = "connecting"
  /\ conn = None
  /\ conn' = [id |-> r, scopes |-> seen[r].scopes]
  /\ tokens' = tokens \cup {r}
  /\ code' = None
  /\ lock' = None
  /\ Answer(r, "200")
  /\ UNCHANGED <<app, expired>>

\* UNIQUE (user_id, client_id).
ConnectionTaken(r) ==
  /\ pc[r] = "connecting"
  /\ conn # None
  /\ RollBack(r, "500")
----------------------------------------------------------------------------
(* The end of a connection *)

\* Mutant: the trigger is not there.
NotTriggered(id) == conn

\* delete_connection_trigger: what is left of the connection, and with it of its
\* scopes, when the refresh token's row is deleted.
DeleteConnectionTrigger(id) == IF conn # None /\ conn.id = id THEN None ELSE conn

DeleteConnection(r, id) ==
  /\ id \in tokens
  /\ \E status \in {"200", "lost"} : Call(r, "delete", id, status)
  /\ tokens' = tokens \ {id}
  /\ conn' = DeleteConnectionTrigger(id)
  /\ UNCHANGED <<app, code, expired, lock, seen>>

MissConnection(r, id) ==
  /\ id \notin tokens
  /\ Call(r, "delete", id, "404")
  /\ UNCHANGED <<app, code, expired, conn, tokens, lock, seen>>

\* DELETE on public.oauth2_connections through PostgREST; the refresh token's
\* row goes with it (ON DELETE CASCADE).
DropConnection(r) ==
  /\ conn # None
  /\ Call(r, "drop", conn.id, "204")
  /\ conn' = None
  /\ tokens' = tokens \ {conn.id}
  /\ UNCHANGED <<app, code, expired, lock, seen>>
----------------------------------------------------------------------------
(* The application's owners *)

\* INSERT and DELETE on public.oauth2_app_scopes.
ChangeAppScopes(s) ==
  /\ app # None
  /\ app' = IF s \in app THEN app \ {s} ELSE app \cup {s}
  /\ UNCHANGED <<code, expired, conn, tokens, lock, pc, op, arg, seen, peers>>

\* DELETE on public.oauth2_apps and its cascades: the code row, the connection,
\* and the connection's refresh token.  It waits for a transaction that has
\* locked the code row, or they deadlock, and one of them fails.
DeleteApp ==
  /\ app # None
  /\ lock = None
  /\ app' = None
  /\ code' = None
  /\ conn' = None
  /\ tokens' = IF conn = None THEN tokens ELSE tokens \ {conn.id}
  /\ UNCHANGED <<expired, lock, pc, op, arg, seen, peers>>

\* The code becomes too old; its row stays.
Expire ==
  /\ code # None
  /\ code.code \notin expired
  /\ expired' = expired \cup {code.code}
  /\ UNCHANGED <<app, code, conn, tokens, lock, pc, op, arg, seen, peers>>

\* A statement fails, the connection breaks, or the API dies.
Fail(r) ==
  /\ pc[r] \in InFlight
  /\ RollBack(r, "error")

\* Every request has ended: the service waits for the next one.
Quiescent ==
  /\ \A r \in Requests : pc[r] \in Answered
  /\ UNCHANGED vars

Next ==
  \/ \E r \in Requests :
       \/ \E s \in SUBSET Scopes \ {{}} : Authorize(r, s)
       \/ FindConnection(r) \/ UpdateConnectionScopes(r)
       \/ SetAuthorizationCode(r) \/ RefuseScopes(r) \/ IssueCode(r)
       \/ \E c \in Codes : Redeem(r, c)
       \/ DeleteCode(r) \/ MissCode(r)
       \/ CreateConnection(r) \/ ConnectionTaken(r)
       \/ \E id \in ConnectionIds : DeleteConnection(r, id) \/ MissConnection(r, id)
       \/ DropConnection(r)
       \/ Fail(r)
  \/ \E s \in Scopes : ChangeAppScopes(s)
  \/ DeleteApp
  \/ Expire
  \/ Quiescent

Spec == Init /\ [][Next]_vars
----------------------------------------------------------------------------
(* Properties *)

Overlap(o1, o2) ==
  \E q \in Requests : op[q] = o1 /\ \E r \in peers[q] : op[r] = o2

Redeemed(r) == op[r] = "redeem" /\ pc[r] \in {"200", "lost"}

\* A connection has exactly one refresh token, which is what the DELETE route
\* finds it by; without one the user could not disconnect the application.  And
\* no code or connection outlives the application, or is made after its end.
ConnectionIsWhole ==
  /\ tokens = IF conn = None THEN {} ELSE {conn.id}
  /\ app = None => code = None /\ conn = None

\* However many redemptions race, one code makes one connection.
CodeRedeemedOnce ==
  \A q, r \in Requests :
    Redeemed(q) /\ Redeemed(r) /\ arg[q] = arg[r] => q = r

\* The application holds what the user approved with the code it redeemed, and
\* beyond it only what he approved for a connection that already existed.
ScopesAsApproved ==
  conn # None =>
    LET approved == arg[arg[conn.id]]
        added == {r \in Requests : op[r] = "authorize" /\ pc[r] \in {"204", "lost"}}
    IN  /\ approved \subseteq conn.scopes
        /\ conn.scopes \subseteq approved \cup UNION {arg[r] : r \in added}

\* The two promises of a redemption.
CodeBecomesConnection == CodeRedeemedOnce /\ ScopesAsApproved

\* A code that can only fail, because the connection exists, is issued only
\* when the user authorizes while an earlier code of his is being redeemed.
CodeOrConnection ==
  code # None /\ conn # None => Overlap("authorize", "redeem")

\* A code leaves the table only with its application, with a redemption that
\* presented it, or with one that was under way when it was issued and deletes
\* it by its row's id.  A later authorization that writes its own code into the
\* row is no loss: its user has the newer one.
CodeLostOnlyByRace ==
  [][code # None /\ code' = None /\ app' # None =>
       \E r \in Requests :
         /\ pc[r] = "connecting" /\ pc'[r] \in {"200", "lost"}
         /\ arg[r] = code.code \/ code.code \in peers[r]]_vars

\* "An unexpected error occurred while saving authorization token scopes."
\* (apps/api/src/routes/auth/oauth2.ts:215): authorize answers 500 only when
\* something unexpected happened, which the model has as "error".
UnexpectedIsUnexpected ==
  \A r \in Requests : op[r] = "authorize" => pc[r] # "500"
=================================================================================

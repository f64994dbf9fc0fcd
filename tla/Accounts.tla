-------------------------------- MODULE Accounts --------------------------------
(***************************************************************************)
(* The rows of auth.users: sign-up, e-mail verification, e-mail change,    *)
(* password change and password recovery, run by concurrent requests of    *)
(* any number of people.                                                   *)
(*                                                                         *)
(* A handler that sends mail reads first, then opens a transaction, writes *)
(* its row, queues the message and commits; the row, or the address a      *)
(* sign-up inserts, stays locked until then.  A handler that consumes what *)
(* was mailed reads and checks, and then updates by the address or the     *)
(* user id alone.                                                          *)
(*                                                                         *)
(* A user, a token, a code and a password are named after the request that *)
(* made them.  Before is the request that made what there is at the start. *)
(* Usernames are distinct.  A statement that waits for a lock is taken to  *)
(* start when it gets it; the message is queued in the step that takes the *)
(* lock, since in between the others can only wait.                        *)
(***************************************************************************)
CONSTANTS
  Requests,            \* the HTTP requests, each handled once
  Emails,              \* the addresses
  Before,              \* the request that made the initial row
  None                 \* SQL NULL; no row

Tokens == Requests \cup {Before}

\* Only sign-up stores a hash (hashPassword).
Passwords == [hashed : BOOLEAN, of : Tokens]

Rows == [email : Emails, verified : BOOLEAN, link : Tokens \cup {None},
         change : Emails \cup {None}, code : Tokens \cup {None},
         recovery : Tokens \cup {None}, password : Passwords]

ASSUME AccountsAssumption ==
  /\ Before \notin Requests
  /\ None \notin Tokens \cup Emails \cup Rows
  /\ Tokens \cap Emails = {}

VARIABLES
  users,               \* the committed row of each user; None before sign-up
  held,                \* the row, or the address, its open transaction locks
  mailed,              \* the requests whose message was queued
  expired,             \* the tokens and codes that are too old
  pc,                  \* where each request is; its outcome once it ended
  op,                  \* the route of each request
  who,                 \* the signed-in user who makes it
  arg,                 \* the address, token, code or password it carries
  peers                \* history: the requests it was in flight with

vars == <<users, held, mailed, expired, pc, op, who, arg, peers>>

InFlight == {"sending", "committing", "writing"}
\* "done": it took effect, whether or not the client learns of it.
Answered == {"done", "400", "403", "404", "500", "redirect", "error"}
Ops == {"none", "sign_up", "verify", "resend", "change", "verify_change",
        "password", "recover", "confirm"}

TypeOK ==
  /\ users \in [Tokens -> Rows \cup {None}]
  /\ held \in [Requests -> Tokens \cup Emails \cup {None}]
  /\ mailed \subseteq Tokens
  /\ expired \subseteq Tokens
  /\ pc \in [Tokens -> {"idle"} \cup InFlight \cup Answered]
  /\ op \in [Tokens -> Ops]
  /\ who \in [Tokens -> Tokens \cup {None}]
  /\ arg \in [Tokens -> Tokens \cup Emails \cup {None}]
  /\ peers \in [Requests -> SUBSET Requests]

NewUser(e, r) ==
  [email |-> e, verified |-> FALSE, link |-> r, change |-> None, code |-> None,
   recovery |-> None, password |-> [hashed |-> TRUE, of |-> r]]

\* One user, who has signed up and perhaps verified the address.
Init ==
  /\ \E e \in Emails, done \in {"sign_up", "verify"} :
       /\ users = [u \in Tokens |->
            IF u # Before THEN None
            ELSE IF done = "sign_up" THEN NewUser(e, Before)
            ELSE [NewUser(e, Before) EXCEPT !.verified = TRUE, !.link = None]]
       /\ op = [r \in Tokens |-> IF r = Before THEN done ELSE "none"]
       /\ arg = [r \in Tokens |-> IF r = Before THEN e ELSE None]
  /\ pc = [r \in Tokens |-> IF r = Before THEN "done" ELSE "idle"]
  /\ who = [r \in Tokens |-> None]
  /\ held = [r \in Requests |-> None]
  /\ mailed = {Before}
  /\ expired = {}
  /\ peers = [r \in Requests |-> {}]
----------------------------------------------------------------------------
Accounts == {u \in Tokens : users[u] # None}

With(e) == {u \in Accounts : users[u].email = e}

Free(x) == \A q \in Requests : held[q] # x

\* Request r calls route o as user u with a; status is its answer, or how it
\* goes on.
Call(r, o, u, a, status) ==
  /\ pc[r] = "idle"
  /\ pc' = [pc EXCEPT ![r] = status]
  /\ op' = [op EXCEPT ![r] = o]
  /\ who' = [who EXCEPT ![r] = u]
  /\ arg' = [arg EXCEPT ![r] = a]
  /\ LET others == {q \in Requests : pc[q] \in InFlight}
     IN  peers' = IF status \notin InFlight THEN peers
                  ELSE [q \in Requests |->
                          IF q = r THEN others
                          ELSE IF q \in others THEN peers[q] \cup {r}
                          ELSE peers[q]]
  /\ UNCHANGED <<users, held, mailed, expired>>

Move(r, status) ==
  /\ pc' = [pc EXCEPT ![r] = status]
  /\ UNCHANGED <<expired, op, who, arg, peers>>

\* withTransaction: x is locked, the row written, the message queued.
Send(r, x) ==
  /\ Free(x)
  /\ held' = [held EXCEPT ![r] = x]
  /\ mailed' = mailed \cup {r}
  /\ Move(r, "committing")
  /\ UNCHANGED users

CommitAs(r, u, row) ==
  /\ pc[r] = "committing"
  /\ users' = [users EXCEPT ![u] = row]
  /\ held' = [held EXCEPT ![r] = None]
  /\ Move(r, "done")
  /\ UNCHANGED mailed

\* A statement that is its own transaction.
Update(r, u, row) ==
  /\ Free(u)
  /\ users' = [users EXCEPT ![u] = row]
  /\ Move(r, "done")
  /\ UNCHANGED <<held, mailed>>

\* It throws: the transaction is rolled back.
RollBack(r, status) ==
  /\ held' = [held EXCEPT ![r] = None]
  /\ Move(r, status)
  /\ UNCHANGED <<users, mailed>>
----------------------------------------------------------------------------
(* POST /auth/sign-up *)

\* Mutant: the trigger check_username_and_email_trigger is not there.
SignUpUnchecked(r, e) == Call(r, "sign_up", None, e, "sending")

SignUp(r, e) ==
  Call(r, "sign_up", None, e, IF With(e) # {} THEN "400" ELSE "sending")

\* The INSERT waits for another one of the same address.
InsertUser(r) ==
  /\ pc[r] = "sending"
  /\ op[r] = "sign_up"
  /\ With(arg[r]) = {}
  /\ Send(r, arg[r])

\* UNIQUE (email); the error has no hint.
EmailTaken(r) ==
  /\ pc[r] = "sending"
  /\ op[r] = "sign_up"
  /\ With(arg[r]) # {}
  /\ RollBack(r, "500")

CommitSignUp(r) == op[r] = "sign_up" /\ CommitAs(r, r, NewUser(arg[r], r))
----------------------------------------------------------------------------
(* GET /auth/verify and POST /auth/verify/resend.  Both name the address.  *)

\* The link in the message that t queued; the answer is always a redirect.
Verify(r, t) ==
  LET valid == \E u \in With(arg[t]) :
        /\ users[u].link = t
        /\ ~users[u].verified
        /\ t \notin expired
  IN  Call(r, "verify", None, t, IF valid THEN "writing" ELSE "redirect")

VerifyEmail(r) ==
  /\ pc[r] = "writing"
  /\ op[r] = "verify"
  /\ \E u \in With(arg[arg[r]]) :
       Update(r, u, [users[u] EXCEPT !.verified = TRUE, !.link = None])

Resend(r, e) ==
  Call(r, "resend", None, e,
       IF With(e) = {} THEN "404"
       ELSE IF \E u \in With(e) : users[u].verified THEN "400"
       ELSE "sending")

CommitResend(r) ==
  /\ op[r] = "resend"
  /\ CommitAs(r, held[r], [users[held[r]] EXCEPT !.link = r])
----------------------------------------------------------------------------
(* POST /auth/recovery and /auth/recovery/confirm *)

Recover(r, e) ==
  Call(r, "recover", None, e, IF With(e) = {} THEN "400" ELSE "sending")

CommitRecovery(r) ==
  /\ op[r] = "recover"
  /\ CommitAs(r, held[r], [users[held[r]] EXCEPT !.recovery = r])

\* getUsersEncryptedPassword is given the address where it takes a user id:
\* the query fails, and the token stays.
ConfirmRecovery(r, t) ==
  Call(r, "confirm", None, t,
       IF \A u \in With(arg[t]) : users[u].recovery # t THEN "400"
       ELSE IF t \in expired THEN "403"
       ELSE "500")

\* UPDATE ... WHERE email of resend and recover.
SendByEmail(r) ==
  /\ pc[r] = "sending"
  /\ op[r] \in {"resend", "recover"}
  /\ \E u \in With(arg[r]) : Send(r, u)

\* The row has another address by now.
EmailGone(r) ==
  /\ \/ pc[r] = "sending" /\ op[r] \in {"resend", "recover"} /\ With(arg[r]) = {}
     \/ pc[r] = "writing" /\ op[r] = "verify" /\ With(arg[arg[r]]) = {}
  /\ RollBack(r, "500")
----------------------------------------------------------------------------
(* POST /auth/user/email, /email/verify and /password.  An access token is *)
(* issued to verified users only, and outlives a change of the address.    *)

\* Mutant: a status the route does not document.
ChangeEmailAs401(r, u, e) ==
  Call(r, "change", u, e, IF With(e) # {} THEN "401" ELSE "sending")

ChangeEmail(r, u, e) ==
  Call(r, "change", u, e, IF With(e) # {} THEN "403" ELSE "sending")

InitializeEmailChange(r) ==
  /\ pc[r] = "sending"
  /\ op[r] = "change"
  /\ Send(r, who[r])

CommitEmailChange(r) ==
  /\ op[r] = "change"
  /\ CommitAs(r, who[r], [users[who[r]] EXCEPT !.change = arg[r], !.code = r])

\* Mutant: the code is not compared.
VerifyEmailChangeAnyCode(r, u, c) ==
  Call(r, "verify_change", u, c,
       IF users[u].code = None THEN "400"
       ELSE IF c \in expired THEN "403"
       ELSE "writing")

VerifyEmailChange(r, u, c) ==
  Call(r, "verify_change", u, c,
       IF users[u].code # c THEN "400"
       ELSE IF c \in expired THEN "403"
       ELSE "writing")

\* Mutant: the code can be used again.
FinalizeKeepingCode(r) ==
  /\ pc[r] = "writing"
  /\ op[r] = "verify_change"
  /\ LET u == who[r]
     IN  /\ users[u].change # None
         /\ Free(users[u].change)
         /\ With(users[u].change) \subseteq {u}
         /\ Update(r, u, [users[u] EXCEPT !.email = users[u].change, !.verified = TRUE])

\* UPDATE ... SET email = email_change ... WHERE id.
FinalizeEmailChange(r) ==
  /\ pc[r] = "writing"
  /\ op[r] = "verify_change"
  /\ LET u == who[r]
         e == users[u].change
     IN  /\ e # None
         /\ Free(e)
         /\ With(e) \subseteq {u}
         /\ Update(r, u, [users[u] EXCEPT !.email = e, !.verified = TRUE,
                                          !.change = None, !.code = None])

\* NOT NULL and UNIQUE of auth.users.email.
CannotFinalize(r) ==
  /\ pc[r] = "writing"
  /\ op[r] = "verify_change"
  /\ Free(who[r])
  /\ \/ users[who[r]].change = None
     \/ ~(With(users[who[r]].change) \subseteq {who[r]})
  /\ RollBack(r, "500")

\* bcrypt finds that p is what the stored hash is of.
Matches(u, p) == users[u].password = [hashed |-> TRUE, of |-> p]

ChangePassword(r, u, p) ==
  Call(r, "password", u, p, IF Matches(u, p) THEN "400" ELSE "writing")

\* The password is stored as it came.
StorePassword(r) ==
  /\ pc[r] = "writing"
  /\ op[r] = "password"
  /\ LET u == who[r]
     IN  Update(r, u, [users[u] EXCEPT !.password = [hashed |-> FALSE, of |-> arg[r]]])
----------------------------------------------------------------------------
\* A token or code becomes too old.
Expire ==
  \E u \in Accounts : \E t \in {users[u].link, users[u].code, users[u].recovery} :
    /\ t \notin expired \cup {None}
    /\ expired' = expired \cup {t}
    /\ UNCHANGED <<users, held, mailed, pc, op, who, arg, peers>>

\* A statement or the send fails, the connection breaks, or the API dies.
Fail(r) ==
  /\ pc[r] \in InFlight
  /\ RollBack(r, "error")

\* Every request has ended: the service waits for the next one.
Quiescent ==
  /\ \A r \in Requests : pc[r] \in Answered
  /\ UNCHANGED vars

\* What was mailed for a purpose.
Mailed(ops) == {t \in mailed : op[t] \in ops}

SignedIn == {u \in Accounts : users[u].verified}

Next ==
  \/ \E r \in Requests :
       \/ \E e \in Emails : SignUp(r, e) \/ Resend(r, e) \/ Recover(r, e)
       \/ InsertUser(r) \/ EmailTaken(r) \/ CommitSignUp(r)
       \/ \E t \in Mailed({"sign_up", "resend"}) : Verify(r, t)
       \/ VerifyEmail(r)
       \/ SendByEmail(r) \/ EmailGone(r) \/ CommitResend(r) \/ CommitRecovery(r)
       \/ \E t \in Mailed({"recover"}) : ConfirmRecovery(r, t)
       \/ \E u \in SignedIn :
            \/ \E e \in Emails : ChangeEmail(r, u, e)
            \/ \E c \in Mailed({"change"}) : VerifyEmailChange(r, u, c)
            \/ \E p \in {r, users[u].password.of} : ChangePassword(r, u, p)
       \/ InitializeEmailChange(r) \/ CommitEmailChange(r)
       \/ FinalizeEmailChange(r) \/ CannotFinalize(r)
       \/ StorePassword(r)
       \/ Fail(r)
  \/ Expire
  \/ Quiescent

Spec == Init /\ [][Next]_vars
----------------------------------------------------------------------------
(* Properties *)

Overlap(o1, o2) ==
  \E q \in Requests : op[q] = o1 /\ \E r \in peers[q] : op[r] = o2

\* r carries what was mailed to address e, and took effect.
Proves(r, e) ==
  /\ op[r] \in {"verify", "verify_change"}
  /\ pc[r] = "done"
  /\ IF r = Before THEN arg[r] = e ELSE arg[arg[r]] = e

\* An address is marked verified only when somebody presented what was mailed
\* to it, unless the user changed the pending address while a code he had been
\* sent to the one before was being verified.
VerifiedByItsMailbox ==
  \A u \in SignedIn :
    \/ \E r \in Tokens : Proves(r, users[u].email)
    \/ Overlap("change", "verify_change")

\* A code changes the address once; a second request that presents it can only
\* be let through while the first is in flight.
ChangeCodeUsedOnce ==
  \A q, r \in Requests :
    /\ op[q] = "verify_change" /\ pc[q] = "done"
    /\ op[r] = "verify_change" /\ pc[r] = "done"
    /\ arg[q] = arg[r] /\ q # r
    => r \in peers[q]

\* Request q took address e: it signed up with it, or changed to it; or to one
\* that was pending by then in place of the one its code was sent to.
Took(q, e) ==
  /\ pc[q] = "done"
  /\ \/ op[q] = "sign_up" /\ arg[q] = e
     \/ op[q] = "verify_change" /\ arg[arg[q]] = e
     \/ op[q] = "verify_change" /\ Overlap("change", "verify_change")

\* What excuses the 500 of request r: another request took the very address, while a
\* sign-up was in flight or since a change was asked for, or moved some user to
\* another address.  Recovery is left out, where every valid token is answered 500.
Excused(r) ==
  CASE op[r] = "sign_up"       -> \E q \in peers[r] : Took(q, arg[r])
    [] op[r] = "verify_change" -> \/ \E q \in Requests \ {r} : Took(q, arg[arg[r]])
                                  \/ Overlap("change", "verify_change")
    [] op[r] = "confirm"       -> TRUE
    [] OTHER -> \E q \in peers[r] : op[q] = "verify_change" /\ pc[q] = "done"

\* A 500 is answered only when another request got there first.
UnexpectedOnlyByRace == \A r \in Requests : pc[r] = "500" => Excused(r)

\* "Password changed successfully." (apps/api/src/routes/auth/user.ts:182):
\* once a change is answered and no other overlapped it, passwordController
\* accepts the password that was given.
PasswordWorks ==
  \A r \in Requests :
    /\ op[r] = "password" /\ pc[r] = "done"
    /\ \A q \in Requests \ {r} : op[q] # "password"
    => Matches(who[r], arg[r])
=================================================================================

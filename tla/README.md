# TLA+ model of stexs-core

stexs-core is the backend of an account and inventory service for games: an Express API
(`apps/api`), a mail worker (`apps/queue`), a PostgreSQL schema whose triggers and row-level
policies carry much of the logic (`db/migrations`) and which PostgREST exposes directly, and a
browser client (`packages/stexs-client`).  There is little in-memory state.  What makes the system
hard is that the state lives in shared places (tables, a message queue, the browser's
`localStorage`) and that many short handlers read it, decide, and write it back, all at once.

This directory holds the modules, the TLC configurations that check them on small instances, and
the TLAPS proofs.  `PROJECT.json` relates every modelled definition to the lines it stands for.

    tlc -workers 2 -config RefreshTokens.cfg MCRefreshTokens
    tlapm RefreshTokensProofs.tla


## 1. Inventory

Each part below gives its state, its operations, what it interacts with, what is hard about it,
and what has to hold.

**Sessions and refresh tokens** (`controllers/auth/tokenController.ts`, `routes/auth/signOut.ts`,
`repositories/auth/refreshTokens.ts`, `utils/jwt.ts`).  State: the rows of `auth.refresh_tokens`
with grant type `password`, one per session.  Operations: the last step of a sign-in, token
rotation, sign-out, sign-out from all sessions.  Rotation is one transaction: DELETE the presented
token, mint a successor, COMMIT.  Sign-outs are single DELETEs.  Hard: the same token presented
twice, a rotation against a sign-out of the same session or of all sessions, failure between
DELETE and COMMIT, lost answers, deadlocks between multi-row DELETEs.  Must hold: one redeemable
token per session, a token redeemed once, a confirmed sign-out is final, nothing but a sign-out ends
a session, a client keeps the session's token unless the answer with it is lost, every request is
answered.

**MFA settings** (`controllers/auth/mfaController.ts`, `repositories/auth/mfa.ts`,
`utils/mfa.ts`). State: the user's row of `auth.mfa` (e-mail flag and code, TOTP secret, time it
was verified). Operations: enable, verify and disable for each of the two methods, send a code;
and `validateMFA`, with which other routes check a code, and which leaves it stored. Hard: every
handler selects, checks, and then updates by user id alone; a code is mailed before it is
committed. Must hold: the user is never without a method, a verified secret is a confirmed one, a
code that has changed the settings is used up, the newest mail has the valid code.

**OAuth2 authorization codes and connections** (`routes/auth/oauth2.ts`, `tokenController.ts`, three
repositories, the trigger `auth.delete_connection`).  State: at most one code row per user and
application with its scope rows, at most one connection with its scopes, and the refresh token row
of the connection.  Operations: authorize (issue a code, or extend a connection), redeem, disconnect
through the API or through PostgREST.  Hard: both handlers decide outside the transaction that
acts.  Must hold: a code makes one connection, with the scopes it stood for; connection and
refresh token come and go together; a code is not destroyed by someone else's redemption.

**Accounts** (`routes/auth/{signUp,verify,recovery,user}.ts`, `repositories/auth/users.ts`, the
triggers on `auth.users`). State: address and whether it is verified, verification link, pending
address and its code, recovery token, password. Operations: sign-up, verify, resend, start and
confirm recovery, start and confirm a change of address, change the password. Hard: tokens that
outlive the state they were issued for, updates by an address that may have moved, uniqueness
checked by a trigger that cannot see uncommitted rows. Must hold: a verified address was verified
through its own mailbox, a change code works once, a 500 comes only from a race, a changed
password works.

**E-mail queue** (`apps/api/src/producers`, `apps/queue`).  State: each message's place in the
Pulsar topic (backlog, delivered to a consumer, acknowledged, dead-lettered), its redelivery count;
each process's loop and shutdown phase.  Hard: failure between sending and acknowledging, redelivery
after lost connections, a shutdown that does not wait for the loop, the dead-letter limit.  Must
hold: a mail is not dropped unsent before its tries are used up, is sent twice only when a fault
forces it, and is settled in the end.

**Client session and refresh lock** (`packages/stexs-client/src/StexsAuthClient.ts`).  State: the
`localStorage` items `session`, `refresh_lock` and `priority_tab`, shared by the tabs of a
browser, and a retry counter per tab.  Hard: a lock made of plain reads and writes, taken across
tabs and held over a request; a session read before a request and written back after it.  Must
hold: refreshes do not overlap, the lock does not stay behind, an old session is not restored.

**Social graph** (`db/migrations` 1752313917 to 1752315810).  State: `friends` (two mirror rows
per friendship), `friend_requests`, `blocked`.  Operations: request, withdraw, accept, unfriend,
block, unblock, each one PostgREST transaction with triggers.  Hard: triggers that keep two
tables consistent under READ COMMITTED, and take locks in the order of the data.  Must hold:
friendship is mutual, a block ends friendship and requests, nobody is befriended unasked.

**Organizations and projects** (`db/migrations` 1752311531, 1752311642, 1752314283 to 1752314632,
and the policies 1752316293 to 1752316746; `routes/storage/{organizations,projects}.ts`). State:
the groups, the roles of their members, the requests to join a project, and `profiles.is_private`,
which hides rows from the policies. Operations: create and delete a group, ask to join, change,
reject or withdraw a request, join, remove a member or leave, and obtain and use the URL of a
logo. Hard: each policy reads other rows than the one that is written, and nothing locks them; a
URL is checked when it is handed out and used minutes later. Must hold: a group with an owner
keeps one, who joins gets the role of his request, a limit is a limit, and only a role one still
has is acted with.

**Not modelled, or only as part of others.**

| part | why |
| --- | --- |
| API start-up and shutdown, middlewares | the middlewares decide from the request alone and appear as guards; what a shutdown does to a handler (error, rollback, lost answer) is `Fail`/`Abort` in the handlers' modules |
| database pool | modelled inside every module: autocommit, BEGIN/COMMIT/ROLLBACK, a COMMIT whose answer is lost |
| OAuth2 applications, scopes, client credentials | in `OAuth2` an application's scopes change and it is deleted; creating one, and its name, URL and secret, are left out; the client-credentials grant writes nothing |
| items, inventories, notifications, profiles | `profiles.is_private` is in `Memberships`; the rest is single-row SQL under row-level security |
| avatars, images of items | the token's own user, or the role check that `Memberships` has for logos, and one S3 call |
| `StexsClient`, `StexsStorageClient`, `apiResponse` | one request per method, and a bounded wait that only reads |
| validation schemas, logging, environment, build, scripts | pure checks, output, or no running state |

**Interactions.** The API queues mail inside database transactions (`Mfa` and `Accounts` model the
order of the two; `EmailQueue` what happens afterwards). `validateMFA` reads the MFA row when a
user signs in, changes his address or password, or signs out everywhere (`ValidateTOTP` and
`ValidateEmail` in `Mfa`). Deleting an organization or a project deletes its applications, and
with them codes and connections (`DeleteApp` in `OAuth2`; `DeleteGroup` in `Memberships` has the
rows of the group). OAuth2 connections and password sessions share the table `auth.refresh_tokens`
but no row. The client calls the session routes; see section 7 for why the two are not composed.


## 2. Plan

| order | module | what it is | state |
| --- | --- | --- | --- |
| 1 | `Sessions` | abstract: open, rotate, close | proved |
| 2 | `RefreshTokens` | the handlers and the table; implements `Sessions` | checked and proved |
| 3 | `Mfa` | one user's MFA row | checked and proved |
| 4 | `OAuth2` | one user and one application, which its owners may change and delete | checked and proved |
| 5 | `Accounts` | `auth.users` | checked and proved |
| 6 | `SocialGraph` | one pair of users | checked and proved |
| 7 | `MailDelivery` | abstract: accept, try, settle or give up | proved |
| 8 | `EmailQueue` | producer, broker, consumers; implements `MailDelivery` | checked and proved |
| 9 | `RefreshLock` | tabs over `localStorage` | checked and proved |
| 10 | `Memberships` | an organization, its projects, their members and requests | checked and proved |

`MC<Module>` modules only add symmetry sets.  Proofs are in `<Module>Proofs`; those about
`Sessions` and `MailDelivery` are at the end of the proofs of the module that implements them.
"Proved" is every safety property, action property and refinement that a passing run checks; the
two liveness properties are only model-checked.

To do: an abstract specification of a one-shot code (issued, used once, replaced) that `Mfa`,
`OAuth2` and `Accounts` implement but for the overlaps they name, with the refinements proved from
the inductive invariants below; a mapping of the client's `localStorage` to such a specification.


## 3. How the models read the code

**Database.**  Default isolation, READ COMMITTED.  `DbPool.query` is a transaction of its own;
`withTransaction` is BEGIN, statements, COMMIT, or ROLLBACK on any exception.  A statement acts on
what is committed when it starts.  An UPDATE or DELETE by key waits for another transaction's lock
on the row.  Where the outcome depends on more than this, the module is finer: in `RefreshTokens`
and `SocialGraph` a DELETE has a snapshot of the rows it is about, locks them one at a time in any
order, waits for those an open transaction has deleted, and skips them if that commits.

**Requests.**  `Requests` is a set of HTTP requests, each handled once.  `pc[r]` is where r is, and
the status it was answered with; `op[r]` its route, `arg[r]` what it presented.  A handler that
selects, checks and then writes is two actions (first the read with its early returns, then the
write), with other requests between them.  Everything random (uuids, codes, secrets) is named after
the request that drew it.  A request may present anything the user can have seen.  `"lost"` is
an answer that never arrives; `Fail` or `Abort` is an exception, a broken connection, or the end of
the process at that point.

**Races.** `peers[r]` is history: the requests r was in flight with. `Overlap(o1, o2)` says that
some request of route o1 was in flight with one of o2. Several properties have the form "P, unless
Overlap(...)". They are exact statements: P itself is false in the code (removing any one of the
exceptions gives a counterexample, with four requests for those of `ChangeCodeUsedOnce` and
`UnexpectedOnlyByRace`; only a pending address that another signed-in user's change takes, which
`Took` also allows, needs more requests than TLC was run with), and every way to break P that is
not listed is ruled out. Where two calls of one user are meant, the exception says so
(`OwnOverlap` in `Memberships`).

### RefreshTokens and Sessions

`rows` is the table.  `SignIn` is the end of `mfaChallengeController`; `Refresh`, `SignOut` and
`SignOutAll` start a DELETE and fix its `target`; `DeleteRow` locks or removes one row of it;
`RejectRefresh`, `AcceptRefresh`, `SaveRefreshToken` and `Commit` are the rest of
`refreshTokenController`; `FinishSignOut` answers 204 or 404; `Abort` is a failure or the
deadlock victim.  `issue[r]` is the row that r inserts.

`Sessions` has only `live` and `used` tokens, and three actions.  The refinement mapping is
`live <- rows`, `used <- UsedClaims` (every token whose INSERT has committed): `SignIn` is `Open`,
`Commit` is `Rotate`, `FinishSignOut` is `Close`, all else stutters.

### Mfa

`row` is the MFA row, `mails` the codes queued, in order.  `EnableTOTP`/`SetTOTPSecret`,
`VerifyTOTP`/`VerifyTOTPMethod`, `DisableTOTP`/`DisableTOTPMethod`, `EnableEmail`/
`FinalizeEnablingEmailMFA` and `DisableEmail`/`DisableEmailMethod` are the two halves of the
handlers.  `ValidateTOTP` and `ValidateEmail` are `validateMFA`, which only reads: one step.
`SendEmailCode`, `SendEmailMessage` and `CommitEmailCode` are the transaction, which holds
the row's `lock`.  Init is every row that requests run one after the other can leave.

### OAuth2

`app` is the set of scopes the application may ask for, or `None` once it is deleted; `code`,
`conn` and `tokens` are the code row, the connection and the refresh tokens of connections.
`Authorize` checks the application and `FindConnection` looks for a connection, in two statements;
`UpdateConnectionScopes` extends the connection; `SetAuthorizationCode`, then `RefuseScopes` or
`IssueCode`, are the issuing transaction. `Redeem` validates (`Stored` is
`validateAuthorizationCode`); `DeleteCode` or `MissCode`, then `CreateConnection` or
`ConnectionTaken`, are the redeeming transaction. `DeleteConnection` is the API's route, which
relies on the trigger; `DropConnection` the PostgREST delete, which relies on the cascade.
`ChangeAppScopes` and `DeleteApp` are what the application's owners do, between any two statements
of a handler; the cascade of `DeleteApp` waits for a transaction that holds the code row.

### Accounts

`users` maps each sign-up to its row; `held[r]` is the row or, for a sign-up, the unique key that
r's open transaction has; `mailed` says whose message was queued.  One action reads and checks
(`SignUp`, `Verify`, `Resend`, `Recover`, `ConfirmRecovery`, `ChangeEmail`, `VerifyEmailChange`,
`ChangePassword`), the others write.  `EmailTaken`, `EmailGone` and `CannotFinalize` are the writes
that constraints or missing rows turn into a 500.

### SocialGraph

`rows` holds the rows of all three tables for the pair. A call goes through the stages of its
statement and its triggers (`DeleteRow`, `Cleared`, `DeleteMirrors`, `Unfriended`, `InsertRow`,
`InsertMirror`, `Commit`); `deleted[r]` and `added[r]` are the uncommitted rows others have to
wait for. `Unfriend` names one row, `UnfriendBoth` the user and so both; an acceptance inserts one
row, whose mirror the trigger adds, or both in one statement (`both[r]`), whose triggers then find
each other's row and delete no request. `Visible` is row-level security; `Call`, `Request`,
`Accept` and the others carry the policies' conditions.

### EmailQueue and MailDelivery

`topic`, `holder` and `count` are the broker's; `pc`, `msg` and `phase` belong to a consumer
process; `acking` and `nacked` are what its Pulsar client has not passed on yet. Pulsar is not in
this repository. It is modelled from how the code uses it, with the weak guarantees its client
library gives (stated at the top of the module).

`MailDelivery` is the queue as apps/api may think of it: a message has a `place`, is tried, and is
settled or given up. It knows neither redelivery counts nor processes; what a crash, a lost
connection or a lost answer does is that a message becomes `doubtful`, and may then be tried
again. The mapping is `place <- Place` (backlog and delivered are both "queued"), `sent <- mails`,
`tried <- tries`, `doubtful <- faulty`: `SendEmail` is `Try`; `AckArrives`, `Close`, `Disconnect`
and `Exit` are `Settle`; the last `Redeliver` is `GiveUp`.

### RefreshLock

One step per access to `localStorage`, and within a tab only `await` lets another call run
(`HasTab`). `_refreshAccessToken` is `ReadLock` (in `Refresh` or `Retry`), `SetLock`,
`SetPriority`, `Confirm`, then `Lose` or `ReadSession`, `Store` or `Refused`, and
`RemoveLock`/`RemovePriority`, which also end the path of a hidden tab. `SignOut`/`SignedOut`,
`UpdateUserInSession`/`UpdatedUser` and `MfaChallenge`/`SignedIn` are the other writers of the
session. `Unload` is `beforeunload`, `Kill` a tab that ends without it. `Date.now()` may give two
tabs the same id.

### Memberships

`members` and `requests` are the rows, of the organization and its projects in one table each;
`by` is a row's id. A call has two actions. The first is its policy, which reads what is
committed: `May...` are the conditions of the policies, `Has` a role in a table that the policy's
function reads as its owner, `Shows` one that row-level security may hide from the policy itself.
The second writes: `WriteGroup`, `DeleteGroup` (with its cascade), `InsertRequest`, `InsertMember`
(whose trigger deletes the request), `ChangeRequest`, `DeleteRequest`, `RemoveMember`, `WriteLogo`
(the use of the URL); `Conflict` is a key that is taken. Between the two, another call may commit.
A role is compared where the policies compare it (`Above`); to change one is not an action, as the
policy for it always fails (section 7).


## 4. What the runs show

| run | distinct states | what it shows |
| --- | --- | --- |
| `refresh_tokens` | 228,016 | sessions under concurrent sign-ins, rotations and sign-outs: one token per session, redeemed once; a 204 sign-out is final, a refused token dead; only sign-outs end sessions, and only a lost answer leaves a client without its token; what survives a sign-out from all sessions was rotated under it; the table implements `Sessions`; every request is answered, also after deadlocks and failures, as no error path keeps its locks |
| `sign_out_all_race` | violation | see below |
| `mfa` | 1,641,053 | being locked out, an unconfirmed verified secret, a code erased unused: each only by the overlaps named; a code that has changed the settings is refused to every later change or check; the newest mail holds the stored code |
| `mfa_last_method` | violation | see below |
| `oauth2` | 1,803,660 | a connection has exactly its refresh token, and nothing is left of or made for a deleted application; a code makes one connection with the scopes it stood for; a useless code, or one deleted unredeemed, only by the overlaps named |
| `oauth2_reauthorize` | violation | see below |
| `accounts` | 76,179 | a verified address was verified by its mailbox but for one race; change codes are used once; a 500 means another request came first and took the very address, or moved its user |
| `accounts_password` | violation | see below |
| `social_graph` | 1,146,104 | mirror rows stay together, also under statements about both; a block misses a friendship or a request only by overlap; a friend has asked to be one; which calls can deadlock |
| `email_queue` | 840,618 | the queue implements `MailDelivery`: a mail is dropped only after its tries; it is sent twice only by a fault, and settled in the end |
| `refresh_lock` | 6,317,050 | two refreshes at once only when the lock was raced; the lock is left behind only by a killed tab; an older session is written back only by the overlaps named |
| `memberships` | 1,175,396 | a group loses its last owner only when two leave at once; who joins gets the role his request has then, a user exceeds the limit on requests only by two calls of his own, and a role is still held when it is acted with, but for the overlaps named |

States are counted up to symmetry where a configuration declares it (all but the two
with liveness properties, `refresh_tokens` and `email_queue`).

Four runs expect a violation: each checks what a message or a comment of the code says,
and TLC's trace shows the code doing something else.

* `sign_out_all_race` (`AllSessionsEnded`): a rotation that commits while sign-out from all
  sessions runs leaves its session alive, and the sign-out is answered with 204.
  `SurvivorsWereRotated` in `refresh_tokens` says that this is the only way.
* `mfa_last_method` (`NeverDisabledCompletely`): disabling TOTP and e-mail at the same time passes
  both "last method" checks.  `LockedOutOnlyByRace` in `mfa` lists all the ways to be locked out.
* `oauth2_reauthorize` (`UnexpectedIsUnexpected`): authorizing again with the same scopes while
  the first code is unredeemed inserts no scope row, which the code takes for a failure.  The trace
  has two requests that overlap; one that starts after the other has ended fares the same.
* `accounts_password` (`PasswordWorks`): a changed password is stored as plain text and compared
  as a bcrypt hash, so that it never matches.

Every property of a passing run has a mutant, a plausible bug in one action (next to the action,
under a comment that starts with "Mutant"), that breaks it under the same configuration.


## 5. Bounds

| module | instance | why it is enough |
| --- | --- | --- |
| `RefreshTokens` | 4 requests, 2 users, no symmetry | two sessions of one user or of two, and two concurrent operations on them, which can deadlock; a rotation of a rotation.  Also checked for safety: 5 requests, with symmetry.  The safety properties are proved for any number |
| `Mfa` | 4 requests | each property is broken by at most three overlapping requests; Init has every serial past |
| `OAuth2` | 4 requests, 2 scopes | authorize, redeem, authorize again, and a delete or second redemption, with any number of changes to the application in between |
| `Accounts` | 3 requests, 3 addresses | an old user, two operations that race and a third that takes an address.  With 4 requests: 3,965,233 states, 4 min 24 s, no error |
| `SocialGraph` | 3 calls | Init has every state of the pair, and a deadlock needs two calls.  A third call is the one that meets both |
| `EmailQueue` | 2 messages, 2 processes, `MaxRedeliverCount = 1` (2 in the code), 1 lost connection | a redelivery, a last try, and a message whose process dies while another is busy.  `Exit` and `Shutdown` are not bounded, but one process stays.  Also checked: 1 message, 3 processes, `MaxRedeliverCount = 2`, 1 lost connection (244,395 states) |
| `RefreshLock` | 3 calls, 2 tabs, `MaxCount = 1` (24), `MaxRetries = 1` (5) | a loser, a winner and a third that comes later; retry, limit and sign-out are reached |
| `Memberships` | 2 calls, 3 users, 3 projects, `MaxRequests = 2` (100) | each property speaks of two calls that overlap, of an actor, a member and an owner.  Init is what serial histories leave, before the organization is created or after, where only one project has members besides its creator; the third project is for the request above the limit.  Also checked: 3 calls of 2 users, which one exception of `JoinedAsAsked` (the same user joining twice) needs |

`mails` and `tries` in `EmailQueue` stop counting one above what a property distinguishes.  The
other counters are bounded by the sets.  Deadlock is checked in every run: `Quiescent` is the only
way to stay, and holds only where the system really waits for the next call.

**Fairness.**  `RefreshTokens!FairSpec`: weak fairness on every step the server takes by itself
once a request is accepted: the database executes a statement it was sent and passes on a lock, and
its deadlock detector aborts a victim when there is a cycle (`DeadlockVictim`).  No fairness on
requests arriving or on `Abort` in general.  `EmailQueue!FairSpec`: weak fairness on the consumer
loop (each `await` in it settles: `receive` with a message if there is one, `sendMail` by its own
timeouts), on closing once a shutdown has begun, and on the timers of the Pulsar client.  None on
`Send`, crashes, shutdowns, or on a mail being accepted.  `AnotherRuns` is an assumption on
operation: some process keeps running.


## 6. Proofs

Each `<Module>Proofs` has the same shape: an inductive invariant `IInv`, a conjunction of named
parts; `Init => IInv`; one lemma per action, which says that the action keeps `IInv`; and then the
theorems.  They hold for every value of the constants that satisfies the named assumption of the
module.  The assumptions are:

| module | assumption |
| --- | --- |
| all | the value that stands for "nothing" is not a real one (a row, a code, a session, a user) |
| `Mfa`, `Accounts`, `RefreshLock`, `SocialGraph`, `Memberships` | `Before`, which names what was there at the start, is not a request; kinds of values do not mix (an address is not a token, the organization not a project) |
| `EmailQueue`, `RefreshLock`, `Memberships` | the limits are natural numbers, that on requests not 0 |
| `SocialGraph` | `Users` has two elements: the module is about one pair |

Nothing is assumed about the number of requests, calls, tabs, messages or processes.

| module | proved, beside type correctness | properties |
| --- | --- | --- |
| `RefreshTokens` | `RotationExclusive`, `OneToken`, `TokensAreRedeemedOnce`, `SignOutIsFinal`, `RejectedStaysDead`, `OverStaysOver`, `SessionsAreKept`, `SurvivorsAreRotations`, `Refinement` | all safety properties of `refresh_tokens`, and `ImplementsSessions` |
| `Sessions` | `AbsOneLiveToken`, `AbsClosedForGood` | what the abstract specification promises |
| `Mfa` | `NotLockedOutUnlessRace`, `VerifiedSecretConfirmed`, `UsedCodesRefused`, `NewestMailHoldsTheCode`, `CodesErasedByTheirUser` | all of `mfa` |
| `OAuth2` | `ConnectionsAreWhole`, `CodesBecomeConnections`, `CodesOrConnection`, `CodesLostOnlyByRace` | all of `oauth2` |
| `Accounts` | `MailboxesVerify`, `CodesChangeOnce`, `FailuresAreRaces`; `AddressesAreUnique` | all of `accounts` |
| `SocialGraph` | `FriendshipIsMutual`, `RelationsAreExclusive`, `FriendsHaveAsked`, `DeadlocksAreCrosswise` | all of `social_graph` |
| `EmailQueue` | `NoMailTwiceUnlessFault`, `QueueImplementsMailDelivery`, `SettledIsSent` | all safety properties of `email_queue`, and `ImplementsMailDelivery` |
| `MailDelivery` | `MailsAreDelivered` | what the abstract specification promises |
| `RefreshLock` | `LockReleased`, `RefreshesOneAtATime`, `StoresTheNewest` | all of `refresh_lock` |
| `Memberships` | `RequestsKeepToTheirLimits`, `GroupsKeepAnOwner`, `MembersJoinAsAsked`, `ActorsHoldTheirRole` | all of `memberships` |

Hardly a property is inductive by itself: most depend on what a request that has read, and
not yet written, may still rely on.  Three kinds of parts come back in most modules.  `Staged` (or
`ControlInv`, `Stages`) says which route can be where and what it carries.  `Met` or `Meeting` says
that requests in flight together know of each other; every "P, unless Overlap(...)" rests on it.
The others say what a request has read that still holds, or which overlap has made it stale.

**RefreshTokens.**  That a session has one token depends on the rotation holding the lock of the
row it deletes, hence on who can hold which lock.

* `IssueInv`: a rotation keeps session and user, an id names the request that drew it;
* `KnownInv`: every row, and every token presented or found, was committed by the request it names;
* `TargetInv`: how far a DELETE has come; in particular, what a finished one has found is gone.
  This is why a confirmed sign-out is final although a rotation may be waiting for it;
* `LockInv`: row locks are exclusive, on rows that are still there, held by requests in flight, and
  a rotation past its DELETE holds exactly the presented row.  This gives `RedeemedOnce`;
* `RedeemedIsDead`, `SessionEnds`, `TokenEnds`: what has become of a token that once was.  The
  last one gives `SurvivorsWereRotated`.

The refinement maps `SignIn`, `Commit` and `FinishSignOut` to the three abstract actions
(`SignInOpens`, `CommitRotates`, `FinishSignOutCloses`), and everything else to a stutter.

**Mfa.**  `StillChecked`: the settings that a handler checked are still what it saw, unless it met
the handler that changed them.  `CodesDrawn` and `NewestMail` relate the row, the open transaction
and the order of the mails: a code in the row was mailed, and only the transaction that holds the
lock can have mailed a newer one.

**OAuth2.**  `RowsIssued`: a code is never in two rows, neither now nor in what redemptions have
read (the row keeps its id when its code is replaced).  `Read`, `Gone`: a redemption's DELETE finds
the row it read, in this state or a later one, and a row that was redeemed never comes back, so that
no two redemptions share one.  `LateCode`: while there is a connection, a code is under way only if
its request met the redemption; this is what `CodeOrConnection` needs.

**Accounts.**  `Locked`: the row locks, and the unique key that an open sign-up holds, exclude each
other; `Unique`, which follows, is stated as `AddressesAreUnique`.  `Coded`, `Presented`: a code in
a row stands for the change it was made for, and one that was accepted is still there, or was used
or replaced by a request in flight with the one that presents it.  `FreeBefore`, `Found`: an address
that was free, or known, when a request looked has only been moved by those it met.

**SocialGraph.** `Keys`: a key names one committed row, and who holds a key holds it alone.
`Stages`: what a call has done, and still has to do, at each stage of its statement and triggers.
`Mirrored`: whoever deletes one row of a friendship goes on to delete the other. Together they
give `Whole` (every committed friendship has its mirror), from which `FriendsBothWays` follows.
`RequestFits`, `AcceptFits`, `BlockFits` are what each call relies on of the two other tables.
`DeadlocksAreCrosswise` follows from `Stages` by cases on who waits for which table, and uses that
the pair has two users; a call that deletes both rows in one statement is one of the shapes it
names.

**EmailQueue.**  `Tracked`: a message that no fault touched is in one place only, and where it is
tells how often it was tried: `tries[m] = count[m]` before an attempt, one more after a failed one,
and a dead one has used all.  The refinement maps `SendEmail` to the abstract try, the end of an
acknowledgement or of a connection to `Settle`, the last redelivery to `GiveUp`, and the loop's
other steps to a stutter.  `ReturnEffect` says once what a lost connection does to each message.

**RefreshLock.**  `OwedInv`: if the lock is set and no tab was killed, some call is at a stage from
which it still is going to remove it.  `LockIsReleased` itself is not inductive: a tab that has read
the lock but not set it would count, although it owes nothing.  For `OneRefreshUnlessRaced` and
`StoredIsNewest`, `Alone` says that two calls between setting and removing the lock have raced for
it, `OpInv` and `MetInv` who knows of whom, and `StoredInv` that the session read by a call that is
going to write it back is the newest, but for the overlaps the property names (`Clash`).

**Memberships.**  `OwnerLeft`, `Asked`, `Entitled`, `NotYetMember`: what the policy of a call found
is still so when the call writes, or a call that it met and that is done (`Done`) has changed it.
`WithinLimit` is the same for the limit on requests; it counts rows, and uses the library's theorems
on finite sets.

**What the proofs changed.**  The proof of `DeadlockOnlyCrosswise` failed for four calls: a
bystander, which merely waits for calls that deadlock, counted as one of them.  `Deadlocked` is now
those that wait for each other.  In `Mfa` and `SocialGraph`, CASE expressions with overlapping
guards, whose value is not determined, are IF expressions now.  `MailDelivery`'s promise that what
is settled was sent is `SettledIsSent` in terms of the queue.  TLC finds no violation of the
inductive invariants under the configurations of the runs, nor of that of `Accounts` with 4 requests
and 2 addresses.

Only model-checked: `EveryRequestAnswered` and `EveryMailSettled`, as liveness under fairness and
ENABLED are outside what the prover handles.  That an exception in an "unless" is needed is not a
theorem either, but a counterexample of TLC (section 3).  The mutants and the four violations are
TLC's, too.


## 7. Limits and observations

Left out inside the modelled parts: wording, logging and cookies; expiry as a duration (a code is
expired or not, and `Expire` may happen at any time); usernames, which are distinct; the events of
the client and its `mfa_challenge` item; the limits on friends and friend requests, which are
refusals (`Fail`); in `Memberships`, what an application with client_credentials may do to members
and logos; authorization-code rows when sessions are modelled, and the other way round; what a
route does after `validateMFA` has passed; and, in `SocialGraph`, statements about more than the
pair and PostgREST's upsert preference.

What some properties do not say. `SessionKept` lets a client lose its session's token by a lost
answer to the COMMIT: nothing in the code prevents that. `NewestMailIsTheCode` is about the order
of mails; one whose COMMIT failed holds a code that was never stored. `VerifiedByItsMailbox` asks
for the mailbox, not the user: a link that was mailed to an earlier owner of an address verifies
it for the present one. `CodeLostOnlyByRace` counts no code lost that a newer authorization
replaces in its row. `raced` in `RefreshLock` holds for the rest of a history, so that
`OneRefreshUnlessRaced` is about the way to the first race. `JoinedAsAsked` compares a member's
role with his request, whose role the requester chooses himself. `RoleWhenActing` says nothing of
deletions of groups, which the policy does not bind to a role at all (`MayDelete`).

`RefreshLock` treats the server as external, and is not composed with `RefreshTokens`, because the
client does not match today's API: `ApiResponse.isError` is true for any body with an `errors`
array, and every success message has an empty one, so that `getSuccessBody` always throws;
`signIn` and `mfaChallenge` send GET requests without a body; and the refresh route returns the
new token in the body while it reads the old one from a cookie that it does not replace.

Met while modelling, and not the subject of a run:

* `refreshTokenController` sets no cookie, and the cookie of a sign-in has the path
  `/auth/token?grant_type=refresh_token`, which no request path matches.
* `sendEmailCode` does not return the result of its transaction: the request is never answered
  (the outcome `"silent"` in `Mfa`).
* A sign-out that overlaps a rotation of the same session may be answered with 404 while the
  session goes on under its new token.
* `POST /auth/token` for the refresh token of a connection always throws in `generateAccessToken`,
  and `DELETE /auth/oauth2/revoke` looks up `req.body.jti`, which no request carries.
* Confirming a recovery passes the address to a query on `id::uuid` (`recovery.ts:206`) and always
  fails.
* `validateMFA` does not use an e-mail code up: until it is used for a change of the settings,
  replaced, or too old, the same code passes any number of checks.
* Inserting both rows of a friendship in one statement leaves the request between the two friends:
  for each row the trigger finds the other, and does not come to delete it
  (`1752313917:16-27`; `RequestOfFriends` has the exception).
* The verification of an address change sets whatever address is pending by then; it may be one
  nobody confirmed (`VerifiedByItsMailbox` has the exception).
* A block that overlaps an acceptance leaves two users both friends and blocked; `friends_insert`
  does not look at blocks at all.
* The request limit of `friend_requests` counts the rows the requester can see, which is at most
  one.  The friend limit is an equality with 1000 that two concurrent acceptances can step over.
* `utils.has_client_scope` reads a table on which no role has SELECT, so that PostgREST calls of an
  application fail.
* The policies for changing a member's role refer to `role` where no table is in scope
  (`1752316293:90`, `1752316677:94`) and always fail.  So does a change of a request by an Admin, whose
  function names `_organization_id`, which it does not have (`1752316617:48`), and an Admin's creation
  of a project, whose trigger inserts a member that `project_members_insert` refuses.
* An invitation always fails: its trigger inserts a notification (`1752314355:19-27`) that
  `notifications_insert` (`1752316821:57-65`) refuses.  Only a user's own request to join a
  project goes through, and nobody can be asked into an organization.
* In `organizations_delete`, `organizations_update` and the same policies of projects, the
  subquery's unqualified `id` is that of the membership row (`1752316370:55`, `1752316746:64`), so that
  the policy compares a group with a membership's number.  `MayDelete` leaves open what that gives.
* The policies on projects read `project_members` under its own row-level security, which hides the
  rows of private profiles, also from their owners: a private owner cannot manage requests, and a
  private member may ask to join again (`RequestsFit` has the exception).
* `1752316821:40` has the grant type `athorization_code`.
* A graceful shutdown of the mail worker closes the consumer before the loop has acknowledged the
  mail it is sending: the mail is sent again by another process.  The dead-letter topic has no
  reader.
* In the client, a tab that is killed with the lock set stops every refresh until some tab is
  unloaded; REST calls then fail after ten seconds of waiting.

------------------------------- MODULE SocialGraph -------------------------------
(***************************************************************************)
(* Friends, friend requests and blocks of one pair of users: the rows, the *)
(* triggers and the row-level policies of db/migrations, with the calls    *)
(* the two users make through PostgREST run concurrently.  Every statement *)
(* names the pair, so other pairs do not interfere.                        *)
(*                                                                         *)
(* A call is one transaction at READ COMMITTED.  Its statement and each    *)
(* statement of its triggers sees what is committed when that statement    *)
(* starts, and what the call itself has done.  A DELETE visits the rows it *)
(* saw, waits for one that another open transaction has deleted, and skips *)
(* it if that transaction commits.  An INSERT waits for an open            *)
(* transaction that has inserted or deleted a row with the same key.       *)
(*                                                                         *)
(* The grant is 'password': utils.has_client_scope reads                   *)
(* oauth2_connection_scopes, on which no role has SELECT, so that every    *)
(* call of an application fails.  The limits on the number of rows and     *)
(* accept_friend_requests refuse a call before it writes (see Fail), and   *)
(* so does notifications_insert a request made in somebody else's name,    *)
(* which friend_requests_insert itself lets through.                       *)
(***************************************************************************)
EXTENDS Naturals, FiniteSets

CONSTANTS
  Requests,            \* the calls, each made once
  Users,               \* the two users
  Before,              \* the call that made the initial rows
  None                 \* no user

ASSUME SocialGraphAssumption ==
  /\ IsFiniteSet(Users) /\ Cardinality(Users) = 2
  /\ Before \notin Requests
  /\ None \notin Users

Tables == {"friends", "friend_requests", "blocked"}

\* of is user_id, requester_id or blocker_id; the other column is the other
\* user.  by tells rows with the same columns apart (ctid).
Rows == [table : Tables, of : Users, by : Requests \cup {Before}]

VARIABLES
  rows,                \* the committed rows of the pair
  pc,                  \* where each call is; its outcome once it ended
  op,                  \* what it does
  who,                 \* the user who makes it
  way,                 \* user_id of the (first) row of friends it inserts or deletes
  both,                \* it names both rows of the friendship
  todo,                \* the rows its current DELETE has not visited yet
  deleted,             \* rows its open transaction has deleted
  added,               \* rows its open transaction has inserted
  peers                \* history: the calls it was in flight with

vars == <<rows, pc, op, who, way, both, todo, deleted, added, peers>>

Deleting == {"clearing", "unfriending", "mirroring_delete", "unblocking"}
Inserting == {"inserting", "mirroring"}
InFlight == Deleting \cup Inserting \cup {"triggering", "committing"}
\* "error" leaves no trace.
Answered == {"done", "403", "409", "error"}
Ops == {"none", "request", "withdraw", "accept", "unfriend", "block", "unblock"}

TypeOK ==
  /\ rows \subseteq Rows
  /\ pc \in [Requests -> {"idle"} \cup InFlight \cup Answered]
  /\ op \in [Requests -> Ops]
  /\ who \in [Requests -> Users \cup {None}]
  /\ way \in [Requests -> Users \cup {None}]
  /\ both \in [Requests -> BOOLEAN]
  /\ todo \in [Requests -> SUBSET Rows]
  /\ deleted \in [Requests -> SUBSET Rows]
  /\ added \in [Requests -> SUBSET Rows]
  /\ peers \in [Requests -> SUBSET Requests]

In(table, S) == {x \in S : x.table = table}

\* Strangers, a request, friends, or a block: what calls made one after the
\* other leave (but see RequestOfFriends).
Init ==
  /\ rows \in SUBSET [table : Tables, of : Users, by : {Before}]
  /\ \E table \in Tables : rows = In(table, rows)
  /\ Cardinality(In("friends", rows)) # 1
  /\ Cardinality(In("friend_requests", rows)) <= 1
  /\ pc = [r \in Requests |-> "idle"]
  /\ op = [r \in Requests |-> "none"]
  /\ who = [r \in Requests |-> None]
  /\ way = [r \in Requests |-> None]
  /\ both = [r \in Requests |-> FALSE]
  /\ todo = [r \in Requests |-> {}]
  /\ deleted = [r \in Requests |-> {}]
  /\ added = [r \in Requests |-> {}]
  /\ peers = [r \in Requests |-> {}]
----------------------------------------------------------------------------
Other(u) == CHOOSE v \in Users : v # u

\* What a statement that call r starts now can see.
Visible(r) == (rows \ deleted[r]) \cup added[r]

\* The rows of S a call finds in a table with the given first column.
Find(S, table, u) == {x \in In(table, S) : x.of = u}

\* unique_friend_requests_combination is on the unordered pair.
SameKey(x, y) == x.table = y.table /\ (x.table = "friend_requests" \/ x.of = y.of)

\* Call r of user u starts with the given stage and DELETE.
Call(r, o, u, w, b, stage, found) ==
  /\ pc[r] = "idle"
  /\ pc' = [pc EXCEPT ![r] = stage]
  /\ op' = [op EXCEPT ![r] = o]
  /\ who' = [who EXCEPT ![r] = u]
  /\ way' = [way EXCEPT ![r] = w]
  /\ both' = [both EXCEPT ![r] = b]
  /\ todo' = [todo EXCEPT ![r] = found]
  /\ LET others == {q \in Requests : pc[q] \in InFlight}
     IN  peers' = IF stage \notin InFlight THEN peers
                  ELSE [q \in Requests |->
                          IF q = r THEN others
                          ELSE IF q \in others THEN peers[q] \cup {r}
                          ELSE peers[q]]
  /\ UNCHANGED <<rows, deleted, added>>

\* It goes on to another stage with a new DELETE.
Proceed(r, stage, found) ==
  /\ pc' = [pc EXCEPT ![r] = stage]
  /\ todo' = [todo EXCEPT ![r] = found]
  /\ UNCHANGED <<rows, op, who, way, both, deleted, added, peers>>

\* An error: nothing it did remains.
RollBack(r, status) ==
  /\ pc' = [pc EXCEPT ![r] = status]
  /\ todo' = [todo EXCEPT ![r] = {}]
  /\ deleted' = [deleted EXCEPT ![r] = {}]
  /\ added' = [added EXCEPT ![r] = {}]
  /\ UNCHANGED <<rows, op, who, way, both, peers>>
----------------------------------------------------------------------------
(* The calls.  A policy that refuses ends them at once.                    *)

\* friend_requests_insert.
Request(r, u) ==
  LET refused == Find(rows, "friends", u) # {} \/ In("blocked", rows) # {}
  IN  Call(r, "request", u, u, FALSE, IF refused THEN "403" ELSE "inserting", {})

\* friend_requests_delete: either of the two.
Withdraw(r, u) ==
  Call(r, "withdraw", u, u, FALSE, "clearing", In("friend_requests", rows))

\* Mutant: the requester may accept, too.
RequestOfEither(u) == In("friend_requests", rows) # {}

RequestTo(u) == Find(rows, "friend_requests", Other(u)) # {}

\* friends_insert: the addressee may insert the row either way round, or both.
Accept(r, u, w, b) ==
  Call(r, "accept", u, w, b, IF RequestTo(u) THEN "inserting" ELSE "403", {})

\* friends_delete: either row of the pair,
Unfriend(r, u, w) ==
  Call(r, "unfriend", u, w, FALSE, "unfriending", Find(rows, "friends", w))

\* or both at once.
UnfriendBoth(r, u) ==
  Call(r, "unfriend", u, u, TRUE, "unfriending", In("friends", rows))

\* Mutant: the trigger is not there.
BlockOnly(r, u) == Call(r, "block", u, u, FALSE, "inserting", {})

\* delete_friend_request_or_friend_if_exists runs before the INSERT.
Block(r, u) ==
  Call(r, "block", u, u, FALSE, "clearing", In("friend_requests", rows))

Unblock(r, u) ==
  Call(r, "unblock", u, u, FALSE, "unblocking", Find(rows, "blocked", u))
----------------------------------------------------------------------------
(* DELETE *)

DeleteRow(r, x) ==
  /\ pc[r] \in Deleting
  /\ x \in todo[r]
  /\ \A q \in Requests \ {r} : x \notin deleted[q]
  /\ todo' = [todo EXCEPT ![r] = @ \ {x}]
  /\ deleted' = [deleted EXCEPT ![r] = @ \cup ({x} \cap rows)]
  /\ UNCHANGED <<rows, pc, op, who, way, both, added, peers>>

Visited(r, stage) == pc[r] = stage /\ todo[r] = {}

\* Mutant: whoever deletes a request goes on to the friends.
ClearedAll(r) ==
  /\ Visited(r, "clearing")
  /\ Proceed(r, "unfriending", In("friends", Visible(r)))

\* The requests are gone: a block goes on to the friends.
Cleared(r) ==
  /\ Visited(r, "clearing")
  /\ IF op[r] = "block"
     THEN Proceed(r, "unfriending", In("friends", Visible(r)))
     ELSE Proceed(r, "committing", {})

\* Mutant: the trigger is not there.
DeleteNoMirrors(r) ==
  /\ Visited(r, "unfriending")
  /\ Proceed(r, "mirroring_delete", {})

\* friend_delete: the mirror of each row deleted, where there still is one.
DeleteMirrors(r) ==
  /\ Visited(r, "unfriending")
  /\ LET gone == In("friends", deleted[r])
     IN  Proceed(r, "mirroring_delete",
                 {x \in In("friends", Visible(r)) : \E y \in gone : y.of = Other(x.of)})

Unfriended(r) ==
  /\ Visited(r, "mirroring_delete")
  /\ Proceed(r, IF op[r] = "block" THEN "inserting" ELSE "committing", {})

Unblocked(r) ==
  /\ Visited(r, "unblocking")
  /\ Proceed(r, "committing", {})
----------------------------------------------------------------------------
(* INSERT *)

\* The row that call r inserts at its present stage.
NewRow(r) ==
  CASE op[r] = "request" -> [table |-> "friend_requests", of |-> who[r], by |-> r]
    [] op[r] = "block"   -> [table |-> "blocked", of |-> who[r], by |-> r]
    [] OTHER             -> [table |-> "friends", by |-> r,
                             of |-> IF pc[r] = "inserting" THEN way[r] ELSE Other(way[r])]

\* Nobody else has an open insertion or deletion of the key.
KeyFree(r) ==
  \A q \in Requests \ {r} : \A y \in added[q] \cup deleted[q] : ~SameKey(NewRow(r), y)

KeyTaken(r) == \E y \in Visible(r) : SameKey(NewRow(r), y)

\* The triggers of both rows inserted at once find the mirror: they do nothing.
AfterInsert(r) ==
  CASE op[r] # "accept"     -> "committing"
    [] op[r] = "accept" /\ pc[r] = "inserting" -> IF both[r] THEN "mirroring" ELSE "triggering"
    [] op[r] = "accept" /\ pc[r] = "mirroring" -> IF both[r] THEN "committing" ELSE "clearing"

InsertRow(r) ==
  /\ pc[r] \in Inserting
  /\ KeyFree(r)
  /\ ~KeyTaken(r)
  /\ added' = [added EXCEPT ![r] = @ \cup {NewRow(r)}]
  /\ LET stage == AfterInsert(r)
     IN  /\ pc' = [pc EXCEPT ![r] = stage]
         /\ todo' = [todo EXCEPT ![r] = IF stage # "clearing" THEN {}
                       ELSE Find(Visible(r), "friend_requests", Other(way[r]))]
  /\ UNCHANGED <<rows, op, who, way, both, deleted, peers>>

\* Mutant: a status PostgREST does not answer.
DuplicateAs400(r) ==
  /\ pc[r] \in Inserting
  /\ KeyFree(r)
  /\ KeyTaken(r)
  /\ RollBack(r, "400")

Duplicate(r) ==
  /\ pc[r] \in Inserting
  /\ KeyFree(r)
  /\ KeyTaken(r)
  /\ RollBack(r, "409")

\* friend_insert: the mirror, unless it exists; its INSERT is subject to
\* friends_insert again.
InsertMirror(r) ==
  /\ pc[r] = "triggering"
  /\ IF Find(Visible(r), "friends", Other(way[r])) # {} THEN Proceed(r, "committing", {})
     ELSE IF RequestTo(who[r]) THEN Proceed(r, "mirroring", {})
     ELSE RollBack(r, "403")

Commit(r) ==
  /\ pc[r] = "committing"
  /\ rows' = Visible(r)
  /\ pc' = [pc EXCEPT ![r] = "done"]
  /\ deleted' = [deleted EXCEPT ![r] = {}]
  /\ added' = [added EXCEPT ![r] = {}]
  /\ UNCHANGED <<op, who, way, both, todo, peers>>

\* A limit or another check refuses, a statement fails, the connection breaks.
Fail(r) ==
  /\ pc[r] \in InFlight
  /\ RollBack(r, "error")
----------------------------------------------------------------------------
\* The open transactions that call r cannot go on without.
WaitsFor(r) ==
  CASE pc[r] \in Deleting ->
         {q \in Requests \ {r} : todo[r] # {} /\ todo[r] \cap deleted[q] # {}}
    [] pc[r] \in Inserting ->
         {q \in Requests \ {r} : \E y \in added[q] \cup deleted[q] : SameKey(NewRow(r), y)}
    [] OTHER -> {}

\* Each of the group waits for another one of it, which can do nothing else, and
\* another one for it: who merely waits for the others is not part of the cycle.
Deadlocked(group) ==
  /\ group # {}
  /\ \A r \in group :
       /\ WaitsFor(r) \cap group # {}
       /\ \E q \in group : r \in WaitsFor(q)
       /\ pc[r] \in Deleting =>
            \A x \in todo[r] : \E q \in group \ {r} : x \in deleted[q]

\* Every call has ended.
Quiescent ==
  /\ \A r \in Requests : pc[r] \in Answered
  /\ UNCHANGED vars

Next ==
  \/ \E r \in Requests :
       \/ \E u \in Users :
            \/ Request(r, u) \/ Withdraw(r, u)
            \/ \E w \in Users, b \in BOOLEAN : Accept(r, u, w, b)
            \/ (\E w \in Users : Unfriend(r, u, w)) \/ UnfriendBoth(r, u)
            \/ Block(r, u) \/ Unblock(r, u)
       \/ \E x \in Rows : DeleteRow(r, x)
       \/ Cleared(r) \/ DeleteMirrors(r) \/ Unfriended(r) \/ Unblocked(r)
       \/ InsertRow(r) \/ Duplicate(r) \/ InsertMirror(r)
       \/ Commit(r) \/ Fail(r)
  \/ Quiescent

Spec == Init /\ [][Next]_vars
----------------------------------------------------------------------------
(* Properties *)

Overlap(o1, o2) ==
  \E q \in Requests : op[q] = o1 /\ \E r \in peers[q] : op[r] = o2

AreFriends == In("friends", rows) # {}

Blocked == In("blocked", rows) # {}

Requested == In("friend_requests", rows) # {}

\* A friendship is known to both sides or to neither, whatever calls meet in
\* the two triggers that keep the mirror row.
FriendsBothWays == Cardinality(In("friends", rows)) \in {0, 2}

\* A block ends friendship and keeps it from coming back, unless it met an
\* acceptance it could not see yet, or a request it could not see yet, which
\* can then still be accepted: friends_insert does not look at blocks.
BlockedAreNotFriends ==
  Blocked /\ AreFriends => Overlap("block", "accept") \/ Overlap("block", "request")

\* No request between users who block each other, but for the one that was
\* being made when the block was.
NoRequestWhenBlocked ==
  Blocked /\ Requested => Overlap("block", "request")

\* A request between friends outlived its acceptance, which named the rows the
\* other way round or both, or took the place of the one being accepted.
RequestOfFriends ==
  AreFriends /\ Requested =>
    \/ \E r \in Requests : /\ op[r] = "accept" /\ pc[r] = "done"
                           /\ way[r] # who[r] \/ both[r]
    \/ Overlap("accept", "request")

\* Friendship, request and block exclude each other, but for these overlaps.
RelationsExclude == BlockedAreNotFriends /\ NoRequestWhenBlocked /\ RequestOfFriends

\* Who becomes a friend has asked to, and has not taken it back before the
\* other one began to accept.  Both rows inserted at once look at the request only
\* once: another acceptance may have used it up, and the friendship ended, since.
FriendsByRequest ==
  [][~AreFriends /\ AreFriends' =>
       \E r \in Requests :
         /\ op[r] = "accept" /\ pc[r] = "committing" /\ pc'[r] = "done"
         /\ \/ Find(rows, "friend_requests", Other(who[r])) # {}
            \/ \E q \in peers[r] : \/ op[q] \in {"withdraw", "block"}
                                   \/ op[q] = "accept" /\ both[r]]_vars

\* The call deletes both rows of a friendship in one statement.
DeletesBoth(r) == op[r] = "block" \/ (op[r] = "unfriend" /\ both[r])

\* Requests, withdrawals and unblocking take no part in a deadlock (they may wait
\* for one).  Acceptances and unfriendings that name the same row of friends do not
\* deadlock either: some two start from different rows, or one deletes both rows in
\* a statement that visits them in any order.
DeadlockOnlyCrosswise ==
  \A group \in SUBSET Requests : Deadlocked(group) =>
    /\ \A r \in group : op[r] \in {"accept", "unfriend", "block"}
    /\ \E q, r \in group : DeletesBoth(q) \/ way[q] # way[r]
=================================================================================

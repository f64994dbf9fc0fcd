-------------------------------- MODULE Memberships --------------------------------
(***************************************************************************)
(* The members of an organization and of its projects, the requests to     *)
(* join a project, and what a member's role allows: the row-level policies *)
(* and triggers of db/migrations, and the routes that hand out the URLs of *)
(* logos.                                                                  *)
(*                                                                         *)
(* A call is one transaction at READ COMMITTED, with grant 'password' (see *)
(* SocialGraph).  Its policy decides on what is committed when the         *)
(* statement meets the row; a limit, the key and the triggers act when the *)
(* row is written.  Nobody who waits in between is waited for in turn, so  *)
(* that writing, the triggers and COMMIT are one step.                     *)
(*                                                                         *)
(* Three things fail whatever the state, and are left out: to change the   *)
(* role of a member (the policy names a column `role` that is not in       *)
(* scope), to invite another user (the trigger's notification is refused   *)
(* by notifications_insert), and to create a project as an Admin (the      *)
(* trigger's INSERT INTO project_members is).  Hence organizations have no *)
(* requests and no members but Owners.                                     *)
(***************************************************************************)
EXTENDS Naturals, FiniteSets

CONSTANTS
  Calls,               \* the calls, each made once
  Users,
  Organization,
  Projects,            \* projects of the organization, each created once
  MaxRequests,         \* requests a user may have (100 in the code)
  Before,              \* the call that made the initial rows
  None                 \* no user

ASSUME MembershipsAssumption ==
  /\ Organization \notin Projects
  /\ MaxRequests \in Nat \ {0}
  /\ Before \notin Calls
  /\ None \notin Users

Groups == {Organization} \cup Projects
Roles == {"Member", "Moderator", "Admin", "Owner"}

\* A row of organization_members, project_members or project_requests; by
\* tells a row from one that replaces it (id).
Rows == [group : Groups, user : Users, role : Roles, by : Calls \cup {Before}]

VARIABLES
  status,              \* whether a group is still to be created, or deleted
  members,             \* the rows of both tables of members
  requests,            \* the rows of project_requests
  private,             \* the users whose profile is_private
  pc,                  \* where each call is; how it ended
  op,                  \* what it does
  who,                 \* the user who makes it
  arg,                 \* the row it is about
  peers                \* history: the calls it was in flight with

vars == <<status, members, requests, private, pc, op, who, arg, peers>>

Ops == {"none", "create", "delete", "ask", "change", "withdraw", "reject",
        "join", "remove", "profile", "logo"}

TypeOK ==
  /\ status \in [Groups -> {"new", "there", "gone"}]
  /\ members \subseteq Rows
  /\ requests \subseteq Rows
  /\ private \subseteq Users
  /\ pc \in [Calls -> {"idle", "writing", "done", "refused", "409", "error"}]
  /\ op \in [Calls -> Ops]
  /\ who \in [Calls -> Users \cup {None}]
  /\ arg \in [Calls -> Rows \cup {None}]
  /\ peers \in [Calls -> SUBSET Calls]

Of(table, g) == {x \in table : x.group = g}
Owners(g) == {x \in Of(members, g) : x.role = "Owner"}
Row(g, u, role, r) == [group |-> g, user |-> u, role |-> role, by |-> r]

RowsFor(g, f) == {Row(g, u, f[u], Before) : u \in {v \in Users : f[v] # "none"}}

\* What calls made one after the other leave.  The organization is still to be
\* created, or is the seeded one, which has no owner until somebody claims it, or
\* one of `boss`; a project has an owner from the start.  To keep Init small, there
\* are all projects or none, `boss` has created them, and only `past` has other
\* members, and requests.
Init ==
  /\ \E old \in {{}, {Organization}, Groups}, boss \in Users :
       /\ status = [g \in Groups |-> IF g \in old THEN "there" ELSE "new"]
       /\ \/ old \in {{}, {Organization}} /\ members = {} /\ requests = {}
          \/ /\ old = {Organization}
             /\ members = {Row(Organization, boss, "Owner", Before)}
             /\ requests = {}
          \/ \E past \in Projects, role, wish \in [Users -> Roles \cup {"none"}] :
               /\ old = Groups
               /\ role[boss] = "Owner"
               /\ \A u \in Users : "none" \in {role[u], wish[u]}
               /\ members = RowsFor(past, role) \cup
                    {Row(g, boss, "Owner", Before) : g \in Groups \ {past}}
               /\ requests = RowsFor(past, wish)
  /\ private \in SUBSET Users
  /\ pc = [r \in Calls |-> "idle"]
  /\ op = [r \in Calls |-> "none"]
  /\ who = [r \in Calls |-> None]
  /\ arg = [r \in Calls |-> None]
  /\ peers = [r \in Calls |-> {}]
----------------------------------------------------------------------------
(* Policies *)

There(g) == status[g] = "there"

\* A role of u in g.  The policies of the members look past row-level security,
\* and so does the API; the others do not see a private user's row of a project.
Has(u, g, roles) == \E x \in Of(members, g) : x.user = u /\ x.role \in roles
Shows(u, g, roles) == Has(u, g, roles) /\ (g = Organization \/ u \notin private)

Rank(role) == CASE role = "Owner" -> 3 [] role = "Admin" -> 2
                [] role = "Moderator" -> 1 [] OTHER -> 0
Above(role) == {other \in Roles : Rank(other) > Rank(role)}

\* organizations_insert, projects_insert.
MayCreate(u, g) == g \in Projects => Has(u, Organization, {"Owner"})

\* organizations_delete, projects_delete.  Their subquery compares the group of
\* a membership of u's, of whatever organization or project, with the id of that
\* very membership.  Whether one fits has nothing to do with g: it may always be,
\* unless u's profile hides his rows of projects.
MayDelete(u, g) == g \in Projects => u \notin private

\* check_project_request_limit, project_requests_insert.
MayAsk(u, p) ==
  /\ Cardinality({x \in requests : x.user = u}) # MaxRequests
  /\ ~Shows(u, p, Roles)

\* project_requests_update.  As an Admin it fails.
MayChange(u, x) == Shows(u, x.group, {"Owner"})

\* project_requests_delete: the addressee or an Owner, or an Admin.
MayWithdraw(u, x) == u = x.user \/ Shows(u, x.group, {"Owner"})
MayReject(u, x) == Shows(u, x.group, {"Admin"}) /\ x.role \notin {"Owner", "Admin"}

\* Mutant: the requested role is not compared.
MayJoinAs(x) ==
  \/ \E y \in Of(requests, x.group) : y.user = x.user
  \/ Owners(x.group) = {} /\ x.role = "Owner"

\* organization_members_insert, project_members_insert.
MayJoin(x) ==
  \/ \E y \in Of(requests, x.group) : y.user = x.user /\ y.role = x.role
  \/ Owners(x.group) = {} /\ x.role = "Owner"

\* Mutants: the owners are not counted; an equal role will do.
MayRemoveUncounted(u, x) == u = x.user \/ Has(u, x.group, Above(x.role))
MayRemoveEqual(u, x) ==
  \/ u = x.user /\ (x.role = "Owner" => Cardinality(Owners(x.group)) > 1)
  \/ Has(u, x.group, Above(x.role) \cup {x.role})

\* organization_members_delete, project_members_delete.
MayRemove(u, x) ==
  \/ u = x.user /\ (x.role = "Owner" => Cardinality(Owners(x.group)) > 1)
  \/ Has(u, x.group, Above(x.role))

\* isUserAdminOrOwnerOfProject, isUserAdminOrOwnerOfOrganization.
MayChangeLogo(u, g) == Has(u, g, {"Owner", "Admin"})
----------------------------------------------------------------------------
(* Calls: the policy *)

\* Call r of user u, about the row x.  A refused call leaves no trace.
Call(r, o, u, x, allowed) ==
  /\ pc[r] = "idle"
  /\ IF ~allowed
     THEN /\ pc' = [pc EXCEPT ![r] = "refused"]
          /\ UNCHANGED <<op, who, arg, peers>>
     ELSE /\ pc' = [pc EXCEPT ![r] = "writing"]
          /\ op' = [op EXCEPT ![r] = o]
          /\ who' = [who EXCEPT ![r] = u]
          /\ arg' = [arg EXCEPT ![r] = x]
          /\ LET others == {q \in Calls : pc[q] = "writing"}
             IN  peers' = [q \in Calls |->
                   IF q = r THEN others
                   ELSE IF q \in others THEN peers[q] \cup {r} ELSE peers[q]]
  /\ UNCHANGED <<status, members, requests, private>>

Create(r, u, g) ==
  Call(r, "create", u, Row(g, u, "Owner", r), status[g] = "new" /\ MayCreate(u, g))

\* Of the row of `delete` and `logo`, only the group counts.
Delete(r, u, g) ==
  Call(r, "delete", u, Row(g, u, "Owner", r), There(g) /\ MayDelete(u, g))

Ask(r, u, p, role) ==
  Call(r, "ask", u, Row(p, u, role, r), There(p) /\ MayAsk(u, p))

Change(r, u, x, role) ==
  Call(r, "change", u, [x EXCEPT !.role = role], role # x.role /\ MayChange(u, x))

Withdraw(r, u, x) == Call(r, "withdraw", u, x, MayWithdraw(u, x))
Reject(r, u, x) == Call(r, "reject", u, x, MayReject(u, x))

Join(r, u, g, role) ==
  LET x == Row(g, u, role, r) IN Call(r, "join", u, x, There(g) /\ MayJoin(x))

Remove(r, u, x) ==
  Call(r, "remove", u, x,
       MayRemove(u, x) /\ (x.group \in Projects => x.user \notin private))

\* POST and DELETE of /storage/{organizations,projects}/:id.
Logo(r, u, g) ==
  Call(r, "logo", u, Row(g, u, "Owner", r), There(g) /\ MayChangeLogo(u, g))

\* profiles_update: one UPDATE decides and writes.
SetPrivate(r, u) ==
  /\ pc[r] = "idle"
  /\ pc' = [pc EXCEPT ![r] = "done"]
  /\ op' = [op EXCEPT ![r] = "profile"]
  /\ who' = [who EXCEPT ![r] = u]
  /\ private' = IF u \in private THEN private \ {u} ELSE private \cup {u}
  /\ UNCHANGED <<status, members, requests, arg, peers>>
----------------------------------------------------------------------------
(* Calls: the write, the triggers, COMMIT *)

Writes(r, o) == pc[r] = "writing" /\ op[r] = o

End(r) ==
  /\ pc' = [pc EXCEPT ![r] = "done"]
  /\ UNCHANGED <<private, op, who, arg, peers>>

\* A call that fails leaves no trace either.
Undo(r, outcome) ==
  /\ pc' = [pc EXCEPT ![r] = outcome]
  /\ op' = [op EXCEPT ![r] = "none"]
  /\ who' = [who EXCEPT ![r] = None]
  /\ arg' = [arg EXCEPT ![r] = None]
  /\ peers' = [q \in Calls |-> IF q = r THEN {} ELSE peers[q] \ {r}]
  /\ UNCHANGED <<status, members, requests, private>>

\* make_organization_creator_as_owner, make_project_creator_a_member, which reads
\* the role again.
WriteGroup(r) ==
  LET g == arg[r].group IN
  /\ Writes(r, "create")
  /\ status[g] = "new"
  /\ MayCreate(who[r], g)
  /\ status' = [status EXCEPT ![g] = "there"]
  /\ members' = members \cup {arg[r]}
  /\ End(r)
  /\ UNCHANGED requests

\* The rows of the group, and an organization's projects with theirs.
DeleteGroup(r) ==
  LET with == IF arg[r].group = Organization THEN Groups ELSE {arg[r].group} IN
  /\ Writes(r, "delete")
  /\ status' = [g \in Groups |->
       IF g \in with /\ There(g) THEN "gone" ELSE status[g]]
  /\ members' = {x \in members : x.group \notin with}
  /\ requests' = {x \in requests : x.group \notin with}
  /\ End(r)

\* The key is taken, or the group is gone.
Taken(table, x) == ~There(x.group) \/ \E y \in Of(table, x.group) : y.user = x.user

InsertRequest(r) ==
  /\ Writes(r, "ask")
  /\ ~Taken(requests, arg[r])
  /\ requests' = requests \cup {arg[r]}
  /\ End(r)
  /\ UNCHANGED <<status, members>>

\* Mutant: the trigger deletes no request.
InsertMemberOnly(r) ==
  /\ Writes(r, "join")
  /\ ~Taken(members, arg[r])
  /\ members' = members \cup {arg[r]}
  /\ End(r)
  /\ UNCHANGED <<status, requests>>

\* delete_organization_request, delete_project_request.
InsertMember(r) ==
  /\ Writes(r, "join")
  /\ ~Taken(members, arg[r])
  /\ members' = members \cup {arg[r]}
  /\ requests' = {y \in requests : y.group # arg[r].group \/ y.user # arg[r].user}
  /\ End(r)
  /\ UNCHANGED status

\* Mutant: a status PostgREST does not answer.
ConflictAs500(r) ==
  /\ \/ Writes(r, "join") /\ Taken(members, arg[r])
     \/ Writes(r, "ask") /\ Taken(requests, arg[r])
     \/ Writes(r, "create") /\ status[arg[r].group] # "new"
  /\ Undo(r, "500")

\* The name of a group is a key, too.
Conflict(r) ==
  /\ \/ Writes(r, "join") /\ Taken(members, arg[r])
     \/ Writes(r, "ask") /\ Taken(requests, arg[r])
     \/ Writes(r, "create") /\ status[arg[r].group] # "new"
  /\ Undo(r, "409")

\* The present version of the request that call r met, if it is still there.
Met(r) == {x \in Of(requests, arg[r].group) : x.user = arg[r].user /\ x.by = arg[r].by}

ChangeRequest(r) ==
  /\ Writes(r, "change")
  /\ requests' = IF Met(r) = {} THEN requests ELSE (requests \ Met(r)) \cup {arg[r]}
  /\ End(r)
  /\ UNCHANGED <<status, members>>

\* A DELETE looks again at a row that has been changed.
DeleteRequest(r) ==
  /\ \/ Writes(r, "withdraw") /\ requests' = requests \ Met(r)
     \/ /\ Writes(r, "reject")
        /\ requests' = requests \ {x \in Met(r) : x.role \notin {"Owner", "Admin"}}
  /\ End(r)
  /\ UNCHANGED <<status, members>>

RemoveMember(r) ==
  /\ Writes(r, "remove")
  /\ members' = members \ {arg[r]}
  /\ End(r)
  /\ UNCHANGED <<status, requests>>

\* The object is deleted, or a file posted to the URL, whose only check is its
\* own expiry.
WriteLogo(r) ==
  /\ Writes(r, "logo")
  /\ End(r)
  /\ UNCHANGED <<status, members, requests>>

\* A trigger refuses, the statement fails, the URL expires.
Fail(r) ==
  /\ pc[r] = "writing"
  /\ Undo(r, "error")

\* Every call has ended.
Quiescent ==
  /\ \A r \in Calls : pc[r] \notin {"idle", "writing"}
  /\ UNCHANGED vars

Next ==
  \/ \E r \in Calls :
       \/ \E u \in Users :
            \/ SetPrivate(r, u)
            \/ \E g \in Groups : Create(r, u, g) \/ Delete(r, u, g) \/ Logo(r, u, g)
            \/ \E role \in Roles :
                 \/ \E p \in Projects : Ask(r, u, p, role)
                 \/ \E g \in Groups : Join(r, u, g, role)
                 \/ \E x \in requests : Change(r, u, x, role)
            \/ \E x \in requests : Withdraw(r, u, x) \/ Reject(r, u, x)
            \/ \E x \in members : Remove(r, u, x)
       \/ WriteGroup(r) \/ DeleteGroup(r)
       \/ InsertRequest(r) \/ InsertMember(r) \/ Conflict(r)
       \/ ChangeRequest(r) \/ DeleteRequest(r) \/ RemoveMember(r)
       \/ WriteLogo(r) \/ Fail(r)
  \/ Quiescent

Spec == Init /\ [][Next]_vars
----------------------------------------------------------------------------
(* Properties *)

\* The calls of user u about one of the groups.
Own(u, o, groups) == {r \in Calls : op[r] = o /\ who[r] = u /\ arg[r].group \in groups}

\* Two of them were in flight together.
OwnOverlap(u, o1, o2, groups) ==
  \E q \in Own(u, o1, groups) : peers[q] \cap Own(u, o2, groups) # {}

Ends(r) == pc[r] = "writing" /\ pc'[r] = "done"

\* A group keeps an owner once it has one, unless two owners leave it at once:
\* each is counted while the other one goes.
LastOwnerStays ==
  [][\A g \in Groups :
       Owners(g) # {} /\ Owners(g)' = {} /\ status'[g] = "there" =>
         \E q, r \in Calls :
           /\ q \in peers[r] /\ op[q] = "remove" /\ op[r] = "remove"
           /\ \A c \in {q, r} : arg[c].group = g /\ arg[c].role = "Owner"]_vars

\* A user has no more requests than the limit, unless two of his own met; and none
\* for a project he is a member of, unless he asked for it and joined it at once, or
\* his own membership was hidden from him by his private profile.  What others do
\* at the same time is no excuse.
RequestsFit ==
  /\ \A u \in Users :
       \/ Cardinality({x \in requests : x.user = u}) <= MaxRequests
       \/ OwnOverlap(u, "ask", "ask", Projects)
  /\ \A x \in requests, y \in members :
       x.group = y.group /\ x.user = y.user =>
         \/ x.user \in private
         \/ \E r \in Calls : op[r] = "profile" /\ who[r] = x.user
         \/ OwnOverlap(x.user, "ask", "join", {x.group})

\* Who joins gets the role of his request, or ownership of a group without an
\* owner, also at the moment he gets it; unless the request was changed or taken
\* away, or the ownership claimed, while he joined.
JoinedAsAsked ==
  [][\A r \in Calls : op[r] = "join" /\ Ends(r) =>
       LET x == arg[r] IN
       \/ \E y \in requests : y.group = x.group /\ y.user = x.user /\ y.role = x.role
       \/ x.role = "Owner" /\ Owners(x.group) = {}
       \/ \E q \in peers[r] :
            /\ arg[q].group = x.group
            /\ \/ op[q] \in {"change", "withdraw", "reject", "join"} /\ arg[q].user = x.user
               \/ op[q] = "join" /\ arg[q].role = "Owner" /\ x.role = "Owner"]_vars

\* The roles that call r needs to do to others what it does.
Needs(r) ==
  CASE op[r] = "remove" -> Above(arg[r].role)
    [] op[r] = "change" -> {"Owner"}
    [] OTHER            -> {"Owner", "Admin"}

\* A member is removed by another, a request's role is set and a logo written
\* only by those whose role allows it then, unless they lost it while they were
\* at it, themselves or with the group: a URL, in particular, outlives the role it
\* was given for.  Deletions are not bound to a role at all, see MayDelete.
RoleWhenActing ==
  [][\A r \in Calls :
       /\ Ends(r)
       /\ \/ op[r] = "remove" /\ arg[r] \in members /\ who[r] # arg[r].user
          \/ op[r] = "change" /\ Met(r) # {}
          \/ op[r] = "logo"
       => \/ Has(who[r], arg[r].group, Needs(r))
          \/ \E q \in peers[r] :
               \/ op[q] = "remove" /\ arg[q].group = arg[r].group /\ arg[q].user = who[r]
               \/ op[q] = "delete" /\ arg[q].group \in {Organization, arg[r].group}]_vars
=================================================================================

--------------------------- MODULE MembershipsProofs ---------------------------
(***************************************************************************)
(* Proofs about Memberships, for any calls, users, projects and limit:     *)
(* type correctness, the last owner, the limits on requests, and that who  *)
(* joins or acts had the right to.                                         *)
(***************************************************************************)
EXTENDS Memberships, FiniteSetTheorems, TLAPS

\* A call that left a trace is under way or done; what it is about is known.
Staged ==
  \A r \in Calls :
    /\ pc[r] = "idle" => op[r] = "none"
    /\ pc[r] = "writing" => op[r] \notin {"none", "profile"}
    /\ op[r] # "none" => pc[r] \in {"writing", "done"} /\ who[r] \in Users
    /\ op[r] \notin {"none", "profile"} => arg[r] \in Rows
    /\ op[r] \in {"ask", "create", "join"} => arg[r].user = who[r]
    /\ op[r] = "ask" => arg[r].group \in Projects

\* Calls under way at the same time know of each other.
Meeting == \A q, r \in Calls :
  q # r /\ pc[q] = "writing" /\ pc[r] = "writing" => q \in peers[r]

\* One request for a user and a group, and no row of a group that is not there; but
\* for its creation, no call is about a group that has not been created.
Keyed ==
  /\ \A x, y \in requests : x.group = y.group /\ x.user = y.user => x = y
  /\ \A x \in requests \cup members : There(x.group)
  /\ \A r \in Calls : pc[r] = "writing" /\ op[r] # "create" => status[arg[r].group] # "new"

\* The calls that r met, and that are done.
Done(r) == {q \in peers[r] : pc[q] = "done"}

\* A call that is to be written was allowed, and still would be, but for what it met.
OwnerLeft ==
  \A r \in Calls : pc[r] = "writing" /\ op[r] = "remove" /\ arg[r].role = "Owner" =>
    LET g == arg[r].group IN
    \/ ~There(g)
    \/ \E y \in Owners(g) : y # arg[r]
    \/ \E q \in Done(r) : op[q] = "remove" /\ arg[q].group = g /\ arg[q].role = "Owner"

Asked ==
  \A r \in Calls : pc[r] = "writing" /\ op[r] = "join" =>
    LET x == arg[r] IN
    \/ ~There(x.group)
    \/ MayJoin(x)
    \/ \E q \in Done(r) :
         /\ arg[q].group = x.group
         /\ \/ op[q] \in {"change", "withdraw", "reject", "join"} /\ arg[q].user = x.user
            \/ op[q] = "join" /\ arg[q].role = "Owner" /\ x.role = "Owner"

Entitled ==
  \A r \in Calls :
    /\ pc[r] = "writing"
    /\ op[r] \in {"change", "logo"} \/ (op[r] = "remove" /\ who[r] # arg[r].user)
    => \/ Has(who[r], arg[r].group, Needs(r))
       \/ \E q \in Done(r) :
            \/ op[q] = "remove" /\ arg[q].group = arg[r].group /\ arg[q].user = who[r]
            \/ op[q] = "delete" /\ arg[q].group \in {Organization, arg[r].group}

OfUser(u) == {x \in requests : x.user = u}

\* Two calls of user u that met, and are done, stay on record.
DoneTogether(u, o1, o2, groups) ==
  \E q \in Own(u, o1, groups) : pc[q] = "done" /\ Done(q) \cap Own(u, o2, groups) # {}

WithinLimit ==
  /\ \A u \in Users : IsFiniteSet(OfUser(u))
  /\ \A u \in Users :
       \/ DoneTogether(u, "ask", "ask", Projects)
       \/ Cardinality(OfUser(u)) <= MaxRequests
  /\ \A r \in Calls : pc[r] = "writing" /\ op[r] = "ask" =>
       \/ DoneTogether(who[r], "ask", "ask", Projects)
       \/ Cardinality(OfUser(who[r])) < MaxRequests
       \/ Done(r) \cap Own(who[r], "ask", Projects) # {}

Hides(u) == u \in private \/ \E r \in Calls : op[r] = "profile" /\ who[r] = u

NotYetMember ==
  /\ \A x \in requests, y \in members : x.group = y.group /\ x.user = y.user =>
       Hides(x.user) \/ DoneTogether(x.user, "ask", "join", {x.group})
  /\ \A r \in Calls : pc[r] = "writing" /\ op[r] = "ask" =>
       \/ ~Has(who[r], arg[r].group, Roles)
       \/ Hides(who[r])
       \/ Done(r) \cap Own(who[r], "join", {arg[r].group}) # {}

IInv == /\ TypeOK /\ Staged /\ Meeting /\ Keyed
        /\ OwnerLeft /\ Asked /\ Entitled
        /\ WithinLimit /\ NotYetMember
----------------------------------------------------------------------------
(* The policy *)

LEMMA RefusedIInv ==
  ASSUME IInv, NEW r \in Calls, pc[r] = "idle", pc' = [pc EXCEPT ![r] = "refused"],
         UNCHANGED <<op, who, arg, peers, status, members, requests, private>>
  PROVE  IInv'
<1>1. /\ \A q \in Calls : pc'[q] \in {"idle", "writing", "done"} => pc'[q] = pc[q]
      /\ \A q \in Calls : pc[q] = "done" => pc'[q] = "done"
  BY DEF TypeOK
<1>2. TypeOK' /\ Staged' /\ Meeting' /\ Keyed'
  BY DEF IInv, TypeOK, Staged, Meeting, Keyed, There
<1>3. \A q \in Calls : Done(q)' = Done(q)
  BY DEF Done
<1>4. OwnerLeft' /\ Asked' /\ Entitled'
  BY <1>3 DEF IInv, OwnerLeft, Asked, Entitled, There, Owners, MayJoin, Has, Needs
<1>5. \A u, o1, o2, S : DoneTogether(u, o1, o2, S)' = DoneTogether(u, o1, o2, S)
  BY <1>1, <1>3 DEF IInv, Staged, DoneTogether, Own
<1>6. WithinLimit' /\ NotYetMember'
  BY <1>3, <1>5 DEF IInv, WithinLimit, OfUser, NotYetMember, Hides, Has, Own
<1> QED
  BY <1>2, <1>4, <1>6 DEF IInv

\* A call is allowed, for what its policy has read.
LEMMA AllowedIInv ==
  ASSUME IInv, NEW r \in Calls, NEW o \in Ops \ {"none", "profile"}, NEW u \in Users,
         NEW x \in Rows, Call(r, o, u, x, TRUE),
         o \in {"ask", "create", "join"} => x.user = u,
         o = "ask" => x.group \in Projects,
         o # "create" => status[x.group] # "new",
         o = "remove" /\ x.role = "Owner" => \E y \in Owners(x.group) : y # x,
         o = "join" => MayJoin(x),
         o = "remove" /\ u # x.user => Has(u, x.group, Above(x.role)),
         o = "change" => Has(u, x.group, {"Owner"}),
         o = "logo" => Has(u, x.group, {"Owner", "Admin"}),
         o = "ask" => /\ Cardinality(OfUser(u)) # MaxRequests
                      /\ ~Has(u, x.group, Roles) \/ u \in private
  PROVE  IInv'
<1>1. /\ pc[r] = "idle" /\ op[r] = "none"
      /\ pc' = [pc EXCEPT ![r] = "writing"] /\ op' = [op EXCEPT ![r] = o]
      /\ who' = [who EXCEPT ![r] = u] /\ arg' = [arg EXCEPT ![r] = x]
      /\ UNCHANGED <<status, members, requests, private>>
      /\ \A q \in Calls : peers'[q] =
           IF q = r THEN {p \in Calls : pc[p] = "writing"}
           ELSE IF pc[q] = "writing" THEN peers[q] \cup {r} ELSE peers[q]
      /\ peers' \in [Calls -> SUBSET Calls]
  <2>1. peers' = [q \in Calls |-> IF q = r THEN {p \in Calls : pc[p] = "writing"}
                                  ELSE IF q \in {p \in Calls : pc[p] = "writing"}
                                       THEN peers[q] \cup {r} ELSE peers[q]]
    BY DEF Call
  <2>2. peers \in [Calls -> SUBSET Calls]
    BY DEF IInv, TypeOK
  <2>3. peers' \in [Calls -> SUBSET Calls]
    BY <2>1, <2>2
  <2> QED
    BY <2>3 DEF IInv, Staged, Call
<1>2. TypeOK'
  BY <1>1 DEF IInv, TypeOK
<1>3. Staged' /\ Meeting'
  BY <1>1 DEF IInv, TypeOK, Staged, Meeting
<1>4. \A q \in Calls \ {r} :
        /\ pc'[q] = pc[q] /\ op'[q] = op[q] /\ who'[q] = who[q] /\ arg'[q] = arg[q]
        /\ Done(q)' = Done(q) /\ r \notin Done(q)
  BY <1>1 DEF Done
<1>5. /\ pc'[r] = "writing" /\ op'[r] = o /\ who'[r] = u /\ arg'[r] = x
      /\ \A q \in Calls : Done(q) \subseteq Calls
  BY <1>1 DEF IInv, TypeOK, Done
<1>6. Keyed'
  BY <1>1 DEF IInv, TypeOK, Keyed, There
<1>7. OwnerLeft'
  BY <1>1, <1>4, <1>5 DEF IInv, OwnerLeft, There, Owners
<1>8. Asked'
  BY <1>1, <1>4, <1>5 DEF IInv, Asked, MayJoin, There, Owners
<1>9. Entitled'
  BY <1>1, <1>4, <1>5 DEF IInv, Entitled, Has, Needs
<1>10. ASSUME NEW v, NEW o1, NEW o2, NEW S, DoneTogether(v, o1, o2, S)
       PROVE  DoneTogether(v, o1, o2, S)'
  BY <1>1, <1>4, <1>5, <1>10 DEF DoneTogether, Own
<1>11. WithinLimit'
  <2>1. \A v \in Users : OfUser(v)' = OfUser(v)
    BY <1>1 DEF OfUser
  <2>2. \A q \in Calls : op[q] # "none" => who[q] \in Users
    BY DEF IInv, Staged
  <2>3. o = "ask" =>
          \/ DoneTogether(u, "ask", "ask", Projects)
          \/ Cardinality(OfUser(u)) < MaxRequests
    <3>1. Cardinality(OfUser(u)) \in Nat
      BY FS_CardinalityType DEF IInv, WithinLimit
    <3> QED
      BY <3>1, MembershipsAssumption DEF IInv, WithinLimit
  <2> QED
    BY <1>4, <1>5, <1>10, <2>1, <2>2, <2>3 DEF IInv, WithinLimit, Own
<1>12. NotYetMember'
  <2>1. \A v \in Users : Hides(v) => Hides(v)'
    BY <1>1 DEF Hides
  <2>2. \A q \in Calls : op[q] # "none" => who[q] \in Users
    BY DEF IInv, Staged
  <2>3. ASSUME NEW y \in requests, NEW z \in members, y.group = z.group, y.user = z.user
        PROVE  Hides(y.user)' \/ DoneTogether(y.user, "ask", "join", {y.group})'
    BY <1>10, <2>1, <2>3 DEF IInv, TypeOK, Rows, NotYetMember
  <2>4. ASSUME NEW q \in Calls, pc'[q] = "writing", op'[q] = "ask"
        PROVE  \/ ~Has(who[q], arg[q].group, Roles)'
               \/ Hides(who[q])'
               \/ (Done(q) \cap Own(who[q], "join", {arg[q].group}))' # {}
    <3>1. CASE q = r
      BY <1>1, <1>5, <2>4, <3>1 DEF Has, Hides
    <3>2. CASE q # r
      BY <1>1, <1>4, <1>5, <2>1, <2>2, <2>4, <3>2 DEF IInv, NotYetMember, Hides, Has, Own
    <3> QED BY <3>1, <3>2
  <2> QED
    BY <1>1, <2>3, <2>4 DEF NotYetMember
<1> QED
  BY <1>2, <1>3, <1>6, <1>7, <1>8, <1>9, <1>11, <1>12 DEF IInv

\* A call fails.
LEMMA UndoIInv ==
  ASSUME IInv, NEW r \in Calls, NEW outcome \in {"409", "error"}, pc[r] = "writing",
         Undo(r, outcome)
  PROVE  IInv'
<1>1. /\ pc' = [pc EXCEPT ![r] = outcome] /\ op' = [op EXCEPT ![r] = "none"]
      /\ who' = [who EXCEPT ![r] = None] /\ arg' = [arg EXCEPT ![r] = None]
      /\ UNCHANGED <<status, members, requests, private>>
      /\ \A q \in Calls \ {r} : peers'[q] = peers[q] \ {r}
      /\ peers' \in [Calls -> SUBSET Calls]
  BY DEF IInv, TypeOK, Undo
<1>2. TypeOK'
  BY <1>1 DEF IInv, TypeOK, Ops
<1>3. Staged' /\ Meeting'
  BY <1>1 DEF IInv, TypeOK, Staged, Meeting
<1>4. \A q \in Calls \ {r} :
        /\ pc'[q] = pc[q] /\ op'[q] = op[q] /\ who'[q] = who[q] /\ arg'[q] = arg[q]
        /\ Done(q)' = Done(q) /\ r \notin Done(q)
  BY <1>1 DEF Done
<1>5. pc'[r] = outcome /\ op'[r] = "none" /\ \A q \in Calls : Done(q) \subseteq Calls
  BY <1>1 DEF IInv, TypeOK, Done
<1>6. Keyed'
  BY <1>1 DEF IInv, TypeOK, Keyed, There
<1>7. OwnerLeft'
  BY <1>1, <1>4, <1>5 DEF IInv, OwnerLeft, There, Owners
<1>8. Asked'
  BY <1>1, <1>4, <1>5 DEF IInv, Asked, MayJoin, There, Owners
<1>9. Entitled'
  BY <1>1, <1>4, <1>5 DEF IInv, Entitled, Has, Needs
<1>10. ASSUME NEW v, NEW o1, NEW o2, NEW S, DoneTogether(v, o1, o2, S)
       PROVE  DoneTogether(v, o1, o2, S)'
  BY <1>1, <1>4, <1>5, <1>10 DEF DoneTogether, Own
<1>11. WithinLimit'
  <2>1. \A v \in Users : OfUser(v)' = OfUser(v)
    BY <1>1 DEF OfUser
  <2>2. \A q \in Calls : op[q] # "none" => who[q] \in Users
    BY DEF IInv, Staged
  <2> QED
    BY <1>4, <1>5, <1>10, <2>1, <2>2 DEF IInv, WithinLimit, Own
<1>12. NotYetMember'
  <2>1. \A v \in Users : Hides(v) => Hides(v)'
    BY <1>1 DEF IInv, Staged, Hides
  <2>2. \A q \in Calls : op[q] # "none" => who[q] \in Users
    BY DEF IInv, Staged
  <2>3. ASSUME NEW y \in requests, NEW z \in members, y.group = z.group, y.user = z.user
        PROVE  Hides(y.user)' \/ DoneTogether(y.user, "ask", "join", {y.group})'
    BY <1>10, <2>1, <2>3 DEF IInv, TypeOK, Rows, NotYetMember
  <2>4. ASSUME NEW q \in Calls \ {r}, pc[q] = "writing", op[q] = "ask"
        PROVE  \/ ~Has(who[q], arg[q].group, Roles)'
               \/ Hides(who[q])'
               \/ (Done(q) \cap Own(who[q], "join", {arg[q].group}))' # {}
    BY <1>1, <1>4, <1>5, <2>1, <2>2, <2>4 DEF IInv, NotYetMember, Hides, Has, Own
  <2> QED
    BY <1>1, <1>4, <1>5, <2>3, <2>4 DEF NotYetMember
<1> QED
  BY <1>2, <1>3, <1>6, <1>7, <1>8, <1>9, <1>11, <1>12 DEF IInv

LEMMA CreateIInv ==
  ASSUME IInv, NEW r \in Calls, NEW u \in Users, NEW g \in Groups, Create(r, u, g)
  PROVE  IInv'
<1> DEFINE row == Row(g, u, "Owner", r)
           allowed == status[g] = "new" /\ MayCreate(u, g)
<1>0. row \in Rows /\ row.user = u
  BY DEF Rows, Row, Roles
<1>1. ASSUME allowed PROVE IInv'
  <2>1. Call(r, "create", u, row, TRUE)
    BY <1>1 DEF Create
  <2> HIDE DEF row, allowed
  <2> QED
    BY <1>0, <2>1, AllowedIInv DEF Ops
<1>2. ASSUME ~allowed PROVE IInv'
  BY <1>2, RefusedIInv DEF Create, Call
<1> QED BY <1>1, <1>2

LEMMA DeleteIInv ==
  ASSUME IInv, NEW r \in Calls, NEW u \in Users, NEW g \in Groups, Delete(r, u, g)
  PROVE  IInv'
<1> DEFINE row == Row(g, u, "Owner", r)
           allowed == There(g) /\ MayDelete(u, g)
<1>0. row \in Rows
  BY DEF Rows, Row, Roles
<1>1. ASSUME allowed PROVE IInv'
  <2>1. Call(r, "delete", u, row, TRUE)
    BY <1>1 DEF Delete
  <2>2. status[row.group] # "new"
    BY <1>1 DEF There, Row
  <2> HIDE DEF row, allowed
  <2> QED
    BY <1>0, <2>1, <2>2, AllowedIInv DEF Ops
<1>2. ASSUME ~allowed PROVE IInv'
  BY <1>2, RefusedIInv DEF Delete, Call
<1> QED BY <1>1, <1>2

LEMMA LogoIInv ==
  ASSUME IInv, NEW r \in Calls, NEW u \in Users, NEW g \in Groups, Logo(r, u, g)
  PROVE  IInv'
<1> DEFINE row == Row(g, u, "Owner", r)
           allowed == There(g) /\ MayChangeLogo(u, g)
<1>0. row \in Rows
  BY DEF Rows, Row, Roles
<1>1. ASSUME allowed PROVE IInv'
  <2>1. Call(r, "logo", u, row, TRUE)
    BY <1>1 DEF Logo
  <2>2. Has(u, row.group, {"Owner", "Admin"})
    BY <1>1 DEF MayChangeLogo, Row
  <2>3. status[row.group] # "new"
    BY <1>1 DEF There, Row
  <2> HIDE DEF row, allowed
  <2> QED
    BY <1>0, <2>1, <2>2, <2>3, AllowedIInv DEF Ops
<1>2. ASSUME ~allowed PROVE IInv'
  BY <1>2, RefusedIInv DEF Logo, Call
<1> QED BY <1>1, <1>2

LEMMA AskIInv ==
  ASSUME IInv, NEW r \in Calls, NEW u \in Users, NEW p \in Projects, NEW role \in Roles,
         Ask(r, u, p, role)
  PROVE  IInv'
<1> DEFINE row == Row(p, u, role, r)
           allowed == There(p) /\ MayAsk(u, p)
<1>0. row \in Rows /\ row.user = u /\ row.group \in Projects
  BY DEF Rows, Row, Groups
<1>1. ASSUME allowed PROVE IInv'
  <2>1. Call(r, "ask", u, row, TRUE)
    BY <1>1 DEF Ask
  <2>2. Cardinality(OfUser(u)) # MaxRequests
    BY <1>1 DEF MayAsk, OfUser
  <2>3. ~Has(u, row.group, Roles) \/ u \in private
    BY <1>1 DEF MayAsk, Shows, Row
  <2>4. status[row.group] # "new"
    BY <1>1 DEF There, Row
  <2> HIDE DEF row, allowed
  <2> QED
    BY <1>0, <2>1, <2>2, <2>3, <2>4, AllowedIInv DEF Ops
<1>2. ASSUME ~allowed PROVE IInv'
  BY <1>2, RefusedIInv DEF Ask, Call
<1> QED BY <1>1, <1>2

LEMMA JoinIInv ==
  ASSUME IInv, NEW r \in Calls, NEW u \in Users, NEW g \in Groups, NEW role \in Roles,
         Join(r, u, g, role)
  PROVE  IInv'
<1> DEFINE row == Row(g, u, role, r)
           allowed == There(g) /\ MayJoin(Row(g, u, role, r))
<1>0. row \in Rows /\ row.user = u
  BY DEF Rows, Row
<1>1. ASSUME allowed PROVE IInv'
  <2>1. Call(r, "join", u, row, TRUE)
    BY <1>1 DEF Join
  <2>2. MayJoin(row)
    BY <1>1
  <2>3. status[row.group] # "new"
    BY <1>1 DEF There, Row
  <2> HIDE DEF row, allowed
  <2> QED
    BY <1>0, <2>1, <2>2, <2>3, AllowedIInv DEF Ops
<1>2. ASSUME ~allowed PROVE IInv'
  BY <1>2, RefusedIInv DEF Join, Call
<1> QED BY <1>1, <1>2

LEMMA ChangeIInv ==
  ASSUME IInv, NEW r \in Calls, NEW u \in Users, NEW x \in requests, NEW role \in Roles,
         Change(r, u, x, role)
  PROVE  IInv'
<1> DEFINE row == [x EXCEPT !.role = role]
           allowed == role # x.role /\ MayChange(u, x)
<1>0. row \in Rows
  BY DEF IInv, TypeOK, Rows
<1>1. ASSUME allowed PROVE IInv'
  <2>1. Call(r, "change", u, row, TRUE)
    BY <1>1 DEF Change
  <2>2. Has(u, row.group, {"Owner"})
    BY <1>1 DEF MayChange, Shows
  <2>3. status[row.group] # "new"
    BY DEF IInv, Keyed, There
  <2> HIDE DEF row, allowed
  <2> QED
    BY <1>0, <2>1, <2>2, <2>3, AllowedIInv DEF Ops
<1>2. ASSUME ~allowed PROVE IInv'
  BY <1>2, RefusedIInv DEF Change, Call
<1> QED BY <1>1, <1>2

LEMMA WithdrawIInv ==
  ASSUME IInv, NEW r \in Calls, NEW u \in Users, NEW x \in requests, Withdraw(r, u, x)
  PROVE  IInv'
<1> DEFINE row == x
           allowed == MayWithdraw(u, x)
<1>0. row \in Rows
  BY DEF IInv, TypeOK
<1>1. ASSUME allowed PROVE IInv'
  <2>1. Call(r, "withdraw", u, row, TRUE)
    BY <1>1 DEF Withdraw
  <2>2. status[row.group] # "new"
    BY DEF IInv, Keyed, There
  <2> HIDE DEF row, allowed
  <2> QED
    BY <1>0, <2>1, <2>2, AllowedIInv DEF Ops
<1>2. ASSUME ~allowed PROVE IInv'
  BY <1>2, RefusedIInv DEF Withdraw, Call
<1> QED BY <1>1, <1>2

LEMMA RejectIInv ==
  ASSUME IInv, NEW r \in Calls, NEW u \in Users, NEW x \in requests, Reject(r, u, x)
  PROVE  IInv'
<1> DEFINE row == x
           allowed == MayReject(u, x)
<1>0. row \in Rows
  BY DEF IInv, TypeOK
<1>1. ASSUME allowed PROVE IInv'
  <2>1. Call(r, "reject", u, row, TRUE)
    BY <1>1 DEF Reject
  <2>2. status[row.group] # "new"
    BY DEF IInv, Keyed, There
  <2> HIDE DEF row, allowed
  <2> QED
    BY <1>0, <2>1, <2>2, AllowedIInv DEF Ops
<1>2. ASSUME ~allowed PROVE IInv'
  BY <1>2, RefusedIInv DEF Reject, Call
<1> QED BY <1>1, <1>2

LEMMA RemoveIInv ==
  ASSUME IInv, NEW r \in Calls, NEW u \in Users, NEW x \in members, Remove(r, u, x)
  PROVE  IInv'
<1> DEFINE row == x
           allowed == MayRemove(u, x) /\ (x.group \in Projects => x.user \notin private)
<1>0. row \in Rows
  BY DEF IInv, TypeOK
<1>1. ASSUME allowed PROVE IInv'
  <2>1. Call(r, "remove", u, row, TRUE)
    BY <1>1 DEF Remove
  <2>2. u # row.user => Has(u, row.group, Above(row.role))
    BY <1>1 DEF MayRemove
  <2>3. ASSUME row.role = "Owner" PROVE \E y \in Owners(row.group) : y # row
    <3>1. Above(row.role) = {}
      BY <2>3 DEF Above, Rank
    <3>2. Cardinality(Owners(row.group)) > 1
      BY <1>1, <2>3, <3>1 DEF MayRemove, Has
    <3>3. row \in Owners(row.group)
      BY <2>3 DEF Owners, Of
    <3>4. Owners(row.group) # {row}
      BY <3>2, FS_Singleton
    <3> QED
      BY <3>3, <3>4
  <2>4. status[row.group] # "new"
    BY DEF IInv, Keyed, There
  <2> HIDE DEF row, allowed
  <2> QED
    BY <1>0, <2>1, <2>2, <2>3, <2>4, AllowedIInv DEF Ops
<1>2. ASSUME ~allowed PROVE IInv'
  BY <1>2, RefusedIInv DEF Remove, Call
<1> QED BY <1>1, <1>2

----------------------------------------------------------------------------
(* The write *)

LEMMA EndFacts ==
  ASSUME IInv, NEW r \in Calls, pc[r] = "writing", End(r)
  PROVE  /\ pc'[r] = "done" /\ \A q \in Calls \ {r} : pc'[q] = pc[q]
         /\ UNCHANGED <<private, op, who, arg, peers>>
         /\ \A q \in Calls : Done(q) \subseteq Done(q)' /\ Done(q)' \subseteq Calls
         /\ \A q \in Calls \ {r} : pc[q] = "writing" => r \in Done(q)' /\ q \in peers[r]
         /\ \A u, o, groups : Own(u, o, groups)' = Own(u, o, groups)
         /\ \A u, o1, o2, groups :
              DoneTogether(u, o1, o2, groups) => DoneTogether(u, o1, o2, groups)'
         /\ \A q \in Calls : op[q] # "none" => who[q] \in Users
<1>1. /\ pc'[r] = "done" /\ \A q \in Calls \ {r} : pc'[q] = pc[q]
      /\ UNCHANGED <<private, op, who, arg, peers>>
  BY DEF IInv, TypeOK, End
<1>2. \A q \in Calls : Done(q) \subseteq Done(q)' /\ Done(q)' \subseteq Calls
  BY <1>1 DEF IInv, TypeOK, Done
<1>3. \A q \in Calls \ {r} : pc[q] = "writing" => r \in Done(q)' /\ q \in peers[r]
  BY <1>1 DEF IInv, Meeting, Done
<1>4. \A u, o, groups : Own(u, o, groups)' = Own(u, o, groups)
  BY <1>1 DEF Own
<1>5. ASSUME NEW u, NEW o1, NEW o2, NEW groups, DoneTogether(u, o1, o2, groups)
      PROVE  DoneTogether(u, o1, o2, groups)'
  BY <1>1, <1>2, <1>4, <1>5 DEF DoneTogether, Own
<1> QED
  BY <1>1, <1>2, <1>3, <1>4, <1>5 DEF IInv, Staged

\* No user has more requests than before.
LEMMA LimitKeeps ==
  ASSUME IInv, NEW r \in Calls, pc[r] = "writing", End(r),
         \A u \in Users : /\ IsFiniteSet(OfUser(u)')
                          /\ Cardinality(OfUser(u)') <= Cardinality(OfUser(u))
  PROVE  WithinLimit'
<1>1. \A u \in Users : Cardinality(OfUser(u)) \in Nat /\ Cardinality(OfUser(u)') \in Nat
  BY FS_CardinalityType DEF IInv, WithinLimit
<1>2. ASSUME NEW u \in Users
      PROVE  /\ Cardinality(OfUser(u)) <= MaxRequests => Cardinality(OfUser(u)') <= MaxRequests
             /\ Cardinality(OfUser(u)) < MaxRequests => Cardinality(OfUser(u)') < MaxRequests
  BY <1>1, MembershipsAssumption
<1>3. \A u \in Users : Cardinality(OfUser(u)') = Cardinality(OfUser(u))'
  OBVIOUS
<1> QED
  BY <1>2, EndFacts DEF IInv, WithinLimit

LEMMA FewerRequests ==
  ASSUME IInv, NEW r \in Calls, pc[r] = "writing", End(r), requests' \subseteq requests
  PROVE  WithinLimit'
<1>1. ASSUME NEW u \in Users
      PROVE  /\ IsFiniteSet(OfUser(u)')
             /\ Cardinality(OfUser(u)') <= Cardinality(OfUser(u))
  <2>1. OfUser(u)' \in SUBSET OfUser(u) /\ IsFiniteSet(OfUser(u))
    BY DEF IInv, WithinLimit, OfUser
  <2> QED
    BY <2>1, FS_Subset
<1> QED
  BY <1>1, LimitKeeps

LEMMA SetPrivateIInv ==
  ASSUME IInv, NEW r \in Calls, NEW u \in Users, SetPrivate(r, u) PROVE IInv'
<1>1. TypeOK'
  BY DEF IInv, TypeOK, Ops, SetPrivate
<1>2. Staged'
  BY DEF IInv, TypeOK, Staged, SetPrivate
<1>3. Meeting'
  BY DEF IInv, Meeting, SetPrivate
<1>4. Keyed'
  BY DEF IInv, Keyed, There, SetPrivate
<1>5. OwnerLeft'
  BY DEF IInv, OwnerLeft, There, Owners, Done, SetPrivate
<1>6. Asked'
  BY DEF IInv, Asked, MayJoin, There, Owners, Done, SetPrivate
<1>7. Entitled'
  BY DEF IInv, Entitled, Has, Needs, Done, SetPrivate
<1>8. NotYetMember'
  BY DEF IInv, TypeOK, Staged, NotYetMember, Hides, Done, DoneTogether, Own, Has, SetPrivate
<1>9. WithinLimit'
  BY DEF IInv, TypeOK, WithinLimit, OfUser, Done, DoneTogether, Own, SetPrivate
<1> QED BY <1>1, <1>2, <1>3, <1>4, <1>5, <1>6, <1>7, <1>8, <1>9 DEF IInv

LEMMA WriteGroupIInv ==
  ASSUME IInv, NEW r \in Calls, WriteGroup(r) PROVE IInv'
<1>1. TypeOK'
  BY DEF IInv, TypeOK, Staged, Meeting, WriteGroup, Writes, End
<1>2. Staged'
  BY DEF IInv, Staged, WriteGroup, End
<1>3. Meeting'
  BY DEF IInv, Meeting, WriteGroup, End
<1>4. Keyed'
  BY DEF IInv, TypeOK, Rows, Staged, Keyed, There, WriteGroup, Writes, End
<1>0. /\ pc[r] = "writing" /\ op[r] = "create" /\ End(r) /\ arg[r] \in Rows
      /\ status[arg[r].group] = "new" /\ \A g \in Groups : There(g) => There(g)'
      /\ \A g \in Groups \ {arg[r].group} : There(g)' = There(g)
      /\ members' = members \cup {arg[r]} /\ requests' = requests
      /\ arg[r].group \in Groups
  BY DEF IInv, Staged, WriteGroup, Writes, There, Rows
<1>5. OwnerLeft'
  BY <1>0, EndFacts DEF IInv, OwnerLeft, Owners, Of, Staged, Rows, Keyed
<1>6. Asked'
  BY <1>0, EndFacts DEF IInv, Asked, MayJoin, Owners, Of, Staged, Rows, Keyed
<1>7. Entitled'
  BY DEF IInv, Entitled, Has, Of, Needs, Done, WriteGroup, End
<1>8. NotYetMember'
  <2>1. ASSUME NEW x \in requests, NEW y \in members', x.group = y.group, x.user = y.user
        PROVE  Hides(x.user)' \/ DoneTogether(x.user, "ask", "join", {x.group})'
    <3>1. y \in members
      BY <1>0, <2>1 DEF IInv, Keyed, There
    <3> QED
      BY <1>0, <2>1, <3>1, EndFacts DEF IInv, NotYetMember, Hides
  <2>2. ASSUME NEW q \in Calls, pc'[q] = "writing", op'[q] = "ask"
        PROVE  \/ ~Has(who[q], arg[q].group, Roles)'
               \/ Hides(who[q])'
               \/ (Done(q) \cap Own(who[q], "join", {arg[q].group}))' # {}
    <3>1. pc[q] = "writing" /\ op[q] = "ask" /\ arg[q].group # arg[r].group
      BY <1>0, <2>2, EndFacts DEF IInv, Keyed
    <3>2. Has(who[q], arg[q].group, Roles)' => Has(who[q], arg[q].group, Roles)
      BY <1>0, <3>1, EndFacts DEF Has, Of
    <3> QED
      BY <1>0, <3>1, <3>2, EndFacts DEF IInv, NotYetMember, Hides
  <2> QED
    BY <1>0, <2>1, <2>2 DEF NotYetMember
<1>9. WithinLimit'
  BY FewerRequests DEF WriteGroup, Writes
<1> QED BY <1>1, <1>2, <1>3, <1>4, <1>5, <1>6, <1>7, <1>8, <1>9 DEF IInv

LEMMA DeleteGroupIInv ==
  ASSUME IInv, NEW r \in Calls, DeleteGroup(r) PROVE IInv'
<1>1. TypeOK'
  BY DEF IInv, TypeOK, DeleteGroup, End
<1>2. Staged'
  BY DEF IInv, Staged, DeleteGroup, End
<1>3. Meeting'
  BY DEF IInv, Meeting, DeleteGroup, End
<1>4. Keyed'
  BY DEF IInv, TypeOK, Rows, Staged, Keyed, There, DeleteGroup, End
<1>5. OwnerLeft'
  BY DEF IInv, Rows, Staged, OwnerLeft, There, Owners, Of, Done, DeleteGroup, End
<1>6. Asked'
  BY MembershipsAssumption
  DEF IInv, Rows, Staged, Asked, MayJoin, There, Owners, Of, Done, DeleteGroup, End
<1>7. Entitled'
  <2>0. /\ pc[r] = "writing" /\ op[r] = "delete" /\ End(r)
        /\ members' = {x \in members : x.group \notin
                         (IF arg[r].group = Organization THEN Groups ELSE {arg[r].group})}
    BY DEF DeleteGroup, Writes
  <2> SUFFICES ASSUME NEW q \in Calls, pc'[q] = "writing",
                      \/ op[q] \in {"change", "logo"}
                      \/ op[q] = "remove" /\ who[q] # arg[q].user
               PROVE  \/ Has(who[q], arg[q].group, Needs(q))'
                      \/ \E p \in Done(q)' :
                           \/ /\ op[p] = "remove" /\ arg[p].group = arg[q].group
                              /\ arg[p].user = who[q]
                           \/ op[p] = "delete" /\ arg[p].group \in {Organization, arg[q].group}
    BY <2>0, EndFacts DEF Entitled
  <2>1. q # r /\ pc[q] = "writing" /\ r \in Done(q)' /\ Done(q) \subseteq Done(q)'
    BY <2>0, EndFacts
  <2>2. CASE arg[r].group \in {Organization, arg[q].group}
    BY <2>0, <2>1, <2>2
  <2>3. CASE arg[r].group \notin {Organization, arg[q].group}
    <3>1. Of(members, arg[q].group)' = Of(members, arg[q].group) /\ Needs(q)' = Needs(q)
      BY <2>0, <2>3, EndFacts DEF Of, Needs
    <3>2. Has(who[q], arg[q].group, Needs(q))' = Has(who[q], arg[q].group, Needs(q))
      BY <2>0, <3>1, EndFacts DEF Has
    <3> QED
      BY <2>1, <3>2 DEF IInv, Entitled
  <2> QED BY <2>2, <2>3
<1>8. NotYetMember'
  BY DEF IInv, NotYetMember, Hides, Done, DoneTogether, Own, Has, Of, DeleteGroup, End
<1>9. WithinLimit'
  BY FewerRequests DEF DeleteGroup, Writes
<1> QED BY <1>1, <1>2, <1>3, <1>4, <1>5, <1>6, <1>7, <1>8, <1>9 DEF IInv

LEMMA InsertRequestIInv ==
  ASSUME IInv, NEW r \in Calls, InsertRequest(r) PROVE IInv'
<1>1. TypeOK'
  BY DEF IInv, TypeOK, Staged, InsertRequest, Writes, End
<1>2. Staged'
  BY DEF IInv, Staged, InsertRequest, End
<1>3. Meeting'
  BY DEF IInv, Meeting, InsertRequest, End
<1>4. Keyed'
  BY DEF IInv, Keyed, There, Of, InsertRequest, End, Taken
<1>5. OwnerLeft'
  BY DEF IInv, OwnerLeft, There, Owners, Done, InsertRequest, End
<1>0. /\ pc[r] = "writing" /\ op[r] = "ask" /\ End(r)
      /\ UNCHANGED <<status, members>> /\ requests \subseteq requests'
  BY DEF InsertRequest, Writes
<1>6. Asked'
  BY <1>0, EndFacts DEF IInv, Asked, MayJoin, There, Owners, Of
<1>7. Entitled'
  BY DEF IInv, Entitled, Has, Needs, Done, InsertRequest, End
<1>8. NotYetMember'
  BY DEF IInv, TypeOK, Rows, Staged, NotYetMember, Hides, Done, DoneTogether, Own, Has, Of,
     Groups, InsertRequest, Writes, End
<1>9. WithinLimit'
  <2>1. PICK u \in Users :
          /\ pc[r] = "writing" /\ op[r] = "ask" /\ End(r)
          /\ u = who[r] /\ arg[r].user = u /\ requests' = requests \cup {arg[r]}
    BY DEF IInv, Staged, InsertRequest, Writes
  <2>2. OfUser(u)' = OfUser(u) \cup {arg[r]} /\ \A v \in Users \ {u} : OfUser(v)' = OfUser(v)
    BY <2>1 DEF OfUser
  <2>3. \A v \in Users : IsFiniteSet(OfUser(v)) /\ Cardinality(OfUser(v)) \in Nat
    BY FS_CardinalityType DEF IInv, WithinLimit
  <2>4. /\ IsFiniteSet(OfUser(u)') /\ Cardinality(OfUser(u)') \in Nat
        /\ Cardinality(OfUser(u)') <= Cardinality(OfUser(u)) + 1
    <3> DEFINE S == OfUser(u)
    <3>1. IsFiniteSet(S) /\ Cardinality(S) \in Nat
      BY <2>3
    <3> HIDE DEF S
    <3>2. /\ IsFiniteSet(S \cup {arg[r]}) /\ Cardinality(S \cup {arg[r]}) \in Nat
          /\ Cardinality(S \cup {arg[r]}) <= Cardinality(S) + 1
      <4>1. \/ Cardinality(S \cup {arg[r]}) = Cardinality(S)
            \/ Cardinality(S \cup {arg[r]}) = Cardinality(S) + 1
        BY <3>1, FS_AddElement
      <4>2. IsFiniteSet(S \cup {arg[r]})
        BY <3>1, FS_AddElement
      <4>3. Cardinality(S \cup {arg[r]}) \in Nat
        BY <4>2, FS_CardinalityType
      <4> DEFINE c == Cardinality(S)  d == Cardinality(S \cup {arg[r]})
      <4>4. c \in Nat /\ d \in Nat /\ (d = c \/ d = c + 1)
        BY <3>1, <4>1
      <4> HIDE DEF c, d
      <4>5. d <= c + 1
        BY <4>4
      <4> QED
        BY <4>2, <4>3, <4>5 DEF c, d
    <3> QED
      BY <2>2, <3>2 DEF S
  <2>5. /\ r \in Own(u, "ask", Projects)
        /\ Done(r) \cap Own(u, "ask", Projects) # {} =>
             DoneTogether(u, "ask", "ask", Projects)'
    BY <2>1, EndFacts DEF IInv, Staged, Own, DoneTogether
  <2>6. ASSUME NEW v \in Users PROVE IsFiniteSet(OfUser(v)')
    BY <2>2, <2>3, <2>4
  <2>7. ASSUME NEW v \in Users, ~DoneTogether(v, "ask", "ask", Projects)'
        PROVE  Cardinality(OfUser(v)') <= MaxRequests
    <3>1. CASE v = u
      <4>1. Cardinality(OfUser(u)) < MaxRequests
        BY <2>1, <2>5, <2>7, <3>1, EndFacts DEF IInv, WithinLimit
      <4> QED
        BY <2>3, <2>4, <3>1, <4>1, MembershipsAssumption
    <3>2. CASE v # u
      <4>1. Cardinality(OfUser(v)) <= MaxRequests
        BY <2>1, <2>7, EndFacts DEF IInv, WithinLimit
      <4> QED
        BY <2>2, <3>2, <4>1
    <3> QED
      BY <3>1, <3>2
  \* Of the other requests under way, those of the same user have met this one.
  <2>8. ASSUME NEW q \in Calls, pc'[q] = "writing", op'[q] = "ask"
        PROVE  \/ DoneTogether(who[q], "ask", "ask", Projects)'
               \/ Cardinality(OfUser(who[q])') < MaxRequests
               \/ Done(q)' \cap Own(who[q], "ask", Projects)' # {}
    <3>1. q # r /\ pc[q] = "writing" /\ op[q] = "ask" /\ who[q] \in Users
      BY <2>1, <2>8, EndFacts
    <3>2. CASE who[q] = u
      BY <2>1, <2>5, <3>1, <3>2, EndFacts
    <3>3. CASE who[q] # u
      <4>1. OfUser(who[q])' = OfUser(who[q])
        BY <2>1, <2>2, <3>1, <3>3, EndFacts DEF OfUser
      <4>2. \/ DoneTogether(who[q], "ask", "ask", Projects)
            \/ Cardinality(OfUser(who[q])) < MaxRequests
            \/ Done(q) \cap Own(who[q], "ask", Projects) # {}
        BY <3>1 DEF IInv, WithinLimit
      <4> QED
        BY <4>1, <4>2, EndFacts, <2>1
    <3> QED
      BY <3>2, <3>3
  <2>9. UNCHANGED who
    BY <2>1, EndFacts
  <2> QED
    BY <2>6, <2>7, <2>8, <2>9 DEF WithinLimit, OfUser
<1> QED BY <1>1, <1>2, <1>3, <1>4, <1>5, <1>6, <1>7, <1>8, <1>9 DEF IInv

LEMMA InsertMemberIInv ==
  ASSUME IInv, NEW r \in Calls, InsertMember(r) PROVE IInv'
<1>1. TypeOK'
  BY DEF IInv, TypeOK, Staged, InsertMember, Writes, End
<1>2. Staged'
  BY DEF IInv, Staged, InsertMember, End
<1>3. Meeting'
  BY DEF IInv, Meeting, InsertMember, End
<1>4. Keyed'
  BY DEF IInv, Keyed, There, InsertMember, End, Taken
<1>5. OwnerLeft'
  BY DEF IInv, OwnerLeft, There, Owners, Of, Done, InsertMember, End
<1>6. Asked'
  BY DEF IInv, TypeOK, Meeting, Asked, MayJoin, There, Owners, Of, Done, InsertMember,
     Writes, End
<1>7. Entitled'
  BY DEF IInv, Entitled, Has, Of, Needs, Done, InsertMember, End
<1>0. /\ pc[r] = "writing" /\ op[r] = "join" /\ End(r) /\ arg[r].user = who[r]
      /\ members' = members \cup {arg[r]}
      /\ requests' = {y \in requests : y.group # arg[r].group \/ y.user # arg[r].user}
  BY DEF IInv, Staged, InsertMember, Writes
<1>8. NotYetMember'
  <2>1. ASSUME NEW x \in requests', NEW y \in members', x.group = y.group, x.user = y.user
        PROVE  Hides(x.user)' \/ DoneTogether(x.user, "ask", "join", {x.group})'
    BY <1>0, <2>1, EndFacts DEF IInv, NotYetMember, Hides
  <2>2. ASSUME NEW q \in Calls, pc'[q] = "writing", op'[q] = "ask"
        PROVE  \/ ~Has(who[q], arg[q].group, Roles)'
               \/ Hides(who[q])'
               \/ (Done(q) \cap Own(who[q], "join", {arg[q].group}))' # {}
    <3>1. q # r /\ pc[q] = "writing" /\ op[q] = "ask" /\ r \in Done(q)'
      BY <1>0, <2>2, EndFacts
    <3>2. CASE arg[q].group = arg[r].group /\ who[q] = who[r]
      BY <1>0, <3>1, <3>2, EndFacts DEF Own
    <3>3. CASE ~(arg[q].group = arg[r].group /\ who[q] = who[r])
      <4>1. Has(who[q], arg[q].group, Roles)' => Has(who[q], arg[q].group, Roles)
        BY <1>0, <3>3, EndFacts DEF Has, Of
      <4>2. \/ ~Has(who[q], arg[q].group, Roles)
            \/ Hides(who[q])
            \/ Done(q) \cap Own(who[q], "join", {arg[q].group}) # {}
        BY <3>1 DEF IInv, NotYetMember
      <4> QED
        BY <1>0, <3>1, <4>1, <4>2, EndFacts DEF Hides, Own
    <3> QED BY <3>2, <3>3
  <2> QED
    BY <2>1, <2>2 DEF NotYetMember
<1>9. WithinLimit'
  BY FewerRequests DEF InsertMember, Writes
<1> QED BY <1>1, <1>2, <1>3, <1>4, <1>5, <1>6, <1>7, <1>8, <1>9 DEF IInv

LEMMA ChangeRequestIInv ==
  ASSUME IInv, NEW r \in Calls, ChangeRequest(r) PROVE IInv'
<1>1. TypeOK'
  BY DEF IInv, TypeOK, Staged, ChangeRequest, Writes, End
<1>2. Staged'
  BY DEF IInv, Staged, ChangeRequest, End
<1>3. Meeting'
  BY DEF IInv, Meeting, ChangeRequest, End
<1>4. Keyed'
  BY DEF IInv, Keyed, There, Of, ChangeRequest, End, Met
<1>5. OwnerLeft'
  BY DEF IInv, OwnerLeft, There, Owners, Done, ChangeRequest, End
<1>6. Asked'
  BY DEF IInv, TypeOK, Meeting, Asked, MayJoin, There, Owners, Of, Done, ChangeRequest,
     Writes, End, Met
<1>7. Entitled'
  BY DEF IInv, Entitled, Has, Needs, Done, ChangeRequest, End
<1>8. NotYetMember'
  BY DEF IInv, NotYetMember, Hides, Done, DoneTogether, Own, Has, Of, ChangeRequest, End, Met
<1>9. WithinLimit'
  <2>1. /\ pc[r] = "writing" /\ End(r) /\ arg[r] \in Rows
        /\ requests' = IF Met(r) = {} THEN requests ELSE (requests \ Met(r)) \cup {arg[r]}
    BY DEF IInv, Staged, ChangeRequest, Writes
  <2>2. CASE Met(r) = {}
    BY <2>1, <2>2, FewerRequests
  \* One request takes the place of another one.
  <2>3. ASSUME NEW m \in Met(r) PROVE WithinLimit'
    <3>1. /\ m \in requests /\ m.group = arg[r].group /\ m.user = arg[r].user
          /\ Met(r) = {m} /\ requests' = (requests \ {m}) \cup {arg[r]}
          /\ arg[r] \notin requests \ {m}
      BY <2>1 DEF IInv, Keyed, Met, Of
    <3>2. ASSUME NEW u \in Users
          PROVE  /\ IsFiniteSet(OfUser(u)')
                 /\ Cardinality(OfUser(u)') <= Cardinality(OfUser(u))
      <4>1. IsFiniteSet(OfUser(u)) /\ Cardinality(OfUser(u)) \in Nat
        BY FS_CardinalityType DEF IInv, WithinLimit
      <4>2. CASE u # m.user
        <5>1. OfUser(u)' = OfUser(u)
          BY <3>1, <4>2 DEF OfUser
        <5> QED
          BY <4>1, <5>1
      <4>3. CASE u = m.user
        <5> DEFINE S == OfUser(u) \ {m}
        <5>1. OfUser(u)' = S \cup {arg[r]} /\ m \in OfUser(u) /\ arg[r] \notin S
          BY <3>1, <4>3 DEF OfUser
        <5>2. IsFiniteSet(S) /\ Cardinality(S) = Cardinality(OfUser(u)) - 1
          BY <4>1, <5>1, FS_RemoveElement
        <5> HIDE DEF S
        <5>3. IsFiniteSet(S \cup {arg[r]}) /\ Cardinality(S \cup {arg[r]}) = Cardinality(S) + 1
          BY <5>1, <5>2, FS_AddElement
        <5> QED
          BY <4>1, <5>1, <5>2, <5>3
      <4> QED
        BY <4>2, <4>3
    <3> QED
      BY <2>1, <3>2, LimitKeeps
  <2> QED
    BY <2>2, <2>3
<1> QED BY <1>1, <1>2, <1>3, <1>4, <1>5, <1>6, <1>7, <1>8, <1>9 DEF IInv

LEMMA DeleteRequestIInv ==
  ASSUME IInv, NEW r \in Calls, DeleteRequest(r) PROVE IInv'
<1>1. TypeOK'
  BY DEF IInv, TypeOK, DeleteRequest, End
<1>2. Staged'
  BY DEF IInv, Staged, DeleteRequest, End
<1>3. Meeting'
  BY DEF IInv, Meeting, DeleteRequest, End
<1>4. Keyed'
  BY DEF IInv, Keyed, There, DeleteRequest, End
<1>5. OwnerLeft'
  BY DEF IInv, OwnerLeft, There, Owners, Done, DeleteRequest, End
<1>6. Asked'
  BY DEF IInv, TypeOK, Meeting, Asked, MayJoin, There, Owners, Of, Done, DeleteRequest,
     Writes, End, Met
<1>7. Entitled'
  BY DEF IInv, Entitled, Has, Needs, Done, DeleteRequest, End
<1>8. NotYetMember'
  BY DEF IInv, NotYetMember, Hides, Done, DoneTogether, Own, Has, DeleteRequest, End
<1>9. WithinLimit'
  BY FewerRequests DEF DeleteRequest, Writes
<1> QED BY <1>1, <1>2, <1>3, <1>4, <1>5, <1>6, <1>7, <1>8, <1>9 DEF IInv

LEMMA RemoveMemberIInv ==
  ASSUME IInv, NEW r \in Calls, RemoveMember(r) PROVE IInv'
<1>1. TypeOK'
  BY DEF IInv, TypeOK, RemoveMember, End
<1>2. Staged'
  BY DEF IInv, Staged, RemoveMember, End
<1>3. Meeting'
  BY DEF IInv, Meeting, RemoveMember, End
<1>4. Keyed'
  BY DEF IInv, Keyed, There, RemoveMember, End
<1>5. OwnerLeft'
  BY DEF IInv, TypeOK, Meeting, OwnerLeft, There, Owners, Of, Done, RemoveMember,
     Writes, End
<1>6. Asked'
  BY DEF IInv, Asked, MayJoin, There, Owners, Of, Done, RemoveMember, End
<1>7. Entitled'
  BY DEF IInv, TypeOK, Meeting, Entitled, Has, Of, Needs, Done, RemoveMember, Writes,
     End
<1>8. NotYetMember'
  BY DEF IInv, NotYetMember, Hides, Done, DoneTogether, Own, Has, Of, RemoveMember, End
<1>9. WithinLimit'
  BY FewerRequests DEF RemoveMember, Writes
<1> QED BY <1>1, <1>2, <1>3, <1>4, <1>5, <1>6, <1>7, <1>8, <1>9 DEF IInv

LEMMA WriteLogoIInv ==
  ASSUME IInv, NEW r \in Calls, WriteLogo(r) PROVE IInv'
<1>1. TypeOK'
  BY DEF IInv, TypeOK, WriteLogo, End
<1>2. Staged'
  BY DEF IInv, Staged, WriteLogo, End
<1>3. Meeting'
  BY DEF IInv, Meeting, WriteLogo, End
<1>4. Keyed'
  BY DEF IInv, Keyed, There, WriteLogo, End
<1>5. OwnerLeft'
  BY DEF IInv, OwnerLeft, There, Owners, Done, WriteLogo, End
<1>6. Asked'
  BY DEF IInv, Asked, MayJoin, There, Owners, Done, WriteLogo, End
<1>7. Entitled'
  BY DEF IInv, Entitled, Has, Needs, Done, WriteLogo, End
<1>8. NotYetMember'
  BY DEF IInv, NotYetMember, Hides, Done, DoneTogether, Own, Has, WriteLogo, End
<1>9. WithinLimit'
  BY FewerRequests DEF WriteLogo, Writes
<1> QED BY <1>1, <1>2, <1>3, <1>4, <1>5, <1>6, <1>7, <1>8, <1>9 DEF IInv

LEMMA ConflictIInv ==
  ASSUME IInv, NEW r \in Calls, Conflict(r) PROVE IInv'
BY UndoIInv DEF Conflict, Writes

LEMMA FailIInv ==
  ASSUME IInv, NEW r \in Calls, Fail(r) PROVE IInv'
BY UndoIInv DEF Fail

LEMMA UnchangedIInv == ASSUME IInv, UNCHANGED vars PROVE IInv'
BY DEF vars, IInv, TypeOK, Staged, Meeting, Keyed, OwnerLeft, Asked, Entitled,
   WithinLimit, NotYetMember, There, Owners, Has, Needs, MayJoin, Done, DoneTogether,
   Own, OfUser, Hides
----------------------------------------------------------------------------
(* The theorems *)

LEMMA InitIInv == Init => IInv
<1> SUFFICES ASSUME Init PROVE IInv
  OBVIOUS
<1>1. \A g \in Groups, f \in [Users -> Roles \cup {"none"}] :
        /\ RowsFor(g, f) \subseteq Rows
        /\ \A x \in RowsFor(g, f) : x.group = g /\ x.role = f[x.user] /\ x.role # "none"
        /\ \A x, y \in RowsFor(g, f) : x.user = y.user => x = y
  BY DEF RowsFor, Row, Rows
<1>2. \A g \in Groups, u \in Users : Row(g, u, "Owner", Before) \in Rows
  BY DEF Row, Rows, Roles
<1>3. PICK old \in {{}, {Organization}, Groups}, boss \in Users :
        /\ status = [g \in Groups |-> IF g \in old THEN "there" ELSE "new"]
        /\ \/ members = {} /\ requests = {}
           \/ /\ old = {Organization}
              /\ members = {Row(Organization, boss, "Owner", Before)} /\ requests = {}
           \/ \E past \in Projects, role, wish \in [Users -> Roles \cup {"none"}] :
                /\ old = Groups
                /\ role[boss] = "Owner"
                /\ \A u \in Users : "none" \in {role[u], wish[u]}
                /\ members = RowsFor(past, role) \cup
                     {Row(g, boss, "Owner", Before) : g \in Groups \ {past}}
                /\ requests = RowsFor(past, wish)
  BY DEF Init
<1> DEFINE Tables ==
      /\ members \subseteq Rows /\ requests \subseteq Rows
      /\ \A x, y \in requests : x.user = y.user => x = y
      /\ \A x \in requests \cup members : There(x.group)
      /\ \A x \in requests, y \in members : ~(x.group = y.group /\ x.user = y.user)
<1>4. Tables
  <2>1. CASE /\ requests = {}
             /\ \/ members = {}
                \/ old = {Organization} /\ members = {Row(Organization, boss, "Owner", Before)}
    BY <1>2, <1>3, <2>1 DEF There, Row, Groups
  <2>2. ASSUME old = Groups, NEW past \in Projects,
               NEW role \in [Users -> Roles \cup {"none"}],
               NEW wish \in [Users -> Roles \cup {"none"}],
               \A u \in Users : "none" \in {role[u], wish[u]},
               members = RowsFor(past, role) \cup
                 {Row(g, boss, "Owner", Before) : g \in Groups \ {past}},
               requests = RowsFor(past, wish)
        PROVE  Tables
    <3>1. past \in Groups
      BY DEF Groups
    <3> DEFINE others == {Row(g, boss, "Owner", Before) : g \in Groups \ {past}}
    <3>3. others \subseteq Rows /\ \A x \in others : x.group \in Groups \ {past}
      BY <1>2 DEF Row
    <3>4. members \subseteq Rows /\ requests \subseteq Rows
          /\ \A x, y \in requests : x.user = y.user => x = y
      BY <1>1, <2>2, <3>1, <3>3
    <3>5. \A x \in requests \cup members : There(x.group)
      BY <1>1, <1>3, <2>2, <3>1, <3>3 DEF There
    <3>6. ASSUME NEW x \in requests, NEW y \in members, x.group = y.group, x.user = y.user
          PROVE  FALSE
      <4>1. x.group = past /\ y \in RowsFor(past, role) /\ x.user \in Users
        BY <1>1, <2>2, <3>1, <3>3, <3>6 DEF Rows
      <4> QED
        BY <1>1, <2>2, <3>1, <3>6, <4>1
    <3> QED
      BY <3>4, <3>5, <3>6
  <2> QED
    BY <1>3, <2>1, <2>2
<1>5. TypeOK
  BY <1>4 DEF Init, TypeOK, Ops
<1>6. Staged /\ Meeting /\ Keyed /\ OwnerLeft /\ Asked /\ Entitled
  BY <1>4 DEF Init, Staged, Meeting, Keyed, OwnerLeft, Asked, Entitled
<1>7. ASSUME NEW u \in Users
      PROVE  IsFiniteSet(OfUser(u)) /\ Cardinality(OfUser(u)) <= MaxRequests
  <2>1. CASE OfUser(u) = {}
    BY <2>1, FS_EmptySet, MembershipsAssumption
  <2>2. ASSUME NEW x \in OfUser(u)
        PROVE  IsFiniteSet(OfUser(u)) /\ Cardinality(OfUser(u)) <= MaxRequests
    <3>1. OfUser(u) = {x}
      BY <1>4 DEF OfUser
    <3>2. IsFiniteSet(OfUser(u)) /\ Cardinality(OfUser(u)) = 1
      BY <3>1, FS_Singleton
    <3> QED
      BY <3>2, MembershipsAssumption
  <2> QED
    BY <2>1, <2>2
<1>8. WithinLimit /\ NotYetMember
  BY <1>4, <1>7 DEF Init, WithinLimit, NotYetMember
<1> QED
  BY <1>5, <1>6, <1>8 DEF IInv

LEMMA StepIInv == IInv /\ [Next]_vars => IInv'
<1> SUFFICES ASSUME IInv, [Next]_vars PROVE IInv'
  OBVIOUS
<1>1. ASSUME NEW r \in Calls, NEW u \in Users, SetPrivate(r, u) PROVE IInv'
  BY <1>1, SetPrivateIInv
<1>2. ASSUME NEW r \in Calls, NEW u \in Users, NEW g \in Groups,
             Create(r, u, g) \/ Delete(r, u, g) \/ Logo(r, u, g)
      PROVE  IInv'
  BY <1>2, CreateIInv, DeleteIInv, LogoIInv
<1>3. ASSUME NEW r \in Calls, NEW u \in Users, NEW role \in Roles,
             \/ \E p \in Projects : Ask(r, u, p, role)
             \/ \E g \in Groups : Join(r, u, g, role)
             \/ \E x \in requests : Change(r, u, x, role)
      PROVE  IInv'
  BY <1>3, AskIInv, JoinIInv, ChangeIInv
<1>4. ASSUME NEW r \in Calls, NEW u \in Users, NEW x \in requests,
             Withdraw(r, u, x) \/ Reject(r, u, x)
      PROVE  IInv'
  BY <1>4, WithdrawIInv, RejectIInv
<1>5. ASSUME NEW r \in Calls, NEW u \in Users, NEW x \in members, Remove(r, u, x)
      PROVE  IInv'
  BY <1>5, RemoveIInv
<1>6. ASSUME NEW r \in Calls,
             \/ WriteGroup(r) \/ DeleteGroup(r)
             \/ InsertRequest(r) \/ InsertMember(r) \/ Conflict(r)
             \/ ChangeRequest(r) \/ DeleteRequest(r) \/ RemoveMember(r)
             \/ WriteLogo(r) \/ Fail(r)
      PROVE  IInv'
  BY <1>6, WriteGroupIInv, DeleteGroupIInv, InsertRequestIInv, InsertMemberIInv,
     ConflictIInv, ChangeRequestIInv, DeleteRequestIInv, RemoveMemberIInv,
     WriteLogoIInv, FailIInv
<1>7. CASE UNCHANGED vars \/ Quiescent
  BY <1>7, UnchangedIInv DEF Quiescent
<1> QED
  BY <1>1, <1>2, <1>3, <1>4, <1>5, <1>6, <1>7 DEF Next

LEMMA Inductive == Spec => []IInv
BY InitIInv, StepIInv, PTL DEF Spec

\* The tables and the state of each call keep the types they are declared with.
THEOREM TypeCorrect == Spec => []TypeOK
<1>1. IInv => TypeOK
  BY DEF IInv
<1> QED
  BY <1>1, Inductive, PTL

\* A user keeps to the limit on requests, and has none for a project he is a member
\* of, unless two of his own calls met, or his profile hid his own membership from him.
THEOREM RequestsKeepToTheirLimits == Spec => []RequestsFit
<1>1. ASSUME IInv PROVE RequestsFit
  <2>1. \A u, o1, o2, groups :
          DoneTogether(u, o1, o2, groups) => OwnOverlap(u, o1, o2, groups)
    BY DEF DoneTogether, OwnOverlap, Done
  <2> QED
    BY <1>1, <2>1 DEF IInv, WithinLimit, NotYetMember, OfUser, Hides, RequestsFit
<1> QED
  BY <1>1, Inductive, PTL

\* Whoever reads the number of owners before he leaves a group sees another owner,
\* and only another owner who leaves at the same time can take that one away.
THEOREM GroupsKeepAnOwner == Spec => LastOwnerStays
<1> DEFINE
      P == \A g \in Groups :
             Owners(g) # {} /\ Owners(g)' = {} /\ status'[g] = "there" =>
               \E q, r \in Calls :
                 /\ q \in peers[r] /\ op[q] = "remove" /\ op[r] = "remove"
                 /\ \A c \in {q, r} : arg[c].group = g /\ arg[c].role = "Owner"
<1>1. ASSUME IInv, [Next]_vars PROVE P
  <2> SUFFICES ASSUME NEW g \in Groups, NEW y \in Owners(g), Owners(g)' = {}, status'[g] = "there"
               PROVE  \E q, r \in Calls :
                        /\ q \in peers[r] /\ op[q] = "remove" /\ op[r] = "remove"
                        /\ \A c \in {q, r} : arg[c].group = g /\ arg[c].role = "Owner"
    OBVIOUS
  <2>1. y \in members /\ y.group = g /\ y.role = "Owner" /\ y \notin members'
    BY DEF Owners, Of
  <2>2. PICK r \in Calls : RemoveMember(r) \/ DeleteGroup(r)
    BY <1>1, <2>1
    DEF Next, vars, Create, Delete, Logo, Ask, Join, Change, Withdraw, Reject, Remove,
       Call, SetPrivate, WriteGroup, InsertRequest, InsertMember, Conflict, Fail, Undo,
       ChangeRequest, DeleteRequest, WriteLogo, Quiescent
  <2>3. CASE DeleteGroup(r)
    BY <2>1, <2>3 DEF DeleteGroup, There
  <2>4. CASE RemoveMember(r)
    <3>1. /\ pc[r] = "writing" /\ op[r] = "remove" /\ members' = members \ {arg[r]}
          /\ y = arg[r] /\ There(g)
      BY <2>1, <2>4 DEF RemoveMember, Writes, There
    <3>2. \A x \in Owners(g) : x = arg[r]
      BY <3>1 DEF Owners, Of
    <3>3. PICK q \in Done(r) : op[q] = "remove" /\ arg[q].group = g /\ arg[q].role = "Owner"
      BY <1>1, <2>1, <3>1, <3>2 DEF IInv, OwnerLeft
    <3> QED
      BY <1>1, <2>1, <3>1, <3>3 DEF IInv, TypeOK, Done
  <2> QED
    BY <2>2, <2>3, <2>4
<1>2. Spec => [][P]_vars
  BY <1>1, Inductive, PTL DEF Spec
<1> QED
  BY <1>2 DEF LastOwnerStays

\* The request, or the want of an owner, that lets a user join is still there when he
\* becomes a member, unless a call he met changed it.
THEOREM MembersJoinAsAsked == Spec => JoinedAsAsked
<1> DEFINE
      P == \A r \in Calls : op[r] = "join" /\ Ends(r) =>
             LET x == arg[r] IN
             \/ \E y \in requests : y.group = x.group /\ y.user = x.user /\ y.role = x.role
             \/ x.role = "Owner" /\ Owners(x.group) = {}
             \/ \E q \in peers[r] :
                  /\ arg[q].group = x.group
                  /\ \/ op[q] \in {"change", "withdraw", "reject", "join"} /\ arg[q].user = x.user
                     \/ op[q] = "join" /\ arg[q].role = "Owner" /\ x.role = "Owner"
<1>1. ASSUME IInv, [Next]_vars PROVE P
  <2> SUFFICES ASSUME NEW r \in Calls, op[r] = "join", pc[r] = "writing", pc'[r] = "done"
               PROVE  LET x == arg[r] IN
                      \/ \E y \in requests :
                           y.group = x.group /\ y.user = x.user /\ y.role = x.role
                      \/ x.role = "Owner" /\ Owners(x.group) = {}
                      \/ \E q \in peers[r] :
                           /\ arg[q].group = x.group
                           /\ \/ /\ op[q] \in {"change", "withdraw", "reject", "join"}
                                 /\ arg[q].user = x.user
                              \/ op[q] = "join" /\ arg[q].role = "Owner" /\ x.role = "Owner"
    BY DEF Ends
  <2>1. InsertMember(r)
    <3>1. ASSUME NEW q \in Calls PROVE \A u : ~SetPrivate(q, u)
      BY <1>1 DEF IInv, TypeOK, SetPrivate
    <3>2. ASSUME NEW q \in Calls, NEW o, NEW u, NEW x, NEW allowed, Call(q, o, u, x, allowed)
          PROVE  FALSE
      BY <1>1, <3>2 DEF IInv, TypeOK, Call
    <3>3. ASSUME NEW q \in Calls, Conflict(q) \/ Fail(q) PROVE FALSE
      BY <1>1, <3>3 DEF IInv, TypeOK, Conflict, Fail, Undo
    <3>4. ASSUME NEW q \in Calls, End(q) PROVE q = r
      BY <3>4 DEF End
    <3>5. PICK q \in Calls :
            \/ WriteGroup(q) \/ DeleteGroup(q) \/ InsertRequest(q) \/ InsertMember(q)
            \/ ChangeRequest(q) \/ DeleteRequest(q) \/ RemoveMember(q) \/ WriteLogo(q)
      <4>1. pc' # pc
        OBVIOUS
      <4>2. PICK q \in Calls :
              \/ \E u \in Users :
                   \/ SetPrivate(q, u)
                   \/ \E g \in Groups : Create(q, u, g) \/ Delete(q, u, g) \/ Logo(q, u, g)
                   \/ \E role \in Roles :
                        \/ \E p \in Projects : Ask(q, u, p, role)
                        \/ \E g \in Groups : Join(q, u, g, role)
                        \/ \E x \in requests : Change(q, u, x, role)
                   \/ \E x \in requests : Withdraw(q, u, x) \/ Reject(q, u, x)
                   \/ \E x \in members : Remove(q, u, x)
              \/ WriteGroup(q) \/ DeleteGroup(q)
              \/ InsertRequest(q) \/ InsertMember(q) \/ Conflict(q)
              \/ ChangeRequest(q) \/ DeleteRequest(q) \/ RemoveMember(q)
              \/ WriteLogo(q) \/ Fail(q)
        BY <1>1 DEF Next, vars, Quiescent
      <4> QED
        BY <3>1, <3>2, <3>3, <4>2
        DEF Create, Delete, Logo, Ask, Join, Change, Withdraw, Reject, Remove
    <3> QED
      BY <3>4, <3>5
      DEF WriteGroup, DeleteGroup, InsertRequest, InsertMember, ChangeRequest,
         DeleteRequest, RemoveMember, WriteLogo, Writes
  <2>2. There(arg[r].group)
    BY <2>1 DEF InsertMember, Taken
  <2> QED
    BY <1>1, <2>2 DEF IInv, Asked, MayJoin, Of, Done
<1>2. Spec => [][P]_vars
  BY <1>1, Inductive, PTL DEF Spec
<1> QED
  BY <1>2 DEF JoinedAsAsked

\* The role that let a user act on others is still his when he acts, unless a call he
\* met took it.
THEOREM ActorsHoldTheirRole == Spec => RoleWhenActing
<1> DEFINE
      P == \A r \in Calls :
             /\ Ends(r)
             /\ \/ op[r] = "remove" /\ arg[r] \in members /\ who[r] # arg[r].user
                \/ op[r] = "change" /\ Met(r) # {}
                \/ op[r] = "logo"
             => \/ Has(who[r], arg[r].group, Needs(r))
                \/ \E q \in peers[r] :
                     \/ op[q] = "remove" /\ arg[q].group = arg[r].group /\ arg[q].user = who[r]
                     \/ op[q] = "delete" /\ arg[q].group \in {Organization, arg[r].group}
<1>1. IInv => P
  BY DEF IInv, Entitled, Ends, Done
<1>2. Spec => [][P]_vars
  BY <1>1, Inductive, PTL
<1> QED
  BY <1>2 DEF RoleWhenActing
================================================================================

--------------------------- MODULE RefreshTokensProofs ---------------------------
(***************************************************************************)
(* Proofs about RefreshTokens for any sets of requests and users: IInv is  *)
(* an inductive invariant, the safety properties follow from it, and every *)
(* step is a step of Sessions.                                             *)
(***************************************************************************)
EXTENDS RefreshTokens, TLAPS

\* The three routes that start a DELETE, as one action.
Submit(r) ==
  \E c \in Claims : Refresh(r, c) \/ SignOut(r, c) \/ SignOutAll(r, c)

\* What a request may do, by name.
LEMMA NextCases ==
  ASSUME [Next]_vars
  PROVE  \/ \E r \in Requests :
              \/ \E u \in Users : SignIn(r, u)
              \/ Submit(r)
              \/ \E x \in Claims : DeleteRow(r, x)
              \/ RejectRefresh(r)
              \/ AcceptRefresh(r)
              \/ SaveRefreshToken(r)
              \/ Commit(r)
              \/ FinishSignOut(r)
              \/ Abort(r)
         \/ UNCHANGED vars
  BY DEF Next, Quiescent, Submit

\* A started DELETE: any of the three, with what the three WHERE clauses share.
LEMMA SubmitFacts ==
  ASSUME NEW r \in Requests, Submit(r)
  PROVE  \E c \in Claims, o \in Ops, found \in SUBSET rows :
           /\ StartDelete(r, o, c, found)
           /\ c \in Held
           /\ \A x \in found : x.user = c.user
           /\ \/ o = "refresh" /\ found = rows \cap {c}
              \/ o = "sign_out" /\ \A x \in found : x.session = c.session
              \/ o = "sign_out_all"
  <1> DEFINE Goal(c, o, found) ==
        /\ StartDelete(r, o, c, found)
        /\ c \in Held
        /\ \A x \in found : x.user = c.user
        /\ \/ o = "refresh" /\ found = rows \cap {c}
           \/ o = "sign_out" /\ \A x \in found : x.session = c.session
           \/ o = "sign_out_all"
  <1>1. PICK c \in Claims : Refresh(r, c) \/ SignOut(r, c) \/ SignOutAll(r, c)
    BY DEF Submit
  <1>2. c \in Held
    BY <1>1 DEF Refresh, SignOut, SignOutAll, StartDelete
  <1>3. CASE Refresh(r, c)
    <2>1. Goal(c, "refresh", TokenRows(c))
      BY <1>2, <1>3 DEF Refresh, TokenRows
    <2> QED
      BY <2>1 DEF TokenRows, Ops
  <1>4. CASE SignOut(r, c)
    <2>1. Goal(c, "sign_out", SessionRows(c))
      BY <1>2, <1>4 DEF SignOut, SessionRows
    <2> QED
      BY <2>1 DEF SessionRows, Ops
  <1>5. CASE SignOutAll(r, c)
    <2>1. Goal(c, "sign_out_all", UserRows(c))
      BY <1>2, <1>5 DEF SignOutAll, UserRows
    <2> QED
      BY <2>1 DEF UserRows, Ops
  <1> QED
    BY <1>1, <1>3, <1>4, <1>5

LEMMA InitIInv == Init => IInv
  <1> SUFFICES ASSUME Init PROVE IInv
    OBVIOUS
  <1> USE DEF Init
  <1>1. TypeOK
    BY DEF TypeOK, Ops
  <1>2. ControlInv /\ IssueInv /\ KnownInv /\ TargetInv /\ LockInv
    BY DEF ControlInv, IssueInv, KnownInv, TargetInv, LockInv, SignOutOps, InFlight
  <1>3. \A c : ~Known(c)
    BY NoClaimsAssumption DEF Known, Claims
  <1>4. /\ OneTokenPerSession /\ RedeemedIsDead /\ SignOutFinal /\ RejectedIsDead
        /\ RedeemedOnce /\ SessionEnds /\ TokenEnds
    BY <1>3 DEF OneTokenPerSession, RedeemedIsDead, RedeemedOnce, SignOutFinal, RejectedIsDead,
       SessionEnds, TokenEnds
  <1> QED
    BY <1>1, <1>2, <1>4 DEF IInv

----------------------------------------------------------------------------
(* What holds of a request in the middle of a refresh. *)

LEMMA RefreshFacts ==
  ASSUME IInv, NEW r \in Requests, pc[r] \in {"minting", "committing"}
  PROVE  /\ op[r] = "refresh"
         /\ arg[r] \in Claims
         /\ Known(arg[r])
         /\ arg[r] \in rows
         /\ deleted[r] = {arg[r]}
         /\ pc[r] = "committing" =>
              /\ issue[r] \in Claims
              /\ issue[r] # NoClaims
              /\ issue[r].token = r
              /\ issue[r].session = arg[r].session
              /\ issue[r].user = arg[r].user
  <1>1. op[r] = "refresh"
    BY DEF IInv, TypeOK, ControlInv, Ops, SignOutOps
  <1>2. Known(arg[r]) /\ arg[r] \in Claims
    BY <1>1 DEF IInv, KnownInv, Known
  <1>3. deleted[r] = {arg[r]} /\ arg[r] \in rows
    BY DEF IInv, LockInv
  <1>4. ASSUME pc[r] = "committing"
        PROVE  /\ issue[r] \in Claims /\ issue[r] # NoClaims /\ issue[r].token = r
               /\ issue[r].session = arg[r].session /\ issue[r].user = arg[r].user
    BY <1>1, <1>4 DEF IInv, IssueInv, TypeOK
  <1> QED
    BY <1>1, <1>2, <1>3, <1>4

LEMMA HeldFacts ==
  ASSUME IInv, NEW c \in Held
  PROVE  c \in Claims /\ Known(c)
  <1>1. PICK q \in Requests : pc[q] = "200" /\ c = issue[q]
    BY DEF Held
  <1>2. issue[q] # NoClaims /\ issue[q].token = q /\ issue[q] \in Claims
    BY <1>1 DEF IInv, IssueInv, TypeOK
  <1> QED
    BY <1>1, <1>2 DEF Known, Committed

\* A request that has not minted has no row, and no token or session is its own.
LEMMA UnmintedFacts ==
  ASSUME IInv, NEW r \in Requests, issue[r] = NoClaims \/ pc[r] = "committing"
  PROVE  \A c : Known(c) => c.token # r
  BY DEF IInv, Known, Committed

----------------------------------------------------------------------------
(* The steps that change neither the table nor what has been minted.       *)

LEMMA SubmitStep == ASSUME IInv, NEW r \in Requests, Submit(r) 
  PROVE  IInv' /\ (\A d : Known(d)' <=> Known(d))
  <1> USE DEF SignOutOps, InFlight
  <1>1. PICK c \in Claims, o \in Ops, found \in SUBSET rows :
           /\ StartDelete(r, o, c, found)
           /\ c \in Held
           /\ \A x \in found : x.user = c.user
           /\ \/ o = "refresh" /\ found = rows \cap {c}
              \/ o = "sign_out" /\ \A x \in found : x.session = c.session
              \/ o = "sign_out_all"
    BY SubmitFacts
  <1>2. TypeOK'
    BY <1>1, HeldFacts DEF IInv, TypeOK, StartDelete, Ops, Answered
  <1> USE <1>1 DEF StartDelete
  <1>3. /\ op[r] = "none" /\ issue[r] = NoClaims /\ target[r] = {} /\ deleted[r] = {}
    BY DEF IInv, ControlInv, IssueInv, TargetInv, LockInv
  <1>4. \A q \in Requests : Committed(q) <=> Committed(q)'
    BY <1>3 DEF Committed, IInv, TypeOK
  <1>5. \A d : Known(d) <=> Known(d)'
    BY <1>4 DEF Known, Claims
  <1>6. ControlInv'
    BY DEF IInv, ControlInv, TypeOK
  <1>7. IssueInv'
    BY <1>3 DEF IInv, IssueInv, TypeOK
  <1>8. KnownInv'
    BY <1>5, HeldFacts DEF IInv, KnownInv, TypeOK
  <1>9. TargetInv'
    BY <1>3 DEF IInv, TargetInv, TypeOK
  <1>10. LockInv'
    BY <1>3 DEF IInv, LockInv, TypeOK
  <1>11. /\ OneTokenPerSession' /\ RedeemedIsDead' /\ RedeemedOnce' /\ SignOutFinal' /\ RejectedIsDead'
    <2>1. ~Committed(r)
      BY <1>3 DEF Committed
    <2>2. RedeemedIsDead' /\ RedeemedOnce'
      BY <1>4, <2>1 DEF IInv, TypeOK, RedeemedIsDead, RedeemedOnce
    <2>3. SignOutFinal' /\ RejectedIsDead'
      BY DEF IInv, TypeOK, SignOutFinal, RejectedIsDead
    <2> QED
      BY <2>2, <2>3 DEF IInv, OneTokenPerSession
  <1>12. SessionEnds'
    BY <1>3, <1>5 DEF IInv, TypeOK, SessionEnds
  <1>13. TokenEnds'
    BY <1>3, <1>4, <1>5 DEF IInv, TypeOK, TokenEnds
  <1> QED
    BY <1>2, <1>5, <1>6, <1>7, <1>8, <1>9, <1>10, <1>11, <1>12, <1>13 DEF IInv

LEMMA DeleteRowStep ==
  ASSUME IInv, NEW r \in Requests, NEW x \in Claims, DeleteRow(r, x) 
  PROVE  IInv' /\ (\A d : Known(d)' <=> Known(d))
  <1> USE DEF SignOutOps, InFlight, DeleteRow
  <1>1. TypeOK'
    BY DEF IInv, TypeOK
  <1>2. \A d : Known(d) <=> Known(d)'
    BY DEF Known, Committed
  <1>3. ControlInv' /\ IssueInv' /\ KnownInv'
    BY <1>2 DEF IInv, ControlInv, IssueInv, KnownInv
  <1>4. TargetInv'
    BY DEF IInv, TargetInv, TypeOK
  <1>5. LockInv'
    BY DEF IInv, LockInv, TargetInv, TypeOK, Locked
  <1>6. /\ OneTokenPerSession' /\ RedeemedIsDead' /\ RedeemedOnce' /\ SignOutFinal' /\ RejectedIsDead'
        /\ SessionEnds' /\ TokenEnds'
    BY <1>2 DEF IInv, OneTokenPerSession, RedeemedIsDead, RedeemedOnce, SignOutFinal, RejectedIsDead,
       SessionEnds, TokenEnds, Committed
  <1> QED
    BY <1>1, <1>2, <1>3, <1>4, <1>5, <1>6 DEF IInv

LEMMA RejectRefreshStep ==
  ASSUME IInv, NEW r \in Requests, RejectRefresh(r) 
  PROVE  IInv' /\ (\A d : Known(d)' <=> Known(d))
  <1> USE DEF SignOutOps, InFlight, RejectRefresh, Scanned
  <1>1. TypeOK'
    BY DEF IInv, TypeOK, Answered
  <1>2. issue[r] = NoClaims
    BY DEF IInv, IssueInv
  <1>3. \A q \in Requests : Committed(q) <=> Committed(q)'
    BY <1>2 DEF Committed, IInv, TypeOK
  <1>4. \A d : Known(d) <=> Known(d)'
    BY <1>3 DEF Known, Claims
  <1>5. ControlInv' /\ IssueInv' /\ KnownInv'
    BY <1>2, <1>4 DEF IInv, TypeOK, ControlInv, IssueInv, KnownInv
  <1>6. TargetInv' /\ LockInv'
    BY DEF IInv, TargetInv, LockInv, TypeOK
  <1>7. arg[r] \notin rows
    BY DEF IInv, TargetInv
  <1>8. RejectedIsDead'
    BY <1>7 DEF IInv, RejectedIsDead, TypeOK
  <1>9. /\ OneTokenPerSession' /\ RedeemedIsDead' /\ RedeemedOnce' /\ SignOutFinal'
        /\ SessionEnds' /\ TokenEnds'
    BY <1>3, <1>4 DEF IInv, TypeOK, OneTokenPerSession, RedeemedIsDead, RedeemedOnce, SignOutFinal,
       SessionEnds, TokenEnds
  <1> QED
    BY <1>1, <1>4, <1>5, <1>6, <1>8, <1>9 DEF IInv

LEMMA AcceptRefreshStep ==
  ASSUME IInv, NEW r \in Requests, AcceptRefresh(r) 
  PROVE  IInv' /\ (\A d : Known(d)' <=> Known(d))
  <1> USE DEF SignOutOps, InFlight, AcceptRefresh, Scanned
  <1>1. TypeOK'
    BY DEF IInv, TypeOK
  <1>2. issue[r] = NoClaims
    BY DEF IInv, IssueInv
  <1>3. \A q \in Requests : Committed(q) <=> Committed(q)'
    BY <1>2 DEF Committed, IInv, TypeOK
  <1>4. \A d : Known(d) <=> Known(d)'
    BY <1>3 DEF Known, Claims
  <1>5. ControlInv' /\ IssueInv' /\ KnownInv'
    BY <1>2, <1>4 DEF IInv, TypeOK, ControlInv, IssueInv, KnownInv
  <1>6. TargetInv'
    BY DEF IInv, TargetInv, TypeOK
  <1>7. deleted[r] = {arg[r]}
    BY DEF IInv, TargetInv, LockInv
  <1>8. LockInv'
    BY <1>7 DEF IInv, LockInv, TypeOK
  <1>9. /\ OneTokenPerSession' /\ RedeemedIsDead' /\ RedeemedOnce' /\ SignOutFinal' /\ RejectedIsDead'
        /\ SessionEnds' /\ TokenEnds'
    BY <1>3, <1>4 DEF IInv, TypeOK, OneTokenPerSession, RedeemedIsDead, RedeemedOnce, SignOutFinal,
       RejectedIsDead, SessionEnds, TokenEnds
  <1> QED
    BY <1>1, <1>4, <1>5, <1>6, <1>8, <1>9 DEF IInv
----------------------------------------------------------------------------
(* The steps that mint, commit or undo. *)

LEMMA SignInStep ==
  ASSUME IInv, NEW r \in Requests, NEW u \in Users, SignIn(r, u) 
  PROVE  /\ IInv'
         /\ \/ rows' = rows /\ \A d : Known(d)' <=> Known(d)
            \/ LET c == [token |-> r, session |-> r, user |-> u]
               IN  /\ c \in Claims
                   /\ rows' = rows \cup {c}
                   /\ \A d : Known(d) => d.token # r /\ d.session # r
                   /\ \A d : Known(d)' <=> Known(d) \/ d = c
  <1> USE DEF SignOutOps, InFlight
  <1> DEFINE c == [token |-> r, session |-> r, user |-> u]
  <1>1. c \in Claims /\ c # NoClaims
    BY NoClaimsAssumption DEF Claims
  <1>2. /\ op[r] = "none" /\ issue[r] = NoClaims /\ target[r] = {} /\ deleted[r] = {}
        /\ pc[r] = "idle"
    BY DEF SignIn, IInv, ControlInv, IssueInv, TargetInv, LockInv
  <1>3. \A d : Known(d) => d.session # r /\ d.token # r
    BY <1>2 DEF IInv, Known, Committed, IssueInv, Claims
  <1>4. TypeOK'
    BY <1>1 DEF SignIn, IInv, TypeOK, Ops, Answered
  <1>5. CASE rows' = rows /\ issue' = issue
    <2> USE <1>5 DEF SignIn
    <2>1. \A q \in Requests : Committed(q) <=> Committed(q)'
      BY <1>2 DEF Committed, IInv, TypeOK
    <2>2. \A d : Known(d) <=> Known(d)'
      BY <2>1 DEF Known, Claims
    <2>3. ControlInv' /\ IssueInv' /\ KnownInv'
      <3>1. ControlInv'
        BY DEF IInv, TypeOK, ControlInv
      <3>2. IssueInv'
        <4>1. pc' = [pc EXCEPT ![r] = "error"]
          BY <1>1, <1>2 DEF IInv, TypeOK
        <4> QED
          BY <1>2, <4>1 DEF IInv, TypeOK, IssueInv, Claims
      <3>3. KnownInv'
        BY <1>2, <2>2 DEF IInv, TypeOK, KnownInv
      <3> QED
        BY <3>1, <3>2, <3>3
    <2>4. TargetInv' /\ LockInv'
      BY <1>2 DEF IInv, TargetInv, LockInv, TypeOK
    <2>5. OneTokenPerSession' /\ SignOutFinal' /\ RejectedIsDead'
      BY DEF IInv, TypeOK, OneTokenPerSession, SignOutFinal, RejectedIsDead
    <2>6. RedeemedIsDead' /\ RedeemedOnce' /\ SessionEnds' /\ TokenEnds'
      BY <1>2, <2>1, <2>2 DEF IInv, TypeOK, RedeemedIsDead, RedeemedOnce, SessionEnds, TokenEnds
    <2> QED
      BY <1>4, <1>5, <2>2, <2>3, <2>4, <2>5, <2>6 DEF IInv
  <1>6. CASE rows' = rows \cup {c} /\ issue' = [issue EXCEPT ![r] = c]
    <2>1. /\ pc' \in {[pc EXCEPT ![r] = "200"], [pc EXCEPT ![r] = "error"]}
          /\ op' = [op EXCEPT ![r] = "sign_in"]
          /\ UNCHANGED <<arg, target, todo, deleted>>
      BY DEF SignIn
    <2> USE <1>6, <2>1
    <2>2. /\ \A q \in Requests \ {r} : Committed(q) <=> Committed(q)'
          /\ Committed(r)' /\ ~Committed(r)
      BY <1>1, <1>2 DEF Committed, IInv, TypeOK
    <2>3. \A d : Known(d)' <=> Known(d) \/ d = c
      BY <1>1, <1>3, <2>2 DEF Known, IInv, TypeOK, Claims
    <2>4. ControlInv' /\ IssueInv'
      BY <1>1, <1>2 DEF IInv, TypeOK, ControlInv, IssueInv
    <2>5. KnownInv'
      BY <1>2, <2>3 DEF IInv, TypeOK, KnownInv
    <2>6. TargetInv' /\ LockInv'
      BY <1>2, <1>3 DEF IInv, TargetInv, LockInv, KnownInv, TypeOK
    <2>7. OneTokenPerSession'
      BY <1>3 DEF IInv, OneTokenPerSession, KnownInv
    <2>8. SignOutFinal' /\ RejectedIsDead' /\ RedeemedIsDead' /\ RedeemedOnce'
      BY <1>2, <1>3, <2>2 DEF IInv, TypeOK, SignOutFinal, RejectedIsDead, RedeemedIsDead, RedeemedOnce,
         KnownInv
    <2>9. SessionEnds'
      BY <1>2, <2>3 DEF IInv, TypeOK, SessionEnds
    <2>10. TokenEnds'
      BY <1>2, <1>3, <2>2, <2>3 DEF IInv, TypeOK, TokenEnds
    <2> QED
      BY <1>1, <1>3, <1>4, <1>6, <2>3, <2>4, <2>5, <2>6, <2>7, <2>8, <2>9, <2>10 DEF IInv
  <1> QED
    BY <1>5, <1>6 DEF SignIn

LEMMA SaveRefreshTokenStep ==
  ASSUME IInv, NEW r \in Requests, SaveRefreshToken(r) 
  PROVE  IInv' /\ (\A d : Known(d)' <=> Known(d))
  <1> USE DEF SignOutOps, InFlight, SaveRefreshToken
  <1>1. op[r] = "refresh" /\ Known(arg[r]) /\ arg[r] \in Claims /\ issue[r] = NoClaims
    BY RefreshFacts DEF IInv, IssueInv
  <1> DEFINE c == [arg[r] EXCEPT !.token = r]
  <1>2. /\ c \in Claims /\ c # NoClaims /\ c.token = r
        /\ c.session = arg[r].session /\ c.user = arg[r].user
    BY <1>1, NoClaimsAssumption DEF Claims
  <1>3. op[c.session] = "sign_in"
    BY <1>1, <1>2 DEF IInv, IssueInv, Known, Committed, Claims
  <1>4. TypeOK'
    BY <1>2 DEF IInv, TypeOK
  <1>5. \A q \in Requests : Committed(q) <=> Committed(q)'
    BY <1>1 DEF Committed, IInv, TypeOK
  <1>6. \A d : Known(d) <=> Known(d)'
    BY <1>1, <1>5 DEF Known, Claims, IInv, TypeOK, Committed
  <1>7. ControlInv' /\ KnownInv'
    BY <1>6 DEF IInv, TypeOK, ControlInv, KnownInv
  <1>8. IssueInv'
    BY <1>1, <1>2, <1>3 DEF IInv, TypeOK, IssueInv
  <1>9. TargetInv' /\ LockInv'
    BY DEF IInv, TargetInv, LockInv, TypeOK
  <1>10. /\ OneTokenPerSession' /\ RedeemedIsDead' /\ RedeemedOnce' /\ SignOutFinal' /\ RejectedIsDead'
         /\ SessionEnds' /\ TokenEnds'
    BY <1>5, <1>6 DEF IInv, TypeOK, OneTokenPerSession, RedeemedIsDead, RedeemedOnce, SignOutFinal,
       RejectedIsDead, SessionEnds, TokenEnds
  <1> QED
    BY <1>4, <1>6, <1>7, <1>8, <1>9, <1>10 DEF IInv

LEMMA CommitStep == ASSUME IInv, NEW r \in Requests, Commit(r) 
  PROVE  /\ IInv'
         /\ arg[r] \in rows
         /\ issue[r] \in Claims
         /\ issue[r].session = arg[r].session /\ issue[r].user = arg[r].user
         /\ rows' = (rows \ {arg[r]}) \cup {issue[r]}
         /\ \A d : Known(d) => d.token # issue[r].token
         /\ \A d : Known(d)' <=> Known(d) \/ d = issue[r]
  <1> USE DEF SignOutOps, InFlight
  <1> DEFINE old == arg[r]
             new == issue[r]
  <1>1. /\ op[r] = "refresh" /\ old \in Claims /\ Known(old) /\ old \in rows
        /\ deleted[r] = {old} /\ new \in Claims /\ new # NoClaims /\ new.token = r
        /\ new.session = old.session /\ new.user = old.user /\ pc[r] = "committing"
    BY RefreshFacts DEF Commit
  <1>2. /\ rows' = (rows \ {old}) \cup {new}
        /\ deleted' = [deleted EXCEPT ![r] = {}]
        /\ pc' \in {[pc EXCEPT ![r] = "200"], [pc EXCEPT ![r] = "error"]}
        /\ UNCHANGED <<op, arg, target, todo, issue>>
    BY <1>1 DEF Commit
  <1>3. \A d : Known(d) => d.token # r
    BY <1>1 DEF Known, Committed
  <1>4. TypeOK'
    BY <1>1, <1>2 DEF IInv, TypeOK, Answered
  <1>5. /\ \A q \in Requests \ {r} : Committed(q) <=> Committed(q)'
        /\ Committed(r)' /\ ~Committed(r)
    BY <1>1, <1>2 DEF Committed, IInv, TypeOK
  <1>6. \A d : Known(d)' <=> Known(d) \/ d = new
    BY <1>1, <1>2, <1>3, <1>5 DEF Known, Claims
  <1>7. ControlInv' /\ IssueInv'
    BY <1>1, <1>2 DEF IInv, TypeOK, ControlInv, IssueInv
  <1>8. KnownInv'
    BY <1>2, <1>6 DEF IInv, KnownInv
  <1>9. TargetInv'
    BY <1>1, <1>2, <1>3 DEF IInv, TypeOK, TargetInv, KnownInv
  <1>10. LockInv'
    BY <1>1, <1>2 DEF IInv, TypeOK, LockInv
  <1>11. OneTokenPerSession'
    BY <1>1, <1>2 DEF IInv, OneTokenPerSession
  <1>12. RedeemedIsDead' /\ RedeemedOnce'
    BY <1>1, <1>2, <1>3, <1>5 DEF IInv, RedeemedIsDead, RedeemedOnce, KnownInv
  <1>13. SignOutFinal' /\ RejectedIsDead'
    BY <1>1, <1>2, <1>3 DEF IInv, TypeOK, SignOutFinal, RejectedIsDead, KnownInv
  <1>14. SessionEnds'
    BY <1>1, <1>2, <1>6 DEF IInv, TypeOK, SessionEnds
  <1>15. TokenEnds'
    BY <1>1, <1>2, <1>5, <1>6 DEF IInv, TypeOK, TokenEnds
  <1> QED
    BY <1>1, <1>2, <1>3, <1>4, <1>6, <1>7, <1>8, <1>9, <1>10, <1>11, <1>12, <1>13, <1>14, <1>15 DEF IInv

LEMMA FinishSignOutStep ==
  ASSUME IInv, NEW r \in Requests, FinishSignOut(r) 
  PROVE  IInv' /\ (\A d : Known(d)' <=> Known(d))
  <1> USE DEF SignOutOps, InFlight
  <1>1. /\ pc[r] = "deleting" /\ todo[r] = {} /\ op[r] \in SignOutOps
        /\ rows' = rows \ deleted[r]
        /\ deleted' = [deleted EXCEPT ![r] = {}]
        /\ UNCHANGED <<op, arg, target, todo, issue>>
    BY DEF FinishSignOut, Scanned
  <1>2. PICK status \in {"204", "404", "error"} :
           /\ pc' = [pc EXCEPT ![r] = status]
           /\ status = "204" => deleted[r] # {}
           /\ status = "404" => deleted[r] = {}
    BY DEF FinishSignOut
  <1>3. TypeOK'
    BY <1>1, <1>2 DEF IInv, TypeOK, Answered
  <1>4. issue[r] = NoClaims
    BY <1>1 DEF IInv, IssueInv
  <1>5. \A q \in Requests : Committed(q) <=> Committed(q)'
    BY <1>1, <1>2, <1>4 DEF Committed, IInv, TypeOK
  <1>6. \A d : Known(d) <=> Known(d)'
    BY <1>1, <1>5 DEF Known, Claims
  <1>7. target[r] \cap rows \subseteq deleted[r] /\ deleted[r] \subseteq target[r]
    BY <1>1 DEF IInv, TargetInv, LockInv
  <1>8. \A x \in deleted[r] : \A y \in rows' : y.session # x.session
    BY <1>1 DEF IInv, OneTokenPerSession, LockInv
  <1>9. ControlInv' /\ IssueInv' /\ KnownInv'
    BY <1>1, <1>2, <1>4, <1>6 DEF IInv, TypeOK, ControlInv, IssueInv, KnownInv
  <1>10. TargetInv'
    BY <1>1, <1>2, <1>7 DEF IInv, TypeOK, TargetInv
  <1>11. LockInv'
    BY <1>1, <1>2 DEF IInv, TypeOK, LockInv
  <1>12. OneTokenPerSession' /\ RedeemedIsDead' /\ RedeemedOnce' /\ RejectedIsDead'
    BY <1>1, <1>2, <1>5 DEF IInv, TypeOK, OneTokenPerSession, RedeemedIsDead, RedeemedOnce, RejectedIsDead
  <1>13. SignOutFinal'
    <2> SUFFICES ASSUME NEW q \in Requests, op[q] = "sign_out", pc'[q] = "204"
                 PROVE  \A x \in rows' : x.session # arg[q].session
      BY <1>1 DEF SignOutFinal
    <2>1. CASE q # r
      BY <1>1, <1>2, <2>1 DEF IInv, TypeOK, SignOutFinal
    <2>2. CASE q = r
      <3>1. PICK x \in deleted[r] : x.session = arg[r].session
        BY <1>1, <1>2, <1>7, <2>2 DEF IInv, TypeOK, TargetInv
      <3> QED
        BY <1>8, <2>2, <3>1
    <2> QED
      BY <2>1, <2>2
  <1>14. SessionEnds'
    BY <1>1, <1>2, <1>6, <1>7 DEF IInv, TypeOK, SessionEnds
  <1>15. TokenEnds'
    BY <1>1, <1>5, <1>6, <1>8 DEF IInv, TokenEnds
  <1> QED
    BY <1>3, <1>6, <1>9, <1>10, <1>11, <1>12, <1>13, <1>14, <1>15 DEF IInv

LEMMA AbortStep == ASSUME IInv, NEW r \in Requests, Abort(r) 
  PROVE  IInv' /\ (\A d : Known(d)' <=> Known(d))
  <1> USE DEF SignOutOps, InFlight, Abort
  <1>1. TypeOK'
    BY DEF IInv, TypeOK, Answered
  <1>2. issue[r] = NoClaims \/ pc[r] = "committing"
    BY DEF IInv, IssueInv
  <1>3. \A q \in Requests : Committed(q) <=> Committed(q)'
    BY <1>2 DEF Committed, IInv, TypeOK
  <1>4. \A d : Known(d) <=> Known(d)'
    BY <1>3 DEF Known, Claims, IInv, TypeOK, Committed
  <1>5. ControlInv'
    BY DEF IInv, TypeOK, ControlInv
  <1>6. IssueInv' /\ KnownInv'
    BY <1>4 DEF IInv, TypeOK, IssueInv, KnownInv
  <1>7. TargetInv' /\ LockInv'
    BY DEF IInv, TypeOK, TargetInv, LockInv
  <1>8. OneTokenPerSession' /\ SignOutFinal' /\ RejectedIsDead'
    BY DEF IInv, TypeOK, OneTokenPerSession, SignOutFinal, RejectedIsDead
  <1>9. RedeemedIsDead' /\ RedeemedOnce' /\ TokenEnds'
    BY <1>3, <1>4 DEF IInv, RedeemedIsDead, RedeemedOnce, TokenEnds
  <1>10. SessionEnds'
    BY <1>4 DEF IInv, TypeOK, SessionEnds
  <1> QED
    BY <1>1, <1>4, <1>5, <1>6, <1>7, <1>8, <1>9, <1>10 DEF IInv
----------------------------------------------------------------------------
(* Theorems *)

\* Every step keeps the inductive invariant.
LEMMA StepIInv == IInv /\ [Next]_vars => IInv'
  <1> SUFFICES ASSUME IInv, [Next]_vars PROVE IInv'
    OBVIOUS
  <1>1. CASE UNCHANGED vars
    BY <1>1 DEF vars, IInv, TypeOK, ControlInv, IssueInv, KnownInv, TargetInv, LockInv,
       OneTokenPerSession, RedeemedIsDead, RedeemedOnce, SignOutFinal, RejectedIsDead,
       SessionEnds, TokenEnds, Known, Committed
  <1> QED
    BY <1>1, NextCases, SubmitStep, DeleteRowStep, RejectRefreshStep, AcceptRefreshStep,
       SignInStep, SaveRefreshTokenStep, CommitStep, FinishSignOutStep, AbortStep

\* The inductive invariant holds in every reachable state.
THEOREM Invariant == Spec => []IInv
  BY InitIInv, StepIInv, PTL DEF Spec

\* The type invariant.
THEOREM TypeCorrect == Spec => []TypeOK
  <1>1. IInv => TypeOK
    BY DEF IInv
  <1> QED
    BY <1>1, Invariant, PTL

\* However many refreshes of a session race, the session has at most one
\* redeemable token (tokenController.ts deletes before it inserts).
THEOREM OneToken == Spec => []OneTokenPerSession
  <1>1. IInv => OneTokenPerSession
    BY DEF IInv
  <1> QED
    BY <1>1, Invariant, PTL

\* A 204 from POST /auth/sign-out ends the session for good.
THEOREM SignOutIsFinal == Spec => []SignOutFinal
  <1>1. IInv => SignOutFinal
    BY DEF IInv
  <1> QED
    BY <1>1, Invariant, PTL

\* A token refused with 400 is dead and stays dead.
THEOREM RejectedStaysDead == Spec => []RejectedIsDead
  <1>1. IInv => RejectedIsDead
    BY DEF IInv
  <1> QED
    BY <1>1, Invariant, PTL

\* A session that was handed to a client ends only by a sign-out, and is out of
\* every client's hands only by a lost answer.
THEOREM SessionsAreKept == Spec => []SessionKept
  <1>1. IInv => SessionKept
    <2> SUFFICES ASSUME IInv, NEW c \in Held, NEW x \in rows, x.session = c.session
                 PROVE  \/ x \in Held
                        \/ \E r \in Requests : pc[r] = "error" /\ issue[r] = x
      BY HeldFacts DEF IInv, SessionEnds, SessionKept
    <2>1. Known(x)
      BY DEF IInv, KnownInv
    <2>2. x.token \in Requests /\ issue[x.token] = x /\ pc[x.token] \in {"200", "error"}
      BY <2>1 DEF IInv, IssueInv, Known, Committed, Claims
    <2> QED
      BY <2>2 DEF Held
  <1> QED
    BY <1>1, Invariant, PTL

\* A session survives a sign-out from all sessions only by a refresh.
THEOREM SurvivorsAreRotations == Spec => []SurvivorsWereRotated
  <1>1. IInv => SurvivorsWereRotated
    <2> SUFFICES ASSUME IInv, NEW r \in Requests, op[r] = "sign_out_all", pc[r] = "204",
                        NEW x \in target[r], NEW y \in rows, y.session = x.session
                 PROVE  \E q \in Requests : op[q] = "refresh" /\ arg[q] = x /\ Committed(q)
      BY DEF SurvivorsWereRotated
    <2>1. Known(x) /\ x \in Claims /\ x \notin rows
      BY DEF IInv, KnownInv, TargetInv, Known
    <2> QED
      BY <2>1 DEF IInv, TokenEnds
  <1> QED
    BY <1>1, Invariant, PTL

\* No refresh token is exchanged twice.
THEOREM TokensAreRedeemedOnce == Spec => []RedeemedOnce
  <1>1. IInv => RedeemedOnce
    BY DEF IInv
  <1> QED
    BY <1>1, Invariant, PTL

\* Rotation never forks a session: one token each, and each used once.
THEOREM RotationExclusive == Spec => []RotationIsExclusive
  <1>1. IInv => RotationIsExclusive
    BY DEF IInv, RotationIsExclusive
  <1> QED
    BY <1>1, Invariant, PTL

\* A session signed out with 204, and a token refused with 400, stay dead.
THEOREM OverStaysOver == Spec => []OverIsOver
  <1>1. IInv => OverIsOver
    BY DEF IInv, OverIsOver
  <1> QED
    BY <1>1, Invariant, PTL

----------------------------------------------------------------------------
(* Refinement *)

LEMMA UsedIsKnown == IInv => \A d : d \in UsedClaims <=> Known(d)
  <1> SUFFICES ASSUME IInv PROVE \A d : d \in UsedClaims <=> Known(d)
    OBVIOUS
  <1>1. ASSUME NEW d, Known(d) PROVE d \in UsedClaims
    BY <1>1 DEF Known, UsedClaims, Claims
  <1>2. ASSUME NEW d \in UsedClaims PROVE Known(d)
    <2>1. PICK r \in Requests : Committed(r) /\ d = issue[r]
      BY <1>2 DEF UsedClaims
    <2> QED
      BY <2>1 DEF Known, Committed, IInv, IssueInv, TypeOK
  <1> QED
    BY <1>1, <1>2

LEMMA UsedStep ==
  ASSUME IInv, IInv'
  PROVE  /\ \A d : d \in UsedClaims <=> Known(d)
         /\ \A d : d \in UsedClaims' <=> Known(d)'
  <1>1. (IInv => \A d : d \in UsedClaims <=> Known(d))'
    BY UsedIsKnown, PTL
  <1> QED
    BY <1>1, UsedIsKnown

\* Steps that leave the table alone are stuttering steps of Sessions.
LEMMA StutterStep ==
  ASSUME IInv, IInv', rows' = rows, \A d : Known(d)' <=> Known(d)
  PROVE  UNCHANGED S!absVars
  <1>1. UsedClaims' = UsedClaims
    BY UsedStep
  <1> QED
    BY <1>1 DEF S!absVars

LEMMA SignInOpens ==
  ASSUME IInv, NEW r \in Requests, NEW u \in Users, SignIn(r, u)
  PROVE  [S!Next]_S!absVars
  <1> DEFINE c == [token |-> r, session |-> r, user |-> u]
  <1>1. IInv'
    BY SignInStep
  <1>2. CASE rows' = rows /\ \A d : Known(d)' <=> Known(d)
    BY <1>1, <1>2, StutterStep
  <1>3. CASE /\ c \in Claims
             /\ rows' = rows \cup {c}
             /\ \A d : Known(d) => d.token # r /\ d.session # r
             /\ \A d : Known(d)' <=> Known(d) \/ d = c
    <2>1. UsedClaims' = UsedClaims \cup {c}
      BY <1>1, <1>3, UsedStep
    <2>2. S!Open(c)
      BY <1>1, <1>3, <2>1, UsedStep DEF S!Open, S!NeverUsed
    <2> QED
      BY <1>3, <2>2 DEF S!Next
  <1> QED
    BY <1>2, <1>3, SignInStep

LEMMA CommitRotates ==
  ASSUME IInv, NEW r \in Requests, Commit(r) PROVE [S!Next]_S!absVars
  <1> DEFINE old == arg[r]
             new == issue[r]
  <1>1. /\ IInv'
        /\ old \in rows /\ new \in Claims
        /\ new.session = old.session /\ new.user = old.user
        /\ rows' = (rows \ {old}) \cup {new}
        /\ \A d : Known(d) => d.token # new.token
        /\ \A d : Known(d)' <=> Known(d) \/ d = new
    BY CommitStep
  <1>2. UsedClaims' = UsedClaims \cup {new}
    BY <1>1, UsedStep
  <1>3. S!Rotate(old, new)
    BY <1>1, <1>2, UsedStep DEF S!Rotate, S!NeverUsed
  <1>4. old \in Claims
    BY <1>1 DEF IInv, TypeOK
  <1> QED
    BY <1>1, <1>3, <1>4 DEF S!Next

LEMMA FinishSignOutCloses ==
  ASSUME IInv, NEW r \in Requests, FinishSignOut(r) PROVE [S!Next]_S!absVars
  <1>1. IInv' /\ \A d : Known(d)' <=> Known(d)
    BY FinishSignOutStep
  <1>2. UsedClaims' = UsedClaims
    BY <1>1, UsedStep
  <1>3. /\ rows' = rows \ deleted[r]
        /\ deleted[r] \subseteq rows
        /\ \A c, d \in deleted[r] : c.user = d.user
    BY DEF FinishSignOut, IInv, LockInv, TargetInv
  <1>4. S!Close(deleted[r]) /\ deleted[r] \in SUBSET rows
    BY <1>2, <1>3 DEF S!Close, IInv, TypeOK
  <1> QED
    BY <1>4 DEF S!Next

LEMMA StepRefines == IInv /\ [Next]_vars => [S!Next]_S!absVars
  <1> SUFFICES ASSUME IInv, [Next]_vars PROVE [S!Next]_S!absVars
    OBVIOUS
  <1>1. ASSUME NEW r \in Requests,
               \/ Submit(r)
               \/ \E x \in Claims : DeleteRow(r, x)
               \/ RejectRefresh(r)
               \/ AcceptRefresh(r)
               \/ SaveRefreshToken(r)
               \/ Abort(r)
        PROVE  UNCHANGED S!absVars
    <2>1. rows' = rows
      BY <1>1 DEF Submit, Refresh, SignOut, SignOutAll, StartDelete, DeleteRow,
         RejectRefresh, AcceptRefresh, SaveRefreshToken, Abort
    <2>2. IInv' /\ \A d : Known(d)' <=> Known(d)
      BY <1>1, SubmitStep, DeleteRowStep, RejectRefreshStep, AcceptRefreshStep,
         SaveRefreshTokenStep, AbortStep
    <2> QED
      BY <2>1, <2>2, StutterStep
  <1>2. CASE UNCHANGED vars
    BY <1>2 DEF vars, S!absVars, UsedClaims, Committed
  <1> QED
    BY <1>1, <1>2, NextCases, SignInOpens, CommitRotates, FinishSignOutCloses

\* The handlers, run concurrently over the table, implement Sessions.
THEOREM Refinement == Spec => ImplementsSessions
  <1>1. Init => S!Init
    BY DEF Init, S!Init, UsedClaims, Committed
  <1>2. S!Spec <=> S!Init /\ [][S!Next]_S!absVars
    BY DEF S!Spec
  <1> QED
    BY <1>1, <1>2, StepRefines, Invariant, PTL DEF Spec, ImplementsSessions
----------------------------------------------------------------------------
(* What whoever implements Sessions gives: one live token for a session,    *)
(* and no session comes back.  The variables are those of Sessions, on      *)
(* their own.                                                               *)

VARIABLES live, used

A == INSTANCE Sessions

SessionsInv == live \subseteq used /\ A!OneLiveToken

LEMMA SessionsStep == SessionsInv /\ [A!Next]_A!absVars => SessionsInv'
  <1> SUFFICES ASSUME SessionsInv, [A!Next]_A!absVars PROVE SessionsInv'
    OBVIOUS
  <1> USE DEF SessionsInv, A!OneLiveToken
  <1>1. ASSUME NEW c \in Claims, A!Open(c) PROVE SessionsInv'
    BY <1>1 DEF A!Open
  <1>2. ASSUME NEW c \in Claims, NEW d \in Claims, A!Rotate(c, d) PROVE SessionsInv'
    BY <1>2 DEF A!Rotate
  <1>3. ASSUME NEW gone \in SUBSET live, A!Close(gone) PROVE SessionsInv'
    BY <1>3 DEF A!Close
  <1>4. CASE UNCHANGED A!absVars
    BY <1>4 DEF A!absVars
  <1> QED
    BY <1>1, <1>2, <1>3, <1>4 DEF A!Next

\* A session has at most one redeemable refresh token.
THEOREM AbsOneLiveToken == A!Spec => []A!OneLiveToken
  <1>1. A!Init => SessionsInv
    BY DEF A!Init, SessionsInv, A!OneLiveToken
  <1>2. SessionsInv => A!OneLiveToken
    BY DEF SessionsInv
  <1> QED
    BY <1>1, <1>2, SessionsStep, PTL DEF A!Spec

\* A session that was closed is closed in every later state.
THEOREM AbsClosedForGood == A!Spec => A!ClosedForGood
  <1>1. [A!Next]_A!absVars => [\A c \in Claims : A!Closed(c.session) => A!Closed(c.session)']_A!absVars
    <2> SUFFICES ASSUME A!Next, NEW s, A!Closed(s) PROVE A!Closed(s)'
      OBVIOUS
    <2>1. ASSUME NEW c \in Claims, A!Open(c) PROVE A!Closed(s)'
      BY <2>1 DEF A!Open, A!Closed
    <2>2. ASSUME NEW c \in Claims, NEW d \in Claims, A!Rotate(c, d) PROVE A!Closed(s)'
      BY <2>2 DEF A!Rotate, A!Closed
    <2>3. ASSUME NEW gone \in SUBSET live, A!Close(gone) PROVE A!Closed(s)'
      BY <2>3 DEF A!Close, A!Closed
    <2> QED
      BY <2>1, <2>2, <2>3 DEF A!Next
  <1> QED
    BY <1>1, PTL DEF A!Spec, A!ClosedForGood
=================================================================================

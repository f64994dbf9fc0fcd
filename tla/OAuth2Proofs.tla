------------------------------ MODULE OAuth2Proofs ------------------------------
(***************************************************************************)
(* What OAuth2 promises of codes and connections holds for any number of   *)
(* concurrent requests and any scopes.                                     *)
(***************************************************************************)
EXTENDS OAuth2, TLAPS

Authorizing == {"authorizing", "extending", "issuing", "scoping"}
Redeeming == {"redeeming", "connecting"}

\* What a request does fits the stage it is at, and what it presents fits that.
Staged ==
  \A r \in Requests :
    /\ pc[r] = "idle" <=> op[r] = "none"
    /\ pc[r] \in Authorizing => op[r] = "authorize"
    /\ pc[r] \in Redeeming => op[r] = "redeem"
    /\ op[r] = "authorize" => arg[r] \in SUBSET Scopes

\* Requests that are in flight together know it.
Met ==
  \A q, r \in Requests :
    q # r /\ pc[q] \in InFlight /\ pc[r] \in InFlight => r \in peers[q]

\* Who has written the code row keeps everybody else, and the deletion of the
\* application, from it until its transaction ends.
Locked ==
  \A r \in Requests :
    pc[r] \in {"scoping", "connecting"} => lock = r /\ app # None

\* A row is made by a request that has answered, for the scopes it asked for.
Issued(x) ==
  /\ op[x.id] = "authorize" /\ pc[x.id] \in {"200", "lost"}
  /\ op[x.code] = "authorize" /\ pc[x.code] \in {"200", "lost"}
  /\ x.scopes = arg[x.code]

\* The code row and its past states that redemptions have read.
CodeHistory == ({code} \cup {seen[r] : r \in Requests}) \ {None}

\* A code is never in two rows.
RowsIssued ==
  /\ \A x \in CodeHistory : Issued(x)
  /\ \A x, y \in CodeHistory : x.code = y.code => x.id = y.id

\* A redemption has read the row of the code it presents, and its DELETE can
\* only have found that row, in this state or a later one.
Read ==
  \A r \in Requests :
    /\ pc[r] \in Redeeming \/ Redeemed(r) => seen[r] # None /\ seen[r].code = arg[r]
    /\ pc[r] = "connecting" => Found(r)
    /\ pc[r] \in Redeeming /\ Found(r) => code.code = arg[r] \/ code.code \in peers[r]

\* A row that was redeemed is gone for good, so no two redemptions share one.
Gone ==
  /\ \A r \in Requests : Redeemed(r) => ~Found(r)
  /\ \A q, r \in Requests : Redeemed(q) /\ Redeemed(r) /\ seen[q].id = seen[r].id => q = r

\* While there is a connection a code can be under way only if its request met
\* the redemption.
LateCode ==
  \A r \in Requests :
    conn # None /\ pc[r] \in {"issuing", "scoping"} => Overlap("authorize", "redeem")

Requesting == Staged /\ Met /\ Locked
Coding == RowsIssued /\ Read /\ Gone
Connecting ==
  /\ ConnectionIsWhole
  /\ conn # None => Redeemed(conn.id)
  /\ ScopesAsApproved /\ LateCode /\ CodeOrConnection

IInv == TypeOK /\ Requesting /\ Coding /\ Connecting
----------------------------------------------------------------------------
LEMMA InitIInv == Init => IInv
<1> SUFFICES ASSUME Init PROVE IInv
  OBVIOUS
<1>1. TypeOK
  BY DEF Init, TypeOK, Ops
<1>2. Requesting
  BY DEF Init, InFlight, Authorizing, Redeeming, Requesting, Staged, Met, Locked
<1>3. CodeHistory = {}
  BY DEF Init, CodeHistory
<1>4. Coding
  BY <1>3 DEF Init, Redeeming, Redeemed, Coding, RowsIssued, Read, Gone
<1>5. Connecting
  BY DEF Init, Connecting, ConnectionIsWhole, ScopesAsApproved, LateCode,
     CodeOrConnection
<1> QED BY <1>1, <1>2, <1>4, <1>5 DEF IInv
----------------------------------------------------------------------------
(* Every step keeps the invariant *)

\* A request that starts, and is not issuing a code, leaves what connections have.
LEMMA CallConnecting ==
  ASSUME IInv, NEW r \in Requests, pc[r] = "idle", pc'[r] \notin {"issuing", "scoping"},
         UNCHANGED <<app, code, conn, tokens>>,
         \A q \in Requests \ {r} : pc'[q] = pc[q] /\ op'[q] = op[q] /\ arg'[q] = arg[q],
         \A q \in Requests \ {r} : peers[q] \subseteq peers'[q]
  PROVE  Connecting'
<1>1. op[r] = "none"
  BY DEF IInv, Requesting, Staged
<1>2. \A q \in Requests : Redeemed(q) => q # r /\ Redeemed(q)'
  BY <1>1 DEF Redeemed
<1>3. Overlap("authorize", "redeem") => Overlap("authorize", "redeem")'
  <2>1. SUFFICES ASSUME NEW q \in Requests, NEW p \in peers[q],
                        op[q] = "authorize", op[p] = "redeem"
                 PROVE  Overlap("authorize", "redeem")'
    BY DEF Overlap
  <2>2. p \in Requests /\ q # r /\ p # r /\ p \in peers'[q]
    BY <1>1, <2>1 DEF IInv, TypeOK
  <2> QED BY <2>1, <2>2 DEF Overlap
<1>4. ConnectionIsWhole' /\ (conn # None => Redeemed(conn.id))'
  BY <1>2 DEF IInv, TypeOK, Connections, Connecting, ConnectionIsWhole
<1>5. ScopesAsApproved'
  <2> SUFFICES ASSUME conn # None PROVE ScopesAsApproved'
    BY DEF ScopesAsApproved
  <2>1. conn.id \in Requests /\ conn.id # r /\ Redeemed(conn.id)
    BY <1>2 DEF IInv, TypeOK, Connections, Connecting
  <2>2. arg[conn.id] \in Requests /\ arg[conn.id] # r
    <3>1. seen[conn.id] # None /\ seen[conn.id].code = arg[conn.id]
      BY <2>1 DEF IInv, Coding, Read
    <3>2. seen[conn.id] \in CodeRows /\ Issued(seen[conn.id])
      BY <2>1, <3>1 DEF IInv, TypeOK, Coding, RowsIssued, CodeHistory
    <3> QED BY <1>1, <3>1, <3>2 DEF CodeRows, Issued
  <2>3. arg'[arg'[conn.id]] = arg[arg[conn.id]]
    BY <2>1, <2>2
  <2>4. \A q \in Requests :
          op[q] = "authorize" /\ pc[q] \in {"204", "lost"} =>
            op'[q] = "authorize" /\ pc'[q] \in {"204", "lost"} /\ arg'[q] = arg[q]
    BY <1>1
  <2> QED BY <2>3, <2>4 DEF IInv, Connecting, ScopesAsApproved
<1>6. LateCode' /\ CodeOrConnection'
  BY <1>3 DEF IInv, Connecting, LateCode, CodeOrConnection
<1> QED BY <1>4, <1>5, <1>6 DEF Connecting

LEMMA AuthorizeIInv ==
  ASSUME IInv, NEW r \in Requests, NEW s \in SUBSET Scopes \ {{}}, Authorize(r, s) PROVE IInv'
<1>1. TypeOK'
  BY DEF IInv, TypeOK, InFlight, Answered, Ops, Authorize, Call
<1>2. Requesting'
  BY DEF IInv, TypeOK, Requesting, Staged, Met, Locked, InFlight, Redeeming, Authorize,
     Call
<1>3. Coding'
  BY DEF IInv, Redeeming, Coding, RowsIssued, Read, Gone, CodeHistory, Issued, Redeemed,
     Found, Authorize, Call
<1>4. Connecting'
  <2>1. pc[r] = "idle" /\ pc'[r] \notin {"issuing", "scoping"}
    BY DEF IInv, TypeOK, Authorize, Call
  <2>2. UNCHANGED <<app, code, conn, tokens>>
    BY DEF Authorize
  <2>3. \A q \in Requests \ {r} : pc'[q] = pc[q] /\ op'[q] = op[q] /\ arg'[q] = arg[q]
    BY DEF IInv, TypeOK, Authorize, Call
  <2>4. \A q \in Requests \ {r} : peers[q] \subseteq peers'[q]
    BY DEF IInv, TypeOK, Authorize, Call
  <2> QED BY <2>1, <2>2, <2>3, <2>4, CallConnecting
<1> QED BY <1>1, <1>2, <1>3, <1>4 DEF IInv

LEMMA FindConnectionIInv ==
  ASSUME IInv, NEW r \in Requests, FindConnection(r) PROVE IInv'
<1>1. TypeOK'
  BY DEF IInv, TypeOK, InFlight, FindConnection
<1>2. Requesting'
  BY DEF IInv, Requesting, Staged, Met, Locked, InFlight, Authorizing, Redeeming,
     FindConnection
<1>3. Coding'
  BY DEF IInv, Redeeming, Coding, RowsIssued, Read, Gone, CodeHistory, Issued, Redeemed,
     Found, FindConnection
<1>4. Connecting'
  BY OAuth2Assumption
  DEF IInv, Connecting, ConnectionIsWhole, ScopesAsApproved, LateCode, CodeOrConnection,
     Redeemed, Overlap, FindConnection
<1> QED BY <1>1, <1>2, <1>3, <1>4 DEF IInv

LEMMA UpdateConnectionScopesIInv ==
  ASSUME IInv, NEW r \in Requests, UpdateConnectionScopes(r) PROVE IInv'
<1>1. TypeOK'
  BY DEF IInv, TypeOK, Answered, Connections, Requesting, Staged, Authorizing,
     UpdateConnectionScopes, Answer
<1>2. Requesting'
  BY DEF IInv, TypeOK, Requesting, Staged, Met, Locked, InFlight, Authorizing,
     Redeeming, UpdateConnectionScopes, Answer
<1>3. Coding'
  BY OAuth2Assumption
  DEF IInv, TypeOK, Requesting, Staged, Authorizing, Redeeming, Coding, RowsIssued,
     Read, Gone, CodeHistory, Issued, CodeRows, Redeemed, Found, UpdateConnectionScopes,
     Answer
<1>4. Connecting'
  <2>1. op[r] = "authorize" /\ arg[r] \in SUBSET Scopes /\ pc'[r] \in {"204", "lost"}
    BY DEF IInv, Requesting, Staged, Authorizing, TypeOK, UpdateConnectionScopes, Answer
  <2>2. /\ \A q \in Requests : q # r => pc'[q] = pc[q]
        /\ op' = op /\ arg' = arg /\ peers' = peers
        /\ app' = app /\ code' = code /\ tokens' = tokens
    BY DEF IInv, TypeOK, UpdateConnectionScopes, Answer
  <2>3. CASE conn = None
    <3>1. conn' = None
      BY <2>3 DEF UpdateConnectionScopes
    <3> QED
      BY <2>2, <2>3, <3>1
      DEF IInv, Connecting, ConnectionIsWhole, ScopesAsApproved, LateCode,
         CodeOrConnection
  <2>4. CASE conn # None
    <3>1. /\ conn \in Connections
          /\ conn' = [id |-> conn.id, scopes |-> conn.scopes \cup arg[r]]
      BY <2>4 DEF IInv, TypeOK, Connections, UpdateConnectionScopes
    <3>2. conn' # None /\ conn'.id = conn.id /\ conn'.scopes = conn.scopes \cup arg[r]
      BY <2>1, <3>1, OAuth2Assumption DEF Connections
    <3>3. ConnectionIsWhole'
      BY <2>2, <2>4, <3>2 DEF IInv, Connecting, ConnectionIsWhole
    <3>4. Redeemed(conn.id)'
      BY <2>1, <2>2, <2>4, <3>1 DEF IInv, Connecting, Redeemed, Connections
    <3>5. ScopesAsApproved'
      BY <2>1, <2>2 DEF IInv, Connecting, ScopesAsApproved, UpdateConnectionScopes
    <3>6. LateCode' /\ CodeOrConnection'
      BY <2>1, <2>2, <2>4 DEF IInv, Connecting, LateCode, CodeOrConnection, Overlap
    <3> QED BY <3>3, <3>4, <3>5, <3>6 DEF Connecting
  <2> QED BY <2>3, <2>4
<1> QED BY <1>1, <1>2, <1>3, <1>4 DEF IInv

LEMMA SetAuthorizationCodeIInv ==
  ASSUME IInv, NEW r \in Requests, SetAuthorizationCode(r) PROVE IInv'
<1>1. TypeOK'
  BY DEF IInv, TypeOK, InFlight, SetAuthorizationCode
<1>2. Requesting'
  BY OAuth2Assumption
  DEF IInv, Requesting, Staged, Met, Locked, InFlight, Authorizing, Redeeming,
     SetAuthorizationCode
<1>3. Coding'
  BY DEF IInv, Redeeming, Coding, RowsIssued, Read, Gone, CodeHistory, Issued, Redeemed,
     Found, SetAuthorizationCode
<1>4. Connecting'
  BY DEF IInv, Connecting, ConnectionIsWhole, ScopesAsApproved, LateCode,
     CodeOrConnection, Redeemed, Overlap, SetAuthorizationCode
<1> QED BY <1>1, <1>2, <1>3, <1>4 DEF IInv

LEMMA IssueCodeIInv ==
  ASSUME IInv, NEW r \in Requests, IssueCode(r) PROVE IInv'
<1>1. TypeOK'
  BY DEF IInv, TypeOK, Answered, CodeRows, Requesting, Staged, Authorizing, IssueCode,
     Answer
<1>2. Requesting'
  BY DEF IInv, TypeOK, Requesting, Staged, Met, Locked, InFlight, Authorizing,
     Redeeming, IssueCode, Answer
<1>3. Coding'
  BY OAuth2Assumption
  DEF IInv, TypeOK, Requesting, Staged, Met, Locked, InFlight, Authorizing, Redeeming,
     Coding, RowsIssued, Read, Gone, CodeHistory, Issued, CodeRows, Redeemed, Found,
     IssueCode, Answer
<1>4. Connecting'
  <2>1. /\ op[r] = "authorize" /\ app # None
        /\ op' = op /\ arg' = arg /\ peers' = peers
        /\ app' = app /\ conn' = conn /\ tokens' = tokens
        /\ pc'[r] \in {"200", "lost"} /\ \A q \in Requests : q # r => pc'[q] = pc[q]
    BY DEF IInv, Requesting, Staged, Authorizing, Locked, TypeOK, IssueCode, Answer
  <2>2. ConnectionIsWhole'
    BY <2>1 DEF IInv, Connecting, ConnectionIsWhole
  <2>3. conn # None => Redeemed(conn.id)'
    BY <2>1 DEF IInv, Connecting, Redeemed, TypeOK, Connections
  <2>4. ScopesAsApproved'
    BY <2>1 DEF IInv, Connecting, ScopesAsApproved, IssueCode
  <2>5. LateCode' /\ CodeOrConnection'
    BY <2>1 DEF IInv, Connecting, LateCode, CodeOrConnection, Overlap, IssueCode
  <2> QED BY <2>1, <2>2, <2>3, <2>4, <2>5 DEF Connecting
<1> QED BY <1>1, <1>2, <1>3, <1>4 DEF IInv

LEMMA RedeemIInv ==
  ASSUME IInv, NEW r \in Requests, NEW c \in Codes, Redeem(r, c) PROVE IInv'
<1>1. TypeOK'
  BY DEF IInv, TypeOK, InFlight, Answered, Ops, Redeem, Call, Codes
<1>2. Requesting'
  BY DEF IInv, TypeOK, Requesting, Staged, Met, Locked, InFlight, Authorizing, Redeem,
     Call
<1>3. Coding'
  BY DEF IInv, TypeOK, Redeeming, Coding, RowsIssued, Read, Gone, CodeHistory, Issued,
     Redeemed, Found, Redeem, Stored, Call
<1>4. Connecting'
  <2>1. pc[r] = "idle" /\ pc'[r] \notin {"issuing", "scoping"}
    BY DEF IInv, TypeOK, Redeem, Call
  <2>2. UNCHANGED <<app, code, conn, tokens>>
    BY DEF Redeem
  <2>3. \A q \in Requests \ {r} : pc'[q] = pc[q] /\ op'[q] = op[q] /\ arg'[q] = arg[q]
    BY DEF IInv, TypeOK, Redeem, Call
  <2>4. \A q \in Requests \ {r} : peers[q] \subseteq peers'[q]
    BY DEF IInv, TypeOK, Redeem, Call
  <2> QED BY <2>1, <2>2, <2>3, <2>4, CallConnecting
<1> QED BY <1>1, <1>2, <1>3, <1>4 DEF IInv

LEMMA DeleteCodeIInv ==
  ASSUME IInv, NEW r \in Requests, DeleteCode(r) PROVE IInv'
<1>1. TypeOK'
  BY DEF IInv, TypeOK, InFlight, DeleteCode
<1>2. Requesting'
  BY OAuth2Assumption
  DEF IInv, Requesting, Staged, Met, Locked, InFlight, Authorizing, Redeeming, Found,
     Connecting, ConnectionIsWhole, DeleteCode
<1>3. Coding'
  BY DEF IInv, Redeeming, Coding, RowsIssued, Read, Gone, CodeHistory, Issued, Redeemed,
     Found, DeleteCode
<1>4. Connecting'
  BY DEF IInv, Connecting, ConnectionIsWhole, ScopesAsApproved, LateCode,
     CodeOrConnection, Redeemed, Overlap, DeleteCode
<1> QED BY <1>1, <1>2, <1>3, <1>4 DEF IInv

LEMMA CreateConnectionIInv ==
  ASSUME IInv, NEW r \in Requests, CreateConnection(r) PROVE IInv'
<1>1. TypeOK'
  BY DEF IInv, TypeOK, Answered, CodeRows, Connections, Redeeming, Coding, Read,
     CreateConnection, Answer
<1>2. Requesting'
  BY DEF IInv, TypeOK, Requesting, Staged, Met, Locked, InFlight, Authorizing,
     Redeeming, CreateConnection, Answer
<1>3. Coding'
  <2>1. /\ op[r] = "redeem" /\ Found(r) /\ code' = None
        /\ op' = op /\ arg' = arg /\ seen' = seen /\ peers' = peers
        /\ pc'[r] \in {"200", "lost"} /\ \A q \in Requests : q # r => pc'[q] = pc[q]
    BY DEF IInv, Requesting, Staged, Redeeming, Coding, Read, TypeOK, CreateConnection,
       Answer
  <2>2. RowsIssued'
    <3>1. CodeHistory' \subseteq CodeHistory
      BY <2>1 DEF CodeHistory
    <3>2. ASSUME NEW x \in CodeHistory PROVE Issued(x)'
      BY <2>1 DEF IInv, TypeOK, Coding, RowsIssued, CodeHistory, Issued, CodeRows
    <3> QED BY <3>1, <3>2 DEF IInv, Coding, RowsIssued
  <2>3. Read'
    <3>1. \A q \in Requests : pc'[q] # "connecting"
      BY <2>1 DEF IInv, Requesting, Locked, CreateConnection
    <3> QED
      BY <2>1, <3>1 DEF IInv, Coding, Read, Redeeming, Redeemed, Found, CreateConnection
  <2>4. Gone'
    BY <2>1 DEF IInv, Coding, Gone, Redeemed, Found
  <2> QED BY <2>2, <2>3, <2>4 DEF Coding
<1>4. Connecting'
  BY OAuth2Assumption
  DEF IInv, TypeOK, Requesting, Staged, Met, Locked, InFlight, Authorizing, Redeeming,
     Coding, RowsIssued, Read, Connecting, ConnectionIsWhole, ScopesAsApproved,
     LateCode, CodeOrConnection, CodeHistory, Issued, CodeRows, Redeemed, Overlap,
     Connections, CreateConnection, Answer
<1> QED BY <1>1, <1>2, <1>3, <1>4 DEF IInv

LEMMA DeleteConnectionIInv ==
  ASSUME IInv, NEW r \in Requests, NEW id \in ConnectionIds, DeleteConnection(r, id)
  PROVE  IInv'
<1>1. TypeOK'
  BY DEF IInv, TypeOK, Answered, Ops, DeleteConnection, Call, DeleteConnectionTrigger
<1>2. Requesting'
  BY DEF IInv, TypeOK, Requesting, Staged, Met, Locked, Authorizing, Redeeming,
     DeleteConnection, Call
<1>3. Coding'
  BY DEF IInv, Requesting, Staged, Redeeming, Coding, RowsIssued, Read, Gone,
     CodeHistory, Issued, Redeemed, Found, DeleteConnection, Call
<1>4. Connecting'
  BY DEF IInv, Connecting, ConnectionIsWhole, ScopesAsApproved, LateCode,
     CodeOrConnection, DeleteConnection, DeleteConnectionTrigger
<1> QED BY <1>1, <1>2, <1>3, <1>4 DEF IInv

LEMMA MissConnectionIInv ==
  ASSUME IInv, NEW r \in Requests, NEW id \in ConnectionIds, MissConnection(r, id) PROVE IInv'
<1>1. TypeOK'
  BY DEF IInv, TypeOK, Answered, Ops, MissConnection, Call, ConnectionIds
<1>2. Requesting'
  BY DEF IInv, TypeOK, Requesting, Staged, Met, Locked, InFlight, Authorizing,
     Redeeming, MissConnection, Call
<1>3. Coding'
  BY DEF IInv, Redeeming, Coding, RowsIssued, Read, Gone, CodeHistory, Issued, Redeemed,
     Found, MissConnection, Call
<1>4. Connecting'
  BY CallConnecting DEF IInv, TypeOK, MissConnection, Call
<1> QED BY <1>1, <1>2, <1>3, <1>4 DEF IInv

LEMMA DropConnectionIInv ==
  ASSUME IInv, NEW r \in Requests, DropConnection(r) PROVE IInv'
<1>1. TypeOK'
  BY DEF IInv, TypeOK, Answered, Ops, Connections, DropConnection, Call
<1>2. Requesting'
  BY DEF IInv, TypeOK, Requesting, Staged, Met, Locked, Authorizing, Redeeming,
     DropConnection, Call
<1>3. Coding'
  BY DEF IInv, Redeeming, Coding, RowsIssued, Read, Gone, CodeHistory, Issued, Redeemed,
     Found, DropConnection, Call
<1>4. Connecting'
  BY DEF IInv, Connecting, ConnectionIsWhole, ScopesAsApproved, LateCode,
     CodeOrConnection, DropConnection
<1> QED BY <1>1, <1>2, <1>3, <1>4 DEF IInv

LEMMA ChangeAppScopesIInv ==
  ASSUME IInv, NEW s \in Scopes, ChangeAppScopes(s) PROVE IInv'
<1>1. TypeOK'
  BY DEF IInv, TypeOK, ChangeAppScopes
<1>2. Requesting'
  BY OAuth2Assumption DEF IInv, TypeOK, Requesting, Staged, Met, Locked, ChangeAppScopes
<1>3. Coding'
  BY DEF IInv, Coding, RowsIssued, Read, Gone, CodeHistory, Issued, Redeemed, Found,
     ChangeAppScopes
<1>4. Connecting'
  BY OAuth2Assumption
  DEF IInv, TypeOK, Connecting, ConnectionIsWhole, ScopesAsApproved, LateCode,
     CodeOrConnection, Redeemed, Overlap, ChangeAppScopes
<1> QED BY <1>1, <1>2, <1>3, <1>4 DEF IInv

LEMMA DeleteAppIInv ==
  ASSUME IInv, DeleteApp PROVE IInv'
<1>1. TypeOK'
  BY DEF IInv, TypeOK, DeleteApp
<1>2. Requesting'
  BY OAuth2Assumption DEF IInv, Requesting, Staged, Met, Locked, DeleteApp
<1>3. Coding'
  BY OAuth2Assumption
  DEF IInv, Requesting, Locked, Coding, RowsIssued, Read, Gone, CodeHistory, Issued,
     Redeemed, Found, DeleteApp
<1>4. Connecting'
  BY DEF IInv, Connecting, ConnectionIsWhole, ScopesAsApproved, LateCode,
     CodeOrConnection, DeleteApp
<1> QED BY <1>1, <1>2, <1>3, <1>4 DEF IInv

LEMMA ExpireIInv ==
  ASSUME IInv, Expire PROVE IInv'
<1>1. TypeOK'
  BY DEF IInv, TypeOK, CodeRows, Expire
<1>2. Requesting'
  BY DEF IInv, Requesting, Staged, Met, Locked, Expire
<1>3. Coding'
  BY DEF IInv, Coding, RowsIssued, Read, Gone, CodeHistory, Issued, Redeemed, Found,
     Expire
<1>4. Connecting'
  BY DEF IInv, Connecting, ConnectionIsWhole, ScopesAsApproved, LateCode,
     CodeOrConnection, Redeemed, Overlap, Expire
<1> QED BY <1>1, <1>2, <1>3, <1>4 DEF IInv

LEMMA RollBackIInv ==
  ASSUME IInv, NEW r \in Requests, NEW status \in {"500", "error"}, pc[r] \in InFlight,
         RollBack(r, status)
  PROVE  IInv'
<1>1. TypeOK'
  BY DEF IInv, TypeOK, Answered, RollBack
<1>2. Requesting'
  BY DEF IInv, TypeOK, Requesting, Staged, Met, Locked, InFlight, Authorizing,
     Redeeming, RollBack
<1>3. Coding'
  BY DEF IInv, InFlight, Redeeming, Coding, RowsIssued, Read, Gone, CodeHistory, Issued,
     Redeemed, Found, RollBack
<1>4. Connecting'
  BY DEF IInv, InFlight, Connecting, ConnectionIsWhole, ScopesAsApproved, LateCode,
     CodeOrConnection, Redeemed, Overlap, RollBack
<1> QED BY <1>1, <1>2, <1>3, <1>4 DEF IInv

LEMMA NextIInv == IInv /\ [Next]_vars => IInv'
<1> SUFFICES ASSUME IInv, [Next]_vars PROVE IInv'
  OBVIOUS
<1>1. ASSUME NEW r \in Requests,
             \/ \E s \in SUBSET Scopes \ {{}} : Authorize(r, s)
             \/ FindConnection(r) \/ UpdateConnectionScopes(r)
             \/ SetAuthorizationCode(r) \/ IssueCode(r)
      PROVE  IInv'
  BY <1>1, AuthorizeIInv, FindConnectionIInv, UpdateConnectionScopesIInv,
     SetAuthorizationCodeIInv, IssueCodeIInv
<1>2. ASSUME NEW r \in Requests,
             \/ \E c \in Codes : Redeem(r, c)
             \/ DeleteCode(r) \/ CreateConnection(r)
      PROVE  IInv'
  BY <1>2, RedeemIInv, DeleteCodeIInv, CreateConnectionIInv
<1>3. ASSUME NEW r \in Requests,
             RefuseScopes(r) \/ MissCode(r) \/ ConnectionTaken(r) \/ Fail(r)
      PROVE  IInv'
  <2>1. pc[r] \in InFlight /\ \E status \in {"500", "error"} : RollBack(r, status)
    BY <1>3 DEF RefuseScopes, MissCode, ConnectionTaken, Fail, InFlight
  <2> QED BY <2>1, RollBackIInv
<1>4. ASSUME NEW r \in Requests,
             \/ \E id \in ConnectionIds : DeleteConnection(r, id) \/ MissConnection(r, id)
             \/ DropConnection(r)
      PROVE  IInv'
  BY <1>4, DeleteConnectionIInv, MissConnectionIInv, DropConnectionIInv
<1>5. CASE (\E s \in Scopes : ChangeAppScopes(s)) \/ DeleteApp \/ Expire
  BY <1>5, ChangeAppScopesIInv, DeleteAppIInv, ExpireIInv
<1>6. CASE UNCHANGED vars
  <2>1. TypeOK' /\ Requesting'
    BY <1>6 DEF vars, IInv, TypeOK, Requesting, Staged, Met, Locked
  <2>2. Coding'
    BY <1>6
    DEF vars, IInv, Coding, RowsIssued, CodeHistory, Issued, Read, Found, Gone, Redeemed
  <2>3. Connecting'
    BY <1>6
    DEF vars, IInv, Connecting, ConnectionIsWhole, Redeemed, ScopesAsApproved, LateCode,
       CodeOrConnection, Overlap
  <2> QED BY <2>1, <2>2, <2>3 DEF IInv
<1> QED BY <1>1, <1>2, <1>3, <1>4, <1>5, <1>6 DEF Next, Quiescent

LEMMA SpecIInv == Spec => []IInv
BY InitIInv, NextIInv, PTL DEF Spec
----------------------------------------------------------------------------
\* The variables keep their types.
THEOREM TypeCorrect == Spec => []TypeOK
<1>1. IInv => TypeOK
  BY DEF IInv
<1> QED BY <1>1, SpecIInv, PTL

\* A connection has exactly one refresh token, and neither it nor a code
\* outlives the application.
THEOREM ConnectionsAreWhole == Spec => []ConnectionIsWhole
<1>1. IInv => ConnectionIsWhole
  BY DEF IInv, Connecting
<1> QED BY <1>1, SpecIInv, PTL

\* However many redemptions race, one code makes one connection, with the
\* scopes the user approved.
THEOREM CodesBecomeConnections == Spec => []CodeBecomesConnection
<1>1. ASSUME IInv PROVE CodeRedeemedOnce
  <2> SUFFICES ASSUME NEW q \in Requests, NEW r \in Requests,
                      Redeemed(q), Redeemed(r), arg[q] = arg[r]
               PROVE  q = r
    BY DEF CodeRedeemedOnce
  <2>1. seen[q] # None /\ seen[r] # None /\ seen[q].code = seen[r].code
    BY <1>1 DEF IInv, Coding, Read
  <2>2. seen[q].id = seen[r].id
    BY <1>1, <2>1 DEF IInv, Coding, RowsIssued, CodeHistory
  <2> QED BY <1>1, <2>2 DEF IInv, Coding, Gone
<1>2. IInv => ScopesAsApproved
  BY DEF IInv, Connecting
<1> QED BY <1>1, <1>2, SpecIInv, PTL DEF CodeBecomesConnection

\* A code is there beside a connection only if the user authorized while an
\* earlier code of his was being redeemed.
THEOREM CodesOrConnection == Spec => []CodeOrConnection
<1>1. IInv => CodeOrConnection
  BY DEF IInv, Connecting
<1> QED BY <1>1, SpecIInv, PTL

\* A code leaves the table only with its application, with its redemption, or
\* with one that was under way when it was issued.
THEOREM CodesLostOnlyByRace == Spec => CodeLostOnlyByRace
<1> DEFINE Step ==
      code # None /\ code' = None /\ app' # None =>
        \E r \in Requests :
          /\ pc[r] = "connecting" /\ pc'[r] \in {"200", "lost"}
          /\ arg[r] = code.code \/ code.code \in peers[r]
<1>1. ASSUME IInv, [Next]_vars PROVE [Step]_vars
  <2> SUFFICES ASSUME code # None, code' = None, app' # None PROVE Step
    OBVIOUS
  <2>1. PICK r \in Requests : CreateConnection(r) \/ IssueCode(r)
    BY <1>1
    DEF Next, Authorize, FindConnection, UpdateConnectionScopes, SetAuthorizationCode,
       RefuseScopes, Redeem, DeleteCode, MissCode, ConnectionTaken, DeleteConnection,
       MissConnection, DropConnection, Fail, RollBack, ChangeAppScopes, DeleteApp,
       Expire, Quiescent, vars
  <2>2. ~IssueCode(r)
    <3> SUFFICES ASSUME IssueCode(r) PROVE FALSE
      OBVIOUS
    <3>1. arg[r] \in SUBSET Scopes
      BY <1>1 DEF IInv, Requesting, Staged, Authorizing, IssueCode
    <3>2. code' \in CodeRows
      BY <1>1, <3>1 DEF IInv, TypeOK, CodeRows, IssueCode
    <3> QED BY <3>2, OAuth2Assumption
  <2>3. pc[r] = "connecting" /\ pc'[r] \in {"200", "lost"}
    BY <1>1, <2>1, <2>2 DEF IInv, TypeOK, CreateConnection, Answer
  <2>4. arg[r] = code.code \/ code.code \in peers[r]
    BY <1>1, <2>3 DEF IInv, Coding, Read, Redeeming
  <2> QED BY <2>3, <2>4
<1> QED BY <1>1, SpecIInv, PTL DEF Spec, CodeLostOnlyByRace
=================================================================================

----------------------------- MODULE AccountsProofs -----------------------------
(***************************************************************************)
(* Proofs about Accounts, for any requests and addresses: type             *)
(* correctness, that a verified address was proved by its mailbox, that a  *)
(* change code works once, and who is to blame for a 500.                  *)
(***************************************************************************)
EXTENDS Accounts, TLAPS

Senders == {"sign_up", "resend", "recover", "change"}

\* A request that left a trace is in flight or answered, and carries what its route
\* takes; a code that is presented has been mailed, and a user has signed up.
Staged ==
  /\ pc[Before] = "done" /\ op[Before] \in {"sign_up", "verify"}
  /\ \A r \in Requests :
       /\ pc[r] = "idle" => peers[r] = {}
       /\ pc[r] = "idle" <=> op[r] = "none"
       /\ pc[r] \in {"sending", "committing"} => op[r] \in Senders
       /\ pc[r] = "writing" => op[r] \in {"verify", "verify_change", "password"}
       /\ op[r] \in Senders => arg[r] \in Emails
       /\ op[r] \in {"verify", "verify_change", "confirm"} => arg[r] \in mailed
       /\ op[r] = "verify_change" => op[arg[r]] = "change"
       /\ op[r] = "password" => arg[r] \in Tokens
       /\ op[r] \in {"change", "verify_change", "password"} => who[r] \in Accounts
  /\ \A t \in mailed :
       /\ pc[t] \notin {"idle", "sending"} /\ arg[t] \in Emails
       /\ op[t] \in Senders \/ t = Before
  /\ \A u \in Accounts : u = Before \/ (op[u] = "sign_up" /\ pc[u] = "done")

\* Requests in flight at the same time know of each other.
Meeting == \A q, r \in Requests :
  q # r /\ pc[q] \in InFlight /\ pc[r] \in InFlight => q \in peers[r]

\* The locks exclude each other, and a sign-up has its address to itself.
Locked ==
  /\ \A r \in Requests :
       /\ held[r] # None <=> pc[r] = "committing"
       /\ pc[r] = "committing" =>
            CASE op[r] = "sign_up" -> held[r] = arg[r] /\ With(arg[r]) = {}
              [] op[r] = "change"  -> held[r] = who[r]
              [] OTHER             -> held[r] \in Accounts
  /\ \A q, r \in Requests : held[q] = held[r] /\ held[r] # None => q = r

\* A code stands for the change it was made for.
Coded ==
  \A u \in Accounts :
    LET c == users[u].code IN
    IF c = None
    THEN users[u].change = None
    ELSE /\ c \in Requests /\ op[c] = "change" /\ pc[c] = "done" /\ who[c] = u
         /\ users[u].change = arg[c]

\* A code that was accepted is still the user's, or has been used by a request that
\* was in flight at the same time; or the user asked for another change meanwhile.
Presented ==
  \A r \in Requests : op[r] = "verify_change" /\ pc[r] \in {"writing", "done"} =>
    LET u == who[r] IN
    /\ pc[arg[r]] = "done" /\ who[arg[r]] = u
    /\ pc[r] = "done" => users[u].code # arg[r]
    /\ pc[r] = "writing" =>
         \/ users[u].code = arg[r]
         \/ /\ users[u].code = None
            /\ \E q \in Requests :
                 op[q] = "verify_change" /\ pc[q] = "done" /\ arg[q] = arg[r]
         \/ Overlap("change", "verify_change")
    /\ \A q \in Requests \ {r} :
         op[q] = "verify_change" /\ pc[q] = "done" /\ arg[q] = arg[r] =>
           q \in peers[r] /\ r \in peers[q]

\* Address e was signed up with, or changed to.
Got(e) ==
  \E q \in Requests :
    /\ pc[q] = "done"
    /\ \/ op[q] = "sign_up" /\ arg[q] = e
       \/ op[q] = "verify_change" /\ arg[arg[q]] = e

\* An address that was free when a user asked for it was taken since, if at all.
FreeBefore ==
  \A c \in Requests : op[c] = "change" /\ pc[c] \in {"sending", "committing", "done"} =>
    \/ With(arg[c]) = {}
    \/ Got(arg[c])
    \/ Overlap("change", "verify_change")

Moved(r) == \E q \in peers[r] : op[q] = "verify_change" /\ pc[q] = "done"

\* What a request found when it started has only been changed by those it met.
Found ==
  \A r \in Requests :
    /\ op[r] = "sign_up" /\ pc[r] = "sending" =>
         With(arg[r]) = {} \/ \E q \in peers[r] : Took(q, arg[r])
    /\ op[r] \in {"resend", "recover"} /\ pc[r] = "sending" => With(arg[r]) # {} \/ Moved(r)
    /\ op[r] = "verify" /\ pc[r] = "writing" => With(arg[arg[r]]) # {} \/ Moved(r)

\* No two users have the same address.
Unique == \A u, v \in Accounts : users[u].email = users[v].email => u = v

IInv == /\ TypeOK /\ Staged /\ Meeting /\ Locked /\ Unique
        /\ Coded /\ Presented /\ FreeBefore /\ Found
        /\ VerifiedByItsMailbox /\ UnexpectedOnlyByRace
----------------------------------------------------------------------------
(* What is once so stays so *)

\* What every step does to the requests that have started, and to the history.
Onward ==
  /\ \A q \in Tokens : pc[q] # "idle" =>
       op'[q] = op[q] /\ who'[q] = who[q] /\ arg'[q] = arg[q]
  /\ \A q \in Tokens : pc[q] \in Answered => pc'[q] = pc[q]
  /\ \A q \in Requests : peers[q] \subseteq peers'[q]

LEMMA Persistent ==
  ASSUME IInv, Onward
  PROVE  /\ \A o1, o2 \in Ops \ {"none"} : Overlap(o1, o2) => Overlap(o1, o2)'
         /\ \A e \in Emails : Got(e) => Got(e)'
         /\ \A r \in Requests : Moved(r) => Moved(r)'
         /\ \A r \in Tokens, e \in Emails : Proves(r, e) => Proves(r, e)'
         /\ \A q \in Requests, e \in Emails : Took(q, e) => Took(q, e)'
         /\ \A r \in Requests : pc[r] # "idle" /\ Excused(r) => Excused(r)'
<1>1. \A q \in Tokens : op[q] # "none" => pc[q] # "idle"
  BY AccountsAssumption DEF IInv, Staged, Tokens
<1>2. \A q \in Requests : op[q] \in {"verify", "verify_change"} =>
        arg[q] \in Tokens /\ pc[arg[q]] # "idle"
  BY DEF IInv, TypeOK, Staged
<1>3. \A q \in Requests : peers[q] \subseteq Requests /\ q \in Tokens
  BY DEF IInv, TypeOK, Tokens
<1>4. \A o1, o2 \in Ops \ {"none"} : Overlap(o1, o2) => Overlap(o1, o2)'
  BY <1>1, <1>3 DEF Onward, Overlap
<1>5. \A e \in Emails : Got(e) => Got(e)'
  BY <1>1, <1>2, <1>3 DEF Onward, Got, Answered
<1>6. \A r \in Requests : Moved(r) => Moved(r)'
  BY <1>1, <1>3 DEF Onward, Moved, Answered
<1>7. \A r \in Tokens, e \in Emails : Proves(r, e) => Proves(r, e)'
  BY <1>1, <1>2, <1>3, AccountsAssumption DEF Onward, Proves, Answered, Tokens
<1>8. \A q \in Requests, e \in Emails : Took(q, e) => Took(q, e)'
  BY <1>1, <1>2, <1>3, <1>4 DEF Onward, Took, Answered, Ops
<1>9. ASSUME NEW r \in Requests, pc[r] # "idle", Excused(r) PROVE Excused(r)'
  <2>1. op'[r] = op[r] /\ arg'[r] = arg[r] /\ peers[r] \subseteq peers'[r]
    BY <1>3, <1>9 DEF Onward
  <2>2. CASE op[r] = "sign_up"
    <3>1. PICK e \in Emails : e = arg[r]
      BY <2>2 DEF IInv, Staged, Senders
    <3>2. PICK q \in peers[r] : Took(q, e)
      BY <1>9, <2>2, <3>1 DEF Excused
    <3>3. q \in peers'[r] /\ Took(q, e)'
      BY <1>3, <1>8, <2>1, <3>1, <3>2
    <3>4. Took(q, arg[r])'
      BY <2>1, <3>1, <3>3 DEF Took
    <3> QED
      BY <2>1, <2>2, <3>3, <3>4 DEF Excused
  <2>3. CASE op[r] = "verify_change"
    <3>1. /\ arg[r] \in Tokens /\ arg[arg[r]] \in Emails
          /\ arg'[arg'[r]] = arg[arg[r]]
      BY <1>2, <2>1, <2>3 DEF IInv, Staged, Onward
    <3>2. CASE Overlap("change", "verify_change")
      BY <1>4, <2>1, <2>3, <3>2 DEF Excused, Ops
    <3>3. CASE \E q \in Requests \ {r} : Took(q, arg[arg[r]])
      BY <1>8, <2>1, <2>3, <3>1, <3>3 DEF Excused, Took
    <3> QED
      BY <1>9, <2>3, <3>2, <3>3 DEF Excused
  <2>4. CASE op[r] = "confirm"
    BY <2>1, <2>4 DEF Excused
  <2>5. CASE op[r] \notin {"sign_up", "verify_change", "confirm"}
    BY <1>6, <1>9, <2>1, <2>5 DEF Excused, Moved
  <2> QED
    BY <2>2, <2>3, <2>4, <2>5
<1> QED
  BY <1>4, <1>5, <1>6, <1>7, <1>8, <1>9
----------------------------------------------------------------------------
(* A request starts *)

LEMMA CallIInv ==
  ASSUME IInv, NEW r \in Requests, NEW o \in Ops \ {"none"}, NEW u \in Tokens \cup {None},
         NEW a \in Tokens \cup Emails,
         NEW status \in {"sending", "writing", "400", "403", "404", "500", "redirect"},
         Call(r, o, u, a, status),
         status = "sending" => o \in Senders,
         status = "writing" => o \in {"verify", "verify_change", "password"},
         status = "500" => o = "confirm",
         o \in Senders => a \in Emails,
         o \in {"verify", "verify_change", "confirm"} => a \in mailed,
         o \in {"change", "verify_change", "password"} => u \in Accounts,
         o \in {"sign_up", "change"} /\ status = "sending" => With(a) = {},
         o \in {"resend", "recover"} /\ status = "sending" => With(a) # {},
         o = "verify" /\ status = "writing" => With(arg[a]) # {},
         o = "verify_change" => op[a] = "change",
         o = "password" => a \in Tokens,
         o = "verify_change" /\ status = "writing" => users[u].code = a
  PROVE  IInv'
<1>1. /\ pc[r] = "idle" /\ op[r] = "none" /\ peers[r] = {} /\ r \in Tokens /\ r # Before
      /\ pc' = [pc EXCEPT ![r] = status] /\ op' = [op EXCEPT ![r] = o]
      /\ who' = [who EXCEPT ![r] = u] /\ arg' = [arg EXCEPT ![r] = a]
      /\ UNCHANGED <<users, held, mailed, expired>>
  BY AccountsAssumption DEF IInv, Staged, Call, Tokens
<1>2. /\ peers' \in [Requests -> SUBSET Requests]
      /\ status \notin InFlight => peers' = peers
      /\ status \in InFlight => \A q \in Requests : peers'[q] =
           IF q = r THEN {p \in Requests : pc[p] \in InFlight}
           ELSE IF pc[q] \in InFlight THEN peers[q] \cup {r} ELSE peers[q]
  <2>1. peers \in [Requests -> SUBSET Requests]
    BY DEF IInv, TypeOK
  <2>2. CASE status \notin InFlight
    BY <2>1, <2>2 DEF Call
  <2>3. CASE status \in InFlight
    <3>1. peers' = [q \in Requests |->
            IF q = r THEN {p \in Requests : pc[p] \in InFlight}
            ELSE IF q \in {p \in Requests : pc[p] \in InFlight}
                 THEN peers[q] \cup {r} ELSE peers[q]]
      BY <2>3 DEF Call
    <3> QED
      BY <2>1, <2>3, <3>1
  <2> QED
    BY <2>2, <2>3
<1>3. /\ pc'[r] = status /\ op'[r] = o /\ who'[r] = u /\ arg'[r] = a
      /\ \A q \in Tokens \ {r} :
           pc'[q] = pc[q] /\ op'[q] = op[q] /\ who'[q] = who[q] /\ arg'[q] = arg[q]
      /\ \A q \in Requests : peers[q] \subseteq peers'[q] /\ peers'[q] \subseteq Requests
      /\ \A q \in Requests : q \in Tokens
  BY <1>1, <1>2 DEF IInv, TypeOK, Tokens
<1>4. Onward
  BY <1>1, <1>3 DEF Onward, Answered
<1>5. /\ Accounts' = Accounts /\ \A e : With(e)' = With(e)
      /\ \A t \in mailed \cup Accounts : t \in Tokens /\ t # r
  BY <1>1 DEF Accounts, With, IInv, Staged, TypeOK
<1>6. TypeOK'
  BY <1>1, <1>2 DEF IInv, TypeOK, InFlight, Answered
<1>7. Staged'
  BY <1>1, <1>2, <1>3, <1>5 DEF IInv, TypeOK, Staged, Senders, InFlight
<1>8. Meeting'
  BY <1>1, <1>2, <1>3 DEF IInv, Meeting
<1>9. Locked'
  BY <1>1, <1>3, <1>5 DEF IInv, Locked
<1>10. Unique'
  BY <1>1, <1>5 DEF IInv, Unique
<1>11. Coded'
  BY <1>1, <1>3, <1>5 DEF IInv, Coded
<1>12. Presented'
  <2>1. Overlap("change", "verify_change") => Overlap("change", "verify_change")'
    BY <1>4, Persistent DEF Ops
  <2>2. \A q \in Requests : op[q] = "verify_change" => arg[q] \in Tokens \ {r}
    BY <1>5 DEF IInv, Staged
  <2>3. ASSUME o = "verify_change", status = "writing"
        PROVE  /\ a \in Tokens \ {r} /\ pc[a] = "done" /\ who[a] = u /\ users[u].code = a
               /\ \A q \in Requests :
                    ~(op[q] = "verify_change" /\ pc[q] = "done" /\ arg[q] = a)
    <3>1. users[u].code = a /\ a \in Tokens /\ u \in Accounts
      BY <1>5, <2>3
    <3>2. pc[a] = "done" /\ who[a] = u
      BY <3>1, AccountsAssumption DEF IInv, Coded
    <3> QED
      BY <1>5, <2>3, <3>1, <3>2 DEF IInv, Presented
  <2> QED
    BY <1>1, <1>3, <2>1, <2>2, <2>3 DEF IInv, Presented
<1>13. FreeBefore'
  BY <1>1, <1>3, <1>4, <1>5, Persistent DEF IInv, FreeBefore, Staged, Senders, Ops
<1>14. Found'
  BY <1>1, <1>3, <1>4, <1>5, Persistent DEF IInv, Found, Staged, Senders, Answered
<1>15. VerifiedByItsMailbox'
  <2>1. SignedIn' = SignedIn /\ \A v \in Accounts : users[v].email \in Emails
    BY <1>1, <1>5 DEF IInv, TypeOK, Rows, SignedIn, Accounts
  <2> QED
    BY <1>1, <1>4, <2>1, Persistent DEF IInv, VerifiedByItsMailbox, SignedIn, Ops
<1>16. UnexpectedOnlyByRace'
  <2>1. status = "500" => Excused(r)'
    BY <1>3 DEF Excused
  <2> QED
    BY <1>1, <1>3, <1>4, <2>1, Persistent DEF IInv, UnexpectedOnlyByRace
<1> QED
  BY <1>6, <1>7, <1>8, <1>9, <1>10, <1>11, <1>12, <1>13, <1>14, <1>15, <1>16 DEF IInv
----------------------------------------------------------------------------
(* A request goes on *)

\* What r becomes, and that nothing else about the requests changes.
Moves(r, status) ==
  /\ pc' = [pc EXCEPT ![r] = status]
  /\ UNCHANGED <<op, who, arg, peers>>

LEMMA MovesFacts ==
  ASSUME IInv, NEW r \in Requests, NEW status \in InFlight \cup Answered,
         pc[r] \in InFlight, Moves(r, status)
  PROVE  /\ Onward /\ r \in Tokens /\ pc[r] # "idle" /\ r # Before
         /\ pc'[r] = status /\ \A q \in Tokens \ {r} : pc'[q] = pc[q]
         /\ \A q \in Requests : q \in Tokens /\ peers[q] \subseteq Requests
         /\ pc' \in [Tokens -> {"idle"} \cup InFlight \cup Answered]
<1>1. /\ r \in Tokens /\ pc[r] # "idle" /\ r # Before /\ pc[r] \notin Answered
      /\ pc'[r] = status /\ \A q \in Tokens \ {r} : pc'[q] = pc[q]
      /\ \A q \in Requests : q \in Tokens /\ peers[q] \subseteq Requests
      /\ pc' \in [Tokens -> {"idle"} \cup InFlight \cup Answered]
  BY AccountsAssumption DEF IInv, TypeOK, Moves, Tokens, InFlight, Answered
<1>2. Onward
  BY <1>1 DEF Onward, Moves
<1> QED
  BY <1>1, <1>2

LEMMA SendIInv ==
  ASSUME IInv, NEW r \in Requests, NEW x \in Tokens \cup Emails, pc[r] = "sending", Send(r, x),
         op[r] = "sign_up" => x = arg[r] /\ With(arg[r]) = {},
         op[r] = "change" => x = who[r],
         op[r] \in {"resend", "recover"} => x \in Accounts
  PROVE  IInv'
<1>1. /\ Moves(r, "committing") /\ UNCHANGED <<users, expired>>
      /\ held' = [held EXCEPT ![r] = x] /\ mailed' = mailed \cup {r}
      /\ \A q \in Requests : held[q] # x
      /\ Accounts' = Accounts /\ \A e : With(e)' = With(e)
  BY DEF Send, Move, Moves, Free, Accounts, With
<1>2. /\ Onward /\ r \in Tokens /\ r # Before
      /\ pc'[r] = "committing" /\ \A q \in Tokens \ {r} : pc'[q] = pc[q]
      /\ \A q \in Requests : q \in Tokens /\ peers[q] \subseteq Requests
      /\ pc' \in [Tokens -> {"idle"} \cup InFlight \cup Answered]
  BY <1>1, MovesFacts DEF InFlight
<1>3. TypeOK'
  BY <1>1, <1>2 DEF IInv, TypeOK, Moves
<1>4. Staged'
  BY <1>1, <1>2 DEF IInv, TypeOK, Staged, Moves, Senders
<1>5. Meeting'
  BY <1>1, <1>2 DEF IInv, Meeting, Moves, InFlight
<1>6. Locked'
  <2>1. held'[r] = x /\ x # None /\ \A q \in Requests \ {r} : held'[q] = held[q] /\ held[q] # x
    BY <1>1, AccountsAssumption DEF IInv, TypeOK
  <2>2. UNCHANGED <<op, who, arg>> /\ op[r] \in Senders
    BY <1>1 DEF IInv, Staged, Moves
  <2> QED
    BY <1>1, <1>2, <2>1, <2>2 DEF IInv, Locked, Senders
<1>7. Unique' /\ Coded'
  BY <1>1, <1>2 DEF IInv, Unique, Coded, Moves
<1>8. Presented'
  BY <1>1, <1>2, Persistent DEF IInv, Presented, Staged, Moves, Senders, Ops
<1>9. FreeBefore'
  BY <1>1, <1>2, Persistent DEF IInv, FreeBefore, Staged, Moves, Senders, Ops
<1>10. Found'
  BY <1>1, <1>2, Persistent DEF IInv, Found, Staged, Moves
<1>11. VerifiedByItsMailbox'
  <2>1. SignedIn' = SignedIn /\ \A v \in Accounts : users[v].email \in Emails
    BY <1>1 DEF IInv, TypeOK, Rows, SignedIn, Accounts
  <2> QED
    BY <1>1, <1>2, <2>1, Persistent DEF IInv, VerifiedByItsMailbox, SignedIn, Ops
<1>12. UnexpectedOnlyByRace'
  BY <1>2, Persistent DEF IInv, UnexpectedOnlyByRace
<1> QED
  BY <1>3, <1>4, <1>5, <1>6, <1>7, <1>8, <1>9, <1>10, <1>11, <1>12 DEF IInv

\* A request that fails; a 500 needs an excuse.
LEMMA RollBackIInv ==
  ASSUME IInv, NEW r \in Requests, NEW status \in {"500", "error"},
         pc[r] \in InFlight, RollBack(r, status),
         status = "500" => Excused(r)
  PROVE  IInv'
<1>1. /\ Moves(r, status) /\ UNCHANGED <<users, expired, mailed>>
      /\ held' = [held EXCEPT ![r] = None]
      /\ Accounts' = Accounts /\ \A e : With(e)' = With(e)
  BY DEF RollBack, Move, Moves, Accounts, With
<1>2. /\ Onward /\ r \in Tokens /\ r # Before
      /\ pc'[r] = status /\ \A q \in Tokens \ {r} : pc'[q] = pc[q]
      /\ \A q \in Requests : q \in Tokens /\ peers[q] \subseteq Requests
      /\ pc' \in [Tokens -> {"idle"} \cup InFlight \cup Answered]
  BY <1>1, MovesFacts DEF Answered
<1>3. TypeOK'
  BY <1>1, <1>2 DEF IInv, TypeOK, Moves
<1>4. Staged'
  BY <1>1, <1>2 DEF IInv, TypeOK, Staged, Moves, Senders, InFlight
<1>5. Meeting'
  BY <1>1, <1>2 DEF IInv, Meeting, Moves, InFlight
<1>6. Locked'
  BY <1>1, <1>2, AccountsAssumption DEF IInv, TypeOK, Locked, Staged, Moves, Senders
<1>7. Unique' /\ Coded'
  BY <1>1, <1>2 DEF IInv, Unique, Coded, Moves, InFlight
<1>8. Presented'
  BY <1>1, <1>2, Persistent DEF IInv, Presented, Staged, Moves, Senders, Ops, InFlight
<1>9. FreeBefore'
  BY <1>1, <1>2, Persistent DEF IInv, FreeBefore, Staged, Moves, Senders, Ops
<1>10. Found'
  BY <1>1, <1>2, Persistent DEF IInv, Found, Staged, Moves, InFlight
<1>11. VerifiedByItsMailbox'
  <2>1. SignedIn' = SignedIn /\ \A v \in Accounts : users[v].email \in Emails
    BY <1>1 DEF IInv, TypeOK, Rows, SignedIn, Accounts
  <2> QED
    BY <1>1, <1>2, <2>1, Persistent DEF IInv, VerifiedByItsMailbox, SignedIn, Ops
<1>12. UnexpectedOnlyByRace'
  BY <1>2, Persistent DEF IInv, UnexpectedOnlyByRace, InFlight
<1> QED
  BY <1>3, <1>4, <1>5, <1>6, <1>7, <1>8, <1>9, <1>10, <1>11, <1>12 DEF IInv

\* A row is written that keeps its address and what is pending; if it is verified now
\* and was not, the request carries what was mailed to its address.
LEMMA KeepIInv ==
  ASSUME IInv, NEW r \in Requests, NEW u \in Accounts, NEW row \in Rows,
         pc[r] \in InFlight, op[r] \in {"resend", "recover", "verify", "password"},
         Moves(r, "done"), users' = [users EXCEPT ![u] = row],
         held' = [held EXCEPT ![r] = None] \/ (held' = held /\ held[r] = None),
         UNCHANGED <<mailed, expired>>,
         row.email = users[u].email, row.change = users[u].change, row.code = users[u].code,
         row.verified => users[u].verified \/ (op[r] = "verify" /\ arg[arg[r]] = row.email)
  PROVE  IInv'
<1>1. /\ u \in Tokens /\ users'[u] = row /\ \A v \in Tokens \ {u} : users'[v] = users[v]
      /\ row # None /\ users[u] # None
      /\ \A v \in Accounts : users'[v].email = users[v].email
      /\ \A v \in Accounts : users'[v].code = users[v].code /\ users'[v].change = users[v].change
      /\ users' \in [Tokens -> Rows \cup {None}]
  BY AccountsAssumption DEF IInv, TypeOK, Accounts
<1>2. /\ Onward /\ r \in Tokens /\ r # Before
      /\ pc'[r] = "done" /\ \A q \in Tokens \ {r} : pc'[q] = pc[q]
      /\ \A q \in Requests : q \in Tokens /\ peers[q] \subseteq Requests
      /\ pc' \in [Tokens -> {"idle"} \cup InFlight \cup Answered]
  BY MovesFacts DEF Answered
<1>3. /\ Accounts' = Accounts /\ \A e : With(e)' = With(e)
      /\ SignedIn' \subseteq SignedIn \cup {u} /\ \A v \in Accounts : users[v].email \in Emails
  BY <1>1 DEF IInv, TypeOK, Rows, Accounts, With, SignedIn
<1>4. TypeOK'
  BY <1>1, <1>2 DEF IInv, TypeOK, Moves
<1>5. Staged'
  BY <1>1, <1>2, <1>3 DEF IInv, TypeOK, Staged, Moves, Senders, InFlight
<1>6. Meeting'
  BY <1>1, <1>2 DEF IInv, Meeting, Moves, InFlight
<1>7. Locked'
  <2>1. held'[r] = None /\ \A q \in Requests \ {r} : held'[q] = held[q]
    BY DEF IInv, TypeOK
  <2>2. UNCHANGED <<op, who, arg>>
    BY DEF Moves
  <2> QED
    BY <1>2, <1>3, <2>1, <2>2 DEF IInv, Locked
<1>8. Unique' /\ Coded'
  BY <1>1, <1>2, <1>3 DEF IInv, Unique, Coded, Moves
<1>9. Presented'
  <2>1. \A q \in Requests : op[q] = "verify_change" => who[q] \in Accounts /\ arg[q] \in Tokens
    BY DEF IInv, TypeOK, Staged
  <2>2. pc[r] # "done" /\ Onward
    BY <1>2 DEF InFlight
  <2> QED
    BY <1>1, <1>2, <2>1, <2>2, Persistent DEF IInv, Presented, Moves, Ops
<1>10. FreeBefore'
  BY <1>2, <1>3, Persistent DEF IInv, FreeBefore, Staged, Moves, Senders, Ops
<1>11. Found'
  BY <1>2, <1>3, Persistent DEF IInv, Found, Staged, Moves, InFlight
<1>12. VerifiedByItsMailbox'
  <2>1. row.verified /\ ~users[u].verified => Proves(r, row.email)'
    BY <1>2 DEF Proves, Moves
  <2> QED
    BY <1>1, <1>2, <1>3, <2>1, Persistent DEF IInv, VerifiedByItsMailbox, SignedIn, Ops
<1>13. UnexpectedOnlyByRace'
  <2>1. \A q \in Requests : op[q] = "verify_change" => arg[arg[q]] \in Emails
    BY DEF IInv, Staged
  <2> QED
    BY <1>2, <2>1, Persistent
    DEF IInv, UnexpectedOnlyByRace, Staged, Moves, Ops, InFlight
<1> QED
  BY <1>4, <1>5, <1>6, <1>7, <1>8, <1>9, <1>10, <1>11, <1>12, <1>13 DEF IInv

LEMMA CommitSignUpIInv ==
  ASSUME IInv, NEW r \in Requests, CommitSignUp(r) PROVE IInv'
<1> DEFINE row == NewUser(arg[r], r)
<1>1. /\ pc[r] = "committing" /\ op[r] = "sign_up" /\ arg[r] \in Emails /\ With(arg[r]) = {}
      /\ Moves(r, "done") /\ users' = [users EXCEPT ![r] = row]
      /\ held' = [held EXCEPT ![r] = None] /\ UNCHANGED <<mailed, expired>>
      /\ held[r] = arg[r]
  BY DEF IInv, Staged, Locked, Senders, CommitSignUp, CommitAs, Move, Moves
<1>2. /\ Onward /\ r \in Tokens /\ r # Before
      /\ pc'[r] = "done" /\ \A q \in Tokens \ {r} : pc'[q] = pc[q]
      /\ \A q \in Requests : q \in Tokens /\ peers[q] \subseteq Requests
      /\ pc' \in [Tokens -> {"idle"} \cup InFlight \cup Answered]
  BY <1>1, MovesFacts DEF InFlight, Answered
<1>3. /\ row \in Rows /\ row # None /\ row.email = arg[r] /\ ~row.verified
      /\ row.change = None /\ row.code = None
  <2>1. row.password \in Passwords
    BY <1>2 DEF NewUser, Passwords
  <2>2. row \in Rows
    BY <1>1, <1>2, <2>1 DEF NewUser, Rows
  <2> QED
    BY <2>2, AccountsAssumption DEF NewUser
<1> HIDE DEF row
<1>4. /\ r \notin Accounts /\ users'[r] = row /\ \A v \in Tokens \ {r} : users'[v] = users[v]
      /\ Accounts' = Accounts \cup {r} /\ SignedIn' = SignedIn
      /\ \A e : With(e)' = IF e = arg[r] THEN {r} ELSE With(e)
      /\ \A v \in Accounts : v # r /\ v \in Tokens /\ users[v].email # arg[r]
      /\ users' \in [Tokens -> Rows \cup {None}]
  <2>1. r \notin Accounts
    BY <1>1, <1>2 DEF IInv, Staged
  <2>2. users'[r] = row /\ \A v \in Tokens \ {r} : users'[v] = users[v]
    BY <1>1, <1>2 DEF IInv, TypeOK
  <2>3. Accounts' = Accounts \cup {r} /\ \A v \in Accounts : v # r /\ v \in Tokens
    BY <1>2, <1>3, <2>1, <2>2 DEF Accounts
  <2>4. /\ SignedIn' = SignedIn /\ \A v \in Accounts : users[v].email # arg[r]
        /\ \A e : With(e)' = IF e = arg[r] THEN {r} ELSE With(e)
    BY <1>1, <1>2, <1>3, <2>2, <2>3 DEF SignedIn, With
  <2> QED
    BY <1>1, <1>3, <2>1, <2>2, <2>3, <2>4 DEF IInv, TypeOK
<1>5. TypeOK'
  BY <1>1, <1>2, <1>4 DEF IInv, TypeOK, Moves
<1>6. Staged'
  BY <1>1, <1>2, <1>4 DEF IInv, TypeOK, Staged, Moves, Senders, InFlight
<1>7. Meeting'
  BY <1>1, <1>2 DEF IInv, Meeting, Moves, InFlight
<1>8. Locked'
  <2>1. held'[r] = None /\ \A q \in Requests \ {r} : held'[q] = held[q] /\ held[q] # held[r]
    BY <1>1, AccountsAssumption DEF IInv, TypeOK, Locked
  <2>2. UNCHANGED <<op, who, arg>>
    BY <1>1 DEF Moves
  <2> QED
    BY <1>1, <1>2, <1>4, <2>1, <2>2 DEF IInv, Locked
<1>9. Unique' /\ Coded'
  BY <1>1, <1>2, <1>3, <1>4 DEF IInv, Unique, Coded, Moves
<1>10. Presented'
  <2>1. \A q \in Requests : op[q] = "verify_change" => who[q] \in Accounts /\ arg[q] \in Tokens
    BY DEF IInv, TypeOK, Staged
  <2> QED
    BY <1>1, <1>2, <1>4, <2>1, Persistent DEF IInv, Presented, Moves, Ops
<1>11. FreeBefore'
  <2>1. Got(arg[r])'
    BY <1>1, <1>2 DEF Got, Moves
  <2> QED
    BY <1>1, <1>2, <1>4, <2>1, Persistent DEF IInv, FreeBefore, Staged, Moves, Senders, Ops
<1>12. Found'
  \* A sign-up that is under way with the same address meets this one.
  <2>1. ASSUME NEW q \in Requests, op[q] = "sign_up", pc'[q] = "sending"
        PROVE  With(arg[q])' = {} \/ \E p \in peers'[q] : Took(p, arg[q])'
    <3>1. pc[q] = "sending" /\ r \in peers[q] /\ UNCHANGED <<op, arg, peers>>
      BY <1>1, <1>2, <2>1 DEF IInv, Meeting, Moves, InFlight
    <3>2. PICK e \in Emails : e = arg[q] /\ e = arg'[q]
      BY <2>1, <3>1 DEF IInv, Staged, Senders
    <3>3. CASE e = arg[r]
      <4>1. Took(r, arg[q])'
        BY <1>1, <1>2, <3>1, <3>2, <3>3 DEF Took
      <4> QED
        BY <3>1, <4>1
    <3>4. CASE e # arg[r] /\ With(e) = {}
      BY <1>4, <3>2, <3>4 DEF With
    <3>5. CASE \E p \in peers[q] : Took(p, e)
      <4>1. PICK p \in peers[q] : Took(p, e)
        BY <3>5
      <4>2. Took(p, e)' /\ p \in peers'[q]
        BY <1>2, <3>1, <3>2, <4>1, Persistent
      <4>3. Took(p, arg[q])'
        BY <3>2, <4>2 DEF Took
      <4> QED
        BY <4>2, <4>3
    <3> QED
      BY <2>1, <3>1, <3>2, <3>3, <3>4, <3>5 DEF IInv, Found
  <2>2. ASSUME NEW q \in Requests
        PROVE /\ op[q] \in {"resend", "recover"} /\ pc'[q] = "sending" =>
                   With(arg[q])' # {} \/ Moved(q)'
              /\ op[q] = "verify" /\ pc'[q] = "writing" => With(arg[arg[q]])' # {} \/ Moved(q)'
    BY <1>1, <1>2, <1>4, Persistent DEF IInv, Found, Staged, Moves
  <2> QED
    BY <1>1, <2>1, <2>2 DEF Found, Moves
<1>13. VerifiedByItsMailbox'
  <2>1. \A v \in SignedIn : v \in Accounts /\ users[v].email \in Emails
    BY DEF IInv, TypeOK, Rows, SignedIn, Accounts
  <2> QED
    BY <1>1, <1>2, <1>4, <2>1, Persistent DEF IInv, VerifiedByItsMailbox, Ops
<1>14. UnexpectedOnlyByRace'
  BY <1>2, Persistent DEF IInv, UnexpectedOnlyByRace
<1> QED
  BY <1>5, <1>6, <1>7, <1>8, <1>9, <1>10, <1>11, <1>12, <1>13, <1>14 DEF IInv

LEMMA CommitEmailChangeIInv ==
  ASSUME IInv, NEW r \in Requests, CommitEmailChange(r) PROVE IInv'
<1>1. PICK u \in Accounts :
        /\ pc[r] = "committing" /\ op[r] = "change" /\ arg[r] \in Emails /\ u = who[r]
        /\ Moves(r, "done")
        /\ users' = [users EXCEPT ![u] = [users[u] EXCEPT !.change = arg[r], !.code = r]]
        /\ held' = [held EXCEPT ![r] = None] /\ UNCHANGED <<mailed, expired>>
        /\ held[r] = u
  BY DEF IInv, Staged, Locked, Senders, CommitEmailChange, CommitAs, Move, Moves
<1>2. /\ Onward /\ r \in Tokens /\ r # Before
      /\ pc'[r] = "done" /\ \A q \in Tokens \ {r} : pc'[q] = pc[q]
      /\ \A q \in Requests : q \in Tokens /\ peers[q] \subseteq Requests
      /\ pc' \in [Tokens -> {"idle"} \cup InFlight \cup Answered]
  BY <1>1, MovesFacts DEF InFlight, Answered
<1> DEFINE row == [users[u] EXCEPT !.change = arg[r], !.code = r]
<1>3. /\ row \in Rows /\ row # None /\ users[u] # None /\ u \in Tokens
      /\ row.email = users[u].email /\ row.verified = users[u].verified
      /\ row.change = arg[r] /\ row.code = r /\ r # None
  <2>1. users[u] \in Rows /\ u \in Tokens /\ users[u] # None
    BY DEF IInv, TypeOK, Accounts
  <2>2. row \in Rows
    BY <1>1, <1>2, <2>1 DEF Rows
  <2>3. /\ row.email = users[u].email /\ row.verified = users[u].verified
        /\ row.change = arg[r] /\ row.code = r
    BY <2>1 DEF Rows
  <2> QED
    BY <1>2, <2>1, <2>2, <2>3, AccountsAssumption
<1>4. /\ users'[u] = row /\ \A v \in Tokens \ {u} : users'[v] = users[v]
      /\ users' \in [Tokens -> Rows \cup {None}]
  BY <1>1, <1>3 DEF IInv, TypeOK
<1> HIDE DEF row
<1>5. /\ Accounts' = Accounts /\ SignedIn' = SignedIn /\ \A e : With(e)' = With(e)
      /\ \A v \in Accounts : v \in Tokens /\ users'[v].email = users[v].email
  BY <1>3, <1>4 DEF Accounts, SignedIn, With
<1>6. TypeOK'
  BY <1>1, <1>2, <1>4 DEF IInv, TypeOK, Moves
<1>7. Staged'
  BY <1>1, <1>2, <1>5 DEF IInv, TypeOK, Staged, Moves, Senders, InFlight
<1>8. Meeting'
  BY <1>1, <1>2 DEF IInv, Meeting, Moves, InFlight
<1>9. Locked'
  <2>1. held'[r] = None /\ \A q \in Requests \ {r} : held'[q] = held[q]
    BY <1>1 DEF IInv, TypeOK
  <2>2. UNCHANGED <<op, who, arg>>
    BY <1>1 DEF Moves
  <2> QED
    BY <1>2, <1>5, <2>1, <2>2 DEF IInv, Locked
<1>10. Unique' /\ Coded'
  BY <1>1, <1>2, <1>3, <1>4, <1>5 DEF IInv, Unique, Coded, Moves
<1>11. Presented'
  <2>1. \A q \in Requests : op[q] = "verify_change" =>
          who[q] \in Accounts /\ arg[q] \in Tokens /\ (pc[q] = "done" => pc[arg[q]] = "done")
    BY DEF IInv, TypeOK, Staged, Presented
  \* The user's requests that are writing meet this one.
  <2>2. ASSUME NEW q \in Requests, op[q] = "verify_change", pc[q] = "writing"
        PROVE  Overlap("change", "verify_change")'
    <3>1. q \in peers[r]
      BY <1>1, <2>2 DEF IInv, Meeting, InFlight
    <3> QED
      BY <1>1, <2>2, <3>1 DEF Overlap, Moves
  <2> QED
    BY <1>1, <1>2, <1>3, <1>4, <2>1, <2>2, Persistent DEF IInv, Presented, Moves, Ops
<1>12. FreeBefore'
  BY <1>1, <1>2, <1>5, Persistent DEF IInv, FreeBefore, Staged, Moves, Senders, Ops
<1>13. Found'
  BY <1>1, <1>2, <1>5, Persistent DEF IInv, Found, Staged, Moves, InFlight
<1>14. VerifiedByItsMailbox'
  <2>1. \A v \in SignedIn : v \in Accounts /\ users[v].email \in Emails
    BY DEF IInv, TypeOK, Rows, SignedIn, Accounts
  <2> QED
    BY <1>1, <1>2, <1>5, <2>1, Persistent DEF IInv, VerifiedByItsMailbox, Ops
<1>15. UnexpectedOnlyByRace'
  BY <1>2, Persistent DEF IInv, UnexpectedOnlyByRace
<1> QED
  BY <1>6, <1>7, <1>8, <1>9, <1>10, <1>11, <1>12, <1>13, <1>14, <1>15 DEF IInv

LEMMA FinalizeEmailChangeIInv ==
  ASSUME IInv, NEW r \in Requests, FinalizeEmailChange(r) PROVE IInv'
<1>1. PICK u \in Accounts, e \in Emails :
        /\ pc[r] = "writing" /\ op[r] = "verify_change" /\ u = who[r]
        /\ e = users[u].change /\ With(e) \subseteq {u} /\ \A q \in Requests : held[q] # e
        /\ Moves(r, "done")
        /\ users' = [users EXCEPT ![u] = [users[u] EXCEPT !.email = e, !.verified = TRUE,
                                                          !.change = None, !.code = None]]
        /\ UNCHANGED <<held, mailed, expired>>
  <2>1. who[r] \in Accounts /\ users[who[r]].change \in Emails
    BY DEF IInv, TypeOK, Staged, FinalizeEmailChange, Rows, Accounts
  <2> QED
    BY <2>1 DEF FinalizeEmailChange, Update, Free, Move, Moves
<1>2. /\ Onward /\ r \in Tokens /\ r # Before
      /\ pc'[r] = "done" /\ \A q \in Tokens \ {r} : pc'[q] = pc[q]
      /\ \A q \in Requests : q \in Tokens /\ peers[q] \subseteq Requests
      /\ pc' \in [Tokens -> {"idle"} \cup InFlight \cup Answered]
  BY <1>1, MovesFacts DEF InFlight, Answered
<1> DEFINE row == [users[u] EXCEPT !.email = e, !.verified = TRUE,
                                   !.change = None, !.code = None]
<1>3. /\ row \in Rows /\ row # None /\ users[u] # None /\ u \in Tokens
      /\ row.email = e /\ row.verified /\ row.change = None /\ row.code = None
  <2>1. users[u] \in Rows /\ u \in Tokens /\ users[u] # None
    BY DEF IInv, TypeOK, Accounts
  <2>2. row \in Rows
    BY <1>1, <2>1 DEF Rows
  <2>3. row.email = e /\ row.verified /\ row.change = None /\ row.code = None
    BY <2>1 DEF Rows
  <2> QED
    BY <2>1, <2>2, <2>3, AccountsAssumption
<1>4. /\ users'[u] = row /\ \A v \in Tokens \ {u} : users'[v] = users[v]
      /\ users' \in [Tokens -> Rows \cup {None}]
  BY <1>1, <1>3 DEF IInv, TypeOK
<1> HIDE DEF row
<1>5. /\ Accounts' = Accounts /\ SignedIn' = SignedIn \cup {u}
      /\ \A f : With(f)' = IF f = e THEN {u} ELSE With(f) \ {u}
      /\ \A v \in Accounts : v \in Tokens /\ (users[v].email = e => v = u)
  <2>1. Accounts' = Accounts /\ \A v \in Accounts : v \in Tokens
    BY <1>3, <1>4 DEF Accounts
  <2>2. SignedIn' = SignedIn \cup {u}
    BY <1>3, <1>4, <2>1 DEF SignedIn
  <2>3. \A v \in Accounts : users[v].email = e => v = u
    BY <1>1 DEF With
  <2>4. ASSUME NEW f PROVE With(f)' = IF f = e THEN {u} ELSE With(f) \ {u}
    BY <1>3, <1>4, <2>1, <2>3 DEF With
  <2> QED
    BY <2>1, <2>2, <2>3, <2>4
\* The address is the one the code was mailed to.
<1>6. e = arg[arg[r]] \/ Overlap("change", "verify_change")'
  <2>1. users[u].code = arg[r] \/ users[u].code = None \/ Overlap("change", "verify_change")
    BY <1>1 DEF IInv, Presented
  <2>2. users[u].code # None
    BY <1>1, AccountsAssumption DEF IInv, Coded
  <2>3. users[u].code = arg[r] => e = arg[arg[r]]
    BY <1>1, <2>2 DEF IInv, Coded
  <2> QED
    BY <1>2, <2>1, <2>2, <2>3, Persistent DEF Ops
<1>7. TypeOK'
  BY <1>1, <1>2, <1>4 DEF IInv, TypeOK, Moves
<1>8. Staged'
  BY <1>1, <1>2, <1>5 DEF IInv, TypeOK, Staged, Moves, Senders, InFlight
<1>9. Meeting'
  BY <1>1, <1>2 DEF IInv, Meeting, Moves, InFlight
<1>10. Locked'
  BY <1>1, <1>2, <1>5 DEF IInv, Locked, Moves
<1>11. Unique'
  BY <1>1, <1>3, <1>4, <1>5 DEF IInv, Unique
<1>12. Coded'
  BY <1>1, <1>2, <1>3, <1>4, <1>5 DEF IInv, Coded, Moves
<1>13. Presented'
  <2>1. \A q \in Requests : op[q] = "verify_change" =>
          who[q] \in Accounts /\ arg[q] \in Tokens \ {None}
    BY AccountsAssumption DEF IInv, TypeOK, Staged
  <2>2. \A q \in Requests \ {r} : pc[q] = "writing" => q \in peers[r] /\ r \in peers[q]
    BY <1>1 DEF IInv, Meeting, InFlight
  <2> QED
    BY <1>1, <1>2, <1>3, <1>4, <2>1, <2>2, Persistent DEF IInv, Presented, Moves, Ops
<1>14. FreeBefore'
  <2>1. Got(e)' \/ Overlap("change", "verify_change")'
    BY <1>1, <1>2, <1>6 DEF Got, Moves
  <2> QED
    BY <1>1, <1>2, <1>5, <2>1, Persistent DEF IInv, FreeBefore, Staged, Moves, Senders, Ops
<1>15. Found'
  <2>1. \A q \in Requests \ {r} : pc[q] \in InFlight => r \in peers[q] /\ Moved(q)'
    BY <1>1, <1>2 DEF IInv, Meeting, InFlight, Moved, Moves
  \* So has a sign-up the address, or it meets the one that took it.
  <2>2. ASSUME NEW q \in Requests, op[q] = "sign_up", pc'[q] = "sending"
        PROVE  With(arg[q])' = {} \/ \E p \in peers'[q] : Took(p, arg[q])'
    <3>1. pc[q] = "sending" /\ r \in peers[q] /\ UNCHANGED <<op, arg, peers>>
      BY <1>1, <1>2, <2>1, <2>2 DEF Moves, InFlight
    <3>2. PICK f \in Emails : f = arg[q] /\ f = arg'[q]
      BY <2>2, <3>1 DEF IInv, Staged, Senders
    <3>3. CASE f = e
      <4>1. Took(r, arg[q])'
        BY <1>1, <1>2, <1>6, <3>1, <3>2, <3>3 DEF Took
      <4> QED
        BY <3>1, <4>1
    <3>4. CASE f # e /\ With(f) = {}
      BY <1>5, <3>2, <3>4 DEF With
    <3>5. CASE \E p \in peers[q] : Took(p, f)
      <4>1. PICK p \in peers[q] : Took(p, f)
        BY <3>5
      <4>2. Took(p, f)' /\ p \in peers'[q]
        BY <1>2, <3>1, <3>2, <4>1, Persistent
      <4>3. Took(p, arg[q])'
        BY <3>2, <4>2 DEF Took
      <4> QED
        BY <4>2, <4>3
    <3> QED
      BY <2>2, <3>1, <3>2, <3>3, <3>4, <3>5 DEF IInv, Found
  <2> QED
    BY <1>1, <1>2, <2>1, <2>2 DEF Found, Moves, InFlight
<1>16. VerifiedByItsMailbox'
  <2>1. \A v \in SignedIn : v \in Accounts /\ users[v].email \in Emails
    BY DEF IInv, TypeOK, Rows, SignedIn, Accounts
  <2>2. Proves(r, e)' \/ Overlap("change", "verify_change")'
    BY <1>1, <1>2, <1>6 DEF Proves, Moves
  <2> QED
    BY <1>1, <1>2, <1>3, <1>4, <1>5, <2>1, <2>2, Persistent DEF IInv, VerifiedByItsMailbox, Ops
<1>17. UnexpectedOnlyByRace'
  BY <1>2, Persistent DEF IInv, UnexpectedOnlyByRace
<1> QED
  BY <1>7, <1>8, <1>9, <1>10, <1>11, <1>12, <1>13, <1>14, <1>15, <1>16, <1>17 DEF IInv

LEMMA ExpireIInv == ASSUME IInv, Expire PROVE IInv'
<1>1. UNCHANGED <<users, held, mailed, pc, op, who, arg, peers>> /\ expired' \subseteq Tokens
  BY DEF IInv, TypeOK, Rows, Expire, Accounts
<1> QED
  BY <1>1
  DEF IInv, TypeOK, Staged, Meeting, Locked, Unique, Coded, Presented, FreeBefore, Found,
      VerifiedByItsMailbox, UnexpectedOnlyByRace, Accounts, With, Overlap, Got, Moved,
      SignedIn, Proves, Took, Excused

LEMMA UnchangedIInv == ASSUME IInv, UNCHANGED vars PROVE IInv'
BY DEF vars, IInv, TypeOK, Staged, Meeting, Locked, Unique, Coded, Presented, FreeBefore,
       Found, VerifiedByItsMailbox, UnexpectedOnlyByRace, Accounts, With, Overlap, Got,
       Moved, SignedIn, Proves, Took, Excused
----------------------------------------------------------------------------
(* The actions *)

LEMMA StartIInv ==
  ASSUME IInv, NEW r \in Requests,
         \/ \E e \in Emails : SignUp(r, e) \/ Resend(r, e) \/ Recover(r, e)
         \/ \E t \in Mailed({"sign_up", "resend"}) : Verify(r, t)
         \/ \E t \in Mailed({"recover"}) : ConfirmRecovery(r, t)
         \/ \E u \in SignedIn :
              \/ \E e \in Emails : ChangeEmail(r, u, e)
              \/ \E c \in Mailed({"change"}) : VerifyEmailChange(r, u, c)
              \/ \E p \in {r, users[u].password.of} : ChangePassword(r, u, p)
  PROVE  IInv'
<1>1. ASSUME NEW e \in Emails, SignUp(r, e) PROVE IInv'
  BY <1>1, CallIInv DEF SignUp, Senders, Ops
<1>2. ASSUME NEW e \in Emails, Resend(r, e) PROVE IInv'
  BY <1>2, CallIInv DEF Resend, Senders, Ops
<1>3. ASSUME NEW e \in Emails, Recover(r, e) PROVE IInv'
  BY <1>3, CallIInv DEF Recover, Senders, Ops
<1>4. ASSUME NEW t \in Mailed({"sign_up", "resend"}), Verify(r, t) PROVE IInv'
  BY <1>4, CallIInv DEF Verify, Senders, Ops, Mailed, IInv, TypeOK
<1>5. ASSUME NEW t \in Mailed({"recover"}), ConfirmRecovery(r, t) PROVE IInv'
  BY <1>5, CallIInv DEF ConfirmRecovery, Senders, Ops, Mailed, IInv, TypeOK
<1>6. ASSUME NEW u \in SignedIn, NEW e \in Emails, ChangeEmail(r, u, e) PROVE IInv'
  BY <1>6, CallIInv DEF ChangeEmail, Senders, Ops, SignedIn, Accounts
<1>7. ASSUME NEW u \in SignedIn, NEW c \in Mailed({"change"}), VerifyEmailChange(r, u, c)
      PROVE  IInv'
  BY <1>7, CallIInv
  DEF VerifyEmailChange, Senders, Ops, SignedIn, Accounts, Mailed, IInv, TypeOK
<1>8. ASSUME NEW u \in SignedIn, NEW p \in {r, users[u].password.of}, ChangePassword(r, u, p)
      PROVE  IInv'
  <2>1. p \in Tokens /\ u \in Accounts /\ u \in Tokens
    BY DEF IInv, TypeOK, SignedIn, Accounts, Rows, Passwords, Tokens
  <2> QED
    BY <1>8, <2>1, CallIInv DEF ChangePassword, Senders, Ops
<1> QED
  BY <1>1, <1>2, <1>3, <1>4, <1>5, <1>6, <1>7, <1>8

LEMMA SendersIInv ==
  ASSUME IInv, NEW r \in Requests,
         InsertUser(r) \/ SendByEmail(r) \/ InitializeEmailChange(r)
  PROVE  IInv'
<1>1. CASE InsertUser(r)
  BY <1>1, SendIInv DEF InsertUser, IInv, Staged, Senders
<1>2. CASE SendByEmail(r)
  BY <1>2, SendIInv DEF SendByEmail, With, Accounts
<1>3. CASE InitializeEmailChange(r)
  BY <1>3, SendIInv DEF InitializeEmailChange, IInv, Staged, Accounts
<1> QED
  BY <1>1, <1>2, <1>3

LEMMA FailuresIInv ==
  ASSUME IInv, NEW r \in Requests,
         EmailTaken(r) \/ EmailGone(r) \/ CannotFinalize(r) \/ Fail(r)
  PROVE  IInv'
<1>1. CASE EmailTaken(r)
  BY <1>1, RollBackIInv DEF EmailTaken, InFlight, IInv, Found, Excused
<1>2. CASE EmailGone(r)
  BY <1>2, RollBackIInv DEF EmailGone, InFlight, IInv, Found, Moved, Excused
<1>3. CASE CannotFinalize(r)
  <2> DEFINE u == who[r]
             e == arg[arg[r]]
             Lost == \E p \in Requests \ {r} : Took(p, e)
  <2>1. /\ pc[r] = "writing" /\ op[r] = "verify_change" /\ RollBack(r, "500")
        /\ users[u].change = None \/ ~(With(users[u].change) \subseteq {u})
        /\ u \in Accounts
    BY <1>3 DEF CannotFinalize, IInv, Staged
  <2>2. Got(e) => Lost
    BY <2>1 DEF Got, Took
  <2>3. ASSUME users[u].code = arg[r]
        PROVE  Lost \/ Overlap("change", "verify_change")
    <3>1. /\ arg[r] \in Requests /\ op[arg[r]] = "change" /\ pc[arg[r]] = "done"
          /\ users[u].change = e /\ e \in Emails
      BY <2>1, <2>3, AccountsAssumption DEF IInv, TypeOK, Staged, Coded
    <3>2. With(e) # {}
      BY <2>1, <3>1, AccountsAssumption
    <3> QED
      BY <2>2, <3>1, <3>2 DEF IInv, FreeBefore
  <2>4. ASSUME NEW q \in Requests,
               op[q] = "verify_change", pc[q] = "done", arg[q] = arg[r]
        PROVE  Lost
    BY <2>1, <2>4 DEF Took
  <2>5. Lost \/ Overlap("change", "verify_change")
    BY <2>1, <2>3, <2>4 DEF IInv, Presented
  <2> QED
    BY <2>1, <2>5, RollBackIInv DEF InFlight, Excused
<1>4. CASE Fail(r)
  BY <1>4, RollBackIInv DEF Fail
<1> QED
  BY <1>1, <1>2, <1>3, <1>4

LEMMA KeepersIInv ==
  ASSUME IInv, NEW r \in Requests,
         CommitResend(r) \/ CommitRecovery(r) \/ VerifyEmail(r) \/ StorePassword(r)
  PROVE  IInv'
<1>0. \A u \in Accounts : users[u] \in Rows /\ r \in Tokens
  BY DEF IInv, TypeOK, Accounts, Tokens
<1>1. CASE CommitResend(r)
  <2> DEFINE u == held[r]
             row == [users[u] EXCEPT !.link = r]
  <2>1. /\ pc[r] = "committing" /\ op[r] = "resend" /\ Moves(r, "done") /\ u \in Accounts
        /\ users' = [users EXCEPT ![u] = row] /\ held' = [held EXCEPT ![r] = None]
        /\ UNCHANGED <<mailed, expired>>
    BY <1>1 DEF CommitResend, CommitAs, Move, Moves, IInv, Locked
  <2>2. row \in Rows
    BY <1>0, <2>1 DEF Rows
  <2>3. /\ row.email = users[u].email /\ row.change = users[u].change
        /\ row.code = users[u].code /\ row.verified = users[u].verified
    BY <1>0, <2>1 DEF Rows
  <2> HIDE DEF u, row
  <2> QED
    BY <2>1, <2>2, <2>3, KeepIInv DEF InFlight
<1>2. CASE CommitRecovery(r)
  <2> DEFINE u == held[r]
             row == [users[u] EXCEPT !.recovery = r]
  <2>1. /\ pc[r] = "committing" /\ op[r] = "recover" /\ Moves(r, "done") /\ u \in Accounts
        /\ users' = [users EXCEPT ![u] = row] /\ held' = [held EXCEPT ![r] = None]
        /\ UNCHANGED <<mailed, expired>>
    BY <1>2 DEF CommitRecovery, CommitAs, Move, Moves, IInv, Locked
  <2>2. row \in Rows
    BY <1>0, <2>1 DEF Rows
  <2>3. /\ row.email = users[u].email /\ row.change = users[u].change
        /\ row.code = users[u].code /\ row.verified = users[u].verified
    BY <1>0, <2>1 DEF Rows
  <2> HIDE DEF u, row
  <2> QED
    BY <2>1, <2>2, <2>3, KeepIInv DEF InFlight
<1>3. CASE VerifyEmail(r)
  <2>1. PICK u \in Accounts :
          /\ pc[r] = "writing" /\ op[r] = "verify" /\ Moves(r, "done")
          /\ users[u].email = arg[arg[r]]
          /\ users' = [users EXCEPT ![u] = [users[u] EXCEPT !.verified = TRUE, !.link = None]]
          /\ held' = held /\ held[r] = None /\ UNCHANGED <<mailed, expired>>
    BY <1>3 DEF VerifyEmail, With, Update, Move, Moves, IInv, Locked
  <2> DEFINE row == [users[u] EXCEPT !.verified = TRUE, !.link = None]
  <2>2. row \in Rows
    BY <1>0, <2>1 DEF Rows
  <2>3. /\ row.email = users[u].email /\ row.change = users[u].change
        /\ row.code = users[u].code
    BY <1>0, <2>1 DEF Rows
  <2>4. users' = [users EXCEPT ![u] = row]
    BY <2>1
  <2>5. row.verified => users[u].verified \/ (op[r] = "verify" /\ arg[arg[r]] = row.email)
    BY <2>1, <2>3
  <2> HIDE DEF row
  <2> QED
    BY <2>1, <2>2, <2>3, <2>4, <2>5, KeepIInv DEF InFlight
<1>4. CASE StorePassword(r)
  <2> DEFINE u == who[r]
             row == [users[u] EXCEPT !.password = [hashed |-> FALSE, of |-> arg[r]]]
  <2>1. /\ pc[r] = "writing" /\ op[r] = "password" /\ Moves(r, "done") /\ u \in Accounts
        /\ users' = [users EXCEPT ![u] = row] /\ held' = held /\ held[r] = None
        /\ UNCHANGED <<mailed, expired>>
    BY <1>4 DEF StorePassword, Update, Move, Moves, IInv, Locked, Staged
  <2>2. row \in Rows
    <3> DEFINE given == [hashed |-> FALSE, of |-> arg[r]]
    <3>1. given \in Passwords /\ users[u] \in Rows
      BY <1>0, <2>1 DEF Passwords, IInv, Staged
    <3> HIDE DEF given, u
    <3>2. [users[u] EXCEPT !.password = given] \in Rows
      BY <3>1 DEF Rows
    <3> QED
      BY <3>2 DEF given
  <2>3. /\ row.email = users[u].email /\ row.change = users[u].change
        /\ row.code = users[u].code /\ row.verified = users[u].verified
    BY <1>0, <2>1 DEF Rows
  <2> HIDE DEF u, row
  <2> QED
    BY <2>1, <2>2, <2>3, KeepIInv DEF InFlight
<1> QED
  BY <1>1, <1>2, <1>3, <1>4
----------------------------------------------------------------------------
(* The theorems *)

LEMMA InitIInv == Init => IInv
<1> SUFFICES ASSUME Init PROVE IInv
  OBVIOUS
<1>1. PICK e \in Emails, done \in {"sign_up", "verify"} :
        /\ users = [u \in Tokens |->
             IF u # Before THEN None
             ELSE IF done = "sign_up" THEN NewUser(e, Before)
             ELSE [NewUser(e, Before) EXCEPT !.verified = TRUE, !.link = None]]
        /\ op = [r \in Tokens |-> IF r = Before THEN done ELSE "none"]
        /\ arg = [r \in Tokens |-> IF r = Before THEN e ELSE None]
  BY DEF Init
<1>2. /\ users \in [Tokens -> Rows \cup {None}]
      /\ users[Before].email = e /\ users[Before].change = None /\ users[Before].code = None
      /\ users[Before].verified => done = "verify"
      /\ \A u \in Tokens \ {Before} : users[u] = None
  BY <1>1 DEF NewUser, Rows, Passwords, Tokens
<1>3. Accounts \subseteq {Before} /\ Before \in Tokens /\ \A r \in Requests : r \in Tokens /\ r # Before
  BY <1>2, AccountsAssumption DEF Accounts, Tokens
<1>4. TypeOK
  BY <1>1, <1>2, <1>3 DEF Init, TypeOK, Ops, Answered
<1>5. Staged /\ Meeting /\ Locked /\ Unique /\ Coded /\ Presented
  BY <1>1, <1>2, <1>3
  DEF Init, Staged, Senders, Meeting, InFlight, Locked, Unique, Coded, Presented
<1>6. FreeBefore /\ Found /\ UnexpectedOnlyByRace
  BY <1>1, <1>3 DEF Init, FreeBefore, Found, UnexpectedOnlyByRace
<1>7. VerifiedByItsMailbox
  BY <1>1, <1>2, <1>3 DEF Init, VerifiedByItsMailbox, SignedIn, Proves
<1> QED
  BY <1>4, <1>5, <1>6, <1>7 DEF IInv

LEMMA StepIInv == IInv /\ [Next]_vars => IInv'
<1> SUFFICES ASSUME IInv, [Next]_vars PROVE IInv'
  OBVIOUS
<1>1. ASSUME NEW r \in Requests,
             \/ \E e \in Emails : SignUp(r, e) \/ Resend(r, e) \/ Recover(r, e)
             \/ \E t \in Mailed({"sign_up", "resend"}) : Verify(r, t)
             \/ \E t \in Mailed({"recover"}) : ConfirmRecovery(r, t)
             \/ \E u \in SignedIn :
                  \/ \E e \in Emails : ChangeEmail(r, u, e)
                  \/ \E c \in Mailed({"change"}) : VerifyEmailChange(r, u, c)
                  \/ \E p \in {r, users[u].password.of} : ChangePassword(r, u, p)
      PROVE  IInv'
  BY <1>1, StartIInv
<1>2. ASSUME NEW r \in Requests,
             \/ InsertUser(r) \/ SendByEmail(r) \/ InitializeEmailChange(r)
             \/ EmailTaken(r) \/ EmailGone(r) \/ CannotFinalize(r) \/ Fail(r)
             \/ CommitResend(r) \/ CommitRecovery(r) \/ VerifyEmail(r) \/ StorePassword(r)
             \/ CommitSignUp(r) \/ CommitEmailChange(r) \/ FinalizeEmailChange(r)
      PROVE  IInv'
  BY <1>2, SendersIInv, FailuresIInv, KeepersIInv, CommitSignUpIInv, CommitEmailChangeIInv,
     FinalizeEmailChangeIInv
<1>3. CASE Expire \/ Quiescent \/ UNCHANGED vars
  BY <1>3, ExpireIInv, UnchangedIInv DEF Quiescent
<1> QED
  BY <1>1, <1>2, <1>3 DEF Next

LEMMA Inductive == Spec => []IInv
BY InitIInv, StepIInv, PTL DEF Spec

\* The rows, the locks and the state of each request keep the types they are declared
\* with.
THEOREM TypeCorrect == Spec => []TypeOK
<1>1. IInv => TypeOK
  BY DEF IInv
<1> QED
  BY <1>1, Inductive, PTL

\* Between the check of the address and the write, in any number of requests, no two
\* users come to share an address.
THEOREM AddressesAreUnique == Spec => []Unique
<1>1. IInv => Unique
  BY DEF IInv
<1> QED
  BY <1>1, Inductive, PTL

\* Who is signed in has presented what was mailed to the address he has now, unless he
\* asked for another change while a code of his was being verified.
THEOREM MailboxesVerify == Spec => []VerifiedByItsMailbox
<1>1. IInv => VerifiedByItsMailbox
  BY DEF IInv
<1> QED
  BY <1>1, Inductive, PTL

\* Two requests change the address with one code only if they were in flight together.
THEOREM CodesChangeOnce == Spec => []ChangeCodeUsedOnce
<1>1. IInv => ChangeCodeUsedOnce
  BY DEF IInv, Presented, ChangeCodeUsedOnce
<1> QED
  BY <1>1, Inductive, PTL

\* Without another request that got there first, no request but the confirmation of a
\* recovery is answered 500.
THEOREM FailuresAreRaces == Spec => []UnexpectedOnlyByRace
<1>1. IInv => UnexpectedOnlyByRace
  BY DEF IInv
<1> QED
  BY <1>1, Inductive, PTL
================================================================================

---------------------------- MODULE RefreshLockProofs ----------------------------
(***************************************************************************)
(* Proofs about RefreshLock, for any calls, tabs and limits: type          *)
(* correctness, and that the lock does not stay behind.                    *)
(***************************************************************************)
EXTENDS RefreshLock, TLAPS

\* Stages from which the call is still going to remove the lock.
Owing == {"marking", "waiting", "losing", "reading", "requesting", "unlocking"}

\* The stages of a refresh.
RefreshStages == Owing \cup {"locking", "unmarking", "retrying"}

\* A call runs in a tab; one that is going to write a session back has read one,
\* which can be counted once more if it is being refreshed.
CallInv ==
  \A c \in Calls :
    /\ pc[c] # "idle" => tab[c] \in Tabs
    /\ pc[c] \in RefreshStages => op[c] = "refresh"
    /\ pc[c] \in {"requesting", "updating"} => seen[c] # None
    /\ pc[c] = "requesting" => seen[c].count # MaxCount

\* Whoever set the lock, somebody is going to remove it.
OwedInv == refresh_lock /\ ~killed => \E c \in Calls : pc[c] \in Owing

LInv == TypeOK /\ CallInv /\ OwedInv

USE DEF InFlight, Synchronous, Awaiting, Over

LEMMA InitLInv == Init => LInv
  <1> SUFFICES ASSUME Init PROVE LInv
    OBVIOUS
  <1>1. session \in Sessions
    BY RefreshLockAssumption DEF Init, Sessions
  <1>2. TypeOK
    BY <1>1 DEF Init, TypeOK
  <1>3. CallInv /\ OwedInv
    BY DEF Init, CallInv, OwedInv, RefreshStages, Owing
  <1> QED
    BY <1>2, <1>3 DEF LInv

\* What every method does when it is called.
LEMMA StartFacts ==
  ASSUME LInv, NEW c \in Calls, NEW t \in Tabs,
         NEW o \in {"refresh", "sign_out", "update", "sign_in"},
         NEW stage \in InFlight \cup Over, Start(c, t, o, stage)
  PROVE  /\ pc[c] = "idle"
         /\ pc' = [pc EXCEPT ![c] = stage] /\ pc' \in [Calls -> {"idle"} \cup InFlight \cup Over]
         /\ op' = [op EXCEPT ![c] = o]
         /\ op' \in [Calls -> {"none", "refresh", "sign_out", "update", "sign_in"}]
         /\ tab' = [tab EXCEPT ![c] = t] /\ tab' \in [Calls -> Tabs \cup {None}]
         /\ peers' \in [Calls -> SUBSET Calls]
  BY DEF LInv, TypeOK, Start, Goto

LEMMA RefreshStep ==
  ASSUME LInv, NEW c \in Calls, NEW t \in Tabs, Refresh(c, t) PROVE LInv'
  <1>1. PICK stage \in {"done", "locking"} : Start(c, t, "refresh", stage)
    BY DEF Refresh
  <1>2. /\ pc[c] = "idle"
        /\ pc' = [pc EXCEPT ![c] = stage] /\ pc' \in [Calls -> {"idle"} \cup InFlight \cup Over]
        /\ op' = [op EXCEPT ![c] = "refresh"]
        /\ op' \in [Calls -> {"none", "refresh", "sign_out", "update", "sign_in"}]
        /\ tab' = [tab EXCEPT ![c] = t] /\ tab' \in [Calls -> Tabs \cup {None}]
        /\ peers' \in [Calls -> SUBSET Calls]
    BY <1>1, StartFacts
  <1>3. TypeOK'
    BY <1>2 DEF LInv, TypeOK, Refresh, ReadLock, storage, tokens
  <1>4. CallInv'
    BY <1>2 DEF LInv, TypeOK, CallInv, RefreshStages, Owing, Refresh, ReadLock
  <1>5. OwedInv'
    BY <1>2 DEF LInv, TypeOK, OwedInv, Owing, Refresh, ReadLock, storage
  <1> QED
    BY <1>3, <1>4, <1>5 DEF LInv

LEMMA OtherCallsStep ==
  ASSUME LInv, NEW c \in Calls, NEW t \in Tabs,
         SignOut(c, t) \/ UpdateUserInSession(c, t) \/ MfaChallenge(c, t)
  PROVE  LInv'
  <1>1. PICK o \in {"sign_out", "update", "sign_in"},
             stage \in {"signing_out", "updating", "signing_in", "error"} :
          /\ Start(c, t, o, stage)
          /\ stage = "updating" => session # None /\ seen' = [seen EXCEPT ![c] = session]
    BY DEF SignOut, UpdateUserInSession, MfaChallenge
  <1>2. /\ pc[c] = "idle"
        /\ pc' = [pc EXCEPT ![c] = stage] /\ pc' \in [Calls -> {"idle"} \cup InFlight \cup Over]
        /\ op' = [op EXCEPT ![c] = o]
        /\ op' \in [Calls -> {"none", "refresh", "sign_out", "update", "sign_in"}]
        /\ tab' = [tab EXCEPT ![c] = t] /\ tab' \in [Calls -> Tabs \cup {None}]
        /\ peers' \in [Calls -> SUBSET Calls]
    BY <1>1, StartFacts
  <1>3. /\ UNCHANGED <<storage, retries, id, stamp, next, tokens, raced, killed>>
        /\ seen' = seen \/ seen' = [seen EXCEPT ![c] = session]
    BY DEF SignOut, UpdateUserInSession, MfaChallenge
  <1>4. TypeOK'
    BY <1>2, <1>3 DEF LInv, TypeOK, storage, tokens
  <1>5. CallInv'
    BY <1>1, <1>2, <1>3 DEF LInv, TypeOK, CallInv, RefreshStages, Owing
  <1>6. OwedInv'
    BY <1>2, <1>3 DEF LInv, TypeOK, OwedInv, Owing, storage
  <1> QED
    BY <1>4, <1>5, <1>6 DEF LInv

\* The stages of a refresh between reading the lock and reading the session.
LEMMA LockingStep ==
  ASSUME LInv, NEW c \in Calls,
         Retry(c) \/ SetLock(c) \/ SetPriority(c) \/ Confirm(c) \/ Lose(c)
  PROVE  LInv'
  <1>1. CASE Retry(c)
    <2>1. TypeOK'
      BY <1>1 DEF LInv, TypeOK, Retry, Goto, ReadLock, storage, tokens, call
    <2>2. CallInv'
      BY <1>1 DEF LInv, TypeOK, CallInv, RefreshStages, Owing, Retry, Goto, ReadLock, call
    <2>3. OwedInv'
      BY <1>1 DEF LInv, TypeOK, OwedInv, Owing, Retry, Goto, ReadLock, storage, call
    <2> QED
      BY <2>1, <2>2, <2>3 DEF LInv
  <1>2. CASE SetLock(c)
    <2>1. TypeOK'
      BY <1>2 DEF LInv, TypeOK, SetLock, Goto, storage, tokens, call
    <2>2. CallInv'
      BY <1>2 DEF LInv, TypeOK, CallInv, RefreshStages, Owing, SetLock, Goto, call
    <2>3. OwedInv'
      BY <1>2 DEF LInv, TypeOK, OwedInv, Owing, SetLock, Goto, storage, call
    <2> QED
      BY <2>1, <2>2, <2>3 DEF LInv
  <1>3. CASE SetPriority(c)
    <2>1. TypeOK'
      BY <1>3 DEF LInv, TypeOK, SetPriority, Goto, storage, tokens, call
    <2>2. CallInv'
      BY <1>3 DEF LInv, TypeOK, CallInv, RefreshStages, Owing, SetPriority, Goto, call
    <2>3. OwedInv'
      BY <1>3 DEF LInv, TypeOK, OwedInv, Owing, SetPriority, Goto, storage, call
    <2> QED
      BY <2>1, <2>2, <2>3 DEF LInv
  <1>4. CASE Confirm(c)
    <2>1. TypeOK'
      BY <1>4 DEF LInv, TypeOK, Confirm, Goto, storage, tokens, call
    <2>2. CallInv'
      BY <1>4 DEF LInv, TypeOK, CallInv, RefreshStages, Owing, Confirm, Goto, call
    <2>3. OwedInv'
      BY <1>4 DEF LInv, TypeOK, OwedInv, Owing, Confirm, Goto, storage, call
    <2> QED
      BY <2>1, <2>2, <2>3 DEF LInv
  <1>5. CASE Lose(c)
    <2>1. TypeOK'
      BY <1>5 DEF LInv, TypeOK, Lose, Goto, storage, tokens, call
    <2>2. CallInv'
      BY <1>5 DEF LInv, TypeOK, CallInv, RefreshStages, Owing, Lose, Goto, call
    <2>3. OwedInv'
      BY <1>5 DEF LInv, TypeOK, OwedInv, Owing, Lose, Goto, storage, call
    <2> QED
      BY <2>1, <2>2, <2>3 DEF LInv
  <1> QED
    BY <1>1, <1>2, <1>3, <1>4, <1>5

\* The new token is stored with what was read: the count stays within the limit.
LEMMA StoreStep == ASSUME LInv, NEW c \in Calls, Store(c) PROVE LInv'
  <1>1. /\ seen[c] \in Sessions
        /\ seen[c].count \in 0..MaxCount /\ seen[c].count # MaxCount
    BY DEF LInv, TypeOK, CallInv, Store, Sessions
  <1>2. session' \in Sessions
    <2> DEFINE n == IF seen[c].enabled THEN seen[c].count ELSE seen[c].count + 1
    <2>1. n \in 0..MaxCount
      BY <1>1, RefreshLockAssumption
    <2>2. session' = [seen[c] EXCEPT !.by = c, !.count = n]
      BY DEF Store
    <2> HIDE DEF n
    <2> QED
      BY <1>1, <2>1, <2>2 DEF Sessions
  <1>3. retries' \in [Tabs -> Nat]
    BY DEF LInv, TypeOK, Store
  <1>4. TypeOK'
    BY <1>2, <1>3 DEF LInv, TypeOK, Store, Goto, call
  <1>5. CallInv'
    BY DEF LInv, TypeOK, CallInv, RefreshStages, Owing, Store, Goto, call
  <1>6. OwedInv'
    BY DEF LInv, TypeOK, OwedInv, Owing, Store, Goto
  <1> QED
    BY <1>4, <1>5, <1>6 DEF LInv

\* The request of a refresh, and its end.
LEMMA RequestStep ==
  ASSUME LInv, NEW c \in Calls,
         ReadSession(c) \/ Refused(c) \/ RemoveLock(c) \/ RemovePriority(c)
  PROVE  LInv'
  <1>1. CASE ReadSession(c)
    <2>1. TypeOK'
      BY <1>1 DEF LInv, TypeOK, ReadSession, Goto, storage, tokens, call
    <2>2. CallInv'
      BY <1>1 DEF LInv, TypeOK, CallInv, RefreshStages, Owing, ReadSession, Goto, call
    <2>3. OwedInv'
      BY <1>1 DEF LInv, TypeOK, OwedInv, Owing, ReadSession, Goto, storage, call
    <2> QED
      BY <2>1, <2>2, <2>3 DEF LInv
  <1>2. CASE Refused(c)
    <2>1. retries' \in [Tabs -> Nat]
      <3>1. tab[c] \in Tabs /\ retries \in [Tabs -> Nat]
        BY <1>2 DEF LInv, TypeOK, CallInv, Refused
      <3>2. retries' = [retries EXCEPT ![tab[c]] = retries[tab[c]] + 1]
        BY <1>2 DEF Refused
      <3> QED
        BY <3>1, <3>2
    <2>2. next' \in [Calls -> {"done", "retrying", "signing_out"}]
      BY <1>2 DEF LInv, TypeOK, Refused
    <2>3. pc' = [pc EXCEPT ![c] = "unlocking"] /\ pc[c] = "requesting"
      BY <1>2 DEF Refused, Goto
    <2>4. UNCHANGED <<storage, call, id, stamp, seen, tokens, raced, killed>>
      BY <1>2 DEF Refused
    <2>5. TypeOK'
      BY <2>1, <2>2, <2>3, <2>4 DEF LInv, TypeOK, storage, tokens, call
    <2>6. CallInv'
      BY <2>3, <2>4 DEF LInv, TypeOK, CallInv, RefreshStages, Owing, call
    <2>7. OwedInv'
      BY <2>3, <2>4 DEF LInv, TypeOK, OwedInv, Owing, storage
    <2> QED
      BY <2>5, <2>6, <2>7 DEF LInv
  <1>3. CASE RemoveLock(c)
    <2>1. TypeOK'
      BY <1>3 DEF LInv, TypeOK, RemoveLock, Goto, storage, tokens, call
    <2>2. CallInv'
      BY <1>3 DEF LInv, TypeOK, CallInv, RefreshStages, Owing, RemoveLock, Goto, call
    <2>3. OwedInv'
      BY <1>3 DEF LInv, TypeOK, OwedInv, Owing, RemoveLock, Goto, storage, call
    <2> QED
      BY <2>1, <2>2, <2>3 DEF LInv
  <1>4. CASE RemovePriority(c)
    <2>1. TypeOK'
      BY <1>4 DEF LInv, TypeOK, RemovePriority, Goto, storage, tokens, call
    <2>2. CallInv'
      BY <1>4 DEF LInv, TypeOK, CallInv, RefreshStages, Owing, RemovePriority, Goto, call
    <2>3. OwedInv'
      BY <1>4 DEF LInv, TypeOK, OwedInv, Owing, RemovePriority, Goto, storage, call
    <2> QED
      BY <2>1, <2>2, <2>3 DEF LInv
  <1> QED
    BY <1>1, <1>2, <1>3, <1>4

\* The ends of the other methods.
LEMMA AnswerStep ==
  ASSUME LInv, NEW c \in Calls,
         SignedOut(c) \/ UpdatedUser(c) \/ SignedIn(c) \/ Fails(c)
  PROVE  LInv'
  <1>1. CASE SignedOut(c)
    <2>1. TypeOK'
      BY <1>1 DEF LInv, TypeOK, SignedOut, Goto, storage, tokens, call
    <2>2. CallInv'
      BY <1>1 DEF LInv, TypeOK, CallInv, RefreshStages, Owing, SignedOut, Goto, call
    <2>3. OwedInv'
      BY <1>1 DEF LInv, TypeOK, OwedInv, Owing, SignedOut, Goto, storage, call
    <2> QED
      BY <2>1, <2>2, <2>3 DEF LInv
  <1>2. CASE UpdatedUser(c)
    <2>1. TypeOK'
      BY <1>2 DEF LInv, TypeOK, UpdatedUser, Goto, storage, tokens, call
    <2>2. CallInv'
      BY <1>2 DEF LInv, TypeOK, CallInv, RefreshStages, Owing, UpdatedUser, Goto, call
    <2>3. OwedInv'
      BY <1>2 DEF LInv, TypeOK, OwedInv, Owing, UpdatedUser, Goto, storage, call
    <2> QED
      BY <2>1, <2>2, <2>3 DEF LInv
  <1>3. CASE SignedIn(c)
    <2>0. session' \in Sessions
      BY <1>3, RefreshLockAssumption DEF SignedIn, Sessions
    <2>1. TypeOK'
      BY <1>3, <2>0 DEF LInv, TypeOK, SignedIn, Goto, storage, tokens, call
    <2>2. CallInv'
      BY <1>3 DEF LInv, TypeOK, CallInv, RefreshStages, Owing, SignedIn, Goto, call
    <2>3. OwedInv'
      BY <1>3 DEF LInv, TypeOK, OwedInv, Owing, SignedIn, Goto, storage, call
    <2> QED
      BY <2>1, <2>2, <2>3 DEF LInv
  <1>4. CASE Fails(c)
    <2>1. TypeOK'
      BY <1>4 DEF LInv, TypeOK, Fails, Goto, storage, tokens, call
    <2>2. CallInv'
      BY <1>4 DEF LInv, TypeOK, CallInv, RefreshStages, Owing, Fails, Goto, call
    <2>3. OwedInv'
      BY <1>4 DEF LInv, TypeOK, OwedInv, Owing, Fails, Goto, storage, call
    <2> QED
      BY <2>1, <2>2, <2>3 DEF LInv
  <1> QED
    BY <1>1, <1>2, <1>3, <1>4

\* A tab ends, or says that it may.
LEMMA TabStep ==
  ASSUME LInv, NEW t \in Tabs, Unload(t) \/ Kill(t) PROVE LInv'
  <1>1. CASE Unload(t)
    BY <1>1 DEF LInv, TypeOK, CallInv, RefreshStages, Owing, OwedInv, Unload, tokens, call
  <1>2. CASE Kill(t)
    <2>1. TypeOK'
      BY <1>2 DEF LInv, TypeOK, Kill, storage, tokens, call
    <2>2. CallInv'
      BY <1>2 DEF LInv, TypeOK, CallInv, RefreshStages, Owing, Kill, call
    \* A witness that dies was refreshing, and counts as killed.
    <2>3. OwedInv'
      BY <1>2 DEF LInv, TypeOK, CallInv, RefreshStages, OwedInv, Owing, Kill, storage
    <2> QED
      BY <2>1, <2>2, <2>3 DEF LInv
  <1> QED
    BY <1>1, <1>2

\* Every step of a call, and of a tab that ends, keeps the lock's invariant.
LEMMA StepLInv == LInv /\ [Next]_vars => LInv'
  <1> SUFFICES ASSUME LInv, [Next]_vars PROVE LInv'
    OBVIOUS
  <1>1. CASE UNCHANGED vars
    BY <1>1 DEF LInv, TypeOK, CallInv, OwedInv, vars, storage, call, tokens
  <1>2. CASE Next
    BY <1>1, <1>2, RefreshStep, OtherCallsStep, LockingStep, StoreStep, RequestStep,
       AnswerStep, TabStep
    DEF Next, Quiescent
  <1> QED
    BY <1>1, <1>2

\* Type correctness of the tabs and of localStorage, whatever calls are made.
THEOREM LockTypeCorrect == Spec => []TypeOK
  <1>1. LInv => TypeOK
    BY DEF LInv
  <1> QED
    BY <1>1, InitLInv, StepLInv, PTL DEF Spec

\* Unless a tab is killed while it refreshes, refresh_lock is only there while a
\* refresh is under way that will remove it, for any number of tabs and calls.
THEOREM LockReleased == Spec => []LockIsReleased
  <1>1. LInv => LockIsReleased
    BY DEF LInv, CallInv, OwedInv, RefreshStages, Owing, LockIsReleased
  <1> QED
    BY <1>1, InitLInv, StepLInv, PTL DEF Spec
----------------------------------------------------------------------------
(* One refresh at a time *)

\* Stages of the call that has confirmed its priority, up to the lock's removal.
Winning == {"reading", "requesting", "unlocking"}

\* As long as nothing took the lock from a call that had it: the winner holds the
\* lock, nobody is on his way to a priority of his own, and no one who waits will
\* find his id there; and the lock is set when a call is about to win.
Alone ==
  ~raced =>
    \A c \in Calls :
      /\ pc[c] \in Winning =>
           /\ refresh_lock
           /\ \A q \in Calls \ {c} :
                /\ pc[q] \notin {"locking", "marking"} \cup Winning
                /\ pc[q] = "waiting" => id[q] # priority_tab
      /\ pc[c] = "marking" \/ (pc[c] = "waiting" /\ id[c] = priority_tab) => refresh_lock

\* A call that tries for the lock has drawn an id.
HasId == \A c \in Calls : pc[c] \in RefreshStages => id[c] \in Calls
----------------------------------------------------------------------------
(* What is stored *)

\* What a call does is known from its stage; a token that arrives ends it.
OpInv ==
  \A c \in Calls :
    /\ pc[c] = "idle" => op[c] = "none"
    /\ pc[c] = "signing_out" => op[c] = "sign_out"
    /\ pc[c] = "signing_in" => op[c] = "sign_in"
    /\ pc[c] = "updating" => op[c] = "update"
    /\ pc[c] = "requesting" => next[c] = "done"

\* Calls under way at the same time know of each other.
MetInv ==
  \A c, q \in Calls : c # q /\ {pc[c], pc[q]} \subseteq InFlight => q \in peers[c]

\* A refresh that may yet end as a sign-out.
MayTurn(c) ==
  /\ op[c] = "refresh"
  /\ pc[c] \in InFlight
  /\ pc[c] \in {"unlocking", "unmarking"} => next[c] # "done"

\* c met q in a way that lets q, or c, write an older session back; and as
\* neither will turn into another operation, that stays on record.
Clash(c, q) ==
  /\ q \in peers[c]
  /\ \/ op[c] \in {"sign_out", "sign_in"} /\ op[q] \in {"refresh", "update"}
     \/ op[c] = "update" /\ op[q] = "refresh"
  /\ ~MayTurn(q)

Clashed == \E c, q \in Calls : Clash(c, q)

\* What is stored, and what a call is going to store, is up to date but for a
\* clash; to a refresh that meets a sign-out or a sign-in it is still to come.
StoredInv ==
  /\ session # None /\ (session.from # current \/ session.by # newest) => Clashed
  /\ \A c \in Calls :
       /\ pc[c] = "updating" /\ (seen[c].from # current \/ seen[c].by # newest) => Clashed
       /\ pc[c] = "requesting" /\ seen[c].from # current =>
            \/ Clashed
            \/ \E q \in Calls : op[q] \in {"sign_out", "sign_in"} /\ c \in peers[q]

SInv == HasId /\ Alone /\ OpInv /\ MetInv /\ StoredInv

LEMMA RefreshSInv ==
  ASSUME LInv, SInv, NEW c \in Calls, NEW t \in Tabs, Refresh(c, t) PROVE SInv'
<1>1. HasId'
  BY DEF LInv, SInv, TypeOK, HasId, Refresh, Start, Goto, ReadLock
<1>2. Alone'
  BY DEF SInv, Alone, Winning, Refresh, Start, Goto, ReadLock, storage
<1>3. OpInv'
  BY DEF LInv, SInv, TypeOK, OpInv, Refresh, Start, Goto, ReadLock
<1>4. MetInv'
  BY DEF SInv, MetInv, Refresh, Start, Goto
<1>5. ASSUME NEW b \in Calls, NEW q \in Calls, Clash(b, q) PROVE Clash(b, q)'
  BY <1>5 DEF SInv, OpInv, Clash, MayTurn, Refresh, Start, Goto, ReadLock
<1>6. Clashed => Clashed'
  BY <1>5 DEF Clashed
<1>7. StoredInv'
  BY <1>6 DEF SInv, OpInv, StoredInv, Refresh, Start, Goto, ReadLock, storage, tokens
<1> QED BY <1>1, <1>2, <1>3, <1>4, <1>7 DEF SInv

LEMMA SignOutSInv ==
  ASSUME LInv, SInv, NEW c \in Calls, NEW t \in Tabs, SignOut(c, t) PROVE SInv'
<1>1. HasId'
  BY DEF SInv, HasId, RefreshStages, Owing, SignOut, Start, Goto
<1>2. Alone'
  BY DEF SInv, Alone, Winning, SignOut, Start, Goto, storage
<1>3. OpInv'
  BY DEF LInv, SInv, TypeOK, OpInv, SignOut, Start, Goto
<1>4. MetInv'
  BY DEF SInv, MetInv, SignOut, Start, Goto
<1>5. ASSUME NEW b \in Calls, NEW q \in Calls, Clash(b, q) PROVE Clash(b, q)'
  BY <1>5 DEF SInv, OpInv, Clash, MayTurn, SignOut, Start, Goto
<1>6. Clashed => Clashed'
  BY <1>5 DEF Clashed
<1>7. StoredInv'
  BY <1>6 DEF SInv, StoredInv, SignOut, Start, Goto, storage, tokens
<1> QED BY <1>1, <1>2, <1>3, <1>4, <1>7 DEF SInv

LEMMA UpdateUserInSessionSInv ==
  ASSUME LInv, SInv, NEW c \in Calls, NEW t \in Tabs, UpdateUserInSession(c, t) PROVE SInv'
<1>1. HasId'
  BY DEF SInv, HasId, RefreshStages, Owing, UpdateUserInSession, Start, Goto
<1>2. Alone'
  BY DEF SInv, Alone, Winning, UpdateUserInSession, Start, Goto, storage
<1>3. OpInv'
  BY DEF LInv, SInv, TypeOK, OpInv, UpdateUserInSession, Start, Goto
<1>4. MetInv'
  BY DEF SInv, MetInv, UpdateUserInSession, Start, Goto
<1>5. ASSUME NEW b \in Calls, NEW q \in Calls, Clash(b, q) PROVE Clash(b, q)'
  BY <1>5 DEF SInv, OpInv, Clash, MayTurn, UpdateUserInSession, Start, Goto
<1>6. Clashed => Clashed'
  BY <1>5 DEF Clashed
<1>7. StoredInv'
  BY <1>6
  DEF LInv, SInv, TypeOK, OpInv, StoredInv, UpdateUserInSession, Start, Goto, storage,
     tokens
<1> QED BY <1>1, <1>2, <1>3, <1>4, <1>7 DEF SInv

LEMMA MfaChallengeSInv ==
  ASSUME LInv, SInv, NEW c \in Calls, NEW t \in Tabs, MfaChallenge(c, t) PROVE SInv'
<1>1. HasId'
  BY DEF SInv, HasId, RefreshStages, Owing, MfaChallenge, Start, Goto
<1>2. Alone'
  BY DEF SInv, Alone, Winning, MfaChallenge, Start, Goto, storage
<1>3. OpInv'
  BY DEF LInv, SInv, TypeOK, OpInv, MfaChallenge, Start, Goto
<1>4. MetInv'
  BY DEF SInv, MetInv, MfaChallenge, Start, Goto
<1>5. ASSUME NEW b \in Calls, NEW q \in Calls, Clash(b, q) PROVE Clash(b, q)'
  BY <1>5 DEF SInv, OpInv, Clash, MayTurn, MfaChallenge, Start, Goto
<1>6. Clashed => Clashed'
  BY <1>5 DEF Clashed
<1>7. StoredInv'
  BY <1>6 DEF SInv, StoredInv, MfaChallenge, Start, Goto, storage, tokens
<1> QED BY <1>1, <1>2, <1>3, <1>4, <1>7 DEF SInv

LEMMA RetrySInv ==
  ASSUME LInv, SInv, NEW c \in Calls, Retry(c) PROVE SInv'
<1>1. HasId'
  BY DEF LInv, SInv, TypeOK, HasId, Retry, Goto, ReadLock
<1>2. Alone'
  BY DEF SInv, Alone, Winning, Retry, Goto, ReadLock, storage
<1>3. OpInv'
  BY DEF SInv, OpInv, Retry, Goto, ReadLock, call
<1>4. MetInv'
  BY DEF SInv, MetInv, Retry, Goto, call
<1>5. ASSUME NEW b \in Calls, NEW q \in Calls, Clash(b, q) PROVE Clash(b, q)'
  BY <1>5 DEF Clash, MayTurn, Retry, Goto, ReadLock, call
<1>6. Clashed => Clashed'
  BY <1>5 DEF Clashed
<1>7. StoredInv'
  BY <1>6 DEF SInv, StoredInv, Retry, Goto, ReadLock, storage, call, tokens
<1> QED BY <1>1, <1>2, <1>3, <1>4, <1>7 DEF SInv

LEMMA SetLockSInv ==
  ASSUME LInv, SInv, NEW c \in Calls, SetLock(c) PROVE SInv'
<1>1. HasId'
  BY DEF SInv, HasId, RefreshStages, SetLock, Goto
<1>2. Alone'
  BY DEF SInv, Alone, Winning, SetLock, Goto
<1>3. OpInv'
  BY DEF SInv, OpInv, SetLock, Goto, call
<1>4. MetInv'
  BY DEF SInv, MetInv, SetLock, Goto, call
<1>5. ASSUME NEW b \in Calls, NEW q \in Calls, Clash(b, q) PROVE Clash(b, q)'
  BY <1>5 DEF Clash, MayTurn, SetLock, Goto, call
<1>6. Clashed => Clashed'
  BY <1>5 DEF Clashed
<1>7. StoredInv'
  BY <1>6 DEF SInv, StoredInv, SetLock, Goto, call, tokens
<1> QED BY <1>1, <1>2, <1>3, <1>4, <1>7 DEF SInv

LEMMA SetPrioritySInv ==
  ASSUME LInv, SInv, NEW c \in Calls, SetPriority(c) PROVE SInv'
<1>1. HasId'
  BY DEF SInv, HasId, RefreshStages, Owing, SetPriority, Goto
<1>2. Alone'
  BY DEF SInv, Alone, Winning, SetPriority, Goto
<1>3. OpInv'
  BY DEF SInv, OpInv, SetPriority, Goto, call
<1>4. MetInv'
  BY DEF SInv, MetInv, SetPriority, Goto, call
<1>5. ASSUME NEW b \in Calls, NEW q \in Calls, Clash(b, q) PROVE Clash(b, q)'
  BY <1>5 DEF Clash, MayTurn, SetPriority, Goto, call
<1>6. Clashed => Clashed'
  BY <1>5 DEF Clashed
<1>7. StoredInv'
  BY <1>6 DEF SInv, StoredInv, SetPriority, Goto, call, tokens
<1> QED BY <1>1, <1>2, <1>3, <1>4, <1>7 DEF SInv

LEMMA ConfirmSInv ==
  ASSUME LInv, SInv, NEW c \in Calls, Confirm(c) PROVE SInv'
<1>1. HasId'
  BY DEF LInv, SInv, TypeOK, HasId, RefreshStages, Owing, Confirm, Goto
<1>2. Alone'
  BY DEF LInv, SInv, TypeOK, CallInv, RefreshStages, Owing, Alone, Winning, Confirm,
     Goto, Unsettled, Contends, storage
<1>3. OpInv'
  BY DEF LInv, SInv, TypeOK, OpInv, Confirm, Goto, call
<1>4. MetInv'
  BY DEF LInv, SInv, TypeOK, MetInv, Confirm, Goto, call
<1>5. ASSUME NEW b \in Calls, NEW q \in Calls, Clash(b, q) PROVE Clash(b, q)'
  BY <1>5 DEF LInv, TypeOK, Clash, MayTurn, Confirm, Goto, call
<1>6. Clashed => Clashed'
  BY <1>5 DEF Clashed
<1>7. StoredInv'
  BY <1>6 DEF LInv, SInv, TypeOK, StoredInv, Confirm, Goto, storage, call, tokens
<1> QED BY <1>1, <1>2, <1>3, <1>4, <1>7 DEF SInv

LEMMA LoseSInv ==
  ASSUME LInv, SInv, NEW c \in Calls, Lose(c) PROVE SInv'
<1>1. HasId'
  BY DEF SInv, HasId, RefreshStages, Owing, Lose, Goto
<1>2. Alone'
  BY DEF LInv, TypeOK, CallInv, RefreshStages, Owing, Alone, Winning, Lose, Goto,
     Contends
<1>3. OpInv'
  BY DEF SInv, OpInv, Lose, Goto, call
<1>4. MetInv'
  BY DEF SInv, MetInv, Lose, Goto, call
<1>5. ASSUME NEW b \in Calls, NEW q \in Calls, Clash(b, q) PROVE Clash(b, q)'
  BY <1>5 DEF Clash, MayTurn, Lose, Goto, call
<1>6. Clashed => Clashed'
  BY <1>5 DEF Clashed
<1>7. StoredInv'
  BY <1>6 DEF SInv, StoredInv, Lose, Goto, call, tokens
<1> QED BY <1>1, <1>2, <1>3, <1>4, <1>7 DEF SInv

LEMMA ReadSessionSInv ==
  ASSUME LInv, SInv, NEW c \in Calls, ReadSession(c) PROVE SInv'
<1>1. HasId'
  BY DEF SInv, HasId, RefreshStages, Owing, ReadSession, Goto
<1>2. Alone'
  BY DEF SInv, Alone, Winning, ReadSession, Goto, storage
<1>3. OpInv'
  BY DEF LInv, SInv, TypeOK, OpInv, ReadSession, Goto, call
<1>4. MetInv'
  BY DEF SInv, MetInv, ReadSession, Goto, call
<1>5. ASSUME NEW b \in Calls, NEW q \in Calls, Clash(b, q) PROVE Clash(b, q)'
  BY <1>5 DEF Clash, MayTurn, ReadSession, Goto, call
<1>6. Clashed => Clashed'
  BY <1>5 DEF Clashed
<1>7. StoredInv'
  BY <1>6 DEF LInv, SInv, TypeOK, StoredInv, ReadSession, Goto, storage, call, tokens
<1> QED BY <1>1, <1>2, <1>3, <1>4, <1>7 DEF SInv

LEMMA StoreSInv ==
  ASSUME LInv, SInv, NEW c \in Calls, Store(c) PROVE SInv'
<1>1. HasId'
  BY DEF SInv, HasId, RefreshStages, Owing, Store, Goto
<1>2. Alone'
  BY DEF SInv, Alone, Winning, Store, Goto
<1>3. OpInv'
  BY DEF SInv, OpInv, Store, Goto, call
<1>4. MetInv'
  BY DEF SInv, MetInv, Store, Goto, call
<1>5. ASSUME NEW b \in Calls, NEW q \in Calls, Clash(b, q) PROVE Clash(b, q)'
  BY <1>5 DEF Clash, MayTurn, Store, Goto, call
<1>6. Clashed => Clashed'
  BY <1>5 DEF Clashed
<1>7. StoredInv'
  <2>1. /\ pc[c] = "requesting" /\ op[c] = "refresh" /\ next[c] = "done"
        /\ seen[c] \in Sessions
    BY DEF LInv, SInv, CallInv, OpInv, RefreshStages, Owing, Store, TypeOK
  <2>2. /\ op' = op /\ peers' = peers /\ next' = next /\ seen' = seen
        /\ current' = current /\ newest' = c /\ pc' = [pc EXCEPT ![c] = "unlocking"]
    BY DEF Store, Goto, call
  <2>3. session'.from = seen[c].from /\ session'.by = c
    BY DEF Store
  <2>4. ~MayTurn(c)'
    BY <2>1, <2>2 DEF LInv, TypeOK, MayTurn
  <2>5. ASSUME seen[c].from # current PROVE Clashed'
    <3>1. CASE Clashed
      BY <1>6, <3>1
    <3>2. CASE \E q \in Calls : op[q] \in {"sign_out", "sign_in"} /\ c \in peers[q]
      BY <2>1, <2>2, <2>4, <3>2 DEF Clashed, Clash
    <3> QED
      BY <2>1, <2>5, <3>1, <3>2 DEF SInv, StoredInv
  <2>6. ASSUME NEW d \in Calls, pc[d] = "updating" PROVE Clashed'
    <3>1. c \in peers[d] /\ op[d] = "update"
      BY <2>1, <2>6 DEF SInv, MetInv, OpInv
    <3> QED
      BY <2>1, <2>2, <2>4, <3>1 DEF Clashed, Clash
  <2> QED
    BY <1>6, <2>2, <2>3, <2>5, <2>6 DEF SInv, StoredInv
<1> QED BY <1>1, <1>2, <1>3, <1>4, <1>7 DEF SInv

LEMMA RefusedSInv ==
  ASSUME LInv, SInv, NEW c \in Calls, Refused(c) PROVE SInv'
<1>1. HasId'
  BY DEF SInv, HasId, RefreshStages, Owing, Refused, Goto
<1>2. Alone'
  BY DEF SInv, Alone, Winning, Refused, Goto, storage
<1>3. OpInv'
  BY DEF LInv, SInv, TypeOK, OpInv, Refused, Goto, call
<1>4. MetInv'
  BY DEF SInv, MetInv, Refused, Goto, call
<1>5. ASSUME NEW b \in Calls, NEW q \in Calls, Clash(b, q) PROVE Clash(b, q)'
  BY <1>5 DEF Clash, MayTurn, Refused, Goto, call
<1>6. Clashed => Clashed'
  BY <1>5 DEF Clashed
<1>7. StoredInv'
  BY <1>6 DEF SInv, StoredInv, Refused, Goto, storage, call, tokens
<1> QED BY <1>1, <1>2, <1>3, <1>4, <1>7 DEF SInv

LEMMA RemoveLockSInv ==
  ASSUME LInv, SInv, NEW c \in Calls, RemoveLock(c) PROVE SInv'
<1>1. HasId'
  BY DEF SInv, HasId, RefreshStages, Owing, RemoveLock, Goto
<1>2. Alone'
  BY DEF LInv, SInv, TypeOK, Alone, Winning, RemoveLock, Goto
<1>3. OpInv'
  BY DEF SInv, OpInv, RemoveLock, Goto, call
<1>4. MetInv'
  BY DEF SInv, MetInv, RemoveLock, Goto, call
<1>5. ASSUME NEW b \in Calls, NEW q \in Calls, Clash(b, q) PROVE Clash(b, q)'
  BY <1>5 DEF Clash, MayTurn, RemoveLock, Goto, call
<1>6. Clashed => Clashed'
  BY <1>5 DEF Clashed
<1>7. StoredInv'
  BY <1>6 DEF SInv, StoredInv, RemoveLock, Goto, call, tokens
<1> QED BY <1>1, <1>2, <1>3, <1>4, <1>7 DEF SInv

LEMMA RemovePrioritySInv ==
  ASSUME LInv, SInv, NEW c \in Calls, RemovePriority(c) PROVE SInv'
<1>1. HasId'
  BY DEF SInv, HasId, RefreshStages, RemovePriority, Goto
<1>2. Alone'
  BY RefreshLockAssumption
  DEF LInv, SInv, TypeOK, RefreshStages, Owing, HasId, Alone, Winning, RemovePriority,
     Goto
<1>3. OpInv'
  BY DEF LInv, SInv, TypeOK, OpInv, RemovePriority, Goto
<1>4. MetInv'
  BY DEF SInv, MetInv, RemovePriority, Goto
<1>5. ASSUME NEW b \in Calls, NEW q \in Calls, Clash(b, q) PROVE Clash(b, q)'
  <2>1. pc[c] = "unmarking" /\ op[c] = "refresh"
    BY DEF LInv, CallInv, RefreshStages, RemovePriority
  <2>2. b # c
    BY <1>5, <2>1 DEF Clash
  <2>3. op'[b] = op[b] /\ op'[q] = op[q] /\ peers' = peers
    BY <1>5, <2>1 DEF RemovePriority, Clash, MayTurn
  <2> QED
    BY <1>5, <2>3 DEF RemovePriority, Goto, Clash, MayTurn
<1>6. Clashed => Clashed'
  BY <1>5 DEF Clashed
<1>7. StoredInv'
  BY <1>6 DEF LInv, SInv, TypeOK, StoredInv, RemovePriority, Goto, tokens
<1> QED BY <1>1, <1>2, <1>3, <1>4, <1>7 DEF SInv

LEMMA SignedOutSInv ==
  ASSUME LInv, SInv, NEW c \in Calls, SignedOut(c) PROVE SInv'
<1>1. HasId'
  BY DEF SInv, HasId, RefreshStages, Owing, SignedOut, Goto
<1>2. Alone'
  BY DEF SInv, Alone, Winning, SignedOut, Goto
<1>3. OpInv'
  BY DEF SInv, OpInv, SignedOut, Goto, call
<1>4. MetInv'
  BY DEF SInv, MetInv, SignedOut, Goto, call
<1>5. ASSUME NEW b \in Calls, NEW q \in Calls, Clash(b, q) PROVE Clash(b, q)'
  BY <1>5 DEF Clash, MayTurn, SignedOut, Goto, call
<1>6. Clashed => Clashed'
  BY <1>5 DEF Clashed
<1>7. StoredInv'
  <2>1. pc[c] = "signing_out" /\ op[c] = "sign_out"
    BY DEF SInv, OpInv, SignedOut
  <2>2. /\ op' = op /\ peers' = peers /\ seen' = seen
        /\ pc' = [pc EXCEPT ![c] = "done"]
        /\ session' = None
    BY DEF SignedOut, Goto, call
  <2>3. ASSUME NEW d \in Calls, pc[d] = "updating" PROVE Clashed'
    <3>1. d \in peers[c] /\ op[d] = "update"
      BY <2>1, <2>3 DEF SInv, MetInv, OpInv
    <3> QED
      BY <2>1, <2>2, <3>1 DEF Clashed, Clash, MayTurn
  <2>4. ASSUME NEW d \in Calls, pc[d] = "requesting" PROVE d \in peers[c]
    BY <2>1, <2>4 DEF SInv, MetInv
  <2> QED
    BY <2>1, <2>2, <2>3, <2>4 DEF StoredInv
<1> QED BY <1>1, <1>2, <1>3, <1>4, <1>7 DEF SInv

LEMMA UpdatedUserSInv ==
  ASSUME LInv, SInv, NEW c \in Calls, UpdatedUser(c) PROVE SInv'
<1>1. HasId'
  BY DEF SInv, HasId, RefreshStages, Owing, UpdatedUser, Goto
<1>2. Alone'
  BY DEF SInv, Alone, Winning, UpdatedUser, Goto
<1>3. OpInv'
  BY DEF SInv, OpInv, UpdatedUser, Goto, call
<1>4. MetInv'
  BY DEF SInv, MetInv, UpdatedUser, Goto, call
<1>5. ASSUME NEW b \in Calls, NEW q \in Calls, Clash(b, q) PROVE Clash(b, q)'
  BY <1>5 DEF Clash, MayTurn, UpdatedUser, Goto, call
<1>6. Clashed => Clashed'
  BY <1>5 DEF Clashed
<1>7. StoredInv'
  BY <1>6 DEF SInv, StoredInv, UpdatedUser, Goto, call, tokens
<1> QED BY <1>1, <1>2, <1>3, <1>4, <1>7 DEF SInv

LEMMA SignedInSInv ==
  ASSUME LInv, SInv, NEW c \in Calls, SignedIn(c) PROVE SInv'
<1>1. HasId'
  BY DEF SInv, HasId, RefreshStages, Owing, SignedIn, Goto
<1>2. Alone'
  BY DEF SInv, Alone, Winning, SignedIn, Goto
<1>3. OpInv'
  BY DEF SInv, OpInv, SignedIn, Goto, call
<1>4. MetInv'
  BY DEF SInv, MetInv, SignedIn, Goto, call
<1>5. ASSUME NEW b \in Calls, NEW q \in Calls, Clash(b, q) PROVE Clash(b, q)'
  BY <1>5 DEF Clash, MayTurn, SignedIn, Goto, call
<1>6. Clashed => Clashed'
  BY <1>5 DEF Clashed
<1>7. StoredInv'
  <2>1. pc[c] = "signing_in" /\ op[c] = "sign_in"
    BY DEF SInv, OpInv, SignedIn
  <2>2. /\ op' = op /\ peers' = peers /\ seen' = seen
        /\ pc' = [pc EXCEPT ![c] = "done"]
        /\ session'.from = c /\ session'.by = c /\ current' = c /\ newest' = c
    BY DEF SignedIn, Goto, call
  <2>3. ASSUME NEW d \in Calls, pc[d] = "updating" PROVE Clashed'
    <3>1. d \in peers[c] /\ op[d] = "update"
      BY <2>1, <2>3 DEF SInv, MetInv, OpInv
    <3> QED
      BY <2>1, <2>2, <3>1 DEF Clashed, Clash, MayTurn
  <2>4. ASSUME NEW d \in Calls, pc[d] = "requesting" PROVE d \in peers[c]
    BY <2>1, <2>4 DEF SInv, MetInv
  <2> QED
    BY <2>1, <2>2, <2>3, <2>4 DEF StoredInv
<1> QED BY <1>1, <1>2, <1>3, <1>4, <1>7 DEF SInv

LEMMA FailsSInv ==
  ASSUME LInv, SInv, NEW c \in Calls, Fails(c) PROVE SInv'
<1>1. HasId'
  BY DEF SInv, HasId, RefreshStages, Owing, Fails, Goto
<1>2. Alone'
  BY DEF SInv, Alone, Winning, Fails, Goto, storage
<1>3. OpInv'
  BY DEF SInv, OpInv, Fails, Goto, call
<1>4. MetInv'
  BY DEF SInv, MetInv, Fails, Goto, call
<1>5. ASSUME NEW b \in Calls, NEW q \in Calls, Clash(b, q) PROVE Clash(b, q)'
  BY <1>5 DEF Clash, MayTurn, Fails, Goto, call
<1>6. Clashed => Clashed'
  BY <1>5 DEF Clashed
<1>7. StoredInv'
  BY <1>6 DEF SInv, StoredInv, Fails, Goto, storage, call, tokens
<1> QED BY <1>1, <1>2, <1>3, <1>4, <1>7 DEF SInv

LEMMA UnloadSInv ==
  ASSUME LInv, SInv, NEW t \in Tabs, Unload(t) PROVE SInv'
<1>1. HasId'
  BY DEF SInv, HasId, Unload
<1>2. Alone'
  BY DEF Alone, Unload
<1>3. OpInv'
  BY DEF SInv, OpInv, Unload, call
<1>4. MetInv'
  BY DEF SInv, MetInv, Unload, call
<1>5. ASSUME NEW b \in Calls, NEW q \in Calls, Clash(b, q) PROVE Clash(b, q)'
  BY <1>5 DEF Clash, MayTurn, Unload, call
<1>6. Clashed => Clashed'
  BY <1>5 DEF Clashed
<1>7. StoredInv'
  BY <1>6 DEF SInv, StoredInv, Unload, call, tokens
<1> QED BY <1>1, <1>2, <1>3, <1>4, <1>7 DEF SInv

LEMMA KillSInv ==
  ASSUME LInv, SInv, NEW t \in Tabs, Kill(t) PROVE SInv'
<1>1. HasId'
  BY DEF SInv, HasId, RefreshStages, Owing, Kill
<1>2. Alone'
  BY DEF SInv, Alone, Winning, Kill, storage
<1>3. OpInv'
  BY DEF SInv, OpInv, Kill, call
<1>4. MetInv'
  BY DEF SInv, MetInv, Kill, call
<1>5. ASSUME NEW b \in Calls, NEW q \in Calls, Clash(b, q) PROVE Clash(b, q)'
  BY <1>5 DEF Clash, MayTurn, Kill, call
<1>6. Clashed => Clashed'
  BY <1>5 DEF Clashed
<1>7. StoredInv'
  BY <1>6 DEF SInv, StoredInv, Kill, storage, call, tokens
<1> QED BY <1>1, <1>2, <1>3, <1>4, <1>7 DEF SInv

LEMMA InitSInv == Init => SInv
  BY DEF Init, SInv, HasId, RefreshStages, Owing, Alone, Winning, OpInv, MetInv,
     StoredInv

\* Every step keeps what is known of the stored session, given the lock's invariant.
LEMMA StepSInv == LInv /\ SInv /\ [Next]_vars => SInv'
<1> SUFFICES ASSUME LInv, SInv, [Next]_vars PROVE SInv'
  OBVIOUS
<1>1. ASSUME UNCHANGED vars PROVE SInv'
  BY <1>1
  DEF SInv, HasId, Alone, OpInv, MetInv, StoredInv, Clashed, Clash, MayTurn, vars,
     storage, call, tokens
<1>2. ASSUME NEW c \in Calls, NEW t \in Tabs,
             \/ Refresh(c, t) \/ SignOut(c, t)
             \/ UpdateUserInSession(c, t) \/ MfaChallenge(c, t)
      PROVE  SInv'
  BY <1>2, RefreshSInv, SignOutSInv, UpdateUserInSessionSInv, MfaChallengeSInv
<1>3. ASSUME NEW c \in Calls,
             \/ Retry(c) \/ SetLock(c) \/ SetPriority(c) \/ Confirm(c) \/ Lose(c)
             \/ ReadSession(c) \/ Store(c) \/ Refused(c) \/ RemoveLock(c)
             \/ RemovePriority(c)
      PROVE  SInv'
  BY <1>3, RetrySInv, SetLockSInv, SetPrioritySInv, ConfirmSInv, LoseSInv,
     ReadSessionSInv, StoreSInv, RefusedSInv, RemoveLockSInv, RemovePrioritySInv
<1>4. ASSUME NEW c \in Calls, SignedOut(c) \/ UpdatedUser(c) \/ SignedIn(c) \/ Fails(c)
      PROVE  SInv'
  BY <1>4, SignedOutSInv, UpdatedUserSInv, SignedInSInv, FailsSInv
<1>5. ASSUME NEW t \in Tabs, Unload(t) \/ Kill(t) PROVE SInv'
  BY <1>5, UnloadSInv, KillSInv
<1> QED
  BY <1>1, <1>2, <1>3, <1>4, <1>5 DEF Next, Quiescent

LEMMA Inductive == Spec => [](LInv /\ SInv)
  BY InitLInv, StepLInv, InitSInv, StepSInv, PTL DEF Spec

\* For any number of tabs and calls, two refreshes spend the cookie at once only
\* after one of the four races that `raced` records.
THEOREM RefreshesOneAtATime == Spec => []OneRefreshUnlessRaced
<1>1. LInv /\ SInv => OneRefreshUnlessRaced
  BY DEF SInv, Alone, Winning, OneRefreshUnlessRaced
<1> QED
  BY <1>1, Inductive, PTL

\* For any number of tabs and calls, an older session is stored only when one of
\* the calls that hold on to what they read met one that replaced it.
THEOREM StoresTheNewest == Spec => []StoredIsNewest
<1>1. Clashed =>
        \/ Overlap("sign_out", {"refresh", "update"})
        \/ Overlap("sign_in", {"refresh", "update"})
        \/ Overlap("update", {"refresh"})
  BY DEF Clashed, Clash, Overlap
<1>2. SInv => StoredIsNewest
  BY <1>1 DEF SInv, StoredInv, StoredIsNewest
<1> QED
  BY <1>2, Inductive, PTL
=================================================================================

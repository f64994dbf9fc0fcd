------------------------------- MODULE RefreshLock -------------------------------
(***************************************************************************)
(* The session that the tabs of one browser share in localStorage, and the *)
(* lock under which StexsAuthClient refreshes its access token: the items  *)
(* 'session', 'refresh_lock' and 'priority_tab'.                           *)
(*                                                                         *)
(* Within a tab only await lets another call run; the tabs run in parallel *)
(* and one access to localStorage is one step.  The server is external: it *)
(* may refuse any request, or give a body without an errors field, which   *)
(* is what the client takes for success.                                   *)
(*                                                                         *)
(* A refresh starts at any time: the expiry that the timers and the        *)
(* visibilitychange handler look at first is left out.  mfa_challenge is   *)
(* left out, too: a sign-in is its last request and the write of its       *)
(* session.                                                                *)
(***************************************************************************)
EXTENDS Naturals

CONSTANTS
  Calls,               \* calls of the methods of StexsAuthClient
  Tabs,                \* the tabs, each with a client of its own
  MaxCount,            \* 24: refreshes of a session that is not continuous
  MaxRetries,          \* 5
  Before,              \* the sign-in that stored the first session
  None                 \* no session, no item, no tab

ASSUME RefreshLockAssumption ==
  /\ MaxCount \in Nat
  /\ MaxRetries \in Nat
  /\ Before \notin Calls
  /\ None \notin Calls \cup Tabs \cup {Before}

\* from names the session after the sign-in that opened it, by the access token
\* after the call that got it.
Sessions == [from : Calls \cup {Before}, by : Calls \cup {Before},
             enabled : BOOLEAN, count : 0..MaxCount]

ASSUME NoSessionAssumption == None \notin Sessions

VARIABLES
  session,             \* the items of localStorage
  refresh_lock,
  priority_tab,
  retries,             \* refreshRetryCount of each client
  pc,                  \* where each call is
  op,                  \* what it does
  tab,                 \* the tab it runs in
  id,                  \* its currentTabId, named after a call that drew it
  stamp,               \* the id drawn last: the same millisecond gives it again
  seen,                \* the session it read
  next,                \* what follows once a refresh has released the lock
  current,             \* history: the sign-in the user is in; None once signed out
  newest,              \* history: the call that was last given a token
  raced,               \* history: the lock did not keep two refreshes apart
  killed,              \* history: a tab ended with a refresh under way
  peers                \* history: the calls it was in flight with

storage == <<session, refresh_lock, priority_tab>>
call == <<op, tab, peers>>
tokens == <<current, newest>>
vars == <<storage, retries, pc, call, id, stamp, seen, next, tokens, raced, killed>>

\* Stages between two awaits, in which the call has its tab for itself.
Synchronous == {"locking", "marking", "reading", "losing", "unlocking", "unmarking"}
Awaiting == {"waiting", "requesting", "retrying", "signing_out", "updating", "signing_in"}
InFlight == Synchronous \cup Awaiting
Over == {"done", "error", "gone"}

TypeOK ==
  /\ session \in Sessions \cup {None}
  /\ refresh_lock \in BOOLEAN
  /\ priority_tab \in Calls \cup {None}
  /\ retries \in [Tabs -> Nat]
  /\ pc \in [Calls -> {"idle"} \cup InFlight \cup Over]
  /\ op \in [Calls -> {"none", "refresh", "sign_out", "update", "sign_in"}]
  /\ tab \in [Calls -> Tabs \cup {None}]
  /\ id \in [Calls -> Calls \cup {None}]
  /\ stamp \in Calls \cup {None}
  /\ seen \in [Calls -> Sessions \cup {None}]
  /\ next \in [Calls -> {"done", "retrying", "signing_out"}]
  /\ current \in Calls \cup {Before, None}
  /\ newest \in Calls \cup {Before}
  /\ raced \in BOOLEAN
  /\ killed \in BOOLEAN
  /\ peers \in [Calls -> SUBSET Calls]

Init ==
  /\ session \in [from : {Before}, by : {Before}, enabled : BOOLEAN, count : {0}]
  /\ refresh_lock = FALSE
  /\ priority_tab = None
  /\ retries = [t \in Tabs |-> 0]
  /\ pc = [c \in Calls |-> "idle"]
  /\ op = [c \in Calls |-> "none"]
  /\ tab = [c \in Calls |-> None]
  /\ id = [c \in Calls |-> None]
  /\ stamp = None
  /\ seen = [c \in Calls |-> None]
  /\ next = [c \in Calls |-> "done"]
  /\ current = Before
  /\ newest = Before
  /\ raced = FALSE
  /\ killed = FALSE
  /\ peers = [c \in Calls |-> {}]
----------------------------------------------------------------------------
\* No other call of its tab is between two awaits.
HasTab(c) == \A q \in Calls \ {c} : tab[q] = tab[c] => pc[q] \notin Synchronous

Goto(c, stage) == pc' = [pc EXCEPT ![c] = stage]

\* The application, or a timer, makes a call in a tab.
Start(c, t, o, stage) ==
  /\ pc[c] = "idle"
  /\ \A q \in Calls : tab[q] = t => pc[q] \notin Synchronous \cup {"gone"}
  /\ op' = [op EXCEPT ![c] = o]
  /\ tab' = [tab EXCEPT ![c] = t]
  /\ Goto(c, stage)
  /\ LET others == {q \in Calls : pc[q] \in InFlight}
     IN  peers' = [q \in Calls |-> IF q = c THEN others
                                   ELSE IF q \in others THEN peers[q] \cup {c}
                                   ELSE peers[q]]
----------------------------------------------------------------------------
(* _refreshAccessToken *)

\* Holds the lock as far as it knows, or is about to take it.
Contends(q) == op[q] = "refresh" /\ pc[q] \in InFlight \ {"retrying", "losing"}

\* Reads the lock, and the clock.
ReadLock(c) ==
  /\ \E same \in BOOLEAN :
       LET now == IF same /\ stamp # None THEN stamp ELSE c
       IN  id' = [id EXCEPT ![c] = now] /\ stamp' = now
  /\ UNCHANGED <<storage, retries, seen, next, tokens, raced, killed>>

Refresh(c, t) ==
  /\ Start(c, t, "refresh", IF refresh_lock THEN "done" ELSE "locking")
  /\ ReadLock(c)

\* The timer of a failed refresh.
Retry(c) ==
  /\ pc[c] = "retrying" /\ HasTab(c)
  /\ Goto(c, IF refresh_lock THEN "done" ELSE "locking")
  /\ ReadLock(c)
  /\ UNCHANGED call

SetLock(c) ==
  /\ pc[c] = "locking"
  /\ refresh_lock' = TRUE
  /\ Goto(c, "marking")
  /\ UNCHANGED <<session, priority_tab, retries, call, id, stamp, seen, next, tokens,
                 raced, killed>>

SetPriority(c) ==
  /\ pc[c] = "marking"
  /\ priority_tab' = id[c]
  /\ Goto(c, "waiting")
  /\ UNCHANGED <<session, refresh_lock, retries, call, id, stamp, seen, next, tokens,
                 raced, killed>>

\* Another tab read the lock before it was set, and has yet to put its own id;
\* or it drew the same id.
Unsettled(c) ==
  \E q \in Calls \ {c} :
    pc[q] \in {"locking", "marking"} \/ (id[q] = id[c] /\ Contends(q))

\* Mutant: the priority is not looked at again.
ConfirmAlways(c) ==
  /\ pc[c] = "waiting" /\ HasTab(c)
  /\ \E visible \in BOOLEAN : Goto(c, IF visible THEN "reading" ELSE "unlocking")
  /\ raced' = (raced \/ Unsettled(c))
  /\ next' = [next EXCEPT ![c] = "done"]
  /\ UNCHANGED <<storage, retries, call, id, stamp, seen, tokens, killed>>

\* A millisecond later: somebody else has the priority, or the tab is hidden,
\* or the refresh goes on.
Confirm(c) ==
  /\ pc[c] = "waiting" /\ HasTab(c)
  /\ \/ priority_tab # id[c] /\ Goto(c, "losing") /\ UNCHANGED raced
     \/ /\ priority_tab = id[c]
        /\ \E visible \in BOOLEAN : Goto(c, IF visible THEN "reading" ELSE "unlocking")
        /\ raced' = (raced \/ Unsettled(c))
  /\ next' = [next EXCEPT ![c] = "done"]
  /\ UNCHANGED <<storage, retries, call, id, stamp, seen, tokens, killed>>

\* The loser takes the lock away, although it may be the winner's by now.
Lose(c) ==
  /\ pc[c] = "losing"
  /\ refresh_lock' = FALSE
  /\ raced' = (raced \/ \E q \in Calls \ {c} : Contends(q))
  /\ Goto(c, "done")
  /\ UNCHANGED <<session, priority_tab, retries, call, id, stamp, seen, next, tokens,
                 killed>>

\* Mutant: without a session it returns before the try.
ReadSessionEarly(c) ==
  /\ pc[c] = "reading"
  /\ seen' = [seen EXCEPT ![c] = session]
  /\ LET limit == session # None /\ session.count = MaxCount
     IN  /\ Goto(c, IF session = None THEN "done"
                    ELSE IF limit THEN "unlocking" ELSE "requesting")
         /\ next' = [next EXCEPT ![c] = IF limit THEN "signing_out" ELSE "done"]
  /\ UNCHANGED <<storage, retries, call, id, stamp, tokens, raced, killed>>

\* The request is sent; at the limit it is that of signOut.
ReadSession(c) ==
  /\ pc[c] = "reading"
  /\ seen' = [seen EXCEPT ![c] = session]
  /\ LET limit == session # None /\ session.count = MaxCount
     IN  /\ Goto(c, IF session = None \/ limit THEN "unlocking" ELSE "requesting")
         /\ next' = [next EXCEPT ![c] = IF limit THEN "signing_out" ELSE "done"]
  /\ UNCHANGED <<storage, retries, call, id, stamp, tokens, raced, killed>>

\* Mutant: the session is read again.
StoreReread(c) ==
  /\ pc[c] = "requesting" /\ HasTab(c) /\ session # None
  /\ session' = [session EXCEPT !.by = c, !.count = IF session.enabled THEN @ ELSE @ + 1]
  /\ newest' = c
  /\ retries' = [retries EXCEPT ![tab[c]] = 0]
  /\ Goto(c, "unlocking")
  /\ UNCHANGED <<refresh_lock, priority_tab, current, call, id, stamp, seen, next, raced, killed>>

\* The new token is stored with what the session was before the request.
Store(c) ==
  /\ pc[c] = "requesting" /\ HasTab(c)
  /\ session' = [seen[c] EXCEPT !.by = c,
                                !.count = IF seen[c].enabled THEN @ ELSE @ + 1]
  /\ newest' = c
  /\ retries' = [retries EXCEPT ![tab[c]] = 0]
  /\ Goto(c, "unlocking")
  /\ UNCHANGED <<refresh_lock, priority_tab, current, call, id, stamp, seen, next, raced, killed>>

\* Refused, or the request failed.
Refused(c) ==
  /\ pc[c] = "requesting" /\ HasTab(c)
  /\ retries' = [retries EXCEPT ![tab[c]] = @ + 1]
  /\ next' = [next EXCEPT ![c] =
       IF retries[tab[c]] < MaxRetries THEN "retrying" ELSE "signing_out"]
  /\ Goto(c, "unlocking")
  /\ UNCHANGED <<storage, call, id, stamp, seen, tokens, raced, killed>>

RemoveLock(c) ==
  /\ pc[c] = "unlocking"
  /\ refresh_lock' = FALSE
  /\ Goto(c, "unmarking")
  /\ UNCHANGED <<session, priority_tab, retries, call, id, stamp, seen, next, tokens,
                 raced, killed>>

\* signOut was called before the lock was released, and awaits its answer.
RemovePriority(c) ==
  /\ pc[c] = "unmarking"
  /\ priority_tab' = None
  /\ Goto(c, next[c])
  /\ op' = [op EXCEPT ![c] = IF next[c] = "signing_out" THEN "sign_out" ELSE @]
  /\ UNCHANGED <<session, refresh_lock, retries, tab, peers, id, stamp, seen, next,
                 tokens, raced, killed>>
----------------------------------------------------------------------------
(* The other methods that touch the session *)

SignOut(c, t) ==
  /\ Start(c, t, "sign_out", "signing_out")
  /\ UNCHANGED <<storage, retries, id, stamp, seen, next, tokens, raced, killed>>

\* Mutant: the item is not removed.
SignedOutKeepsSession(c) ==
  /\ pc[c] = "signing_out" /\ HasTab(c)
  /\ current' = None
  /\ retries' = [retries EXCEPT ![tab[c]] = 0]
  /\ Goto(c, "done")
  /\ UNCHANGED <<storage, newest, call, id, stamp, seen, next, raced, killed>>

\* Whatever the server answered.
SignedOut(c) ==
  /\ pc[c] = "signing_out" /\ HasTab(c)
  /\ session' = None
  /\ current' = None
  /\ retries' = [retries EXCEPT ![tab[c]] = 0]
  /\ Goto(c, "done")
  /\ UNCHANGED <<refresh_lock, priority_tab, newest, call, id, stamp, seen, next, raced, killed>>

UpdateUserInSession(c, t) ==
  /\ Start(c, t, "update", IF session = None THEN "error" ELSE "updating")
  /\ seen' = [seen EXCEPT ![c] = session]
  /\ UNCHANGED <<storage, retries, id, stamp, next, tokens, raced, killed>>

\* The session read before the request is written back.
UpdatedUser(c) ==
  /\ pc[c] = "updating" /\ HasTab(c)
  /\ session' = seen[c]
  /\ Goto(c, "done")
  /\ UNCHANGED <<refresh_lock, priority_tab, retries, call, id, stamp, seen, next,
                 tokens, raced, killed>>

MfaChallenge(c, t) ==
  /\ Start(c, t, "sign_in", "signing_in")
  /\ UNCHANGED <<storage, retries, id, stamp, seen, next, tokens, raced, killed>>

SignedIn(c) ==
  /\ pc[c] = "signing_in" /\ HasTab(c)
  /\ \E continuous \in BOOLEAN :
       session' = [from |-> c, by |-> c, enabled |-> continuous, count |-> 0]
  /\ current' = c
  /\ newest' = c
  /\ Goto(c, "done")
  /\ UNCHANGED <<refresh_lock, priority_tab, retries, call, id, stamp, seen, next,
                 raced, killed>>

\* The request throws, or, but for a sign-out, is refused.
Fails(c) ==
  /\ pc[c] \in {"signing_out", "updating", "signing_in"} /\ HasTab(c)
  /\ Goto(c, "error")
  /\ UNCHANGED <<storage, retries, call, id, stamp, seen, next, tokens, raced, killed>>
----------------------------------------------------------------------------
(* Tabs *)

\* beforeunload; the tab may stay.
Unload(t) ==
  /\ \A q \in Calls : tab[q] = t => pc[q] \notin Synchronous \cup {"gone"}
  /\ refresh_lock
  /\ refresh_lock' = FALSE
  /\ priority_tab' = None
  /\ raced' = TRUE
  /\ UNCHANGED <<session, retries, pc, call, id, stamp, seen, next, tokens, killed>>

\* The tab is closed or killed; the browser may have skipped beforeunload.
Kill(t) ==
  /\ \E q \in Calls : tab[q] = t /\ pc[q] \in InFlight
  /\ pc' = [q \in Calls |-> IF tab[q] = t THEN "gone" ELSE pc[q]]
  /\ killed' = (killed \/ \E q \in Calls :
                  tab[q] = t /\ op[q] = "refresh" /\ pc[q] \in InFlight)
  /\ UNCHANGED <<storage, retries, call, id, stamp, seen, next, tokens, raced>>

\* No call is under way; no tab may be left to make another.
Quiescent ==
  /\ \A c \in Calls : pc[c] \notin InFlight
  /\ UNCHANGED vars

Next ==
  \/ \E c \in Calls :
       \/ \E t \in Tabs : Refresh(c, t) \/ SignOut(c, t) \/ UpdateUserInSession(c, t)
                            \/ MfaChallenge(c, t)
       \/ Retry(c) \/ SetLock(c) \/ SetPriority(c) \/ Confirm(c) \/ Lose(c)
       \/ ReadSession(c) \/ Store(c) \/ Refused(c) \/ RemoveLock(c) \/ RemovePriority(c)
       \/ SignedOut(c) \/ UpdatedUser(c) \/ SignedIn(c) \/ Fails(c)
  \/ \E t \in Tabs : Unload(t) \/ Kill(t)
  \/ Quiescent

Spec == Init /\ [][Next]_vars
----------------------------------------------------------------------------
(* Properties *)

Overlap(o, others) ==
  \E c \in Calls : op[c] = o /\ \E q \in peers[c] : op[q] \in others

\* Two refreshes are under way at once, each spending the same refresh cookie,
\* only after a tab went ahead while another was still between reading the lock
\* and putting its id, two tabs drew the same id, a tab that lost took the lock
\* of the one that won, or a beforeunload took it.  The history remembers that a
\* race was had, not whose: the property is about the way to the first one.
OneRefreshUnlessRaced ==
  \A c, q \in Calls :
    c # q /\ pc[c] = "requesting" /\ pc[q] = "requesting" => raced

\* The lock is there only as long as a refresh is under way: losers, hidden tabs
\* and failures all take it away.  If one is left, no tab ever refreshes again
\* before a beforeunload; only a tab killed in the middle leaves one.
LockIsReleased ==
  refresh_lock /\ ~killed =>
    \E c \in Calls : op[c] = "refresh" /\ pc[c] \in InFlight \ {"retrying"}

\* What is stored belongs to the session the user is in, with the token given
\* last.  A refresh or an update that meets a sign-out or a sign-in, or an update
\* that meets a refresh, may write an older session back; nothing else does.
StoredIsNewest ==
  session # None /\ (session.from # current \/ session.by # newest) =>
    \/ Overlap("sign_out", {"refresh", "update"})
    \/ Overlap("sign_in", {"refresh", "update"})
    \/ Overlap("update", {"refresh"})
=================================================================================

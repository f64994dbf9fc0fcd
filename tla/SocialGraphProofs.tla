---------------------------- MODULE SocialGraphProofs ----------------------------
(***************************************************************************)
(* Proofs about SocialGraph, for any number of calls: type correctness,    *)
(* that friendship is mutual, that friendship, request and block exclude   *)
(* each other but for the overlaps named there, that friends were asked,   *)
(* and which calls can deadlock.                                           *)
(***************************************************************************)
EXTENDS SocialGraph, FiniteSetTheorems, TLAPS

\* What the open transaction of a call has locked.
Held(r) == added[r] \cup deleted[r]

Friends(S) == In("friends", S)

\* A key names one committed row; who holds a key holds it alone; and what an
\* open transaction inserts takes the place of nothing it has not deleted.
Keys ==
  /\ \A x, y \in rows : SameKey(x, y) => x = y
  /\ \A r \in Requests :
       /\ deleted[r] \subseteq rows
       /\ \A x \in added[r], y \in rows : SameKey(x, y) => y \in deleted[r]
       /\ \A q \in Requests \ {r} : \A x \in Held(q), y \in Held(r) : ~SameKey(x, y)

\* Every committed friendship has its mirror.
Whole == \A x \in Friends(rows) : \E y \in Friends(rows) : y.of = Other(x.of)

FriendRow(r, u) == [table |-> "friends", by |-> r, of |-> u]

\* What a call has done, and has still to do, at each of its stages.
Ended(r) == todo[r] = {} /\ added[r] = {} /\ deleted[r] = {}

OneRowOf(r, table) ==
  /\ added[r] = {}
  /\ \A x \in todo[r] \cup deleted[r] : x.table = table
  /\ \A x, y \in todo[r] \cup deleted[r] : x = y
  /\ todo[r] \cap deleted[r] = {}
  /\ pc[r] = "committing" => todo[r] = {}

Requesting(r) ==
  /\ pc[r] \in {"inserting", "committing"}
  /\ todo[r] = {} /\ deleted[r] = {}
  /\ added[r] = IF pc[r] = "inserting" THEN {}
                ELSE {[table |-> "friend_requests", of |-> who[r], by |-> r]}

Accepting(r) ==
  /\ pc[r] \in {"inserting", "triggering", "mirroring", "clearing", "committing"}
  /\ pc[r] # "clearing" => todo[r] = {}
  /\ \A x \in todo[r] \cup deleted[r] : x.table = "friend_requests"
  /\ pc[r] \in {"inserting", "triggering", "mirroring"} => deleted[r] = {}
  /\ pc[r] \in {"triggering", "clearing"} => ~both[r]
  /\ pc[r] = "inserting" => added[r] = {}
  /\ pc[r] \in {"triggering", "mirroring"} => added[r] = {FriendRow(r, way[r])}
  /\ pc[r] \in {"clearing", "committing"} =>
       added[r] = {FriendRow(r, way[r]), FriendRow(r, Other(way[r]))}

Unfriending(r) ==
  /\ pc[r] \in {"unfriending", "mirroring_delete", "committing"}
  /\ added[r] = {}
  /\ pc[r] = "unfriending" /\ ~both[r] =>
       OneRowOf(r, "friends") /\ \A x \in todo[r] \cup deleted[r] : x.of = way[r]
  /\ \A x \in todo[r] \cup deleted[r] : x.table = "friends"
  /\ pc[r] = "mirroring_delete" /\ ~both[r] /\ todo[r] \cup deleted[r] # {} =>
       \E x \in deleted[r] : x.of = way[r]
  /\ pc[r] = "committing" => todo[r] = {}

Blocking(r) ==
  /\ pc[r] \in {"clearing", "unfriending", "mirroring_delete", "inserting", "committing"}
  /\ added[r] = IF pc[r] # "committing" THEN {}
                ELSE {[table |-> "blocked", of |-> who[r], by |-> r]}
  /\ pc[r] \in {"inserting", "committing"} => todo[r] = {}
  /\ pc[r] \in {"unfriending", "mirroring_delete"} => \A x \in todo[r] : x.table = "friends"
  /\ pc[r] = "clearing" => \A x \in todo[r] \cup deleted[r] : x.table = "friend_requests"
  /\ \A x \in deleted[r] : x.table # "blocked"

Withdrawing(r) == pc[r] \in {"clearing", "committing"} /\ OneRowOf(r, "friend_requests")

Unblocking(r) == pc[r] \in {"unblocking", "committing"} /\ OneRowOf(r, "blocked")

StageOf(r) ==
  /\ pc[r] = "idle" => op[r] = "none"
  /\ pc[r] \notin InFlight => Ended(r)
  /\ pc[r] \in InFlight =>
       /\ who[r] \in Users /\ way[r] \in Users
       /\ \/ op[r] = "request" /\ Requesting(r)
          \/ op[r] = "withdraw" /\ Withdrawing(r)
          \/ op[r] = "accept" /\ Accepting(r)
          \/ op[r] = "unfriend" /\ Unfriending(r)
          \/ op[r] = "block" /\ Blocking(r)
          \/ op[r] = "unblock" /\ Unblocking(r)

Stages == \A r \in Requests : StageOf(r)

\* Whoever deletes a row of a friendship goes on to delete the other one.
Mirrored ==
  \A r \in Requests : op[r] \in {"unfriend", "block"} =>
    /\ \A x \in Friends(deleted[r]), y \in Friends(rows) : y.of = Other(x.of) =>
         /\ pc[r] = "mirroring_delete" => y \in todo[r] \cup deleted[r]
         /\ pc[r] \in {"inserting", "committing"} => y \in deleted[r]
    /\ pc[r] = "mirroring_delete" =>
         \A x \in todo[r] : \E y \in Friends(deleted[r]) : y.of = Other(x.of)

Met == \A q, r \in Requests : q # r /\ {pc[q], pc[r]} \subseteq InFlight => q \in peers[r]
----------------------------------------------------------------------------
(* What each call relies on while it is in flight *)

\* The rows of a table are deleted, or will be, but for those that met the call.
Rids(r, table) == In(table, rows) \subseteq todo[r] \cup deleted[r]
HasRid(r, table) == In(table, rows) \subseteq deleted[r]

RequestFits ==
  \A r \in Requests : op[r] = "request" /\ pc[r] \in InFlight =>
    /\ Blocked => Overlap("block", "request")
    /\ AreFriends => Overlap("accept", "request")

\* The request was there when the call looked, and who removed it met the call.
WasAsked(r) ==
  \/ RequestTo(who[r])
  \/ \E q \in peers[r] : \/ op[q] \in {"withdraw", "block"}
                         \/ op[q] = "accept" /\ both[r]

AcceptFits ==
  \A r \in Requests : op[r] = "accept" /\ pc[r] \in InFlight =>
    /\ Blocked => Overlap("block", "accept") \/ Overlap("block", "request")
    /\ \/ Overlap("accept", "request")
       \/ /\ \A x \in In("friend_requests", rows) : x.of = Other(who[r])
          /\ way[r] = who[r] /\ ~both[r] =>
               /\ pc[r] = "clearing" => Rids(r, "friend_requests")
               /\ pc[r] = "committing" => HasRid(r, "friend_requests")
    /\ pc[r] \in {"mirroring", "clearing", "committing"} \/ both[r] => WasAsked(r)

BlockFits ==
  \A r \in Requests : op[r] = "block" /\ pc[r] \in InFlight =>
    /\ \/ Overlap("block", "request")
       \/ /\ pc[r] = "clearing" => Rids(r, "friend_requests")
          /\ pc[r] # "clearing" => HasRid(r, "friend_requests")
    /\ \/ Overlap("block", "accept")
       \/ /\ pc[r] = "unfriending" => Rids(r, "friends")
          /\ pc[r] \in {"mirroring_delete", "inserting", "committing"} => HasRid(r, "friends")

Exclusion == RequestFits /\ AcceptFits /\ BlockFits /\ RelationsExclude

GInv == TypeOK /\ Keys /\ Whole /\ Stages /\ Mirrored /\ Met
IInv == GInv /\ Exclusion
----------------------------------------------------------------------------
LEMMA OtherFacts ==
  \A u \in Users : /\ Other(u) \in Users /\ Other(u) # u /\ Other(Other(u)) = u
                   /\ \A v \in Users : v = u \/ v = Other(u)
<1> SUFFICES ASSUME NEW u \in Users
             PROVE  \E v : Users = {u, v} /\ u # v
  BY DEF Other
<1>1. Cardinality(Users \ {u}) = 1 /\ IsFiniteSet(Users \ {u})
  BY SocialGraphAssumption, FS_RemoveElement
<1>2. PICK v : Users \ {u} = {v}
  BY <1>1, FS_Singleton
<1> QED
  BY <1>2


LEMMA SameStage ==
  ASSUME GInv, NEW q \in Requests,
         pc'[q] = pc[q], op'[q] = op[q], who'[q] = who[q], way'[q] = way[q],
         both'[q] = both[q], todo'[q] = todo[q], added'[q] = added[q], deleted'[q] = deleted[q]
  PROVE  StageOf(q)'
<1>1. /\ Ended(q) => Ended(q)'
      /\ Requesting(q) => Requesting(q)'
      /\ Withdrawing(q) => Withdrawing(q)'
      /\ Unblocking(q) => Unblocking(q)'
  BY DEF Ended, Requesting, Withdrawing, Unblocking, OneRowOf
<1>2. Accepting(q) => Accepting(q)'
  BY DEF Accepting
<1>3. Unfriending(q) => Unfriending(q)'
  BY DEF Unfriending, OneRowOf
<1>4. Blocking(q) => Blocking(q)'
  BY DEF Blocking
<1> QED
  BY <1>1, <1>2, <1>3, <1>4 DEF GInv, Stages, StageOf

LEMMA RequestGInv ==
  ASSUME GInv, NEW r \in Requests, NEW u \in Users, Request(r, u) PROVE GInv'
<1>1. TypeOK'
  BY DEF GInv, TypeOK, Ops, Request, Call, InFlight, Inserting, Answered
<1>2. Keys'
  BY DEF GInv, Keys, Held, Request, Call
<1>3. Whole'
  BY DEF GInv, Whole, Request, Call
<1>4. Stages'
  <2>1. ASSUME NEW q \in Requests \ {r} PROVE StageOf(q)'
    BY SameStage DEF GInv, TypeOK, Request, Call
  <2>2. added[r] = {} /\ deleted[r] = {}
    BY DEF GInv, Stages, StageOf, Ended, Request, Call, InFlight
  <2>3. /\ pc'[r] \in {"403", "inserting"} /\ op'[r] = "request"
        /\ who'[r] = u /\ way'[r] = u /\ todo'[r] = {}
        /\ added'[r] = {} /\ deleted'[r] = {}
    BY <2>2 DEF GInv, TypeOK, Request, Call, Inserting
  <2>4. StageOf(r)'
    BY <2>3 DEF StageOf, Ended, Requesting, InFlight, Deleting, Inserting
  <2> QED
    BY <2>1, <2>4 DEF Stages
<1>5. Mirrored'
  BY DEF GInv, TypeOK, Mirrored, Request, Call
<1>6. Met'
  BY DEF GInv, Met, Request, Call
<1> QED BY <1>1, <1>2, <1>3, <1>4, <1>5, <1>6 DEF GInv

LEMMA WithdrawGInv ==
  ASSUME GInv, NEW r \in Requests, NEW u \in Users, Withdraw(r, u) PROVE GInv'
<1>1. TypeOK'
  BY DEF GInv, TypeOK, Ops, Withdraw, Call, In, InFlight, Deleting
<1>2. Keys'
  BY DEF GInv, Keys, Held, Withdraw, Call
<1>3. Whole'
  BY DEF GInv, Whole, Withdraw, Call
<1>4. Stages'
  <2>1. ASSUME NEW q \in Requests \ {r} PROVE StageOf(q)'
    BY SameStage DEF GInv, TypeOK, Withdraw, Call
  <2>2. \A x, y \in In("friend_requests", rows) : x.by = y.by => x = y
    BY DEF GInv, Keys, SameKey, In
  <2>3. StageOf(r)'
    BY DEF GInv, TypeOK, Keys, SameKey, Stages, StageOf, Ended, Withdrawing, OneRowOf,
       Withdraw, Call, Find, In, InFlight, Deleting
  <2> QED
    BY <2>1, <2>3 DEF Stages
<1>5. Mirrored'
  BY DEF GInv, Mirrored, Withdraw, Call
<1>6. Met'
  BY DEF GInv, Met, Withdraw, Call
<1> QED BY <1>1, <1>2, <1>3, <1>4, <1>5, <1>6 DEF GInv

LEMMA AcceptGInv ==
  ASSUME GInv, NEW r \in Requests, NEW u \in Users, NEW w \in Users, NEW b \in BOOLEAN,
         Accept(r, u, w, b)
  PROVE  GInv'
<1>1. TypeOK'
  BY DEF GInv, TypeOK, Ops, Accept, Call, InFlight, Inserting, Answered
<1>2. Keys'
  BY DEF GInv, Keys, Held, Accept, Call
<1>3. Whole'
  BY DEF GInv, Whole, Accept, Call
<1>4. Stages'
  <2>1. ASSUME NEW q \in Requests \ {r} PROVE StageOf(q)'
    BY SameStage DEF GInv, TypeOK, Accept, Call
  <2>2. added[r] = {} /\ deleted[r] = {}
    BY DEF GInv, Stages, StageOf, Ended, Accept, Call, InFlight
  <2>3. /\ pc'[r] \in {"403", "inserting"} /\ op'[r] = "accept"
        /\ who'[r] = u /\ way'[r] = w /\ todo'[r] = {}
        /\ added'[r] = {} /\ deleted'[r] = {}
    BY <2>2 DEF GInv, TypeOK, Accept, Call, Inserting
  <2>4. StageOf(r)'
    BY <2>3 DEF StageOf, Ended, Accepting, InFlight, Deleting, Inserting
  <2> QED
    BY <2>1, <2>4 DEF Stages
<1>5. Mirrored'
  BY DEF GInv, TypeOK, Mirrored, Accept, Call
<1>6. Met'
  BY DEF GInv, Met, Accept, Call
<1> QED BY <1>1, <1>2, <1>3, <1>4, <1>5, <1>6 DEF GInv

LEMMA UnfriendGInv ==
  ASSUME GInv, NEW r \in Requests, NEW u \in Users, NEW w \in Users, Unfriend(r, u, w)
  PROVE  GInv'
<1>1. TypeOK'
  BY DEF GInv, TypeOK, Ops, Unfriend, Call, In, Find, InFlight, Deleting
<1>2. Keys'
  BY DEF GInv, Keys, Held, Unfriend, Call
<1>3. Whole'
  BY DEF GInv, Whole, Unfriend, Call
<1>4. Stages'
  <2>1. ASSUME NEW q \in Requests \ {r} PROVE StageOf(q)'
    BY SameStage DEF GInv, TypeOK, Unfriend, Call
  <2>2. added[r] = {} /\ deleted[r] = {}
    BY DEF GInv, Stages, StageOf, Ended, Unfriend, Call, InFlight
  <2>3. \A x, y \in Find(rows, "friends", w) : x = y
    BY DEF GInv, Keys, SameKey, Find, In
  <2>4. StageOf(r)'
    BY <2>2, <2>3
    DEF GInv, TypeOK, StageOf, Unfriending, OneRowOf, Unfriend, Call, Find, In, InFlight,
       Deleting
  <2> QED
    BY <2>1, <2>4 DEF Stages
<1>5. Mirrored'
  BY DEF GInv, Mirrored, Unfriend, Call
<1>6. Met'
  BY DEF GInv, Met, Unfriend, Call
<1> QED BY <1>1, <1>2, <1>3, <1>4, <1>5, <1>6 DEF GInv

LEMMA UnfriendBothGInv ==
  ASSUME GInv, NEW r \in Requests, NEW u \in Users, UnfriendBoth(r, u)
  PROVE  GInv'
<1>1. TypeOK'
  BY DEF GInv, TypeOK, Ops, UnfriendBoth, Call, In, Find, InFlight, Deleting
<1>2. Keys'
  BY DEF GInv, Keys, Held, UnfriendBoth, Call
<1>3. Whole'
  BY DEF GInv, Whole, UnfriendBoth, Call
<1>4. Stages'
  <2>1. ASSUME NEW q \in Requests \ {r} PROVE StageOf(q)'
    BY SameStage DEF GInv, TypeOK, UnfriendBoth, Call
  <2>2. added[r] = {} /\ deleted[r] = {}
    BY DEF GInv, Stages, StageOf, Ended, UnfriendBoth, Call, InFlight
  <2>4. StageOf(r)'
    BY <2>2
    DEF GInv, TypeOK, StageOf, Unfriending, OneRowOf, UnfriendBoth, Call, Find, In, InFlight,
       Deleting
  <2> QED
    BY <2>1, <2>4 DEF Stages
<1>5. Mirrored'
  BY DEF GInv, Mirrored, UnfriendBoth, Call
<1>6. Met'
  BY DEF GInv, Met, UnfriendBoth, Call
<1> QED BY <1>1, <1>2, <1>3, <1>4, <1>5, <1>6 DEF GInv

LEMMA BlockGInv ==
  ASSUME GInv, NEW r \in Requests, NEW u \in Users, Block(r, u) PROVE GInv'
<1>1. TypeOK'
  BY DEF GInv, TypeOK, Ops, Block, Call, In, InFlight, Deleting
<1>2. Keys'
  BY DEF GInv, Keys, Held, Block, Call
<1>3. Whole'
  BY DEF GInv, Whole, Block, Call
<1>4. Stages'
  BY SocialGraphAssumption
  DEF GInv, TypeOK, Stages, StageOf, Withdrawing, Unblocking, Ended, OneRowOf,
     Requesting, Accepting, Unfriending, Blocking, In, Block, Call, InFlight, Deleting
<1>5. Mirrored'
  BY DEF GInv, Mirrored, Block, Call
<1>6. Met'
  BY DEF GInv, Met, Block, Call
<1> QED BY <1>1, <1>2, <1>3, <1>4, <1>5, <1>6 DEF GInv

LEMMA UnblockGInv ==
  ASSUME GInv, NEW r \in Requests, NEW u \in Users, Unblock(r, u) PROVE GInv'
<1>1. TypeOK'
  BY DEF GInv, TypeOK, Ops, Unblock, Call, In, Find, InFlight, Deleting
<1>2. Keys'
  BY DEF GInv, Keys, Held, Unblock, Call
<1>3. Whole'
  BY DEF GInv, Whole, Unblock, Call
<1>4. Stages'
  <2>1. ASSUME NEW q \in Requests \ {r} PROVE StageOf(q)'
    BY SameStage DEF GInv, TypeOK, Unblock, Call
  <2>2. \A x, y \in Find(rows, "blocked", u) : x = y
    BY DEF GInv, Keys, SameKey, Find, In
  <2>3. StageOf(r)'
    BY <2>2
    DEF GInv, TypeOK, Stages, StageOf, Ended, Unblocking, OneRowOf, Unblock, Call, Find,
       In, InFlight, Deleting
  <2> QED
    BY <2>1, <2>3 DEF Stages
<1>5. Mirrored'
  BY DEF GInv, Mirrored, Unblock, Call
<1>6. Met'
  BY DEF GInv, Met, Unblock, Call
<1> QED BY <1>1, <1>2, <1>3, <1>4, <1>5, <1>6 DEF GInv

LEMMA DeleteRowGInv ==
  ASSUME GInv, NEW r \in Requests, NEW x \in Rows, DeleteRow(r, x) PROVE GInv'
<1>1. TypeOK'
  BY DEF GInv, TypeOK, DeleteRow
<1>2. Keys'
  BY DEF GInv, Keys, Held, SameKey, DeleteRow
<1>3. Whole'
  BY DEF GInv, Whole, DeleteRow
<1>4. Stages'
  BY OtherFacts, SocialGraphAssumption
  DEF GInv, TypeOK, Stages, StageOf, Withdrawing, Unblocking, Ended, OneRowOf,
     Requesting, Accepting, Unfriending, Blocking, DeleteRow
<1>5. Mirrored'
  BY OtherFacts
  DEF GInv, TypeOK, Keys, SameKey, Mirrored, In, Friends, DeleteRow, Deleting
<1>6. Met'
  BY DEF GInv, Met, DeleteRow
<1> QED BY <1>1, <1>2, <1>3, <1>4, <1>5, <1>6 DEF GInv

LEMMA ClearedGInv ==
  ASSUME GInv, NEW r \in Requests, Cleared(r) PROVE GInv'
<1>1. TypeOK'
  BY DEF GInv, TypeOK, Cleared, Proceed, Visible, In, InFlight, Deleting
<1>2. Keys'
  BY DEF GInv, Keys, Held, Cleared, Proceed
<1>3. Whole'
  BY DEF GInv, Whole, Cleared, Proceed
<1>4. Stages'
  <2>1. ASSUME NEW q \in Requests \ {r} PROVE StageOf(q)'
    BY SameStage DEF GInv, TypeOK, Cleared, Proceed
  <2>2. StageOf(r)'
    <3>1. CASE op[r] = "block"
      BY <3>1
      DEF GInv, TypeOK, Stages, StageOf, Blocking, Cleared, Visited, Proceed, In,
         InFlight, Deleting
    <3>2. CASE op[r] # "block"
      BY <3>2
      DEF GInv, TypeOK, Stages, StageOf, OneRowOf, Requesting, Withdrawing, Accepting,
         Unfriending, Unblocking, Cleared, Visited, Proceed, InFlight, Deleting
    <3> QED
      BY <3>1, <3>2
  <2> QED
    BY <2>1, <2>2 DEF Stages
<1>5. Mirrored'
  BY DEF GInv, TypeOK, Mirrored, Stages, StageOf, Unfriending, Cleared, Visited,
     Proceed, Answered
<1>6. Met'
  BY DEF GInv, TypeOK, Met, Cleared, Visited, Proceed, Answered
<1> QED BY <1>1, <1>2, <1>3, <1>4, <1>5, <1>6 DEF GInv

LEMMA DeleteMirrorsGInv ==
  ASSUME GInv, NEW r \in Requests, DeleteMirrors(r) PROVE GInv'
<1>1. TypeOK'
  BY DEF GInv, TypeOK, DeleteMirrors, Proceed, Visible, In, InFlight, Deleting
<1>2. Keys'
  BY DEF GInv, Keys, Held, DeleteMirrors, Proceed
<1>3. Whole'
  BY DEF GInv, Whole, DeleteMirrors, Proceed
<1>4. Stages'
  BY OtherFacts
  DEF GInv, TypeOK, Stages, StageOf, Withdrawing, Unblocking, Ended, OneRowOf,
     Requesting, Accepting, Unfriending, Blocking, In, DeleteMirrors, Visited, Proceed,
     InFlight, Deleting
<1>5. Mirrored'
  BY OtherFacts
  DEF GInv, TypeOK, Mirrored, Rows, In, Friends, DeleteMirrors, Proceed, Visible
<1>6. Met'
  BY DEF GInv, Met, DeleteMirrors, Visited, Proceed, InFlight, Deleting
<1> QED BY <1>1, <1>2, <1>3, <1>4, <1>5, <1>6 DEF GInv

LEMMA UnfriendedGInv ==
  ASSUME GInv, NEW r \in Requests, Unfriended(r) PROVE GInv'
<1>1. TypeOK'
  BY DEF GInv, TypeOK, Unfriended, Proceed, InFlight, Inserting
<1>2. Keys'
  BY DEF GInv, Keys, Held, Unfriended, Proceed
<1>3. Whole'
  BY DEF GInv, Whole, Unfriended, Proceed
<1>4. Stages'
  BY DEF GInv, TypeOK, Stages, StageOf, Withdrawing, Unblocking, Ended, OneRowOf,
     Requesting, Accepting, Unfriending, Blocking, Unfriended, Visited, Proceed,
     InFlight, Inserting, Answered
<1>5. Mirrored'
  BY DEF GInv, Mirrored, Unfriended, Visited, Proceed
<1>6. Met'
  BY DEF GInv, Met, Unfriended, Visited, Proceed, InFlight, Deleting
<1> QED BY <1>1, <1>2, <1>3, <1>4, <1>5, <1>6 DEF GInv

LEMMA UnblockedGInv ==
  ASSUME GInv, NEW r \in Requests, Unblocked(r) PROVE GInv'
<1>1. TypeOK'
  BY DEF GInv, TypeOK, Unblocked, Proceed, InFlight
<1>2. Keys'
  BY DEF GInv, Keys, Held, Unblocked, Proceed
<1>3. Whole'
  BY DEF GInv, Whole, Unblocked, Proceed
<1>4. Stages'
  BY DEF GInv, TypeOK, Stages, StageOf, Withdrawing, Unblocking, Ended, OneRowOf,
     Requesting, Accepting, Unfriending, Blocking, Unblocked, Visited, Proceed,
     InFlight, Answered
<1>5. Mirrored'
  BY SocialGraphAssumption
  DEF GInv, TypeOK, Mirrored, Stages, StageOf, Unfriending, Blocking, Unblocked,
     Visited, Proceed, Answered
<1>6. Met'
  BY DEF GInv, Met, Unblocked, Visited, Proceed, InFlight, Deleting
<1> QED BY <1>1, <1>2, <1>3, <1>4, <1>5, <1>6 DEF GInv

LEMMA InsertRowGInv ==
  ASSUME GInv, NEW r \in Requests, InsertRow(r) PROVE GInv'
<1>0. /\ NewRow(r) \in Rows /\ pc[r] \in Inserting /\ Visible(r) \subseteq Rows
      /\ who[r] \in Users /\ way[r] \in Users /\ Other(way[r]) \in Users
  BY OtherFacts
  DEF GInv, TypeOK, Rows, Tables, Stages, StageOf, InsertRow, NewRow, Visible, InFlight
<1> DEFINE stage == AfterInsert(r)
           found == IF stage # "clearing" THEN {}
                    ELSE Find(Visible(r), "friend_requests", Other(way[r]))
<1>a. pc' = [pc EXCEPT ![r] = stage] /\ todo' = [todo EXCEPT ![r] = found]
  BY DEF InsertRow
<1>1. TypeOK'
  <2>1. stage \in {"committing", "triggering", "mirroring", "clearing"}
    BY <1>0 DEF AfterInsert, Inserting
  <2>2. found \in SUBSET Rows
    BY <1>0 DEF Find, In
  <2>3. added' = [added EXCEPT ![r] = @ \cup {NewRow(r)}]
    BY DEF InsertRow
  <2> HIDE DEF stage, found
  <2> QED
    BY <1>0, <1>a, <2>1, <2>2 DEF GInv, TypeOK, InsertRow, InFlight, Deleting, Inserting
<1>2. Keys'
  BY DEF GInv, Keys, Held, SameKey, InsertRow, KeyFree, KeyTaken, Visible
<1>3. Whole'
  BY DEF GInv, Whole, InsertRow
<1>4. Stages'
  <2>1. ASSUME NEW q \in Requests \ {r} PROVE StageOf(q)'
    BY SameStage DEF InsertRow
  <2>2. StageOf(r)'
    <3>0. ASSUME op[r] \in {"request", "block"}
          PROVE  /\ pc' = [pc EXCEPT ![r] = "committing"]
                 /\ todo' = [todo EXCEPT ![r] = {}]
                 /\ added' = [added EXCEPT ![r] = added[r] \cup {NewRow(r)}]
                 /\ UNCHANGED <<op, who, way, both, deleted>>
      <4>1. stage = "committing" /\ found = {}
        BY <3>0 DEF AfterInsert
      <4> QED
        BY <4>1 DEF InsertRow
    <3>1. CASE op[r] = "request"
      BY <1>0, <3>0, <3>1
      DEF GInv, TypeOK, Stages, StageOf, Requesting, NewRow, InFlight
    <3>2. CASE op[r] = "block"
      BY <1>0, <3>0, <3>2 DEF GInv, TypeOK, Stages, StageOf, Blocking, NewRow, InFlight
    <3>3. CASE op[r] = "accept"
      <4>1. CASE pc[r] = "inserting"
        <5>1. /\ added[r] = {} /\ deleted[r] = {} /\ todo[r] = {}
              /\ NewRow(r) = FriendRow(r, way[r])
          BY <3>3, <4>1
          DEF GInv, Stages, StageOf, Accepting, NewRow, FriendRow, InFlight, Inserting
        <5>2. /\ added' = [added EXCEPT ![r] = {FriendRow(r, way[r])}]
              /\ pc' = [pc EXCEPT ![r] = IF both[r] THEN "mirroring" ELSE "triggering"]
              /\ todo'[r] = {}
              /\ UNCHANGED <<op, who, way, both, deleted>>
          BY <3>3, <4>1, <5>1 DEF GInv, TypeOK, InsertRow, AfterInsert
        <5> QED
          BY <1>0, <3>3, <5>1, <5>2
          DEF GInv, TypeOK, StageOf, Accepting, InFlight, Deleting, Inserting
      <4>2. CASE pc[r] = "mirroring"
        <5>1. /\ added[r] = {FriendRow(r, way[r])} /\ deleted[r] = {}
              /\ NewRow(r) = FriendRow(r, Other(way[r]))
          BY <3>3, <4>2
          DEF GInv, Stages, StageOf, Accepting, NewRow, FriendRow, InFlight, Inserting
        <5>2. /\ added' = [added EXCEPT ![r] = {FriendRow(r, way[r]),
                                               FriendRow(r, Other(way[r]))}]
              /\ pc' = [pc EXCEPT ![r] = IF both[r] THEN "committing" ELSE "clearing"]
              /\ \A x \in todo'[r] : x.table = "friend_requests"
              /\ both[r] => todo'[r] = {}
              /\ UNCHANGED <<op, who, way, both, deleted>>
          BY <3>3, <4>2, <5>1 DEF GInv, TypeOK, InsertRow, AfterInsert, Find, In
        <5> QED
          BY <1>0, <3>3, <5>1, <5>2
          DEF GInv, TypeOK, StageOf, Accepting, InFlight, Deleting
      <4> QED
        BY <1>0, <4>1, <4>2 DEF Inserting
    <3> QED
      BY <1>0, <3>1, <3>2, <3>3
      DEF GInv, Stages, StageOf, Withdrawing, Unfriending, Unblocking, InFlight,
         Inserting
  <2> QED
    BY <2>1, <2>2 DEF Stages
<1>5. Mirrored'
  BY DEF GInv, TypeOK, Mirrored, Stages, StageOf, Unfriending, Blocking, InsertRow,
     Inserting, Answered
<1>6. Met'
  BY DEF GInv, Met, InsertRow, InFlight
<1> QED BY <1>1, <1>2, <1>3, <1>4, <1>5, <1>6 DEF GInv

LEMMA DuplicateGInv ==
  ASSUME GInv, NEW r \in Requests, Duplicate(r) PROVE GInv'
<1>1. TypeOK'
  BY DEF GInv, TypeOK, Duplicate, RollBack, Answered
<1>2. Keys'
  BY DEF GInv, TypeOK, Keys, Held, Duplicate, RollBack
<1>3. Whole'
  BY DEF GInv, Whole, Duplicate, RollBack
<1>4. Stages'
  BY OtherFacts
  DEF GInv, TypeOK, Stages, StageOf, Withdrawing, Unblocking, Ended, OneRowOf,
     Requesting, Accepting, Unfriending, Blocking, Duplicate, RollBack, InFlight,
     Deleting, Inserting
<1>5. Mirrored'
  BY DEF GInv, Mirrored, In, Friends, Duplicate, RollBack, Inserting
<1>6. Met'
  BY DEF GInv, Met, Duplicate, RollBack, InFlight
<1> QED BY <1>1, <1>2, <1>3, <1>4, <1>5, <1>6 DEF GInv

LEMMA InsertMirrorGInv ==
  ASSUME GInv, NEW r \in Requests, InsertMirror(r) PROVE GInv'
<1>1. TypeOK'
  BY DEF GInv, TypeOK, InsertMirror, Proceed, RollBack, InFlight, Inserting, Answered
<1>2. Keys'
  BY DEF GInv, TypeOK, Keys, Held, InsertMirror, Proceed, RollBack
<1>3. Whole'
  BY DEF GInv, Whole, InsertMirror, Proceed, RollBack
<1>4. Stages'
  <2>1. ASSUME NEW q \in Requests \ {r} PROVE StageOf(q)'
    BY SameStage DEF GInv, TypeOK, InsertMirror, Proceed, RollBack
  \* No friendship is committed, so that there is no mirror yet.
  <2>2. /\ op[r] = "accept" /\ who[r] \in Users /\ way[r] \in Users
        /\ added[r] = {FriendRow(r, way[r])} /\ deleted[r] = {} /\ todo[r] = {}
    BY DEF GInv, Stages, StageOf, Requesting, Withdrawing, Accepting, Unfriending,
       Blocking, Unblocking, InsertMirror, InFlight
  <2>3. ASSUME NEW y \in Friends(rows) PROVE y.of # way[r]
    <3>1. /\ FriendRow(r, way[r]).table = "friends" /\ FriendRow(r, way[r]).of = way[r]
          /\ y \in rows /\ y.table = "friends"
      BY DEF FriendRow, Friends, In
    <3> QED
      BY <2>2, <3>1 DEF GInv, Keys, SameKey
  <2>4. Friends(rows) = {}
    BY <2>2, <2>3, OtherFacts DEF GInv, TypeOK, Rows, Whole, Friends, In
  <2>5. Find(Visible(r), "friends", Other(way[r])) = {}
    BY <2>2, <2>4, OtherFacts DEF Find, Visible, Friends, In, FriendRow
  <2>6. StageOf(r)'
    BY <2>2, <2>5
    DEF GInv, TypeOK, StageOf, Ended, Accepting, InsertMirror, Proceed, RollBack,
       InFlight, Inserting, Deleting
  <2> QED
    BY <2>1, <2>6 DEF Stages
<1>5. Mirrored'
  <2>1. op[r] = "accept"
    BY DEF GInv, Stages, StageOf, Requesting, Withdrawing, Unfriending, Blocking,
       Unblocking, InsertMirror, InFlight
  <2> QED
    BY <2>1 DEF GInv, TypeOK, Mirrored, InsertMirror, Proceed, RollBack
<1>6. Met'
  BY DEF GInv, TypeOK, Met, InsertMirror, Proceed, RollBack, Answered
<1> QED BY <1>1, <1>2, <1>3, <1>4, <1>5, <1>6 DEF GInv

LEMMA CommitGInv ==
  ASSUME GInv, NEW r \in Requests, Commit(r) PROVE GInv'
<1>1. TypeOK'
  BY DEF GInv, TypeOK, Commit, Visible, Answered
<1>2. Keys'
  BY DEF GInv, TypeOK, Keys, Held, SameKey, Stages, StageOf, Withdrawing, Unblocking,
     OneRowOf, Requesting, Accepting, Unfriending, Blocking, FriendRow, Commit, Visible,
     Answered
<1>3. Whole'
  <2>1. rows' = (rows \ deleted[r]) \cup added[r] /\ rows \in SUBSET Rows
    BY DEF GInv, TypeOK, Commit, Visible
  \* It deletes both rows of a friendship, or none.
  <2>2. ASSUME NEW x \in Friends(rows), x \notin deleted[r],
               NEW y \in Friends(rows), y.of = Other(x.of)
        PROVE  y \notin deleted[r]
    <3>1. x.of = Other(y.of)
      BY <2>1, <2>2, OtherFacts DEF Rows, Friends, In
    <3>2. ASSUME y \in deleted[r] PROVE op[r] \in {"unfriend", "block"}
      BY <3>2
      DEF GInv, Stages, StageOf, Requesting, Withdrawing, Accepting, OneRowOf,
         Unblocking, Friends, In, Commit, InFlight
    <3> QED
      BY <2>2, <3>1, <3>2 DEF GInv, Mirrored, Friends, In, Commit
  \* It adds both rows, or none.
  <2>3. ASSUME NEW x \in Friends(added[r])
        PROVE  \E y \in Friends(added[r]) : y.of = Other(x.of)
    <3>1. pc[r] = "committing" /\ way[r] \in Users /\ x \in added[r] /\ x.table = "friends"
      BY DEF GInv, Stages, StageOf, Commit, InFlight, Friends, In
    <3>2. op[r] = "accept" /\ Accepting(r)
      <4>1. ~Requesting(r) /\ ~Blocking(r)
        BY <3>1 DEF Requesting, Blocking
      <4>2. ~Withdrawing(r) /\ ~Unblocking(r) /\ ~Unfriending(r)
        BY <3>1 DEF Withdrawing, Unblocking, Unfriending, OneRowOf
      <4> QED
        BY <3>1, <4>1, <4>2 DEF GInv, Stages, StageOf, InFlight
    <3>3. added[r] = {FriendRow(r, way[r]), FriendRow(r, Other(way[r]))}
      BY <3>1, <3>2 DEF Accepting
    <3>4. ASSUME NEW u PROVE FriendRow(r, u).table = "friends" /\ FriendRow(r, u).of = u
      BY DEF FriendRow
    <3> QED
      BY <3>1, <3>3, <3>4, OtherFacts DEF Friends, In
  <2> QED
    BY <2>1, <2>2, <2>3 DEF GInv, Whole, Friends, In
<1>4. Stages'
  BY SocialGraphAssumption
  DEF GInv, TypeOK, Stages, StageOf, Withdrawing, Unblocking, Ended, OneRowOf,
     Requesting, Accepting, Unfriending, Blocking, Commit, InFlight, Deleting, Inserting
<1>5. Mirrored'
  <2>1. /\ pc[r] = "committing" /\ pc'[r] = "done" /\ deleted'[r] = {} /\ todo' = todo
        /\ op' = op /\ rows' = (rows \ deleted[r]) \cup added[r]
        /\ \A q \in Requests \ {r} : pc'[q] = pc[q] /\ deleted'[q] = deleted[q]
    BY DEF GInv, TypeOK, Commit, Visible
  \* The rows that it adds are not those of a friendship that another call deletes.
  <2>2. ASSUME NEW q \in Requests \ {r}, NEW x \in Friends(deleted[q]),
               NEW y \in Friends(added[r]), y.of = Other(x.of)
        PROVE  FALSE
    <3>1. /\ y \in added[r] /\ y.table = "friends" /\ x \in deleted[q] /\ x.table = "friends"
          /\ x.of \in Users
      BY DEF GInv, TypeOK, Rows, Friends, In
    <3>2. Accepting(r) /\ way[r] \in Users
      <4>1. ~Requesting(r) /\ ~Blocking(r)
        BY <2>1, <3>1 DEF Requesting, Blocking
      <4>2. ~Withdrawing(r) /\ ~Unblocking(r) /\ ~Unfriending(r)
        BY <3>1 DEF Withdrawing, Unblocking, Unfriending, OneRowOf
      <4> QED
        BY <2>1, <4>1, <4>2 DEF GInv, Stages, StageOf, InFlight
    <3>3. added[r] = {FriendRow(r, way[r]), FriendRow(r, Other(way[r]))}
      BY <2>1, <3>2 DEF Accepting
    <3>4. \A u \in Users : FriendRow(r, u).table = "friends" /\ FriendRow(r, u).of = u
      BY DEF FriendRow
    <3>5. PICK z \in added[r] : z.table = "friends" /\ z.of = x.of
      BY <3>1, <3>2, <3>3, <3>4, OtherFacts
    <3> QED
      BY <3>1, <3>5 DEF GInv, Keys, Held, SameKey
  <2>3. ASSUME NEW q \in Requests \ {r}, NEW x \in Friends(deleted[q]),
               NEW y \in Friends(rows'), y.of = Other(x.of)
        PROVE  y \in Friends(rows)
    BY <2>1, <2>2, <2>3 DEF Friends, In
  <2>4. ASSUME NEW q \in Requests \ {r}, op[q] \in {"unfriend", "block"}
        PROVE  /\ \A x \in Friends(deleted'[q]), y \in Friends(rows') : y.of = Other(x.of) =>
                    /\ pc'[q] = "mirroring_delete" => y \in todo'[q] \cup deleted'[q]
                    /\ pc'[q] \in {"inserting", "committing"} => y \in deleted'[q]
               /\ pc'[q] = "mirroring_delete" =>
                    \A x \in todo'[q] : \E y \in Friends(deleted'[q]) : y.of = Other(x.of)
    BY <2>1, <2>3, <2>4 DEF GInv, Mirrored
  <2>5. Friends(deleted'[r]) = {}
    BY <2>1 DEF Friends, In
  <2> QED
    BY <2>1, <2>4, <2>5 DEF Mirrored, Friends
<1>6. Met'
  BY DEF GInv, Met, Commit, InFlight
<1> QED BY <1>1, <1>2, <1>3, <1>4, <1>5, <1>6 DEF GInv

LEMMA FailGInv ==
  ASSUME GInv, NEW r \in Requests, Fail(r) PROVE GInv'
<1>1. TypeOK'
  BY DEF GInv, TypeOK, Fail, RollBack, Answered
<1>2. Keys'
  BY DEF GInv, TypeOK, Keys, Held, Fail, RollBack
<1>3. Whole'
  BY DEF GInv, Whole, Fail, RollBack
<1>4. Stages'
  BY DEF GInv, TypeOK, Stages, StageOf, Withdrawing, Unblocking, Ended, OneRowOf,
     Requesting, Accepting, Unfriending, Blocking, Fail, RollBack, InFlight, Deleting,
     Inserting
<1>5. Mirrored'
  BY DEF GInv, TypeOK, Mirrored, Fail, RollBack
<1>6. Met'
  BY DEF GInv, Met, Fail, RollBack
<1> QED BY <1>1, <1>2, <1>3, <1>4, <1>5, <1>6 DEF GInv


LEMMA Meetings ==
  ASSUME GInv, NEW q \in Requests, NEW r \in Requests,
         pc[q] \in InFlight, pc[r] \in InFlight, q # r
  PROVE  Overlap(op[q], op[r])
BY DEF GInv, Met, Overlap

LEMMA RequestExclusion ==
  ASSUME GInv, Exclusion, NEW r \in Requests, NEW u \in Users, Request(r, u) PROVE Exclusion'
<1>0. /\ Overlap("block", "request") => Overlap("block", "request")'
      /\ Overlap("accept", "request") => Overlap("accept", "request")'
      /\ Overlap("block", "accept") => Overlap("block", "accept")'
  BY DEF GInv, Stages, StageOf, Overlap, Request, Call
<1>1. RequestFits'
  BY <1>0, OtherFacts
  DEF GInv, TypeOK, Rows, Whole, Exclusion, Blocked, AreFriends, RequestFits, Request,
     Call, In, Find, Friends, InFlight, Deleting, Inserting
<1>2. AcceptFits'
  <2>1. /\ rows' = rows /\ todo'[r] = {} /\ deleted' = deleted /\ pc[r] = "idle"
        /\ op' = [op EXCEPT ![r] = "request"] /\ who' = [who EXCEPT ![r] = u]
        /\ way' = [way EXCEPT ![r] = u] /\ both' = [both EXCEPT ![r] = FALSE]
        /\ todo' = [todo EXCEPT ![r] = {}]
        /\ \A q \in Requests \ {r} : pc'[q] = pc[q]
        /\ \A q \in Requests : pc[q] \in InFlight => peers[q] \subseteq peers'[q]
    BY DEF GInv, TypeOK, Request, Call, InFlight, Deleting, Inserting
  <2>2. ASSUME NEW q \in Requests, op'[q] = "accept", pc'[q] \in InFlight
        PROVE  /\ op[q] = "accept" /\ pc'[q] = pc[q] /\ way'[q] = way[q] /\ both'[q] = both[q]
               /\ who'[q] = who[q] /\ todo'[q] = todo[q] /\ peers[q] \subseteq peers'[q]
    BY <2>1, <2>2 DEF GInv, TypeOK
  <2>3. ASSUME NEW q \in Requests, op[q] \in {"withdraw", "block"} PROVE op'[q] = op[q]
    BY <2>1, <2>3 DEF GInv, Stages, StageOf
  <2>4. ASSUME NEW q \in Requests, NEW p \in peers[q] PROVE p \in Requests
    BY DEF GInv, TypeOK
  <2>5. ASSUME NEW q \in Requests, op'[q] = "accept", pc'[q] \in InFlight, WasAsked(q)
        PROVE  WasAsked(q)'
    BY <2>1, <2>2, <2>3, <2>4, <2>5 DEF GInv, TypeOK, Stages, StageOf, WasAsked, RequestTo
  <2> SUFFICES ASSUME NEW q \in Requests, op'[q] = "accept", pc'[q] \in InFlight
               PROVE  /\ Blocked' =>
                           Overlap("block", "accept")' \/ Overlap("block", "request")'
                      /\ \/ Overlap("accept", "request")'
                         \/ /\ \A x \in In("friend_requests", rows') : x.of = Other(who'[q])
                            /\ way'[q] = who'[q] /\ ~both'[q] =>
                                 /\ pc'[q] = "clearing" => Rids(q, "friend_requests")'
                                 /\ pc'[q] = "committing" => HasRid(q, "friend_requests")'
                      /\ pc'[q] \in {"mirroring", "clearing", "committing"} \/ both'[q] =>
                           WasAsked(q)'
    BY DEF AcceptFits
  <2>6. /\ Rids(q, "friend_requests") => Rids(q, "friend_requests")'
        /\ HasRid(q, "friend_requests") => HasRid(q, "friend_requests")'
    BY <2>1, <2>2 DEF Rids, HasRid
  <2>7. /\ op[q] = "accept" /\ pc[q] \in InFlight
        /\ pc'[q] = pc[q] /\ way'[q] = way[q] /\ who'[q] = who[q] /\ both'[q] = both[q]
    BY <2>2
  <2>8. Blocked' => Overlap("block", "accept")' \/ Overlap("block", "request")'
    BY <1>0, <2>1, <2>7 DEF Exclusion, AcceptFits, Blocked
  <2>9. \/ Overlap("accept", "request")'
        \/ /\ \A x \in In("friend_requests", rows') : x.of = Other(who'[q])
           /\ way'[q] = who'[q] /\ ~both'[q] =>
                /\ pc'[q] = "clearing" => Rids(q, "friend_requests")'
                /\ pc'[q] = "committing" => HasRid(q, "friend_requests")'
    BY <1>0, <2>1, <2>6, <2>7 DEF Exclusion, AcceptFits
  <2>10. pc'[q] \in {"mirroring", "clearing", "committing"} \/ both'[q] => WasAsked(q)'
    BY <2>5, <2>7 DEF Exclusion, AcceptFits
  <2> QED
    BY <2>8, <2>9, <2>10
<1>3. BlockFits'
  BY <1>0 DEF GInv, Stages, StageOf, Exclusion, BlockFits, Rids, HasRid, Request, Call
<1>4. RelationsExclude'
  BY <1>0, OtherFacts
  DEF Exclusion, RelationsExclude, BlockedAreNotFriends, NoRequestWhenBlocked,
     RequestOfFriends, Blocked, AreFriends, Requested, Request, Call
<1> QED BY <1>1, <1>2, <1>3, <1>4 DEF Exclusion

LEMMA WithdrawExclusion ==
  ASSUME GInv, Exclusion, NEW r \in Requests, NEW u \in Users, Withdraw(r, u) PROVE Exclusion'
<1>0. /\ Overlap("block", "request") => Overlap("block", "request")'
      /\ Overlap("accept", "request") => Overlap("accept", "request")'
      /\ Overlap("block", "accept") => Overlap("block", "accept")'
  BY DEF GInv, Stages, StageOf, Overlap, Withdraw, Call
<1>1. RequestFits'
  BY <1>0
  DEF GInv, Stages, StageOf, Exclusion, Blocked, AreFriends, RequestFits, Withdraw, Call
<1>2. AcceptFits'
  BY <1>0
  DEF GInv, Stages, StageOf, Exclusion, Blocked, AcceptFits, Rids, HasRid, WasAsked,
     RequestTo, Withdraw, Call
<1>3. BlockFits'
  BY <1>0 DEF GInv, Stages, StageOf, Exclusion, BlockFits, Rids, HasRid, Withdraw, Call
<1>4. RelationsExclude'
  BY <1>0
  DEF Exclusion, RelationsExclude, BlockedAreNotFriends, NoRequestWhenBlocked,
     RequestOfFriends, Blocked, AreFriends, Requested, Withdraw, Call
<1> QED BY <1>1, <1>2, <1>3, <1>4 DEF Exclusion

LEMMA AcceptExclusion ==
  ASSUME GInv, Exclusion, NEW r \in Requests, NEW u \in Users, NEW w \in Users,
         NEW b \in BOOLEAN, Accept(r, u, w, b)
  PROVE  Exclusion'
<1>0. /\ Overlap("block", "request") => Overlap("block", "request")'
      /\ Overlap("accept", "request") => Overlap("accept", "request")'
      /\ Overlap("block", "accept") => Overlap("block", "accept")'
  BY DEF GInv, Stages, StageOf, Overlap, Accept, Call
<1>1. RequestFits'
  BY <1>0
  DEF GInv, Stages, StageOf, Exclusion, Blocked, AreFriends, RequestFits, Accept, Call
<1>2. AcceptFits'
  BY <1>0
  DEF GInv, TypeOK, Keys, SameKey, Stages, StageOf, Exclusion, RelationsExclude,
     NoRequestWhenBlocked, Blocked, Requested, AcceptFits, Rids, HasRid, WasAsked, RequestTo,
     Accept, Call, In, Find, InFlight, Deleting, Inserting
<1>3. BlockFits'
  BY <1>0 DEF GInv, Stages, StageOf, Exclusion, BlockFits, Rids, HasRid, Accept, Call
<1>4. RelationsExclude'
  BY <1>0
  DEF Exclusion, RelationsExclude, BlockedAreNotFriends, NoRequestWhenBlocked,
     RequestOfFriends, Blocked, AreFriends, Requested, Accept, Call
<1> QED BY <1>1, <1>2, <1>3, <1>4 DEF Exclusion

LEMMA UnfriendExclusion ==
  ASSUME GInv, Exclusion, NEW r \in Requests, NEW u \in Users, NEW w \in Users,
         Unfriend(r, u, w)
  PROVE  Exclusion'
<1>0. /\ Overlap("block", "request") => Overlap("block", "request")'
      /\ Overlap("accept", "request") => Overlap("accept", "request")'
      /\ Overlap("block", "accept") => Overlap("block", "accept")'
  BY DEF GInv, Stages, StageOf, Overlap, Unfriend, Call
<1>1. RequestFits'
  BY <1>0
  DEF GInv, Stages, StageOf, Exclusion, Blocked, AreFriends, RequestFits, Unfriend, Call
<1>2. AcceptFits'
  BY <1>0
  DEF GInv, Stages, StageOf, Exclusion, Blocked, AcceptFits, Rids, HasRid, WasAsked,
     RequestTo, Unfriend, Call
<1>3. BlockFits'
  BY <1>0 DEF GInv, Stages, StageOf, Exclusion, BlockFits, Rids, HasRid, Unfriend, Call
<1>4. RelationsExclude'
  BY <1>0
  DEF Exclusion, RelationsExclude, BlockedAreNotFriends, NoRequestWhenBlocked,
     RequestOfFriends, Blocked, AreFriends, Requested, Unfriend, Call
<1> QED BY <1>1, <1>2, <1>3, <1>4 DEF Exclusion

LEMMA UnfriendBothExclusion ==
  ASSUME GInv, Exclusion, NEW r \in Requests, NEW u \in Users, UnfriendBoth(r, u)
  PROVE  Exclusion'
<1>0. /\ Overlap("block", "request") => Overlap("block", "request")'
      /\ Overlap("accept", "request") => Overlap("accept", "request")'
      /\ Overlap("block", "accept") => Overlap("block", "accept")'
  BY DEF GInv, Stages, StageOf, Overlap, UnfriendBoth, Call
<1>1. RequestFits'
  BY <1>0
  DEF GInv, Stages, StageOf, Exclusion, Blocked, AreFriends, RequestFits, UnfriendBoth, Call
<1>2. AcceptFits'
  BY <1>0
  DEF GInv, Stages, StageOf, Exclusion, Blocked, AcceptFits, Rids, HasRid, WasAsked,
     RequestTo, UnfriendBoth, Call
<1>3. BlockFits'
  BY <1>0 DEF GInv, Stages, StageOf, Exclusion, BlockFits, Rids, HasRid, UnfriendBoth, Call
<1>4. RelationsExclude'
  BY <1>0
  DEF Exclusion, RelationsExclude, BlockedAreNotFriends, NoRequestWhenBlocked,
     RequestOfFriends, Blocked, AreFriends, Requested, UnfriendBoth, Call
<1> QED BY <1>1, <1>2, <1>3, <1>4 DEF Exclusion

LEMMA BlockExclusion ==
  ASSUME GInv, Exclusion, NEW r \in Requests, NEW u \in Users, Block(r, u) PROVE Exclusion'
<1>0. /\ Overlap("block", "request") => Overlap("block", "request")'
      /\ Overlap("accept", "request") => Overlap("accept", "request")'
      /\ Overlap("block", "accept") => Overlap("block", "accept")'
  BY DEF GInv, Stages, StageOf, Overlap, Block, Call
<1>1. RequestFits'
  BY <1>0
  DEF GInv, Stages, StageOf, Exclusion, Blocked, AreFriends, RequestFits, Block, Call
<1>2. AcceptFits'
  BY <1>0
  DEF GInv, Stages, StageOf, Exclusion, Blocked, AcceptFits, Rids, HasRid, WasAsked,
     RequestTo, Block, Call
<1>3. BlockFits'
  BY <1>0 DEF GInv, TypeOK, Exclusion, BlockFits, Rids, HasRid, Block, Call
<1>4. RelationsExclude'
  BY <1>0
  DEF Exclusion, RelationsExclude, BlockedAreNotFriends, NoRequestWhenBlocked,
     RequestOfFriends, Blocked, AreFriends, Requested, Block, Call
<1> QED BY <1>1, <1>2, <1>3, <1>4 DEF Exclusion

LEMMA UnblockExclusion ==
  ASSUME GInv, Exclusion, NEW r \in Requests, NEW u \in Users, Unblock(r, u) PROVE Exclusion'
<1>0. /\ Overlap("block", "request") => Overlap("block", "request")'
      /\ Overlap("accept", "request") => Overlap("accept", "request")'
      /\ Overlap("block", "accept") => Overlap("block", "accept")'
  BY DEF GInv, Stages, StageOf, Overlap, Unblock, Call
<1>1. RequestFits'
  BY <1>0
  DEF GInv, Stages, StageOf, Exclusion, Blocked, AreFriends, RequestFits, Unblock, Call
<1>2. AcceptFits'
  BY <1>0
  DEF GInv, Stages, StageOf, Exclusion, Blocked, AcceptFits, Rids, HasRid, WasAsked,
     RequestTo, Unblock, Call
<1>3. BlockFits'
  BY <1>0 DEF GInv, Stages, StageOf, Exclusion, BlockFits, Rids, HasRid, Unblock, Call
<1>4. RelationsExclude'
  <2>1. rows' = rows
    BY DEF Unblock, Call
  <2>2. ASSUME NEW q \in Requests, op[q] = "accept", pc[q] = "done"
        PROVE  /\ op'[q] = "accept" /\ pc'[q] = "done"
               /\ way'[q] = way[q] /\ who'[q] = who[q] /\ both'[q] = both[q]
    BY <2>2 DEF GInv, TypeOK, Unblock, Call
  <2> QED
    BY <1>0, <2>1, <2>2
    DEF Exclusion, RelationsExclude, BlockedAreNotFriends, NoRequestWhenBlocked,
       RequestOfFriends, Blocked, AreFriends, Requested
<1> QED BY <1>1, <1>2, <1>3, <1>4 DEF Exclusion

LEMMA DeleteRowExclusion ==
  ASSUME GInv, Exclusion, NEW r \in Requests, NEW x \in Rows, DeleteRow(r, x) PROVE Exclusion'
<1>0. /\ Overlap("block", "request") => Overlap("block", "request")'
      /\ Overlap("accept", "request") => Overlap("accept", "request")'
      /\ Overlap("block", "accept") => Overlap("block", "accept")'
  BY DEF Overlap, DeleteRow
<1>1. RequestFits'
  BY <1>0 DEF Exclusion, Blocked, AreFriends, RequestFits, DeleteRow
<1>2. AcceptFits'
  BY <1>0
  DEF GInv, TypeOK, Exclusion, Blocked, AcceptFits, Rids, HasRid, WasAsked, RequestTo, DeleteRow,
     In
<1>3. BlockFits'
  BY <1>0 DEF GInv, TypeOK, Exclusion, BlockFits, Rids, HasRid, DeleteRow, In
<1>4. RelationsExclude'
  BY <1>0
  DEF Exclusion, RelationsExclude, BlockedAreNotFriends, NoRequestWhenBlocked,
     RequestOfFriends, Blocked, AreFriends, Requested, DeleteRow
<1> QED BY <1>1, <1>2, <1>3, <1>4 DEF Exclusion

LEMMA ClearedExclusion ==
  ASSUME GInv, Exclusion, NEW r \in Requests, Cleared(r) PROVE Exclusion'
<1>0. /\ Overlap("block", "request") => Overlap("block", "request")'
      /\ Overlap("accept", "request") => Overlap("accept", "request")'
      /\ Overlap("block", "accept") => Overlap("block", "accept")'
  BY DEF Overlap, Cleared, Proceed
<1>1. RequestFits'
  BY <1>0
  DEF GInv, TypeOK, Exclusion, Blocked, AreFriends, RequestFits, Cleared, Visited,
     Proceed, Answered
<1>2. AcceptFits'
  BY <1>0
  DEF GInv, TypeOK, Exclusion, Blocked, AcceptFits, Rids, HasRid, WasAsked, RequestTo, Cleared,
     Visited, Proceed, Answered
<1>3. BlockFits'
  BY <1>0
  DEF GInv, TypeOK, Exclusion, BlockFits, Rids, HasRid, Cleared, Visited, Proceed,
     Visible, In, Answered
<1>4. RelationsExclude'
  BY <1>0
  DEF GInv, TypeOK, Rows, Exclusion, RelationsExclude, BlockedAreNotFriends,
     NoRequestWhenBlocked, RequestOfFriends, Blocked, AreFriends, Requested, Cleared,
     Visited, Proceed
<1> QED BY <1>1, <1>2, <1>3, <1>4 DEF Exclusion

LEMMA DeleteMirrorsExclusion ==
  ASSUME GInv, Exclusion, NEW r \in Requests, DeleteMirrors(r) PROVE Exclusion'
<1>0. /\ Overlap("block", "request") => Overlap("block", "request")'
      /\ Overlap("accept", "request") => Overlap("accept", "request")'
      /\ Overlap("block", "accept") => Overlap("block", "accept")'
  BY DEF Overlap, DeleteMirrors, Proceed
<1>1. RequestFits'
  BY <1>0
  DEF Exclusion, Blocked, AreFriends, RequestFits, DeleteMirrors, Visited, Proceed,
     InFlight, Deleting
<1>2. AcceptFits'
  BY <1>0
  DEF Exclusion, Blocked, AcceptFits, Rids, HasRid, WasAsked, RequestTo, DeleteMirrors, Visited,
     Proceed, InFlight, Deleting
<1>3. BlockFits'
  BY <1>0
  DEF Exclusion, BlockFits, Rids, HasRid, DeleteMirrors, Visited, Proceed, InFlight,
     Deleting
<1>4. RelationsExclude'
  BY <1>0
  DEF Exclusion, RelationsExclude, BlockedAreNotFriends, NoRequestWhenBlocked,
     RequestOfFriends, Blocked, AreFriends, Requested, DeleteMirrors, Visited, Proceed
<1> QED BY <1>1, <1>2, <1>3, <1>4 DEF Exclusion

LEMMA UnfriendedExclusion ==
  ASSUME GInv, Exclusion, NEW r \in Requests, Unfriended(r) PROVE Exclusion'
<1>0. /\ Overlap("block", "request") => Overlap("block", "request")'
      /\ Overlap("accept", "request") => Overlap("accept", "request")'
      /\ Overlap("block", "accept") => Overlap("block", "accept")'
  BY DEF Overlap, Unfriended, Proceed
<1>1. RequestFits'
  BY <1>0
  DEF Exclusion, Blocked, AreFriends, RequestFits, Unfriended, Visited, Proceed,
     InFlight, Deleting
<1>2. AcceptFits'
  BY <1>0
  DEF GInv, TypeOK, Stages, StageOf, Exclusion, Blocked, AcceptFits, Rids, HasRid,
     WasAsked, RequestTo, Accepting, Unfriended, Visited, Proceed, Answered
<1>3. BlockFits'
  BY <1>0
  DEF Exclusion, BlockFits, Rids, HasRid, Unfriended, Visited, Proceed, InFlight,
     Deleting
<1>4. RelationsExclude'
  BY <1>0
  DEF Exclusion, RelationsExclude, BlockedAreNotFriends, NoRequestWhenBlocked,
     RequestOfFriends, Blocked, AreFriends, Requested, Unfriended, Visited, Proceed
<1> QED BY <1>1, <1>2, <1>3, <1>4 DEF Exclusion

LEMMA UnblockedExclusion ==
  ASSUME GInv, Exclusion, NEW r \in Requests, Unblocked(r) PROVE Exclusion'
<1>0. /\ Overlap("block", "request") => Overlap("block", "request")'
      /\ Overlap("accept", "request") => Overlap("accept", "request")'
      /\ Overlap("block", "accept") => Overlap("block", "accept")'
  BY DEF Overlap, Unblocked, Proceed
<1>1. RequestFits'
  BY <1>0
  DEF Exclusion, Blocked, AreFriends, RequestFits, Unblocked, Visited, Proceed,
     InFlight, Deleting
<1>2. AcceptFits'
  BY <1>0
  DEF GInv, TypeOK, Stages, StageOf, Exclusion, Blocked, AcceptFits, Rids, HasRid,
     WasAsked, RequestTo, Accepting, Unblocked, Visited, Proceed, Answered
<1>3. BlockFits'
  BY <1>0
  DEF GInv, TypeOK, Stages, StageOf, Exclusion, BlockFits, Rids, HasRid, Blocking,
     Unblocked, Visited, Proceed, Answered
<1>4. RelationsExclude'
  BY <1>0
  DEF Exclusion, RelationsExclude, BlockedAreNotFriends, NoRequestWhenBlocked,
     RequestOfFriends, Blocked, AreFriends, Requested, Unblocked, Visited, Proceed
<1> QED BY <1>1, <1>2, <1>3, <1>4 DEF Exclusion

LEMMA InsertRowExclusion ==
  ASSUME GInv, Exclusion, NEW r \in Requests, InsertRow(r) PROVE Exclusion'
<1>0. /\ Overlap("block", "request") => Overlap("block", "request")'
      /\ Overlap("accept", "request") => Overlap("accept", "request")'
      /\ Overlap("block", "accept") => Overlap("block", "accept")'
  BY DEF Overlap, InsertRow
<1>1. RequestFits'
  BY <1>0 DEF Exclusion, Blocked, AreFriends, RequestFits, InsertRow, InFlight
<1>2. AcceptFits'
  BY <1>0
  DEF GInv, TypeOK, Exclusion, Blocked, AcceptFits, Rids, HasRid, WasAsked, RequestTo,
     InsertRow, AfterInsert, Visible, In, Find, Inserting, Answered
<1>3. BlockFits'
  BY <1>0
  DEF GInv, TypeOK, Stages, StageOf, Exclusion, BlockFits, Rids, HasRid, Blocking,
     InsertRow, Inserting, Answered
<1>4. RelationsExclude'
  BY <1>0
  DEF Exclusion, RelationsExclude, BlockedAreNotFriends, NoRequestWhenBlocked,
     RequestOfFriends, Blocked, AreFriends, Requested, InsertRow, Inserting
<1> QED BY <1>1, <1>2, <1>3, <1>4 DEF Exclusion

LEMMA DuplicateExclusion ==
  ASSUME GInv, Exclusion, NEW r \in Requests, Duplicate(r) PROVE Exclusion'
<1>0. /\ Overlap("block", "request") => Overlap("block", "request")'
      /\ Overlap("accept", "request") => Overlap("accept", "request")'
      /\ Overlap("block", "accept") => Overlap("block", "accept")'
  BY DEF Overlap, Duplicate, RollBack
<1>1. RequestFits'
  BY <1>0 DEF Exclusion, Blocked, AreFriends, RequestFits, Duplicate, RollBack, InFlight
<1>2. AcceptFits'
  BY <1>0
  DEF Exclusion, Blocked, AcceptFits, Rids, HasRid, WasAsked, RequestTo, Duplicate, RollBack,
     InFlight, Inserting
<1>3. BlockFits'
  BY <1>0
  DEF GInv, TypeOK, Exclusion, BlockFits, Rids, HasRid, Duplicate, RollBack, InFlight,
     Deleting, Inserting
<1>4. RelationsExclude'
  BY <1>0
  DEF Exclusion, RelationsExclude, BlockedAreNotFriends, NoRequestWhenBlocked,
     RequestOfFriends, Blocked, AreFriends, Requested, Duplicate, RollBack, Inserting
<1> QED BY <1>1, <1>2, <1>3, <1>4 DEF Exclusion

LEMMA InsertMirrorExclusion ==
  ASSUME GInv, Exclusion, NEW r \in Requests, InsertMirror(r) PROVE Exclusion'
<1>0. /\ Overlap("block", "request") => Overlap("block", "request")'
      /\ Overlap("accept", "request") => Overlap("accept", "request")'
      /\ Overlap("block", "accept") => Overlap("block", "accept")'
  BY DEF Overlap, InsertMirror, Proceed, RollBack
<1>1. RequestFits'
  BY <1>0
  DEF GInv, TypeOK, Exclusion, Blocked, AreFriends, RequestFits, InsertMirror, Proceed,
     RollBack, Answered
<1>2. AcceptFits'
  <2>1. /\ rows' = rows /\ op' = op /\ who' = who /\ way' = way /\ both' = both /\ peers' = peers
        /\ \A q \in Requests \ {r} :
             pc'[q] = pc[q] /\ todo'[q] = todo[q] /\ deleted'[q] = deleted[q]
    BY DEF GInv, TypeOK, InsertMirror, Proceed, RollBack
  <2>2. (pc'[r] = "mirroring" /\ RequestTo(who[r])) \/ pc'[r] = "403"
    <3>1. pc'[r] # "committing"
      <4>1. op'[r] = "accept" /\ pc'[r] = "committing" => Accepting(r)'
        BY InsertMirrorGInv DEF GInv, Stages, StageOf, InFlight
      <4>2. op[r] = "accept" /\ added[r] = {FriendRow(r, way[r])} /\ way[r] \in Users
        BY DEF GInv, Stages, StageOf, Requesting, Withdrawing, Accepting, Unfriending,
           Blocking, Unblocking, InsertMirror, InFlight
      <4>3. pc'[r] = "committing" => added' = added
        BY DEF GInv, TypeOK, InsertMirror, Proceed, RollBack
      <4>4. FriendRow(r, way[r]) # FriendRow(r, Other(way[r]))
        BY <4>2, OtherFacts DEF FriendRow
      <4> QED
        BY <2>1, <4>1, <4>2, <4>3, <4>4 DEF Accepting
    <3> QED
      BY <3>1 DEF GInv, TypeOK, InsertMirror, Proceed, RollBack
  <2>3. pc[r] \in InFlight
    BY DEF InsertMirror, InFlight
  <2> QED
    BY <1>0, <2>1, <2>2, <2>3
    DEF Exclusion, AcceptFits, Blocked, Rids, HasRid, WasAsked, RequestTo
<1>3. BlockFits'
  BY <1>0
  DEF GInv, TypeOK, Stages, StageOf, Exclusion, BlockFits, Rids, HasRid, Blocking,
     InsertMirror, Proceed, RollBack, Answered
<1>4. RelationsExclude'
  BY <1>0, Meetings, OtherFacts
  DEF GInv, TypeOK, Exclusion, RelationsExclude, BlockedAreNotFriends,
     NoRequestWhenBlocked, RequestOfFriends, Blocked, AreFriends, Requested,
     InsertMirror, Proceed, RollBack
<1> QED BY <1>1, <1>2, <1>3, <1>4 DEF Exclusion

LEMMA CommitExclusion ==
  ASSUME GInv, Exclusion, NEW r \in Requests, Commit(r) PROVE Exclusion'
<1>0. /\ Overlap("block", "request") => Overlap("block", "request")'
      /\ Overlap("accept", "request") => Overlap("accept", "request")'
      /\ Overlap("block", "accept") => Overlap("block", "accept")'
  BY DEF Overlap, Commit
<1>1. /\ pc[r] = "committing" /\ pc' = [pc EXCEPT ![r] = "done"] /\ pc[r] \in InFlight
      /\ UNCHANGED <<op, who, way, both, todo, peers>>
      /\ \A q \in Requests \ {r} : pc'[q] = pc[q] /\ deleted'[q] = deleted[q]
      /\ rows' = (rows \ deleted[r]) \cup added[r]
  BY DEF Commit, Visible, InFlight
\* What a call adds shows what it is.
<1>2. ASSUME NEW x \in added[r]
      PROVE  /\ x.table = "friend_requests" => op[r] = "request"
             /\ x.table = "blocked" => op[r] = "block"
             /\ x.table = "friends" => op[r] = "accept"
  <2>1. Requesting(r) => x.table = "friend_requests"
    BY DEF Requesting
  <2>2. Blocking(r) => x.table = "blocked"
    BY DEF Blocking
  <2>3. Accepting(r) => x.table = "friends"
    BY DEF Accepting, FriendRow
  <2>4. ~Unfriending(r) /\ ~Withdrawing(r) /\ ~Unblocking(r)
    BY DEF Unfriending, Withdrawing, Unblocking, OneRowOf
  <2> QED
    BY <1>1, <2>1, <2>2, <2>3, <2>4 DEF GInv, Stages, StageOf
<1>3. ASSUME NEW x \in deleted[r], x.table = "friend_requests"
      PROVE  op[r] \in {"withdraw", "block", "accept"}
  <2>1. ~Requesting(r) /\ ~Unfriending(r) /\ ~Unblocking(r)
    BY <1>3 DEF Requesting, Unfriending, Unblocking, OneRowOf
  <2> QED
    BY <1>1, <2>1 DEF GInv, Stages, StageOf
<1>4. ASSUME NEW q \in Requests, pc'[q] \in InFlight
      PROVE  q # r /\ pc[q] \in InFlight /\ Overlap(op[q], op[r]) /\ Overlap(op[r], op[q])
  BY <1>1, <1>4, Meetings DEF GInv, TypeOK, InFlight, Deleting, Inserting
<1>5. RequestFits'
  <2> SUFFICES ASSUME NEW q \in Requests, op[q] = "request", pc[q] \in InFlight, q # r
               PROVE  /\ Blocked' => Overlap("block", "request")'
                      /\ AreFriends' => Overlap("accept", "request")'
    BY <1>1, <1>4 DEF RequestFits
  <2>1. Overlap(op[r], op[q])
    BY <1>1, Meetings
  <2> QED
    BY <1>0, <1>1, <1>2, <2>1 DEF Exclusion, RequestFits, Blocked, AreFriends, In
<1>6. AcceptFits'
  <2> SUFFICES ASSUME NEW q \in Requests, op[q] = "accept", pc[q] \in InFlight, q # r
               PROVE  /\ Blocked' =>
                           Overlap("block", "accept")' \/ Overlap("block", "request")'
                      /\ \/ Overlap("accept", "request")'
                         \/ /\ \A x \in In("friend_requests", rows') : x.of = Other(who[q])
                            /\ way[q] = who[q] /\ ~both[q] =>
                                 /\ pc[q] = "clearing" =>
                                      In("friend_requests", rows') \subseteq todo[q] \cup deleted[q]
                                 /\ pc[q] = "committing" =>
                                      In("friend_requests", rows') \subseteq deleted[q]
                      /\ pc[q] \in {"mirroring", "clearing", "committing"} \/ both[q] =>
                           WasAsked(q)'
    BY <1>1, <1>4 DEF AcceptFits, Rids, HasRid
  <2>0. Overlap(op[q], op[r]) /\ Overlap(op[r], op[q]) /\ r \in peers[q]
    BY <1>1, Meetings DEF GInv, Met
  <2>1. Blocked' => Overlap("block", "accept")' \/ Overlap("block", "request")'
    BY <1>0, <1>1, <1>2, <2>0 DEF Exclusion, AcceptFits, Blocked, In
  <2>2. ASSUME ~Overlap("accept", "request")'
        PROVE  In("friend_requests", rows') \subseteq In("friend_requests", rows)
    BY <1>0, <1>1, <1>2, <2>0, <2>2 DEF In
  <2>3. ASSUME pc[q] \in {"mirroring", "clearing", "committing"} \/ both[q],
               RequestTo(who[q])
        PROVE  WasAsked(q)'
    <3>1. op[r] # "accept" \/ both[q]
      <4> SUFFICES ASSUME pc[q] \in {"mirroring", "clearing", "committing"}
                   PROVE  op[r] # "accept"
        BY <2>3
      <4>1. /\ FriendRow(q, way[q]) \in added[q] /\ way[q] \in Users
        BY <2>3 DEF GInv, Stages, StageOf, Accepting
      <4>2. op[r] = "accept" =>
              /\ way[r] \in Users
              /\ added[r] = {FriendRow(r, way[r]), FriendRow(r, Other(way[r]))}
        BY <1>1 DEF GInv, Stages, StageOf, Accepting
      <4>3. ASSUME op[r] = "accept"
            PROVE  \E y \in added[r] : SameKey(FriendRow(q, way[q]), y)
        <5>1. way[q] = way[r] \/ way[q] = Other(way[r])
          BY <4>1, <4>2, <4>3, OtherFacts
        <5>2. FriendRow(r, way[q]) \in added[r]
          BY <4>2, <4>3, <5>1
        <5> QED
          BY <5>2 DEF SameKey, FriendRow
      <4> QED
        BY <4>1, <4>3 DEF GInv, Keys, Held
    <3> QED
      BY <1>1, <1>3, <2>0, <2>3, <3>1 DEF WasAsked, RequestTo, Find, In
  <2> QED
    BY <1>0, <1>1, <2>1, <2>2, <2>3 DEF Exclusion, AcceptFits, WasAsked, Rids, HasRid
<1>7. BlockFits'
  <2> SUFFICES ASSUME NEW q \in Requests, op[q] = "block", pc[q] \in InFlight, q # r
               PROVE  /\ \/ Overlap("block", "request")'
                         \/ /\ pc[q] = "clearing" =>
                                 In("friend_requests", rows') \subseteq todo[q] \cup deleted[q]
                            /\ pc[q] # "clearing" =>
                                 In("friend_requests", rows') \subseteq deleted[q]
                      /\ \/ Overlap("block", "accept")'
                         \/ /\ pc[q] = "unfriending" =>
                                 In("friends", rows') \subseteq todo[q] \cup deleted[q]
                            /\ pc[q] \in {"mirroring_delete", "inserting", "committing"} =>
                                 In("friends", rows') \subseteq deleted[q]
    BY <1>1, <1>4 DEF BlockFits, Rids, HasRid
  <2>0. Overlap(op[q], op[r])
    BY <1>1, Meetings
  <2>1. ASSUME ~Overlap("block", "request")'
        PROVE  In("friend_requests", rows') \subseteq In("friend_requests", rows)
    BY <1>0, <1>1, <1>2, <2>0, <2>1 DEF In
  <2>2. ASSUME ~Overlap("block", "accept")'
        PROVE  In("friends", rows') \subseteq In("friends", rows)
    BY <1>0, <1>1, <1>2, <2>0, <2>2 DEF In
  <2> QED
    BY <1>0, <2>1, <2>2 DEF Exclusion, BlockFits, Rids, HasRid
<1>8. RelationsExclude'
  <2>1. \A x \in rows' : x \in added[r] \/ (x \in rows /\ x \notin deleted[r])
    BY <1>1
  <2>2. BlockedAreNotFriends'
    <3>1. CASE op[r] = "block"
      BY <1>0, <1>1, <1>2, <2>1, <3>1
      DEF Exclusion, RelationsExclude, BlockedAreNotFriends, BlockFits, HasRid, Blocked,
          AreFriends, In
    <3>2. CASE op[r] = "accept"
      BY <1>0, <1>1, <1>2, <2>1, <3>2
      DEF Exclusion, RelationsExclude, BlockedAreNotFriends, AcceptFits, Blocked,
          AreFriends, In
    <3>3. CASE op[r] \notin {"block", "accept"}
      BY <1>0, <1>2, <2>1, <3>3
      DEF Exclusion, RelationsExclude, BlockedAreNotFriends, Blocked, AreFriends, In
    <3> QED
      BY <3>1, <3>2, <3>3
  <2>3. NoRequestWhenBlocked'
    <3>1. CASE op[r] = "block"
      BY <1>0, <1>1, <1>2, <2>1, <3>1
      DEF Exclusion, RelationsExclude, NoRequestWhenBlocked, BlockFits, HasRid, Blocked,
          Requested, In
    <3>2. CASE op[r] = "request"
      BY <1>0, <1>1, <1>2, <2>1, <3>2
      DEF Exclusion, RelationsExclude, NoRequestWhenBlocked, RequestFits, Blocked,
          Requested, In
    <3>3. CASE op[r] \notin {"block", "request"}
      BY <1>0, <1>2, <2>1, <3>3
      DEF Exclusion, RelationsExclude, NoRequestWhenBlocked, Blocked, Requested, In
    <3> QED
      BY <3>1, <3>2, <3>3
  <2>4. RequestOfFriends'
    <3>1. CASE op[r] = "accept"
      <4>1. way[r] # who[r] \/ both[r] =>
              op'[r] = "accept" /\ pc'[r] = "done" /\ (way'[r] # who'[r] \/ both'[r])
        BY <1>1, <3>1 DEF GInv, TypeOK
      <4> QED
        BY <1>0, <1>1, <1>2, <2>1, <3>1, <4>1
        DEF Exclusion, RequestOfFriends, AcceptFits, HasRid, Requested, In
    <3>2. CASE op[r] = "request"
      BY <1>0, <1>1, <1>2, <2>1, <3>2
      DEF Exclusion, RequestOfFriends, RequestFits, AreFriends, In
    <3>3. CASE op[r] \notin {"accept", "request"}
      <4>1. \A q \in Requests : pc[q] = "done" => pc'[q] = "done"
        BY <1>1 DEF GInv, TypeOK
      <4> QED
        BY <1>0, <1>1, <1>2, <2>1, <3>3, <4>1
        DEF Exclusion, RelationsExclude, RequestOfFriends, AreFriends, Requested, In
    <3> QED
      BY <3>1, <3>2, <3>3
  <2> QED
    BY <2>2, <2>3, <2>4 DEF RelationsExclude
<1> QED BY <1>5, <1>6, <1>7, <1>8 DEF Exclusion

LEMMA FailExclusion ==
  ASSUME GInv, Exclusion, NEW r \in Requests, Fail(r) PROVE Exclusion'
<1>0. /\ Overlap("block", "request") => Overlap("block", "request")'
      /\ Overlap("accept", "request") => Overlap("accept", "request")'
      /\ Overlap("block", "accept") => Overlap("block", "accept")'
  BY DEF Overlap, Fail, RollBack
<1>1. RequestFits'
  BY <1>0 DEF Exclusion, Blocked, AreFriends, RequestFits, Fail, RollBack
<1>2. AcceptFits'
  BY <1>0
  DEF GInv, TypeOK, Exclusion, Blocked, AcceptFits, Rids, HasRid, WasAsked, RequestTo, Fail,
     RollBack
<1>3. BlockFits'
  BY <1>0
  DEF GInv, TypeOK, Exclusion, BlockFits, Rids, HasRid, Fail, RollBack, InFlight,
     Deleting, Inserting
<1>4. RelationsExclude'
  BY <1>0
  DEF Exclusion, RelationsExclude, BlockedAreNotFriends, NoRequestWhenBlocked,
     RequestOfFriends, Blocked, AreFriends, Requested, Fail, RollBack, InFlight,
     Deleting, Inserting
<1> QED BY <1>1, <1>2, <1>3, <1>4 DEF Exclusion

----------------------------------------------------------------------------
LEMMA TwoElements ==
  ASSUME NEW x, NEW y
  PROVE  /\ IsFiniteSet({x} \cup {y})
         /\ x # y => Cardinality({x} \cup {y}) = 2
<1> DEFINE S == {x}
<1>1. IsFiniteSet(S) /\ Cardinality(S) = 1 /\ (x # y => y \notin S)
  BY FS_Singleton
<1> HIDE DEF S
<1>2. /\ IsFiniteSet(S \cup {y})
      /\ Cardinality(S \cup {y}) = IF y \in S THEN Cardinality(S) ELSE Cardinality(S) + 1
  BY <1>1, FS_AddElement
<1>3. IsFiniteSet(S \cup {y}) /\ (x # y => Cardinality(S \cup {y}) = 2)
  BY <1>1, <1>2
<1> QED
  BY <1>3 DEF S

LEMMA InitIInv == Init => IInv
<1> SUFFICES ASSUME Init PROVE IInv
  OBVIOUS
<1>1. \A x, y \in rows : x.table = y.table /\ x.of = y.of => x = y
  BY DEF Init
\* There is at most one request.
<1>2. ASSUME NEW x \in In("friend_requests", rows), NEW y \in In("friend_requests", rows)
      PROVE  x = y
  <2> DEFINE S == In("friend_requests", rows)
             F(u) == [table |-> "friend_requests", of |-> u, by |-> Before]
  <2>1. PICK a \in Users : TRUE
    BY DEF Init, In
  <2>2. S \subseteq {F(a)} \cup {F(Other(a))}
    BY OtherFacts DEF Init, In
  <2>3. IsFiniteSet({F(a)} \cup {F(Other(a))})
    BY TwoElements
  <2>4. IsFiniteSet(S) /\ Cardinality(S) \in Nat /\ Cardinality(S) <= 1
    BY <2>2, <2>3, FS_Subset, FS_CardinalityType DEF Init
  <2>5. Cardinality(S) = 0 \/ Cardinality(S) = 1
    BY <2>4
  <2> QED
    BY <2>4, FS_EmptySet, FS_Singleton
<1>3. Keys
  <2>1. ASSUME NEW x \in rows, NEW y \in rows, SameKey(x, y) PROVE x = y
    BY <1>1, <1>2, <2>1 DEF SameKey, In
  <2> QED
    BY <2>1 DEF Init, Keys, Held
\* A single row of friends would be one friend too few.
<1>4. Whole
  <2> SUFFICES ASSUME NEW x \in Friends(rows),
                      ~\E y \in Friends(rows) : y.of = Other(x.of)
               PROVE  FALSE
    BY DEF Whole
  <2>1. Friends(rows) = {x}
    BY OtherFacts DEF Init, Friends, In
  <2> QED
    BY <2>1, FS_Singleton DEF Init, Friends
<1>5. TypeOK
  BY DEF Init, TypeOK, Rows, Ops
<1>6. Stages /\ Mirrored /\ Met
  BY DEF Init, Stages, StageOf, Ended, Mirrored, Met, InFlight, Deleting, Inserting
<1>7. RelationsExclude
  BY DEF Init, RelationsExclude, BlockedAreNotFriends, NoRequestWhenBlocked,
     RequestOfFriends, Blocked, AreFriends, Requested, In
<1>8. RequestFits /\ AcceptFits /\ BlockFits
  BY DEF Init, RequestFits, AcceptFits, BlockFits
<1> QED
  BY <1>3, <1>4, <1>5, <1>6, <1>7, <1>8 DEF IInv, GInv, Exclusion

\* Every step keeps the inductive invariant.
LEMMA StepIInv == IInv /\ [Next]_vars => IInv'
<1> SUFFICES ASSUME GInv, Exclusion, [Next]_vars PROVE GInv' /\ Exclusion'
  BY DEF IInv
<1>1. ASSUME UNCHANGED vars PROVE GInv' /\ Exclusion'
  <2>1. GInv'
    BY <1>1
    DEF GInv, TypeOK, Keys, Held, Whole, Stages, StageOf, Ended, OneRowOf, Requesting,
       Withdrawing, Accepting, Unfriending, Blocking, Unblocking, Mirrored, Met, vars
  <2>2. Exclusion'
    BY <1>1
    DEF Exclusion, RequestFits, AcceptFits, BlockFits, RelationsExclude,
       BlockedAreNotFriends, NoRequestWhenBlocked, RequestOfFriends, Blocked,
       AreFriends, Requested, Overlap, Rids, HasRid, WasAsked, RequestTo, vars
  <2> QED BY <2>1, <2>2
<1>2. ASSUME NEW r \in Requests, NEW u \in Users,
             Request(r, u) \/ Withdraw(r, u) \/ Block(r, u) \/ Unblock(r, u)
      PROVE  GInv' /\ Exclusion'
  BY <1>2, RequestGInv, WithdrawGInv, BlockGInv, UnblockGInv, RequestExclusion,
     WithdrawExclusion, BlockExclusion, UnblockExclusion
<1>3. ASSUME NEW r \in Requests, NEW u \in Users, NEW w \in Users, NEW b \in BOOLEAN,
             Accept(r, u, w, b) \/ Unfriend(r, u, w) \/ UnfriendBoth(r, u)
      PROVE  GInv' /\ Exclusion'
  BY <1>3, AcceptGInv, UnfriendGInv, UnfriendBothGInv, AcceptExclusion,
     UnfriendExclusion, UnfriendBothExclusion
<1>4. ASSUME NEW r \in Requests, NEW x \in Rows, DeleteRow(r, x)
      PROVE  GInv' /\ Exclusion'
  BY <1>4, DeleteRowGInv, DeleteRowExclusion
<1>5. ASSUME NEW r \in Requests,
             Cleared(r) \/ DeleteMirrors(r) \/ Unfriended(r) \/ Unblocked(r)
      PROVE  GInv' /\ Exclusion'
  BY <1>5, ClearedGInv, DeleteMirrorsGInv, UnfriendedGInv, UnblockedGInv,
     ClearedExclusion, DeleteMirrorsExclusion, UnfriendedExclusion, UnblockedExclusion
<1>6. ASSUME NEW r \in Requests,
             InsertRow(r) \/ Duplicate(r) \/ InsertMirror(r) \/ Commit(r) \/ Fail(r)
      PROVE  GInv' /\ Exclusion'
  BY <1>6, InsertRowGInv, DuplicateGInv, InsertMirrorGInv, CommitGInv, FailGInv,
     InsertRowExclusion, DuplicateExclusion, InsertMirrorExclusion, CommitExclusion,
     FailExclusion
<1> QED
  BY <1>1, <1>2, <1>3, <1>4, <1>5, <1>6 DEF Next, Quiescent

LEMMA Inductive == Spec => []IInv
BY InitIInv, StepIInv, PTL DEF Spec

\* Rows, calls and open transactions are what they are meant to be, for any number
\* of calls.
THEOREM TypeCorrect == Spec => []TypeOK
<1>1. IInv => TypeOK
  BY DEF IInv, GInv
<1> QED
  BY <1>1, Inductive, PTL

\* The triggers friend_insert and friend_delete keep both rows of a friendship or
\* none, whatever calls run at once.
THEOREM FriendshipIsMutual == Spec => []FriendsBothWays
<1>1. ASSUME IInv PROVE FriendsBothWays
  <2>1. CASE Friends(rows) = {}
    BY <2>1, FS_EmptySet DEF FriendsBothWays, Friends
  <2>2. ASSUME NEW x \in Friends(rows) PROVE FriendsBothWays
    <3>1. PICK y \in Friends(rows) : y.of = Other(x.of)
      BY <1>1 DEF IInv, GInv, Whole
    <3>2. x # y /\ x.of \in Users
      BY <1>1, <3>1, OtherFacts DEF IInv, GInv, TypeOK, Rows, Friends, In
    <3>3. Friends(rows) = {x} \cup {y}
      <4>1. ASSUME NEW z \in Friends(rows) PROVE z = x \/ z = y
        <5>1. z.of = x.of \/ z.of = y.of
          BY <1>1, <3>1, OtherFacts DEF IInv, GInv, TypeOK, Rows, Friends, In
        <5> QED
          BY <1>1, <5>1 DEF IInv, GInv, Keys, SameKey, Friends, In
      <4> QED
        BY <4>1
    <3>4. Cardinality({x} \cup {y}) = 2
      BY <3>2, TwoElements
    <3> QED
      BY <3>3, <3>4 DEF FriendsBothWays, Friends
  <2> QED
    BY <2>1, <2>2
<1> QED
  BY <1>1, Inductive, PTL

\* Friendship, request and block are together only after the overlaps that the
\* policies and triggers cannot see.
THEOREM RelationsAreExclusive == Spec => []RelationsExclude
<1>1. IInv => RelationsExclude
  BY DEF IInv, Exclusion
<1> QED
  BY <1>1, Inductive, PTL

\* Whoever becomes a friend has a request open then, unless it was taken back or
\* removed by a block while it was being accepted.
THEOREM FriendsHaveAsked == Spec => FriendsByRequest
<1>1. ASSUME IInv, [Next]_vars, ~AreFriends, AreFriends'
      PROVE  \E r \in Requests :
               /\ op[r] = "accept" /\ pc[r] = "committing" /\ pc'[r] = "done"
               /\ \/ Find(rows, "friend_requests", Other(who[r])) # {}
                  \/ \E q \in peers[r] : \/ op[q] \in {"withdraw", "block"}
                                         \/ op[q] = "accept" /\ both[r]
  <2>1. PICK r \in Requests : Commit(r)
    BY <1>1
    DEF Next, Quiescent, vars, Request, Withdraw, Accept, Unfriend, UnfriendBoth, Block, Unblock,
       Call, DeleteRow, Cleared, DeleteMirrors, Unfriended, Unblocked, Proceed,
       InsertRow, Duplicate, InsertMirror, Fail, RollBack, AreFriends
  <2>2. /\ pc[r] = "committing" /\ pc'[r] = "done"
        /\ \E x \in added[r] : x.table = "friends"
    BY <1>1, <2>1 DEF IInv, GInv, TypeOK, Commit, Visible, AreFriends, In
  <2>3. op[r] = "accept"
    <3>1. ~Requesting(r) /\ ~Blocking(r)
      BY <2>2 DEF Requesting, Blocking
    <3>2. ~Withdrawing(r) /\ ~Unblocking(r) /\ ~Unfriending(r)
      BY <2>2 DEF Withdrawing, Unblocking, Unfriending, OneRowOf
    <3> QED
      BY <1>1, <2>2, <3>1, <3>2 DEF IInv, GInv, Stages, StageOf, InFlight
  <2> QED
    BY <1>1, <2>2, <2>3 DEF IInv, Exclusion, AcceptFits, WasAsked, RequestTo, InFlight
<1> QED
  BY <1>1, Inductive, PTL DEF Spec, FriendsByRequest

\* The cycles of waiting transactions are made of acceptances, unfriendings and
\* blocks, and not of acceptances and unfriendings that start from the same row,
\* for any number of calls.
THEOREM DeadlocksAreCrosswise == Spec => []DeadlockOnlyCrosswise
<1>1. ASSUME IInv, NEW group \in SUBSET Requests, Deadlocked(group)
      PROVE  /\ \A r \in group : op[r] \in {"accept", "unfriend", "block"}
             /\ \E q, r \in group : DeletesBoth(q) \/ way[q] # way[r]
  \* Each holds a row and waits for another one.
  <2>1. ASSUME NEW r \in group
        PROVE  /\ r \in Requests /\ Held(r) # {}
               /\ pc[r] \in Inserting \/ (pc[r] \in Deleting /\ todo[r] # {})
               /\ \E q \in group : q # r
    BY <1>1 DEF Deadlocked, WaitsFor, Held
  <2>2. ASSUME NEW r \in group
        PROVE  /\ op[r] \in {"accept", "unfriend", "block"}
               /\ ~DeletesBoth(r) =>
                    /\ way[r] \in Users
                    /\ \E x \in Held(r) : x.table = "friends" /\ x.of = way[r]
    <3>1. StageOf(r) /\ pc[r] \in InFlight
      BY <1>1, <2>1 DEF IInv, GInv, Stages, InFlight
    <3>2. ~Requesting(r)
      BY <2>1 DEF Requesting, Held, Inserting
    <3>3. ~Withdrawing(r) /\ ~Unblocking(r)
      BY <2>1 DEF Withdrawing, Unblocking, OneRowOf, Held, Inserting
    <3>4. Accepting(r) => FriendRow(r, way[r]) \in Held(r)
      BY <2>1 DEF Accepting, Held
    <3>5. Unfriending(r) /\ ~both[r] => \E x \in Held(r) : x.table = "friends" /\ x.of = way[r]
      BY <2>1 DEF Unfriending, Held, Inserting
    <3> QED
      BY <3>1, <3>2, <3>3, <3>4, <3>5 DEF StageOf, FriendRow, DeletesBoth
  <2>3. PICK r \in group, q \in group : q # r
    BY <1>1, <2>1 DEF Deadlocked
  <2>4. way[q] # way[r] \/ DeletesBoth(q) \/ DeletesBoth(r)
    BY <1>1, <2>2, <2>3 DEF IInv, GInv, Keys, SameKey
  <2> QED
    BY <2>2, <2>4
<1>2. IInv => DeadlockOnlyCrosswise
  BY <1>1 DEF DeadlockOnlyCrosswise
<1> QED
  BY <1>2, Inductive, PTL
=================================================================================

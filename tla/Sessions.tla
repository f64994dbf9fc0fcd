-------------------------------- MODULE Sessions --------------------------------
(***************************************************************************)
(* What the session service promises, without statements, locks or         *)
(* requests.  A session is opened once, with one refresh token; the token  *)
(* is exchanged for a successor; the session is closed and stays closed.   *)
(*                                                                         *)
(* RefreshTokens, which models the handlers of apps/api/src and the        *)
(* database they run on, implements this specification.                    *)
(***************************************************************************)
CONSTANTS Claims       \* what a refresh token says: [token, session, user]

VARIABLES
  live,                \* the tokens that can be redeemed now
  used                 \* every token that has ever been redeemable

absVars == <<live, used>>

Init ==
  /\ live = {}
  /\ used = {}

NeverUsed(c) == \A d \in used : d.token # c.token

\* A session that was never seen before starts with its first token.
Open(c) ==
  /\ NeverUsed(c)
  /\ \A d \in used : d.session # c.session
  /\ live' = live \cup {c}
  /\ used' = used \cup {c}

\* A live token is exchanged for a new one of the same session and user.
Rotate(c, d) ==
  /\ c \in live
  /\ NeverUsed(d)
  /\ d.session = c.session
  /\ d.user = c.user
  /\ live' = (live \ {c}) \cup {d}
  /\ used' = used \cup {d}

\* Sessions of one user end together.
Close(S) ==
  /\ \A c, d \in S : c.user = d.user
  /\ live' = live \ S
  /\ UNCHANGED used

Next ==
  \/ \E c \in Claims : Open(c)
  \/ \E c, d \in Claims : Rotate(c, d)
  \/ \E S \in SUBSET live : Close(S)

Spec == Init /\ [][Next]_absVars
----------------------------------------------------------------------------
\* A session that has been closed: it had tokens, and none is live.
Closed(s) ==
  /\ \E c \in used : c.session = s
  /\ \A c \in live : c.session # s

\* At no time do two redeemable tokens belong to one session.
OneLiveToken == \A c, d \in live : c.session = d.session => c = d

\* A closed session never becomes live again.
ClosedForGood ==
  [][\A c \in Claims : Closed(c.session) => Closed(c.session)']_absVars
=================================================================================

------------------------------- MODULE MailDelivery -------------------------------
(***************************************************************************)
(* What the mail queue promises whoever hands it a message, without        *)
(* processes, connections or a broker.  The message is tried until its     *)
(* mail is sent, or the tries are used up.  The queue may lose track of a  *)
(* message: then, and only then, it may send the mail again, or give up    *)
(* early or although the mail was sent.                                    *)
(*                                                                         *)
(* EmailQueue, which models apps/queue and its Pulsar client, implements   *)
(* this specification.                                                     *)
(***************************************************************************)
EXTENDS Naturals

CONSTANTS
  Messages,
  MaxTries             \* how often a message is tried before it is given up

VARIABLES
  place,               \* of each message
  sent,                \* mails that went out for it; 2 is any more than one
  tried,               \* times it was tried, at most MaxTries
  doubtful             \* messages the queue has lost track of

mailVars == <<place, sent, tried, doubtful>>

Init ==
  /\ place = [m \in Messages |-> "outside"]
  /\ sent = [m \in Messages |-> 0]
  /\ tried = [m \in Messages |-> 0]
  /\ doubtful = {}

Accept(m) ==
  /\ place[m] = "outside"
  /\ place' = [place EXCEPT ![m] = "queued"]
  /\ UNCHANGED <<sent, tried, doubtful>>

\* The mail goes out or it does not, and the queue notices or not.
Try(m, goesOut, noticed) ==
  /\ \/ place[m] = "queued" /\ sent[m] = 0 /\ tried[m] < MaxTries
     \/ m \in doubtful
  /\ sent' = [sent EXCEPT ![m] = IF goesOut /\ @ < 2 THEN @ + 1 ELSE @]
  /\ tried' = [tried EXCEPT ![m] = IF @ < MaxTries THEN @ + 1 ELSE @]
  /\ doubtful' = IF goesOut /\ ~noticed THEN doubtful \cup {m} ELSE doubtful
  /\ UNCHANGED place

\* The messages in S are done with, and track is lost of those in L.
Settle(S, L) ==
  /\ \A m \in S : sent[m] > 0
  /\ \A m \in L : place[m] = "queued"
  /\ place' = [m \in Messages |->
       IF m \in S /\ place[m] = "queued" THEN "settled" ELSE place[m]]
  /\ doubtful' = doubtful \cup L
  /\ UNCHANGED <<sent, tried>>

GiveUp(m) ==
  /\ place[m] = "queued"
  /\ tried[m] > 0
  /\ m \notin doubtful => tried[m] = MaxTries /\ sent[m] = 0
  /\ place' = [place EXCEPT ![m] = "given up"]
  /\ UNCHANGED <<sent, tried, doubtful>>

Next ==
  \/ \E m \in Messages :
       \/ Accept(m) \/ GiveUp(m)
       \/ \E goesOut, noticed \in BOOLEAN : Try(m, goesOut, noticed)
  \/ \E S, L \in SUBSET Messages : Settle(S, L)

Spec == Init /\ [][Next]_mailVars
----------------------------------------------------------------------------
\* A message leaves the queue because its mail was sent, or is given up after
\* the tries the policy allows, none of which sent it, unless track of it was
\* lost.
LeavesSentOrTried ==
  \A m \in Messages :
    /\ place[m] = "settled" => sent[m] > 0
    /\ place[m] = "given up" => tried[m] > 0
    /\ place[m] = "given up" /\ m \notin doubtful => tried[m] = MaxTries /\ sent[m] = 0

\* Nobody gets a mail twice that the queue has not lost track of.
SentOnce == \A m \in Messages : sent[m] > 1 => m \in doubtful
=================================================================================

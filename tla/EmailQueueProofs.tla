---------------------------- MODULE EmailQueueProofs ----------------------------
(***************************************************************************)
(* The mail queue is typed, sends a mail twice only by a fault, and        *)
(* implements MailDelivery, for any messages, processes, redelivery limit  *)
(* and number of lost connections.                                         *)
(***************************************************************************)
EXTENDS EmailQueue, TLAPS

(* The inductive invariant.  A message the loop has not lost track of is in *)
(* one place only, and where it is tells how often it was tried.            *)

\* Process c is in the turn of its loop that began with message m.
Works(c, m) == pc[c] \in {"send", "ack", "nack"} /\ msg[c] = m

Untouched ==
  \A m \in Messages : topic[m] = "unsent" => mails[m] = 0 /\ tries[m] = 0 /\ count[m] = 0

Finished ==
  \A m \in Messages :
    /\ topic[m] = "acked" => mails[m] > 0
    /\ topic[m] = "dead" => tries[m] > 0

\* What a process or its client still has, lost track of or not.
AtHand ==
  \A c \in Consumers :
    /\ pc[c] \in {"send", "ack", "nack"} =>
         /\ msg[c] \in Messages
         /\ topic[msg[c]] # "unsent"
         /\ pc[c] = "ack" => mails[msg[c]] > 0
         /\ pc[c] # "send" => tries[msg[c]] > 0
    /\ \A m \in acking[c] : topic[m] # "unsent" /\ mails[m] > 0
    /\ \A m \in nacked[c] : topic[m] # "unsent" /\ tries[m] > 0

Tracked(m) ==
  /\ mails[m] <= 1
  /\ topic[m] = "backlog" => mails[m] = 0 /\ tries[m] = count[m]
  /\ topic[m] = "dead" => mails[m] = 0 /\ tries[m] = MaxRedeliverCount + 1
  /\ \A c \in Consumers :
       /\ Works(c, m) =>
            /\ Holds(c, m) /\ m \notin acking[c] /\ m \notin nacked[c]
            /\ pc[c] = "send" => mails[m] = 0 /\ tries[m] = count[m]
            /\ pc[c] = "nack" => mails[m] = 0 /\ tries[m] = count[m] + 1
       /\ m \in acking[c] => Holds(c, m) /\ m \notin nacked[c]
       /\ m \in nacked[c] => Holds(c, m) /\ mails[m] = 0 /\ tries[m] = count[m] + 1

IInv ==
  /\ TypeOK
  /\ Untouched
  /\ Finished
  /\ AtHand
  /\ \A m \in Messages \ faulty : Tracked(m)
----------------------------------------------------------------------------
(* Types *)

LEMMA InitIInv == Init => IInv
BY EmailQueueAssumption
DEF Init, IInv, TypeOK, Untouched, Finished, AtHand, Tracked, Works

\* What Return assigns, message by message.
LEMMA ReturnEffect ==
  ASSUME TypeOK, NEW c \in Consumers, NEW S \in SUBSET Messages, Return(c, S),
         NEW m \in Messages
  PROVE  /\ Holds(c, m) /\ m \notin S =>
              /\ topic'[m] = "backlog" /\ holder'[m] = None /\ m \in faulty'
              /\ count'[m] \in 0..MaxRedeliverCount
         /\ ~(Holds(c, m) /\ m \notin S) =>
              /\ topic'[m] = IF m \in S /\ topic[m] # "dead" THEN "acked" ELSE topic[m]
              /\ holder'[m] = IF m \in S THEN None ELSE holder[m]
              /\ count'[m] = count[m]
              /\ m \in faulty' <=> m \in faulty
<1> DEFINE back == {n \in Messages : Holds(c, n)} \ S
<1>1. /\ topic' = [n \in Messages |->
             IF n \in back THEN "backlog"
             ELSE IF n \in S /\ topic[n] # "dead" THEN "acked"
             ELSE topic[n]]
      /\ holder' = [n \in Messages |-> IF n \in back \cup S THEN None ELSE holder[n]]
      /\ faulty' = faulty \cup back
  BY DEF Return
<1>2. PICK counted \in BOOLEAN :
        count' = [n \in Messages |->
             IF n \in back /\ counted /\ count[n] < MaxRedeliverCount THEN count[n] + 1
             ELSE count[n]]
  BY DEF Return
<1>3. m \in back <=> Holds(c, m) /\ m \notin S
  OBVIOUS
<1> HIDE DEF back
<1>4. count[m] \in 0..MaxRedeliverCount
  BY DEF TypeOK
<1>5. count'[m] \in 0..MaxRedeliverCount
  BY <1>2, <1>4, EmailQueueAssumption
<1>6. m \notin back => count'[m] = count[m]
  BY <1>2
<1> QED BY <1>1, <1>3, <1>5, <1>6

LEMMA ReturnType ==
  ASSUME TypeOK, NEW c \in Consumers, NEW S \in SUBSET Messages, Return(c, S)
  PROVE  /\ topic' \in [Messages -> {"unsent", "backlog", "delivered", "acked", "dead"}]
         /\ holder' \in [Messages -> Consumers \cup {None}]
         /\ count' \in [Messages -> 0..MaxRedeliverCount]
         /\ faulty \subseteq faulty' /\ faulty' \subseteq Messages
<1>1. /\ topic' = [m \in Messages |-> topic'[m]]
      /\ holder' = [m \in Messages |-> holder'[m]]
      /\ count' = [m \in Messages |-> count'[m]]
      /\ faulty \subseteq faulty' /\ faulty' \subseteq Messages
  BY DEF Return, TypeOK
<1>2. ASSUME NEW m \in Messages
      PROVE  /\ topic'[m] \in {"unsent", "backlog", "delivered", "acked", "dead"}
             /\ holder'[m] \in Consumers \cup {None}
             /\ count'[m] \in 0..MaxRedeliverCount
  BY ReturnEffect DEF TypeOK
<1> QED BY <1>1, <1>2
----------------------------------------------------------------------------
(* Every step keeps the invariant *)

LEMMA SendIInv == ASSUME IInv, NEW m \in Messages, Send(m) PROVE IInv'
BY DEF IInv, TypeOK, Untouched, Finished, AtHand, Tracked, Works, Holds, Send, client,
   history

LEMMA ReceiveIInv == ASSUME IInv, NEW c \in Consumers, Receive(c) PROVE IInv'
BY DEF IInv, TypeOK, Untouched, Finished, AtHand, Tracked, Works, Holds, Receive,
   client, history

LEMMA ReceiveFailsIInv == ASSUME IInv, NEW c \in Consumers, ReceiveFails(c) PROVE IInv'
BY DEF IInv, TypeOK, Untouched, Finished, AtHand, Tracked, Works, Holds, ReceiveFails,
   NextTurn, broker, client, history

LEMMA AcknowledgeIInv == ASSUME IInv, NEW c \in Consumers, Acknowledge(c) PROVE IInv'
BY DEF IInv, TypeOK, Untouched, Finished, AtHand, Tracked, Works, Holds, Acknowledge,
   NextTurn, broker, history

LEMMA AcknowledgeFailsIInv ==
  ASSUME IInv, NEW c \in Consumers, AcknowledgeFails(c)
  PROVE  IInv'
BY DEF IInv, TypeOK, Untouched, Finished, AtHand, Tracked, Works, Holds,
   AcknowledgeFails, broker, client

LEMMA NegativeAcknowledgeIInv ==
  ASSUME IInv, NEW c \in Consumers, NegativeAcknowledge(c)
  PROVE  IInv'
BY DEF IInv, TypeOK, Untouched, Finished, AtHand, Tracked, Works, Holds,
   NegativeAcknowledge, NextTurn, broker, history

\* The mail is counted, and a message whose mail was accepted in spite of an
\* error is not tracked any more.
LEMMA SendEmailIInv == ASSUME IInv, NEW c \in Consumers, SendEmail(c) PROVE IInv'
<1> DEFINE m == msg[c]
<1>1. pc[c] = "send" /\ m \in Messages /\ topic[m] # "unsent"
  BY DEF IInv, AtHand, SendEmail
<1>2. PICK accepted, error \in BOOLEAN :
        /\ accepted \/ error
        /\ mails' = [mails EXCEPT ![m] = IF accepted /\ @ < 2 THEN @ + 1 ELSE @]
        /\ faulty' = IF accepted /\ error THEN faulty \cup {m} ELSE faulty
        /\ pc' = [pc EXCEPT ![c] = IF error THEN "nack" ELSE "ack"]
  BY DEF SendEmail
<1>3. tries' = [tries EXCEPT ![m] = IF @ <= MaxRedeliverCount THEN @ + 1 ELSE @]
  BY DEF SendEmail
<1>4. mails[m] \in 0..2 /\ tries[m] \in 0..MaxRedeliverCount + 1
  BY <1>1 DEF IInv, TypeOK
<1> DEFINE sent == IF accepted /\ mails[m] < 2 THEN mails[m] + 1 ELSE mails[m]
           tried == IF tries[m] <= MaxRedeliverCount THEN tries[m] + 1 ELSE tries[m]
<1>5. /\ sent \in 0..2 /\ (accepted => sent > 0)
      /\ accepted /\ mails[m] = 0 => sent = 1
      /\ ~accepted => sent = mails[m]
  BY <1>4
<1>6. /\ tried \in 0..MaxRedeliverCount + 1 /\ tried > 0
      /\ tries[m] <= MaxRedeliverCount => tried = tries[m] + 1
  BY <1>4, EmailQueueAssumption
<1>7. mails' = [mails EXCEPT ![m] = sent] /\ tries' = [tries EXCEPT ![m] = tried]
  BY <1>2, <1>3
<1>8. UNCHANGED <<topic, holder, count, msg, phase, acking, nacked, disconnects>>
  BY DEF SendEmail, broker, client
<1>9. mails[m] > 0 => sent > 0
  BY <1>4
<1> HIDE DEF m, sent, tried
<1>10. TypeOK'
  BY <1>1, <1>2, <1>6, <1>7, <1>8 DEF IInv, TypeOK
<1>11. Untouched'
  BY <1>1, <1>7, <1>8 DEF IInv, Untouched
<1>12. Finished'
  BY <1>6, <1>7, <1>8, <1>9 DEF IInv, Finished
<1>13. AtHand'
  <2>1. \A n \in Messages : mails[n] > 0 => mails'[n] > 0
    BY <1>7, <1>9
  <2>2. \A n \in Messages : tries[n] > 0 => tries'[n] > 0
    BY <1>6, <1>7
  <2>3. tries'[m] > 0 /\ (accepted => mails'[m] > 0)
    BY <1>1, <1>5, <1>6, <1>7 DEF IInv, TypeOK
  <2>4. /\ pc'[c] \in {"ack", "nack"} /\ (pc'[c] = "ack" => accepted) /\ msg'[c] = m
        /\ \A d \in Consumers : d # c => pc'[d] = pc[d]
    BY <1>2, <1>8 DEF IInv, TypeOK, m
  <2>5. \A d \in Consumers : acking[d] \subseteq Messages /\ nacked[d] \subseteq Messages
    BY DEF IInv, TypeOK
  <2> QED BY <1>1, <1>8, <2>1, <2>2, <2>3, <2>4, <2>5 DEF IInv, AtHand
<1>14. ASSUME NEW n \in Messages \ faulty' PROVE Tracked(n)'
  <2>1. n \notin faulty /\ Tracked(n)
    BY <1>2 DEF IInv
  <2>2. CASE n # m
    BY <1>2, <1>7, <1>8, <2>2 DEF IInv, Tracked, Works, Holds, m
  <2>3. CASE n = m
    <3>1. Holds(c, n) /\ mails[n] = 0 /\ tries[n] = count[n]
      BY <1>1, <2>1, <2>3 DEF Tracked, Works, m
    <3>2. tries[n] <= MaxRedeliverCount
      BY <3>1 DEF IInv, TypeOK
    <3>3. tries'[n] = count[n] + 1
      BY <1>6, <1>7, <2>3, <3>1 DEF IInv, TypeOK
    <3>4. /\ mails'[n] = 0 \/ mails'[n] = 1
          /\ error => mails'[n] = 0
      BY <1>2, <3>1
    <3> QED
      BY <1>1, <1>2, <1>8, <3>1, <3>3 DEF IInv, TypeOK, Tracked, Works, Holds
  <2> QED BY <2>2, <2>3
<1> QED BY <1>10, <1>11, <1>12, <1>13, <1>14 DEF IInv

LEMMA AckArrivesIInv ==
  ASSUME IInv, NEW c \in Consumers, NEW m \in Messages, AckArrives(c, m)
  PROVE  IInv'
BY DEF IInv, TypeOK, Untouched, Finished, AtHand, Tracked, Works, Holds, AckArrives,
   Acked, history

LEMMA RedeliverIInv ==
  ASSUME IInv, NEW c \in Consumers, NEW m \in Messages, Redeliver(c, m)
  PROVE  IInv'
BY EmailQueueAssumption
DEF IInv, TypeOK, Untouched, Finished, AtHand, Tracked, Works, Holds, Redeliver, broker,
   history

\* What goes back is not tracked any more, and what its client acknowledges
\* is nobody else's.
LEMMA ReturnIInv ==
  ASSUME IInv, TypeOK', NEW c \in Consumers, NEW S \in SUBSET acking[c], Return(c, S),
         \A m \in acking'[c] : m \in acking[c] /\ m \notin S,
         nacked'[c] \subseteq nacked[c],
         \A d \in Consumers : d # c => acking'[d] = acking[d] /\ nacked'[d] = nacked[d],
         \A d \in Consumers : pc'[d] \in {"send", "ack", "nack"} =>
           pc'[d] = pc[d] /\ msg'[d] = msg[d],
         mails' = mails, tries' = tries
  PROVE  IInv'
<1>1. S \in SUBSET Messages
  BY DEF IInv, TypeOK
<1>2. \A m \in Messages : topic'[m] = "unsent" <=> topic[m] = "unsent"
  BY <1>1, ReturnEffect DEF IInv, Holds, AtHand
<1>3. Untouched'
  BY <1>1, ReturnEffect DEF IInv, Untouched
<1>4. Finished'
  BY <1>1, ReturnEffect DEF IInv, Finished, AtHand
<1>5. \A d \in Consumers :
        /\ acking'[d] \subseteq acking[d] /\ acking[d] \subseteq Messages
        /\ nacked'[d] \subseteq nacked[d] /\ nacked[d] \subseteq Messages
        /\ pc'[d] \in {"send", "ack", "nack"} => pc'[d] = pc[d] /\ msg'[d] = msg[d]
  BY DEF IInv, TypeOK
<1>6. AtHand'
  BY <1>2, <1>5 DEF IInv, AtHand
<1>7. ASSUME NEW m \in Messages \ faulty' PROVE Tracked(m)'
  <2>1. /\ m \notin faulty /\ Tracked(m)
        /\ m \in S \/ ~Holds(c, m)
        /\ count'[m] = count[m]
        /\ m \notin S => topic'[m] = topic[m] /\ holder'[m] = holder[m]
    BY <1>1, ReturnEffect DEF IInv
  <2>2. CASE m \in S
    <3>1. Holds(c, m)
      BY <2>1, <2>2 DEF Tracked
    <3>2. \A d \in Consumers : ~Works(d, m) /\ m \notin acking'[d] /\ m \notin nacked'[d]
      <4> TAKE d \in Consumers
      <4>1. CASE d = c
        BY <2>1, <4>1 DEF Tracked
      <4>2. CASE d # c
        <5>1. ~Holds(d, m)
          BY <3>1, <4>2 DEF Holds
        <5> QED BY <2>1, <5>1 DEF Tracked
      <4> QED BY <4>1, <4>2
    <3>3. \A d \in Consumers : ~Works(d, m)'
      BY <3>2 DEF Works
    <3>4. topic'[m] = "acked"
      BY <1>1, <3>1, ReturnEffect DEF IInv, Holds
    <3> QED BY <2>1, <3>2, <3>3, <3>4 DEF Tracked
  <2>3. CASE m \notin S
    <3>1. \A d \in Consumers :
            /\ Holds(d, m)' <=> Holds(d, m)
            /\ Works(d, m)' => Works(d, m) /\ pc'[d] = pc[d]
      BY <2>1, <2>3 DEF Works, Holds
    <3> QED BY <2>1, <2>3, <3>1 DEF Tracked
  <2> QED BY <2>2, <2>3
<1> QED BY <1>3, <1>4, <1>6, <1>7 DEF IInv

LEMMA DisconnectIInv == ASSUME IInv, NEW c \in Consumers, Disconnect(c) PROVE IInv'
<1>1. Return(c, {})
  BY DEF Disconnect
<1>2. TypeOK'
  BY ReturnType, EmailQueueAssumption DEF IInv, TypeOK, Disconnect
<1>3. PICK kept \in {{}, acking[c]} : acking' = [acking EXCEPT ![c] = kept]
  BY DEF Disconnect
<1>4. /\ \A m \in acking'[c] : m \in acking[c] /\ m \notin {}
      /\ nacked'[c] \subseteq nacked[c]
      /\ \A d \in Consumers : d # c => acking'[d] = acking[d] /\ nacked'[d] = nacked[d]
  BY DEF Disconnect
<1>5. pc' = pc /\ msg' = msg /\ mails' = mails /\ tries' = tries
  BY DEF Disconnect
<1>6. {} \in SUBSET acking[c]
  OBVIOUS
<1> QED BY <1>1, <1>2, <1>4, <1>5, ReturnIInv

LEMMA CloseIInv == ASSUME IInv, NEW c \in Consumers, Close(c) PROVE IInv'
<1>1. Return(c, acking[c])
  BY DEF Close
<1>2. TypeOK'
  BY ReturnType DEF IInv, TypeOK, Close
<1>3. /\ \A m \in acking'[c] : m \in acking[c] /\ m \notin acking[c]
      /\ nacked'[c] \subseteq nacked[c]
      /\ \A d \in Consumers : d # c => acking'[d] = acking[d] /\ nacked'[d] = nacked[d]
  BY DEF IInv, TypeOK, Close
<1>4. pc' = pc /\ msg' = msg /\ mails' = mails /\ tries' = tries
  BY DEF Close
<1>5. acking[c] \in SUBSET acking[c]
  OBVIOUS
<1> QED BY <1>1, <1>2, <1>3, <1>4, ReturnIInv

LEMMA ExitIInv == ASSUME IInv, NEW c \in Consumers, Exit(c) PROVE IInv'
<1>1. Return(c, {})
  BY DEF Exit
<1>2. TypeOK'
  BY <1>1, ReturnType DEF IInv, TypeOK, Exit
<1> QED BY <1>1, <1>2, ReturnIInv DEF IInv, TypeOK, Exit

LEMMA ShutdownIInv == ASSUME IInv, NEW c \in Consumers, Shutdown(c) PROVE IInv'
BY DEF IInv, TypeOK, Untouched, Finished, AtHand, Tracked, Works, Holds, Shutdown,
   broker, client, history

LEMMA NextIInv == IInv /\ [Next]_vars => IInv'
<1> SUFFICES ASSUME IInv, [Next]_vars PROVE IInv'
  OBVIOUS
<1>1. CASE \E m \in Messages : Send(m)
  BY <1>1, SendIInv
<1>2. ASSUME NEW c \in Consumers, Loop(c) PROVE IInv'
  BY <1>2, ReceiveIInv, ReceiveFailsIInv, SendEmailIInv, AcknowledgeIInv,
     AcknowledgeFailsIInv, NegativeAcknowledgeIInv DEF Loop
<1>3. CASE \E m \in Messages, c \in Consumers : AckArrives(c, m) \/ Redeliver(c, m)
  BY <1>3, AckArrivesIInv, RedeliverIInv
<1>4. CASE \E c \in Consumers : Disconnect(c) \/ Shutdown(c) \/ Close(c) \/ Exit(c)
  BY <1>4, DisconnectIInv, ShutdownIInv, CloseIInv, ExitIInv
<1>5. CASE UNCHANGED vars
  BY <1>5 DEF vars, IInv, TypeOK, Untouched, Finished, AtHand, Tracked, Works, Holds
<1> QED BY <1>1, <1>2, <1>3, <1>4, <1>5 DEF Next, Quiescent

LEMMA SpecIInv == Spec => []IInv
BY InitIInv, NextIInv, PTL DEF Spec
----------------------------------------------------------------------------
\* The variables keep their types: no message is counted past the redelivery
\* limit, none is tried more than once more than that.
THEOREM TypeCorrect == Spec => []TypeOK
<1>1. IInv => TypeOK
  BY DEF IInv
<1> QED BY <1>1, SpecIInv, PTL

\* A user gets a mail twice only if the loop saw an error after the SMTP server
\* had accepted it, or a process lost the message while it had it.
THEOREM NoMailTwiceUnlessFault == Spec => []SentTwiceOnlyByFault
<1>1. IInv => SentTwiceOnlyByFault
  BY DEF IInv, TypeOK, Tracked, SentTwiceOnlyByFault
<1> QED BY <1>1, SpecIInv, PTL
----------------------------------------------------------------------------
(* The refinement *)

place == [m \in Messages |-> Place(m)]

LEMMA PlaceValue ==
  ASSUME TypeOK, NEW m \in Messages
  PROVE  /\ place[m] \in {"outside", "queued", "settled", "given up"}
         /\ place[m] = "outside" <=> topic[m] = "unsent"
         /\ place[m] = "settled" <=> topic[m] = "acked"
         /\ place[m] = "given up" <=> topic[m] = "dead"
         /\ place[m] = "queued" <=> topic[m] \in {"backlog", "delivered"}
<1>1. topic[m] \in {"unsent", "backlog", "delivered", "acked", "dead"}
  BY DEF TypeOK
<1> QED BY <1>1 DEF place, Place

\* A step that moves messages between the backlog and the processes only is
\* none of the abstract queue's business.
LEMMA PlaceSame ==
  ASSUME TypeOK, TypeOK',
         \A m \in Messages :
           \/ topic'[m] = topic[m]
           \/ topic[m] \in {"backlog", "delivered"} /\ topic'[m] \in {"backlog", "delivered"}
  PROVE  place' = place
<1>1. ASSUME NEW m \in Messages PROVE Place(m)' = Place(m)
  BY <1>1 DEF TypeOK, Place
<1> QED BY <1>1 DEF place

LEMMA InitRefines == Init => Delivery!Init
BY DEF Init, Delivery!Init, Place

LEMMA SendRefines ==
  ASSUME IInv, IInv', NEW m \in Messages, Send(m) PROVE Delivery!Accept(m)
<1>1. topic' = [topic EXCEPT ![m] = "backlog"] /\ topic[m] = "unsent"
  BY DEF Send
<1>2. place' = [place EXCEPT ![m] = "queued"]
  BY <1>1 DEF IInv, TypeOK, place, Place
<1> QED BY <1>1, <1>2 DEF Send, history, Delivery!Accept, place, Place

LEMMA SendEmailRefines ==
  ASSUME IInv, IInv', NEW c \in Consumers, SendEmail(c)
  PROVE  \E m \in Messages, goesOut, noticed \in BOOLEAN : Delivery!Try(m, goesOut, noticed)
<1> DEFINE m == msg[c]
<1>1. pc[c] = "send" /\ m \in Messages
  BY DEF IInv, AtHand, SendEmail
<1>2. PICK accepted, error \in BOOLEAN :
        /\ accepted \/ error
        /\ mails' = [mails EXCEPT ![m] = IF accepted /\ @ < 2 THEN @ + 1 ELSE @]
        /\ faulty' = IF accepted /\ error THEN faulty \cup {m} ELSE faulty
  BY DEF SendEmail
<1>3. tries' = [tries EXCEPT ![m] = IF @ <= MaxRedeliverCount THEN @ + 1 ELSE @]
  BY DEF SendEmail
<1>4. tries[m] <= MaxRedeliverCount <=> tries[m] < MaxRedeliverCount + 1
  BY <1>1, EmailQueueAssumption DEF IInv, TypeOK
<1>5. tries' = [tries EXCEPT ![m] = IF @ < MaxRedeliverCount + 1 THEN @ + 1 ELSE @]
  BY <1>3, <1>4
<1>6. \/ place[m] = "queued" /\ mails[m] = 0 /\ tries[m] < MaxRedeliverCount + 1
      \/ m \in faulty
  <2> SUFFICES ASSUME m \notin faulty
               PROVE  place[m] = "queued" /\ mails[m] = 0 /\ tries[m] < MaxRedeliverCount + 1
    OBVIOUS
  <2>1. Holds(c, m) /\ mails[m] = 0 /\ tries[m] = count[m]
    BY <1>1 DEF IInv, Tracked, Works
  <2>2. count[m] < MaxRedeliverCount + 1
    BY <1>1, EmailQueueAssumption DEF IInv, TypeOK
  <2> QED BY <1>1, <2>1, <2>2, PlaceValue DEF IInv, Holds
<1>7. topic' = topic
  BY DEF SendEmail, broker
<1>8. place' = place
  BY <1>7, PlaceSame DEF IInv
<1>9. Delivery!Try(m, accepted, ~error)
  BY <1>2, <1>5, <1>6, <1>8 DEF Delivery!Try, place
<1> QED BY <1>1, <1>9

InQueue(m) == topic[m] \in {"backlog", "delivered"}

\* The messages in S are acknowledged, if they are in the queue, and those in
\* L are not tracked any more.
LEMMA SettleRefines ==
  ASSUME TypeOK, TypeOK', NEW S \in SUBSET Messages, NEW L \in SUBSET Messages,
         \A m \in S : mails[m] > 0,
         \A m \in L : InQueue(m),
         \A m \in Messages :
           \/ m \in S /\ InQueue(m) /\ topic'[m] = "acked"
           \/ m \notin S /\ InQueue(m) /\ InQueue(m)'
           \/ ~InQueue(m) /\ topic'[m] = topic[m],
         faulty' = faulty \cup L, mails' = mails, tries' = tries
  PROVE  Delivery!Settle(S, L)
<1>1. ASSUME NEW m \in Messages
      PROVE  Place(m)' = IF m \in S /\ place[m] = "queued" THEN "settled" ELSE place[m]
  BY DEF TypeOK, InQueue, place, Place
<1>2. place' = [m \in Messages |->
         IF m \in S /\ place[m] = "queued" THEN "settled" ELSE place[m]]
  BY <1>1 DEF place
<1>3. \A m \in L : place[m] = "queued"
  BY PlaceValue DEF InQueue
<1> QED BY <1>2, <1>3 DEF Delivery!Settle, place

\* A failed acknowledgement: track is lost of the message.
LEMMA AcknowledgeFailsRefines ==
  ASSUME IInv, IInv', NEW c \in Consumers, AcknowledgeFails(c)
  PROVE  \E S, L \in SUBSET Messages : Delivery!Settle(S, L)
<1> DEFINE L == {msg[c]} \ faulty
<1>1. pc[c] = "ack" /\ msg[c] \in Messages /\ topic' = topic
  BY DEF IInv, AtHand, AcknowledgeFails, broker
<1>2. \A m \in L : InQueue(m)
  BY <1>1 DEF IInv, Tracked, Works, Holds, InQueue
<1>3. faulty' = faulty \cup L /\ mails' = mails /\ tries' = tries
  BY DEF AcknowledgeFails
<1>4. L \in SUBSET Messages /\ {} \in SUBSET Messages
  BY <1>1
<1>5. \A m \in Messages : InQueue(m)' <=> InQueue(m)
  BY <1>1 DEF InQueue
<1> HIDE DEF L
<1>6. Delivery!Settle({}, L)
  BY <1>1, <1>2, <1>3, <1>4, <1>5, SettleRefines DEF IInv
<1> QED BY <1>4, <1>6

LEMMA AckArrivesRefines ==
  ASSUME IInv, IInv', NEW c \in Consumers, NEW m \in Messages, AckArrives(c, m)
  PROVE  \E S, L \in SUBSET Messages : Delivery!Settle(S, L)
<1>1. m \in acking[c] /\ topic[m] # "unsent" /\ mails[m] > 0
  BY DEF IInv, AtHand, AckArrives
<1>2. \A n \in Messages :
        topic'[n] = IF n = m /\ topic[n] # "dead" THEN "acked" ELSE topic[n]
  BY DEF AckArrives, Acked
<1>3. faulty' = faulty \cup {} /\ mails' = mails /\ tries' = tries
  BY DEF AckArrives, history
<1>4. {m} \in SUBSET Messages /\ {} \in SUBSET Messages
  OBVIOUS
<1>5. \A n \in Messages :
        \/ n \in {m} /\ InQueue(n) /\ topic'[n] = "acked"
        \/ n \notin {m} /\ InQueue(n) /\ InQueue(n)'
        \/ ~InQueue(n) /\ topic'[n] = topic[n]
  BY <1>1, <1>2 DEF IInv, TypeOK, InQueue
<1>6. Delivery!Settle({m}, {})
  BY <1>1, <1>3, <1>4, <1>5, SettleRefines DEF IInv
<1> QED BY <1>4, <1>6

\* What a process loses returns to the queue untracked, but for what its client
\* acknowledges while it closes.
LEMMA ReturnRefines ==
  ASSUME IInv, IInv', NEW c \in Consumers, NEW S \in SUBSET acking[c], Return(c, S),
         mails' = mails, tries' = tries
  PROVE  \E T, L \in SUBSET Messages : Delivery!Settle(T, L)
<1> DEFINE L == {m \in Messages : Holds(c, m)} \ S
<1>1. S \in SUBSET Messages /\ L \in SUBSET Messages
  BY DEF IInv, TypeOK
<1>2. faulty' = faulty \cup L
  BY DEF Return
<1>3. \A m \in L : InQueue(m)
  BY DEF Holds, InQueue
<1>4. \A m \in S : mails[m] > 0 /\ topic[m] # "unsent"
  BY DEF IInv, AtHand
<1>5. ASSUME NEW m \in Messages
      PROVE  \/ m \in S /\ InQueue(m) /\ topic'[m] = "acked"
             \/ m \notin S /\ InQueue(m) /\ InQueue(m)'
             \/ ~InQueue(m) /\ topic'[m] = topic[m]
  <2>1. CASE Holds(c, m) /\ m \notin S
    BY <1>1, <2>1, ReturnEffect DEF IInv, Holds, InQueue
  <2>2. CASE ~(Holds(c, m) /\ m \notin S)
    <3>1. topic'[m] = IF m \in S /\ topic[m] # "dead" THEN "acked" ELSE topic[m]
      BY <1>1, <2>2, ReturnEffect DEF IInv
    <3> QED BY <1>4, <3>1 DEF IInv, TypeOK, InQueue
  <2> QED BY <2>1, <2>2
<1> HIDE DEF L
<1>6. Delivery!Settle(S, L)
  BY <1>1, <1>2, <1>3, <1>4, <1>5, SettleRefines DEF IInv
<1> QED BY <1>1, <1>6

\* A redelivery is nothing to the abstract queue, unless it is one too many.
LEMMA RedeliverRefines ==
  ASSUME IInv, IInv', NEW c \in Consumers, NEW m \in Messages, Redeliver(c, m)
  PROVE  Delivery!GiveUp(m) \/ UNCHANGED <<place, mails, tries, faulty>>
<1>1. m \in nacked[c] /\ mails' = mails /\ tries' = tries /\ faulty' = faulty
  BY DEF Redeliver, history
<1>2. CASE Holds(c, m) /\ count[m] = MaxRedeliverCount
  <2>1. topic' = [topic EXCEPT ![m] = "dead"]
    BY <1>2 DEF Redeliver
  <2>2. place' = [place EXCEPT ![m] = "given up"]
    BY <2>1 DEF IInv, TypeOK, place, Place
  <2>3. place[m] = "queued" /\ tries[m] > 0
    BY <1>1, <1>2, PlaceValue DEF IInv, AtHand, Holds
  <2>4. m \notin faulty => tries[m] = MaxRedeliverCount + 1 /\ mails[m] = 0
    BY <1>1, <1>2 DEF IInv, Tracked
  <2> QED BY <1>1, <2>2, <2>3, <2>4 DEF Delivery!GiveUp, place
<1>3. CASE ~(Holds(c, m) /\ count[m] = MaxRedeliverCount)
  <2>1. topic' = topic \/ (topic' = [topic EXCEPT ![m] = "backlog"] /\ topic[m] = "delivered")
    BY <1>3 DEF Redeliver, broker, Holds
  <2>2. place' = place
    BY <2>1, PlaceSame DEF IInv, TypeOK
  <2> QED BY <1>1, <2>2
<1> QED BY <1>2, <1>3

LEMMA StepRefines ==
  ASSUME IInv, IInv', [Next]_vars PROVE [Delivery!Next]_(Delivery!mailVars)
<1> DEFINE Stutter == UNCHANGED <<place, mails, tries, faulty>>
<1>0. Stutter => UNCHANGED Delivery!mailVars
  BY DEF Delivery!mailVars, place
<1>1. ASSUME NEW m \in Messages, Send(m) PROVE Delivery!Next
  BY <1>1, SendRefines DEF Delivery!Next
<1>2. ASSUME NEW c \in Consumers, Receive(c) PROVE Stutter
  <2>1. PICK m \in Messages : topic[m] = "backlog" /\ topic' = [topic EXCEPT ![m] = "delivered"]
    BY <1>2 DEF Receive
  <2>2. place' = place
    BY <2>1, PlaceSame DEF IInv, TypeOK
  <2> QED BY <1>2, <2>2 DEF Receive, history
<1>3. ASSUME NEW c \in Consumers,
             ReceiveFails(c) \/ Acknowledge(c) \/ NegativeAcknowledge(c) \/ Shutdown(c)
      PROVE  Stutter
  BY <1>3, PlaceSame
  DEF IInv, ReceiveFails, Acknowledge, NegativeAcknowledge, Shutdown, broker, history
<1>4. ASSUME NEW c \in Consumers, SendEmail(c) PROVE Delivery!Next
  BY <1>4, SendEmailRefines DEF Delivery!Next
<1>5. ASSUME NEW c \in Consumers, AcknowledgeFails(c) PROVE Delivery!Next
  BY <1>5, AcknowledgeFailsRefines DEF Delivery!Next
<1>6. ASSUME NEW c \in Consumers, NEW m \in Messages, AckArrives(c, m) PROVE Delivery!Next
  BY <1>6, AckArrivesRefines DEF Delivery!Next
<1>7. ASSUME NEW c \in Consumers, NEW m \in Messages, Redeliver(c, m)
      PROVE  Delivery!Next \/ Stutter
  BY <1>7, RedeliverRefines DEF Delivery!Next
<1>8. ASSUME NEW c \in Consumers, Disconnect(c) \/ Close(c) \/ Exit(c) PROVE Delivery!Next
  <2>1. PICK S \in SUBSET acking[c] : Return(c, S)
    BY <1>8 DEF Disconnect, Close, Exit
  <2>2. mails' = mails /\ tries' = tries
    BY <1>8 DEF Disconnect, Close, Exit
  <2> QED BY <2>1, <2>2, ReturnRefines DEF Delivery!Next
<1>9. UNCHANGED vars => Stutter
  BY PlaceSame DEF IInv, vars
<1> HIDE DEF Stutter
<1>10. Delivery!Next \/ Stutter
  BY <1>1, <1>2, <1>3, <1>4, <1>5, <1>6, <1>7, <1>8, <1>9 DEF Next, Loop, Quiescent
<1> QED BY <1>0, <1>10

\* Redelivery counts, delays, lost connections, crashes and shutdowns amount to
\* the promise of MailDelivery: each message is tried until its mail is sent or
\* the tries are used up, and only a fault makes that twice, or too few.
THEOREM QueueImplementsMailDelivery == Spec => ImplementsMailDelivery
BY InitRefines, StepRefines, SpecIInv, PTL DEF Spec, ImplementsMailDelivery, Delivery!Spec

\* What MailDelivery promises holds of the queue: a message is acknowledged
\* only when its mail was sent, and dead-lettered only after all its deliveries
\* failed to send it, unless the loop lost track of it.
THEOREM SettledIsSent == Spec => []Delivery!LeavesSentOrTried
<1>1. ASSUME IInv PROVE Delivery!LeavesSentOrTried
  <2> SUFFICES ASSUME NEW m \in Messages
               PROVE  /\ place[m] = "settled" => mails[m] > 0
                      /\ place[m] = "given up" => tries[m] > 0
                      /\ place[m] = "given up" /\ m \notin faulty =>
                           tries[m] = MaxRedeliverCount + 1 /\ mails[m] = 0
    BY DEF Delivery!LeavesSentOrTried, place
  <2> QED BY <1>1, PlaceValue DEF IInv, Finished, Tracked
<1> QED BY <1>1, SpecIInv, PTL
----------------------------------------------------------------------------
(* What every queue that implements MailDelivery gives, for any number of   *)
(* tries.  The variables are those of MailDelivery, on their own.           *)

CONSTANT MaxTries

VARIABLES mailPlace, mailSent, mailTried, mailDoubtful

M == INSTANCE MailDelivery WITH
       place <- mailPlace, sent <- mailSent, tried <- mailTried, doubtful <- mailDoubtful

MailType ==
  /\ mailPlace \in [Messages -> {"outside", "queued", "settled", "given up"}]
  /\ mailSent \in [Messages -> 0..2]
  /\ mailTried \in [Messages -> Nat]
  /\ mailDoubtful \subseteq Messages

\* A mail is tried only from inside the queue, which is why SentOnce and
\* LeavesSentOrTried hold together with the type.
MailInv == MailType /\ M!LeavesSentOrTried /\ M!SentOnce

LEMMA MailInitInv == M!Init => MailInv
BY DEF M!Init, MailInv, MailType, M!LeavesSentOrTried, M!SentOnce

LEMMA MailAcceptInv == ASSUME MailInv, NEW m \in Messages, M!Accept(m) PROVE MailInv'
BY DEF MailInv, MailType, M!LeavesSentOrTried, M!SentOnce, M!Accept

\* A second mail goes out only for a message that is in doubt already.
LEMMA MailTryInv ==
  ASSUME MailInv, NEW m \in Messages, NEW goesOut \in BOOLEAN, NEW noticed \in BOOLEAN,
         M!Try(m, goesOut, noticed)
  PROVE  MailInv'
<1>1. MailType'
  <2> DEFINE s == IF goesOut /\ mailSent[m] < 2 THEN mailSent[m] + 1 ELSE mailSent[m]
             t == IF mailTried[m] < MaxTries THEN mailTried[m] + 1 ELSE mailTried[m]
  <2>1. s \in 0..2 /\ t \in Nat
    <3>1. mailSent[m] \in 0..2 /\ mailTried[m] \in Nat
      BY DEF MailInv, MailType
    <3> QED BY <3>1
  <2>2. mailSent' = [mailSent EXCEPT ![m] = s] /\ mailTried' = [mailTried EXCEPT ![m] = t]
    BY DEF M!Try
  <2> HIDE DEF s, t
  <2> QED BY <2>1, <2>2 DEF MailInv, MailType, M!Try
<1>2. /\ mailSent'[m] = IF goesOut /\ mailSent[m] < 2 THEN mailSent[m] + 1 ELSE mailSent[m]
      /\ mailTried'[m] = IF mailTried[m] < MaxTries THEN mailTried[m] + 1 ELSE mailTried[m]
  BY DEF MailInv, MailType, M!Try
<1>3. mailDoubtful \subseteq mailDoubtful'
  BY DEF M!Try
<1>4. \A n \in Messages : n # m => mailSent'[n] = mailSent[n] /\ mailTried'[n] = mailTried[n]
  BY DEF MailInv, MailType, M!Try
<1>5. M!LeavesSentOrTried'
  <2> SUFFICES ASSUME NEW n \in Messages
               PROVE  /\ mailPlace[n] = "settled" => mailSent'[n] > 0
                      /\ mailPlace[n] = "given up" => mailTried'[n] > 0
                      /\ mailPlace[n] = "given up" /\ n \notin mailDoubtful' =>
                           mailTried'[n] = MaxTries /\ mailSent'[n] = 0
    BY DEF M!LeavesSentOrTried, M!Try
  <2>0. mailSent[m] \in 0..2 /\ mailTried[m] \in Nat
    BY DEF MailInv, MailType
  <2>1. mailPlace[n] = "settled" => mailSent'[n] > 0
    <3>1. mailPlace[n] = "settled" => mailSent[n] > 0
      BY DEF MailInv, M!LeavesSentOrTried
    <3> QED BY <1>2, <1>4, <2>0, <3>1
  <2>2. mailPlace[n] = "given up" => mailTried'[n] > 0
    <3>1. mailPlace[n] = "given up" => mailTried[n] > 0
      BY DEF MailInv, M!LeavesSentOrTried
    <3>2. CASE n # m
      BY <1>4, <3>1, <3>2
    <3>3. CASE n = m /\ mailTried[m] < MaxTries
      <4>1. mailTried'[m] = mailTried[m] + 1
        BY <1>2, <3>3
      <4>2. mailTried[m] + 1 > 0
        BY <2>0
      <4> QED BY <3>3, <4>1, <4>2
    <3>4. CASE n = m /\ ~(mailTried[m] < MaxTries)
      BY <1>2, <3>1, <3>4
    <3> QED BY <3>2, <3>3, <3>4
  <2>3. mailPlace[n] = "given up" /\ n \notin mailDoubtful' => n # m
    BY <1>3 DEF M!Try
  <2> QED BY <1>3, <1>4, <2>1, <2>2, <2>3 DEF MailInv, M!LeavesSentOrTried
<1>6. M!SentOnce'
  <2> SUFFICES ASSUME NEW n \in Messages, mailSent'[n] > 1, n \notin mailDoubtful' PROVE FALSE
    BY DEF M!SentOnce
  <2>1. n = m
    BY <1>3, <1>4 DEF MailInv, M!SentOnce
  <2>2. mailSent[m] = 0
    BY <1>3, <2>1 DEF M!Try
  <2> QED BY <1>2, <2>1, <2>2
<1> QED BY <1>1, <1>5, <1>6 DEF MailInv

LEMMA MailSettleInv ==
  ASSUME MailInv, NEW S \in SUBSET Messages, NEW L \in SUBSET Messages, M!Settle(S, L)
  PROVE  MailInv'
BY DEF MailInv, MailType, M!LeavesSentOrTried, M!SentOnce, M!Settle

LEMMA MailGiveUpInv == ASSUME MailInv, NEW m \in Messages, M!GiveUp(m) PROVE MailInv'
BY DEF MailInv, MailType, M!LeavesSentOrTried, M!SentOnce, M!GiveUp

LEMMA MailNextInv == MailInv /\ [M!Next]_M!mailVars => MailInv'
<1> SUFFICES ASSUME MailInv, [M!Next]_M!mailVars PROVE MailInv'
  OBVIOUS
<1>1. CASE \E m \in Messages : M!Accept(m)
  BY <1>1, MailAcceptInv
<1>2. CASE \E m \in Messages : M!GiveUp(m)
  BY <1>2, MailGiveUpInv
<1>3. CASE \E m \in Messages, goesOut, noticed \in BOOLEAN : M!Try(m, goesOut, noticed)
  BY <1>3, MailTryInv
<1>4. CASE \E S, L \in SUBSET Messages : M!Settle(S, L)
  BY <1>4, MailSettleInv
<1>5. CASE UNCHANGED M!mailVars
  BY <1>5 DEF M!mailVars, MailInv, MailType, M!LeavesSentOrTried, M!SentOnce
<1> QED BY <1>1, <1>2, <1>3, <1>4, <1>5 DEF M!Next

\* A message leaves the queue sent, or after all the tries the policy allows,
\* and gets a second mail only when the queue had lost track of it.
THEOREM MailsAreDelivered == M!Spec => [](M!LeavesSentOrTried /\ M!SentOnce)
<1>1. MailInv => M!LeavesSentOrTried /\ M!SentOnce
  BY DEF MailInv
<1> QED BY <1>1, MailInitInv, MailNextInv, PTL DEF M!Spec
=================================================================================

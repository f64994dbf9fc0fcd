------------------------------- MODULE EmailQueue -------------------------------
(***************************************************************************)
(* The mail queue: apps/api sends a message to the Pulsar topic 'emails',  *)
(* the processes of apps/queue share the subscription 'email-sender', hand *)
(* each message to the SMTP server and acknowledge it.                     *)
(*                                                                         *)
(* Pulsar is external and modelled as its client library is used here: a   *)
(* delivered message belongs to one consumer until it is acknowledged or   *)
(* goes back to the backlog; acknowledge resolves before the broker has    *)
(* the acknowledgement; a negative acknowledgement takes effect after a    *)
(* delay, as one more delivery or, past maxRedeliverCount, as a move to    *)
(* 'emails-dlq'; what a lost or closed connection held is delivered again, *)
(* and whether that counts as a redelivery is left open.  A message that   *)
(* waits in the client's receive buffer is still in the backlog here.      *)
(*                                                                         *)
(* A process runs once: a restart is another member of Consumers.          *)
(***************************************************************************)
EXTENDS Naturals

CONSTANTS
  Messages,            \* calls of sendEmailMessage, each made once
  Consumers,           \* processes of apps/queue
  MaxRedeliverCount,   \* 2 in emailConsumer.ts
  MaxDisconnects,      \* bound: connections the processes lose, in all
  None                 \* no message, no process

ASSUME EmailQueueAssumption ==
  /\ MaxRedeliverCount \in Nat
  /\ MaxDisconnects \in Nat
  /\ None \notin Messages \cup Consumers

VARIABLES
  topic,               \* where the broker has each message
  holder,              \* the process it is delivered to
  count,               \* its redelivery count
  pc,                  \* where the consumer loop of each process is
  msg,                 \* the message it works on
  phase,               \* of its shutdown: isShuttingDown(), the consumer closed
  acking,              \* acknowledgements its client has not passed on yet
  nacked,              \* messages its client will ask to have redelivered
  disconnects,
  mails,               \* history: mails the SMTP server accepted; 2 is any more
  tries,               \* history: calls of sendEmail, up to one above the policy
  faulty               \* history: messages that went back unasked, or whose mail
                       \* was sent although the loop saw an error

vars == <<topic, holder, count, pc, msg, phase, acking, nacked, disconnects,
          mails, tries, faulty>>

broker == <<topic, holder, count>>
client == <<acking, nacked>>
history == <<mails, tries, faulty>>

TypeOK ==
  /\ topic \in [Messages -> {"unsent", "backlog", "delivered", "acked", "dead"}]
  /\ holder \in [Messages -> Consumers \cup {None}]
  /\ count \in [Messages -> 0..MaxRedeliverCount]
  /\ pc \in [Consumers -> {"receive", "send", "ack", "nack", "ended", "exited"}]
  /\ msg \in [Consumers -> Messages \cup {None}]
  /\ phase \in [Consumers -> {"running", "stopping", "closed"}]
  /\ acking \in [Consumers -> SUBSET Messages]
  /\ nacked \in [Consumers -> SUBSET Messages]
  /\ disconnects \in 0..MaxDisconnects
  /\ mails \in [Messages -> 0..2]
  /\ tries \in [Messages -> 0..MaxRedeliverCount + 1]
  /\ faulty \subseteq Messages

Init ==
  /\ topic = [m \in Messages |-> "unsent"]
  /\ holder = [m \in Messages |-> None]
  /\ count = [m \in Messages |-> 0]
  /\ pc = [c \in Consumers |-> "receive"]
  /\ msg = [c \in Consumers |-> None]
  /\ phase = [c \in Consumers |-> "running"]
  /\ acking = [c \in Consumers |-> {}]
  /\ nacked = [c \in Consumers |-> {}]
  /\ disconnects = 0
  /\ mails = [m \in Messages |-> 0]
  /\ tries = [m \in Messages |-> 0]
  /\ faulty = {}
----------------------------------------------------------------------------
(* apps/api *)

\* sendEmailMessage: the broker stores the message.  The caller may still get
\* an error, from a timeout or a producer being closed; if nothing was stored
\* it always does, and then there is no message.
Send(m) ==
  /\ topic[m] = "unsent"
  /\ topic' = [topic EXCEPT ![m] = "backlog"]
  /\ UNCHANGED <<holder, count, pc, msg, phase, client, disconnects, history>>
----------------------------------------------------------------------------
(* The consumer loop *)

Holds(c, m) == topic[m] = "delivered" /\ holder[m] = c

\* The next turn of the loop looks at isShuttingDown() first.
NextTurn(c) ==
  /\ pc' = [pc EXCEPT ![c] = IF phase[c] = "running" THEN "receive" ELSE "ended"]
  /\ msg' = [msg EXCEPT ![c] = None]

Receive(c) ==
  /\ pc[c] = "receive" /\ phase[c] # "closed"
  /\ \E m \in Messages :
       /\ topic[m] = "backlog"
       /\ topic' = [topic EXCEPT ![m] = "delivered"]
       /\ holder' = [holder EXCEPT ![m] = c]
       /\ msg' = [msg EXCEPT ![c] = m]
  /\ pc' = [pc EXCEPT ![c] = "send"]
  /\ UNCHANGED <<count, phase, client, disconnects, history>>

\* receive() of a closed consumer throws, and the loop goes on.
ReceiveFails(c) ==
  /\ pc[c] = "receive" /\ phase[c] = "closed"
  /\ NextTurn(c)
  /\ UNCHANGED <<broker, phase, client, disconnects, history>>

\* Mutant: the error is swallowed, and the message acknowledged.
SendEmailUnchecked(c) ==
  /\ pc[c] = "send"
  /\ \E accepted \in BOOLEAN :
       mails' = [mails EXCEPT ![msg[c]] = IF accepted /\ @ < 2 THEN @ + 1 ELSE @]
  /\ tries' = [tries EXCEPT ![msg[c]] = IF @ <= MaxRedeliverCount THEN @ + 1 ELSE @]
  /\ pc' = [pc EXCEPT ![c] = "ack"]
  /\ UNCHANGED <<broker, msg, phase, client, disconnects, faulty>>

\* The SMTP server accepts the mail or not, and its answer may get lost.
SendEmail(c) ==
  /\ pc[c] = "send"
  /\ tries' = [tries EXCEPT ![msg[c]] = IF @ <= MaxRedeliverCount THEN @ + 1 ELSE @]
  /\ \E accepted, error \in BOOLEAN :
       /\ accepted \/ error
       /\ mails' = [mails EXCEPT ![msg[c]] = IF accepted /\ @ < 2 THEN @ + 1 ELSE @]
       /\ faulty' = IF accepted /\ error THEN faulty \cup {msg[c]} ELSE faulty
       /\ pc' = [pc EXCEPT ![c] = IF error THEN "nack" ELSE "ack"]
  /\ UNCHANGED <<broker, msg, phase, client, disconnects>>

\* Mutant: the negative acknowledgement is in a finally.
AcknowledgeAndNack(c) ==
  /\ pc[c] = "ack" /\ phase[c] # "closed"
  /\ acking' = [acking EXCEPT ![c] = @ \cup {msg[c]}]
  /\ pc' = [pc EXCEPT ![c] = "nack"]
  /\ UNCHANGED <<broker, msg, phase, nacked, disconnects, history>>

Acknowledge(c) ==
  /\ pc[c] = "ack" /\ phase[c] # "closed"
  /\ acking' = [acking EXCEPT ![c] = @ \cup {msg[c]}]
  /\ NextTurn(c)
  /\ UNCHANGED <<broker, phase, nacked, disconnects, history>>

\* acknowledge throws, as it does on a closed consumer.
AcknowledgeFails(c) ==
  /\ pc[c] = "ack"
  /\ faulty' = faulty \cup {msg[c]}
  /\ pc' = [pc EXCEPT ![c] = "nack"]
  /\ UNCHANGED <<broker, msg, phase, client, disconnects, mails, tries>>

\* Mutant: the error is only logged.
LogOnly(c) ==
  /\ pc[c] = "nack"
  /\ NextTurn(c)
  /\ UNCHANGED <<broker, phase, client, disconnects, history>>

\* On a closed consumer it does nothing.
NegativeAcknowledge(c) ==
  /\ pc[c] = "nack"
  /\ nacked' = IF phase[c] = "closed" THEN nacked
               ELSE [nacked EXCEPT ![c] = @ \cup {msg[c]}]
  /\ NextTurn(c)
  /\ UNCHANGED <<broker, phase, acking, disconnects, history>>
----------------------------------------------------------------------------
(* The Pulsar client of a process, and the broker *)

Acked(S) ==
  /\ topic' = [m \in Messages |->
       IF m \in S /\ topic[m] # "dead" THEN "acked" ELSE topic[m]]
  /\ holder' = [m \in Messages |-> IF m \in S THEN None ELSE holder[m]]

AckArrives(c, m) ==
  /\ m \in acking[c]
  /\ acking' = [acking EXCEPT ![c] = @ \ {m}]
  /\ Acked({m})
  /\ UNCHANGED <<count, pc, msg, phase, nacked, disconnects, history>>

\* Mutant: subscribe is called without a deadLetterPolicy.
RedeliverAlways(c, m) ==
  /\ m \in nacked[c]
  /\ nacked' = [nacked EXCEPT ![c] = @ \ {m}]
  /\ IF ~Holds(c, m) THEN UNCHANGED broker
     ELSE /\ holder' = [holder EXCEPT ![m] = None]
          /\ topic' = [topic EXCEPT ![m] = "backlog"]
          /\ count' = [count EXCEPT ![m] = @ + 1]
  /\ UNCHANGED <<pc, msg, phase, acking, disconnects, history>>

\* The delay is over.  The broker ignores it for a message that is not, or not
\* any more, delivered to this process.
Redeliver(c, m) ==
  /\ m \in nacked[c]
  /\ nacked' = [nacked EXCEPT ![c] = @ \ {m}]
  /\ IF ~Holds(c, m) THEN UNCHANGED broker
     ELSE /\ holder' = [holder EXCEPT ![m] = None]
          /\ IF count[m] = MaxRedeliverCount
             THEN topic' = [topic EXCEPT ![m] = "dead"] /\ UNCHANGED count
             ELSE /\ topic' = [topic EXCEPT ![m] = "backlog"]
                  /\ count' = [count EXCEPT ![m] = @ + 1]
  /\ UNCHANGED <<pc, msg, phase, acking, disconnects, history>>

\* What was delivered to the process goes back, but for the messages in S,
\* which are acknowledged.
Return(c, S) ==
  LET back == {m \in Messages : Holds(c, m)} \ S
  IN  /\ topic' = [m \in Messages |->
             IF m \in back THEN "backlog"
             ELSE IF m \in S /\ topic[m] # "dead" THEN "acked"
             ELSE topic[m]]
      /\ holder' = [m \in Messages |-> IF m \in back \cup S THEN None ELSE holder[m]]
      /\ \E counted \in BOOLEAN :
           count' = [m \in Messages |->
             IF m \in back /\ counted /\ count[m] < MaxRedeliverCount THEN count[m] + 1
             ELSE count[m]]
      /\ faulty' = faulty \cup back

\* The connection breaks and is made again while the loop goes on.
Disconnect(c) ==
  /\ pc[c] # "exited" /\ phase[c] # "closed"
  /\ disconnects < MaxDisconnects
  /\ disconnects' = disconnects + 1
  /\ Return(c, {})
  /\ \E kept \in {{}, acking[c]} : acking' = [acking EXCEPT ![c] = kept]
  /\ UNCHANGED <<pc, msg, phase, nacked, mails, tries>>
----------------------------------------------------------------------------
(* The end of a process.  One process at least keeps running.              *)

AnotherRuns(c) ==
  \E d \in Consumers \ {c} : pc[d] # "exited" /\ phase[d] = "running"

\* A signal or an uncaught error: the loop will end after its present turn.
Shutdown(c) ==
  /\ pc[c] # "exited" /\ phase[c] = "running" /\ AnotherRuns(c)
  /\ phase' = [phase EXCEPT ![c] = "stopping"]
  /\ UNCHANGED <<broker, pc, msg, client, disconnects, history>>

\* consumer.close() does not wait for the loop.  It passes acknowledgements on.
Close(c) ==
  /\ pc[c] # "exited" /\ phase[c] = "stopping"
  /\ phase' = [phase EXCEPT ![c] = "closed"]
  /\ Return(c, acking[c])
  /\ acking' = [acking EXCEPT ![c] = {}]
  /\ nacked' = [nacked EXCEPT ![c] = {}]
  /\ UNCHANGED <<pc, msg, disconnects, mails, tries>>

\* After the loop has ended, at the cleanup timeout, or by a crash.
Exit(c) ==
  /\ pc[c] # "exited" /\ AnotherRuns(c)
  /\ pc' = [pc EXCEPT ![c] = "exited"]
  /\ msg' = [msg EXCEPT ![c] = None]
  /\ Return(c, {})
  /\ acking' = [acking EXCEPT ![c] = {}]
  /\ nacked' = [nacked EXCEPT ![c] = {}]
  /\ UNCHANGED <<phase, disconnects, mails, tries>>
----------------------------------------------------------------------------
Settled(m) == topic[m] \in {"acked", "dead"}

\* Every loop that still runs waits for a message, and there is none.
Quiescent ==
  /\ \A m \in Messages : topic[m] \notin {"unsent", "backlog"}
  /\ \A c \in Consumers :
       /\ pc[c] \in {"receive", "ended", "exited"}
       /\ acking[c] = {} /\ nacked[c] = {}
  /\ UNCHANGED vars

Loop(c) ==
  Receive(c) \/ ReceiveFails(c) \/ SendEmail(c) \/ Acknowledge(c) \/ AcknowledgeFails(c)
    \/ NegativeAcknowledge(c)

Next ==
  \/ \E m \in Messages : Send(m) \/ \E c \in Consumers : AckArrives(c, m) \/ Redeliver(c, m)
  \/ \E c \in Consumers : Loop(c) \/ Disconnect(c) \/ Shutdown(c) \/ Close(c) \/ Exit(c)
  \/ Quiescent

Spec == Init /\ [][Next]_vars

\* Node resumes the loop when receive, sendMail (which has timeouts of its own)
\* or acknowledge settles; the Pulsar client runs its timers.  Nothing has to
\* be sent, and no process has to end.
Fairness ==
  \A c \in Consumers :
    /\ WF_vars(Loop(c))
    /\ WF_vars(Close(c))
    /\ \A m \in Messages : WF_vars(AckArrives(c, m)) /\ WF_vars(Redeliver(c, m))

FairSpec == Spec /\ Fairness
----------------------------------------------------------------------------
(* Properties *)

\* A user gets a mail twice only if the loop saw an error after the SMTP server
\* had accepted it, or a process lost the message while it had it: by a crash,
\* a broken connection, or a shutdown, which does not wait for the loop.
SentTwiceOnlyByFault ==
  \A m \in Messages : mails[m] > 1 => m \in faulty

Place(m) ==
  CASE topic[m] = "unsent" -> "outside" [] topic[m] = "acked" -> "settled"
    [] topic[m] = "dead" -> "given up" [] OTHER -> "queued"

Delivery == INSTANCE MailDelivery WITH
  MaxTries <- MaxRedeliverCount + 1, place <- [m \in Messages |-> Place(m)],
  sent <- mails, tried <- tries, doubtful <- faulty

\* Redelivery counts, delays and lost connections amount to the promise of
\* MailDelivery: each message is tried until its mail is sent or the tries are
\* used up, and only a fault makes that twice, or too few.
ImplementsMailDelivery == Delivery!Spec

\* Every mail in the queue is sent or dead-lettered in the end, through shutdowns
\* and crashes, while one process keeps running.
EveryMailSettled ==
  \A m \in Messages : topic[m] = "backlog" ~> Settled(m)
=================================================================================

---------------------------------- MODULE Mfa ----------------------------------
(***************************************************************************)
(* The MFA settings of one user: his row of auth.mfa, and the requests     *)
(* that change it (/auth/mfa) or check a code with it (validateMFA), run   *)
(* concurrently.  No request touches another user's row.                   *)
(*                                                                         *)
(* Each handler of mfaController.ts is a SELECT, checks on what it         *)
(* returned, and an UPDATE whose WHERE clause names only the user: between *)
(* the two, other handlers run.  sendEmailCode is a transaction, whose     *)
(* UPDATE locks the row until the message is queued and the transaction    *)
(* ends; every other UPDATE waits for that lock.                           *)
(*                                                                         *)
(* A secret or a code is named after the request that draws it.  Time is   *)
(* only the age of the stored code (isExpired, 300 s).                     *)
(***************************************************************************)
EXTENDS Sequences, SequencesExt

CONSTANTS
  Requests,            \* the HTTP requests, each handled once
  Null,                \* SQL NULL; no request
  Wrong,               \* a code that belongs to no secret and to no e-mail
  Before               \* a secret, or a code, from before the model starts

Minted == Requests \cup {Before}

ASSUME MfaAssumption ==
  /\ Null \notin Minted \cup {Wrong}
  /\ Wrong \notin Minted
  /\ Before \notin Requests

VARIABLES
  row,                 \* the committed row of auth.mfa
  expired,             \* the codes older than MFA_EMAIL_CODE_EXPIRATION
  lock,                \* the sendEmailCode whose transaction is open, or Null
  mails,               \* the codes queued for the user's mailbox, in order
  pc,                  \* where each request is; its outcome once it ended
  op,                  \* the handler of each request
  arg,                 \* what the code it presents was computed from
  peers                \* history: the requests it was in flight with

vars == <<row, expired, lock, mails, pc, op, arg, peers>>

InFlight == {"writing", "mailing", "committing"}
\* "lost": it took effect and the client was not told.  "error": it did not.
\* "silent": it took effect, and the handler returns no result to send.
Wrote == {"200", "lost", "silent"}
Refused == {"400", "403", "error"}
Ops == {"none", "enable_totp", "verify_totp", "disable_totp",
        "enable_email", "disable_email", "send_code",
        "validate_totp", "validate_email"}

TypeOK ==
  /\ row \in [email : BOOLEAN, secret : Minted \cup {Null},
              verified : BOOLEAN, code : Minted \cup {Null}]
  /\ expired \subseteq Minted
  /\ lock \in Requests \cup {Null}
  /\ mails \in Seq(Minted)
  /\ pc \in [Requests -> {"idle"} \cup InFlight \cup Wrote \cup Refused]
  /\ op \in [Requests -> Ops]
  /\ arg \in [Requests -> Minted \cup {Null, Wrong}]
  /\ peers \in [Requests -> SUBSET Requests]

\* Any row that requests run one after the other can leave; a new user's row
\* has e-mail enabled and nothing else.
Init ==
  /\ row \in [email : BOOLEAN, secret : {Before, Null},
              verified : BOOLEAN, code : {Before, Null}]
  /\ row.verified => row.secret = Before
  /\ row.email \/ row.verified
  /\ mails = IF row.code = Before THEN <<Before>> ELSE <<>>
  /\ expired = {}
  /\ lock = Null
  /\ pc = [r \in Requests |-> "idle"]
  /\ op = [r \in Requests |-> "none"]
  /\ arg = [r \in Requests |-> Null]
  /\ peers = [r \in Requests |-> {}]
----------------------------------------------------------------------------
\* What the user can type: a secret he was shown, a code he was sent, or noise.
Secrets == {Before, Wrong} \cup
           {r \in Requests : op[r] = "enable_totp" /\ pc[r] = "200"}

Codes == {Wrong} \cup Range(mails)

\* What validateMFA accepts: a TOTP code or, once one is sent, an e-mail code.
AcceptsTOTP == row.verified /\ row.secret # Null
AcceptsEmail == row.email

\* Request r calls handler o; status is its refusal, or how it goes on.
Call(r, o, c, status) ==
  /\ pc[r] = "idle"
  /\ pc' = [pc EXCEPT ![r] = status]
  /\ op' = [op EXCEPT ![r] = o]
  /\ arg' = [arg EXCEPT ![r] = c]
  /\ LET others == {q \in Requests : pc[q] \in InFlight}
     IN  peers' = IF status \notin InFlight THEN peers
                  ELSE [q \in Requests |->
                          IF q = r THEN others
                          ELSE IF q \in others THEN peers[q] \cup {r}
                          ELSE peers[q]]

\* Its UPDATE commits, once no other transaction has the row.
Update(r, o, new) ==
  /\ pc[r] = "writing"
  /\ op[r] = o
  /\ lock = Null
  /\ row' = new
  /\ pc' \in {[pc EXCEPT ![r] = "200"], [pc EXCEPT ![r] = "lost"]}
  /\ UNCHANGED <<expired, lock, mails, op, arg, peers>>
----------------------------------------------------------------------------
(* The authenticator app *)

\* Mutant: a confirmed secret can be replaced.
EnableTOTPAgain(r) ==
  /\ Call(r, "enable_totp", Null, "writing")
  /\ UNCHANGED <<row, expired, lock, mails>>

EnableTOTP(r) ==
  /\ Call(r, "enable_totp", Null, IF row.verified THEN "400" ELSE "writing")
  /\ UNCHANGED <<row, expired, lock, mails>>

SetTOTPSecret(r) == Update(r, "enable_totp", [row EXCEPT !.secret = r])

\* A missing secret makes otpauth throw.
VerifyTOTP(r, s) ==
  /\ Call(r, "verify_totp", s,
          IF row.verified THEN "400"
          ELSE IF row.secret = Null THEN "error"
          ELSE IF s # row.secret THEN "403" ELSE "writing")
  /\ UNCHANGED <<row, expired, lock, mails>>

VerifyTOTPMethod(r) == Update(r, "verify_totp", [row EXCEPT !.verified = TRUE])

\* Mutant: the other method is not looked at.
DisableTOTPAlways(r, s) ==
  /\ Call(r, "disable_totp", s,
          IF ~row.verified THEN "400"
          ELSE IF row.secret = Null THEN "error"
          ELSE IF s # row.secret THEN "403" ELSE "writing")
  /\ UNCHANGED <<row, expired, lock, mails>>

DisableTOTP(r, s) ==
  /\ Call(r, "disable_totp", s,
          IF ~row.verified \/ ~row.email THEN "400"
          ELSE IF row.secret = Null THEN "error"
          ELSE IF s # row.secret THEN "403" ELSE "writing")
  /\ UNCHANGED <<row, expired, lock, mails>>

DisableTOTPMethod(r) ==
  Update(r, "disable_totp", [row EXCEPT !.secret = Null, !.verified = FALSE])
----------------------------------------------------------------------------
(* E-mail codes *)

\* Mutant: any code is good.
EnableEmailAnyCode(r, c) ==
  /\ Call(r, "enable_email", c, IF row.email THEN "400" ELSE "writing")
  /\ UNCHANGED <<row, expired, lock, mails>>

EnableEmail(r, c) ==
  /\ Call(r, "enable_email", c,
          IF row.email THEN "400"
          ELSE IF c # row.code \/ row.code \in expired THEN "403" ELSE "writing")
  /\ UNCHANGED <<row, expired, lock, mails>>

\* Mutant: the code stays valid.
FinalizeKeepingCode(r) == Update(r, "enable_email", [row EXCEPT !.email = TRUE])

FinalizeEnablingEmailMFA(r) ==
  Update(r, "enable_email", [row EXCEPT !.email = TRUE, !.code = Null])

\* Mutant: a status the route does not document.
DisableEmailAs404(r, c) ==
  /\ Call(r, "disable_email", c, IF row.email THEN "writing" ELSE "404")
  /\ UNCHANGED <<row, expired, lock, mails>>

DisableEmail(r, c) ==
  /\ Call(r, "disable_email", c,
          IF ~row.email \/ ~row.verified THEN "400"
          ELSE IF c # row.code \/ row.code \in expired THEN "403" ELSE "writing")
  /\ UNCHANGED <<row, expired, lock, mails>>

DisableEmailMethod(r) ==
  Update(r, "disable_email", [row EXCEPT !.email = FALSE, !.code = Null])

\* Mutant: the message is queued outside the transaction, with no lock.
SendEmailCodeUnlocked(r) ==
  /\ Call(r, "send_code", Null, "mailing")
  /\ UNCHANGED <<row, expired, lock, mails>>

\* sendEmailCode: BEGIN, and setEmailCode gets the row.
SendEmailCode(r) ==
  /\ lock = Null
  /\ Call(r, "send_code", Null, "mailing")
  /\ lock' = r
  /\ UNCHANGED <<row, expired, mails>>

\* The producer's send is acknowledged.
SendEmailMessage(r) ==
  /\ pc[r] = "mailing"
  /\ mails' = Append(mails, r)
  /\ pc' = [pc EXCEPT ![r] = "committing"]
  /\ UNCHANGED <<row, expired, lock, op, arg, peers>>

CommitEmailCode(r) ==
  /\ pc[r] = "committing"
  /\ row' = [row EXCEPT !.code = r]
  /\ lock' = Null
  /\ pc' \in {[pc EXCEPT ![r] = "silent"], [pc EXCEPT ![r] = "lost"]}
  /\ UNCHANGED <<expired, mails, op, arg, peers>>

\* The stored code becomes too old.
Expire ==
  /\ row.code \notin expired \cup {Null}
  /\ expired' = expired \cup {row.code}
  /\ UNCHANGED <<row, lock, mails, pc, op, arg, peers>>

\* A statement or the send fails, the connection breaks, or the API dies: an
\* open transaction is rolled back.  A message that was queued stays queued.
Fail(r) ==
  /\ pc[r] \in InFlight
  /\ pc' = [pc EXCEPT ![r] = "error"]
  /\ lock' = IF lock = r THEN Null ELSE lock
  /\ UNCHANGED <<row, expired, mails, op, arg, peers>>

----------------------------------------------------------------------------
(* validateMFA, behind sign-in, password change, e-mail change and sign-out *)
(* from all sessions: one SELECT and an answer.  The code stays stored.     *)

ValidateTOTP(r, s) ==
  /\ Call(r, "validate_totp", s,
          IF ~AcceptsTOTP THEN "400" ELSE IF s # row.secret THEN "403" ELSE "200")
  /\ UNCHANGED <<row, expired, lock, mails>>

ValidateEmail(r, c) ==
  /\ Call(r, "validate_email", c,
          IF ~AcceptsEmail THEN "400"
          ELSE IF c # row.code \/ row.code \in expired THEN "403" ELSE "200")
  /\ UNCHANGED <<row, expired, lock, mails>>
----------------------------------------------------------------------------
\* Every request has ended: the service waits for the next one.
Quiescent ==
  /\ \A r \in Requests : pc[r] \in Wrote \cup Refused
  /\ UNCHANGED vars

Next ==
  \/ \E r \in Requests :
       \/ EnableTOTP(r) \/ SetTOTPSecret(r)
       \/ VerifyTOTPMethod(r) \/ DisableTOTPMethod(r)
       \/ \E s \in Secrets : VerifyTOTP(r, s) \/ DisableTOTP(r, s) \/ ValidateTOTP(r, s)
       \/ FinalizeEnablingEmailMFA(r) \/ DisableEmailMethod(r)
       \/ \E c \in Codes : EnableEmail(r, c) \/ DisableEmail(r, c) \/ ValidateEmail(r, c)
       \/ SendEmailCode(r) \/ SendEmailMessage(r) \/ CommitEmailCode(r)
       \/ Fail(r)
  \/ Expire
  \/ Quiescent

Spec == Init /\ [][Next]_vars
----------------------------------------------------------------------------
(* Properties *)

\* Some request of handler o1 was in flight with one of handler o2.
Overlap(o1, o2) ==
  \E q \in Requests : op[q] = o1 /\ \E r \in peers[q] : op[r] = o2

\* "MFA cannot be disabled completely from the account."
\* (packages/utils-node/src/constants/errors.ts:258)
NeverDisabledCompletely == row.email \/ row.verified

\* The user can always pass an MFA check, unless two of his own requests
\* overlapped in one of exactly two ways: he disabled both methods at once, or
\* he disabled the app while a verification of it was still running.
LockedOutOnlyByRace ==
  AcceptsTOTP \/ AcceptsEmail
    \/ Overlap("disable_totp", "disable_email")
    \/ Overlap("verify_totp", "disable_totp")

\* The secret marked verified is one the user has shown a code of, unless a
\* verification overlapped what replaced or cleared the secret it was about.
VerifiedIsConfirmed ==
  /\ row.verified /\ row.secret \in Requests =>
       \/ \E r \in Requests :
            op[r] = "verify_totp" /\ arg[r] = row.secret /\ pc[r] \in Wrote
       \/ Overlap("enable_totp", "verify_totp")
  /\ row.verified /\ row.secret = Null => Overlap("verify_totp", "disable_totp")

\* An e-mail code that has changed the settings is refused to every request that
\* comes later, be it another change or a check by validateMFA.  Only changes use
\* a code up: validateMFA accepts the stored code any number of times, until it is
\* used for a change, replaced or too old.
UsedCodeIsRefused ==
  [][\A q, r \in Requests :
       /\ op[q] \in {"enable_email", "disable_email"} /\ pc[q] \in Wrote
       /\ op'[r] \in {"enable_email", "disable_email", "validate_email"}
       /\ pc[r] = "idle" /\ pc'[r] \in {"writing", "200"}
       => arg'[r] # arg[q]]_vars

\* The newest message in the user's mailbox holds the stored code, or none is
\* stored: codes are queued in the order they are committed.
NewestMailIsTheCode ==
  /\ mails # <<>>
  /\ Last(mails) \in Requests
  /\ pc[Last(mails)] \in Wrote
  => row.code \in {Last(mails), Null}

\* A step that erases a code the user was sent belongs to a request that
\* presented this code, or that overlapped the sending of it.
ErasedOnlyByItsUser ==
  [][row.code # Null /\ row'.code = Null =>
       \E r \in Requests :
         /\ pc[r] \in InFlight /\ pc'[r] \in Wrote
         /\ arg[r] = row.code \/ row.code \in peers[r]]_vars
=================================================================================

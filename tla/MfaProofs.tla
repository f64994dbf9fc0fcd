-------------------------------- MODULE MfaProofs --------------------------------
(***************************************************************************)
(* What Mfa says of lock-out, confirmed secrets and e-mail codes holds for *)
(* any number of concurrent requests.                                      *)
(***************************************************************************)
EXTENDS Mfa, TLAPS

Settings == {"enable_totp", "verify_totp", "disable_totp", "enable_email", "disable_email"}
Presents == {"enable_email", "disable_email"}

\* A request that has an UPDATE to make is of a handler that makes one, and
\* sendEmailCode has the row until it ends.
Staged ==
  \A r \in Requests :
    /\ pc[r] = "idle" <=> op[r] = "none"
    /\ pc[r] = "writing" => op[r] \in Settings
    /\ pc[r] \in {"mailing", "committing"} => op[r] = "send_code" /\ lock = r

\* Requests that are in flight together know it.
Met ==
  \A q, r \in Requests :
    q # r /\ pc[q] \in InFlight /\ pc[r] \in InFlight => r \in peers[q]

Writing(r, o) == pc[r] = "writing" /\ op[r] = o

\* What a handler has checked still holds when it comes to write, unless it met
\* one that changed it.
StillChecked ==
  \A r \in Requests :
    /\ Writing(r, "disable_email") => row.verified \/ Overlap("disable_totp", "disable_email")
    /\ Writing(r, "disable_totp") => row.email \/ Overlap("disable_totp", "disable_email")
    /\ Writing(r, "verify_totp") =>
         /\ row.secret # Null \/ Overlap("verify_totp", "disable_totp")
         /\ row.secret \in {arg[r], Null} \/ Overlap("enable_totp", "verify_totp")
    /\ Writing(r, "enable_totp") => ~row.verified \/ Overlap("enable_totp", "verify_totp")

\* It has presented the stored code, and writes, or has written.
Presented(r) == op[r] \in Presents /\ pc[r] \in {"writing"} \cup Wrote

Used(r) == op[r] \in Presents /\ pc[r] \in Wrote

\* A code is stored by the request that drew it, once.
Drawn(c) == c \in Requests => op[c] = "send_code" /\ pc[c] \in Wrote

\* A code that was used is not stored any more and never will be, and who still
\* presents it has met who used it.
CodesDrawn ==
  /\ Drawn(row.code)
  /\ \A r \in Requests : Presented(r) => arg[r] \in Minted /\ Drawn(arg[r])
  /\ \A r \in Requests : Used(r) => row.code # arg[r]
  /\ \A q, r \in Requests :
       Used(q) /\ Presented(r) /\ q # r /\ arg[q] = arg[r] => q \in peers[r] /\ r \in peers[q]
  /\ \A r \in Requests :
       op[r] \in Presents /\ pc[r] = "writing" => row.code \in {arg[r], Null} \cup peers[r]

\* The newest message is the one of the transaction that has the row.
NewestMail ==
  /\ mails # <<>> /\ Last(mails) \in Requests => op[Last(mails)] = "send_code"
  /\ \A r \in Requests : pc[r] = "committing" => mails # <<>> /\ Last(mails) = r

Requesting == Staged /\ Met
Methods == StillChecked /\ LockedOutOnlyByRace /\ VerifiedIsConfirmed
Mailing == CodesDrawn /\ NewestMail /\ NewestMailIsTheCode

IInv == TypeOK /\ Requesting /\ Methods /\ Mailing
----------------------------------------------------------------------------
LEMMA AppendLast ==
  ASSUME NEW S, NEW s \in Seq(S), NEW e \in S
  PROVE  Append(s, e) \in Seq(S) /\ Append(s, e) # <<>> /\ Last(Append(s, e)) = e
BY DEF Last

LEMMA CodeTyped ==
  ASSUME TypeOK, NEW c \in Codes PROVE c \in Minted \cup {Wrong}
BY DEF TypeOK, Codes, Range

LEMMA InitIInv == Init => IInv
<1> SUFFICES ASSUME Init PROVE IInv
  OBVIOUS
<1>1. mails \in Seq(Minted) /\ (mails # <<>> => Last(mails) = Before)
  <2>1. <<Before>> \in Seq(Minted) /\ <<>> \in Seq(Minted)
    BY DEF Minted
  <2>2. Last(<<Before>>) = Before
    BY DEF Last
  <2> QED BY <2>1, <2>2 DEF Init
<1>2. TypeOK
  BY <1>1 DEF Init, TypeOK, Minted, Ops
<1>3. Requesting
  BY DEF Init, InFlight, Requesting, Staged, Met
<1>4. Methods
  BY MfaAssumption
  DEF Init, Methods, StillChecked, Writing, LockedOutOnlyByRace, AcceptsTOTP,
     AcceptsEmail, VerifiedIsConfirmed, Minted
<1>5. Mailing
  BY <1>1, MfaAssumption
  DEF Init, Mailing, CodesDrawn, Drawn, Presented, Used, Wrote, NewestMail,
     NewestMailIsTheCode, Minted
<1> QED BY <1>2, <1>3, <1>4, <1>5 DEF IInv

LEMMA EnableTOTPIInv ==
  ASSUME IInv, NEW r \in Requests, EnableTOTP(r) PROVE IInv'
<1>1. TypeOK'
  BY DEF IInv, TypeOK, Ops, InFlight, Refused, EnableTOTP, Call
<1>2. Requesting'
  BY DEF IInv, TypeOK, Requesting, Staged, Met, Settings, EnableTOTP, Call
<1>3. Methods'
  BY DEF IInv, Requesting, Staged, Methods, StillChecked, LockedOutOnlyByRace,
     VerifiedIsConfirmed, AcceptsTOTP, AcceptsEmail, Overlap, Writing, EnableTOTP, Call
<1>4. Mailing'
  BY DEF IInv, Requesting, Staged, Mailing, CodesDrawn, NewestMail, NewestMailIsTheCode,
     Presents, Presented, Used, Drawn, EnableTOTP, Call
<1> QED BY <1>1, <1>2, <1>3, <1>4 DEF IInv

LEMMA VerifyTOTPIInv ==
  ASSUME IInv, NEW r \in Requests, NEW s \in Secrets, VerifyTOTP(r, s) PROVE IInv'
<1>1. TypeOK'
  BY DEF IInv, TypeOK, Ops, InFlight, Refused, Minted, VerifyTOTP, Call, Secrets
<1>2. Requesting'
  BY DEF IInv, TypeOK, Requesting, Staged, Met, Settings, VerifyTOTP, Call
<1>3. Methods'
  BY DEF IInv, TypeOK, Requesting, Staged, Minted, Methods, StillChecked,
     LockedOutOnlyByRace, VerifiedIsConfirmed, AcceptsTOTP, AcceptsEmail, Overlap,
     Writing, VerifyTOTP, Call
<1>4. Mailing'
  BY DEF IInv, Requesting, Staged, Mailing, CodesDrawn, NewestMail, NewestMailIsTheCode,
     Presents, Presented, Used, Drawn, VerifyTOTP, Call
<1> QED BY <1>1, <1>2, <1>3, <1>4 DEF IInv

LEMMA DisableTOTPIInv ==
  ASSUME IInv, NEW r \in Requests, NEW s \in Secrets, DisableTOTP(r, s) PROVE IInv'
<1>1. TypeOK'
  BY DEF IInv, TypeOK, Ops, InFlight, Refused, Minted, DisableTOTP, Call, Secrets
<1>2. Requesting'
  BY DEF IInv, TypeOK, Requesting, Staged, Met, Settings, DisableTOTP, Call
<1>3. Methods'
  BY DEF IInv, Requesting, Staged, Methods, StillChecked, LockedOutOnlyByRace,
     VerifiedIsConfirmed, AcceptsTOTP, AcceptsEmail, Overlap, Writing, DisableTOTP, Call
<1>4. Mailing'
  BY DEF IInv, Requesting, Staged, Mailing, CodesDrawn, NewestMail, NewestMailIsTheCode,
     Presents, Presented, Used, Drawn, DisableTOTP, Call
<1> QED BY <1>1, <1>2, <1>3, <1>4 DEF IInv

LEMMA EnableEmailIInv ==
  ASSUME IInv, NEW r \in Requests, NEW c \in Codes, EnableEmail(r, c) PROVE IInv'
<1>1. TypeOK'
  BY CodeTyped DEF IInv, TypeOK, Ops, InFlight, Refused, EnableEmail, Call
<1>2. Requesting'
  BY DEF IInv, TypeOK, Requesting, Staged, Met, Settings, EnableEmail, Call
<1>3. Methods'
  BY DEF IInv, Requesting, Staged, Methods, StillChecked, LockedOutOnlyByRace,
     VerifiedIsConfirmed, AcceptsTOTP, AcceptsEmail, Overlap, Writing, EnableEmail, Call
<1>4. Mailing'
  BY MfaAssumption, CodeTyped
  DEF IInv, TypeOK, Requesting, Staged, Wrote, Mailing, CodesDrawn, NewestMail,
     NewestMailIsTheCode, Presented, Used, Drawn, EnableEmail, Call
<1> QED BY <1>1, <1>2, <1>3, <1>4 DEF IInv

LEMMA DisableEmailIInv ==
  ASSUME IInv, NEW r \in Requests, NEW c \in Codes, DisableEmail(r, c) PROVE IInv'
<1>1. TypeOK'
  BY CodeTyped DEF IInv, TypeOK, Ops, InFlight, Refused, DisableEmail, Call
<1>2. Requesting'
  BY DEF IInv, TypeOK, Requesting, Staged, Met, Settings, DisableEmail, Call
<1>3. Methods'
  BY DEF IInv, Requesting, Staged, Methods, StillChecked, LockedOutOnlyByRace,
     VerifiedIsConfirmed, AcceptsTOTP, AcceptsEmail, Overlap, Writing, DisableEmail,
     Call
<1>4. Mailing'
  BY MfaAssumption, CodeTyped
  DEF IInv, TypeOK, Requesting, Staged, Wrote, Mailing, CodesDrawn, NewestMail,
     NewestMailIsTheCode, Presented, Used, Drawn, DisableEmail, Call
<1> QED BY <1>1, <1>2, <1>3, <1>4 DEF IInv

LEMMA ValidateTOTPIInv ==
  ASSUME IInv, NEW r \in Requests, NEW s \in Secrets, ValidateTOTP(r, s) PROVE IInv'
<1>1. TypeOK'
  BY DEF IInv, TypeOK, Ops, Wrote, Refused, Minted, ValidateTOTP, Call, Secrets
<1>2. Requesting'
  BY DEF IInv, TypeOK, Requesting, Staged, Met, InFlight, ValidateTOTP, Call
<1>3. Methods'
  BY DEF IInv, TypeOK, Requesting, Staged, InFlight, Methods, StillChecked,
     LockedOutOnlyByRace, VerifiedIsConfirmed, AcceptsTOTP, AcceptsEmail, Overlap,
     Writing, ValidateTOTP, Call
<1>4. Mailing'
  BY DEF IInv, TypeOK, Requesting, Staged, InFlight, Mailing, CodesDrawn, NewestMail,
     NewestMailIsTheCode, Presents, Presented, Used, Drawn, ValidateTOTP, Call
<1> QED BY <1>1, <1>2, <1>3, <1>4 DEF IInv

LEMMA ValidateEmailIInv ==
  ASSUME IInv, NEW r \in Requests, NEW c \in Codes, ValidateEmail(r, c) PROVE IInv'
<1>1. TypeOK'
  BY CodeTyped DEF IInv, TypeOK, Ops, Wrote, Refused, ValidateEmail, Call
<1>2. Requesting'
  BY DEF IInv, TypeOK, Requesting, Staged, Met, InFlight, ValidateEmail, Call
<1>3. Methods'
  BY DEF IInv, TypeOK, Requesting, Staged, InFlight, Methods, StillChecked,
     LockedOutOnlyByRace, VerifiedIsConfirmed, AcceptsTOTP, AcceptsEmail, Overlap,
     Writing, ValidateEmail, Call
<1>4. Mailing'
  BY DEF IInv, TypeOK, Requesting, Staged, InFlight, Mailing, CodesDrawn, NewestMail,
     NewestMailIsTheCode, Presents, Presented, Used, Drawn, ValidateEmail, Call
<1> QED BY <1>1, <1>2, <1>3, <1>4 DEF IInv

LEMMA UpdateType ==
  ASSUME TypeOK, NEW r \in Requests, NEW o, NEW new, Update(r, o, new),
         new \in [email : BOOLEAN, secret : Minted \cup {Null},
                 verified : BOOLEAN, code : Minted \cup {Null}]
  PROVE  TypeOK'
BY DEF TypeOK, Update, Wrote

\* Each setting may change on its own.
LEMMA RowType ==
  ASSUME TypeOK, NEW s \in Minted \cup {Null}, NEW b \in BOOLEAN
  PROVE  LET Row == [email : BOOLEAN, secret : Minted \cup {Null},
                    verified : BOOLEAN, code : Minted \cup {Null}]
         IN  /\ [row EXCEPT !.secret = s] \in Row
             /\ [row EXCEPT !.verified = TRUE] \in Row
             /\ [row EXCEPT !.secret = Null, !.verified = FALSE] \in Row
             /\ [row EXCEPT !.email = b, !.code = Null] \in Row
BY DEF TypeOK

LEMMA SetTOTPSecretIInv ==
  ASSUME IInv, NEW r \in Requests, SetTOTPSecret(r) PROVE IInv'
<1>1. TypeOK'
  BY UpdateType, RowType DEF IInv, Minted, SetTOTPSecret
<1>2. Requesting'
  BY DEF IInv, TypeOK, Requesting, Staged, Met, Wrote, Refused, SetTOTPSecret, Update
<1>3. Methods'
  BY MfaAssumption
  DEF IInv, TypeOK, Requesting, Met, InFlight, Minted, Methods, StillChecked,
     LockedOutOnlyByRace, VerifiedIsConfirmed, AcceptsTOTP, AcceptsEmail, Overlap,
     Writing, SetTOTPSecret, Update
<1>4. Mailing'
  BY DEF IInv, TypeOK, Wrote, Mailing, CodesDrawn, NewestMail, NewestMailIsTheCode,
     Presents, Presented, Used, Drawn, SetTOTPSecret, Update
<1> QED BY <1>1, <1>2, <1>3, <1>4 DEF IInv

LEMMA VerifyTOTPMethodIInv ==
  ASSUME IInv, NEW r \in Requests, VerifyTOTPMethod(r) PROVE IInv'
<1>1. TypeOK'
  BY UpdateType, RowType DEF IInv, Minted, VerifyTOTPMethod
<1>2. Requesting'
  BY DEF IInv, TypeOK, Requesting, Staged, Met, Wrote, Refused, VerifyTOTPMethod, Update
<1>3. Methods'
  BY MfaAssumption
  DEF IInv, TypeOK, Requesting, Met, Wrote, Refused, Minted, Methods, StillChecked,
     LockedOutOnlyByRace, VerifiedIsConfirmed, AcceptsTOTP, Overlap, Writing,
     VerifyTOTPMethod, Update
<1>4. Mailing'
  BY DEF IInv, TypeOK, InFlight, Minted, Mailing, CodesDrawn, NewestMail,
     NewestMailIsTheCode, Presents, Presented, Used, Drawn, VerifyTOTPMethod, Update
<1> QED BY <1>1, <1>2, <1>3, <1>4 DEF IInv

LEMMA DisableTOTPMethodIInv ==
  ASSUME IInv, NEW r \in Requests, DisableTOTPMethod(r) PROVE IInv'
<1>1. TypeOK'
  BY UpdateType, RowType DEF IInv, Minted, DisableTOTPMethod
<1>2. Requesting'
  BY DEF IInv, TypeOK, Requesting, Staged, Met, Wrote, Refused, DisableTOTPMethod,
     Update
<1>3. Methods'
  BY DEF IInv, TypeOK, Requesting, Met, Wrote, Refused, Methods, StillChecked,
     LockedOutOnlyByRace, VerifiedIsConfirmed, AcceptsEmail, Overlap, Writing,
     DisableTOTPMethod, Update
<1>4. Mailing'
  BY DEF IInv, TypeOK, Mailing, CodesDrawn, NewestMail, NewestMailIsTheCode, Presents,
     Presented, Used, Drawn, DisableTOTPMethod, Update
<1> QED BY <1>1, <1>2, <1>3, <1>4 DEF IInv

LEMMA FinalizeEnablingEmailMFAIInv ==
  ASSUME IInv, NEW r \in Requests, FinalizeEnablingEmailMFA(r) PROVE IInv'
<1>1. TypeOK'
  BY UpdateType, RowType DEF IInv, Minted, FinalizeEnablingEmailMFA
<1>2. Requesting'
  BY DEF IInv, TypeOK, Requesting, Staged, Met, Wrote, Refused,
     FinalizeEnablingEmailMFA, Update
<1>3. Methods'
  BY DEF IInv, TypeOK, Methods, StillChecked, LockedOutOnlyByRace, VerifiedIsConfirmed,
     AcceptsEmail, Overlap, Writing, FinalizeEnablingEmailMFA, Update
<1>4. Mailing'
  BY MfaAssumption
  DEF IInv, TypeOK, Requesting, Met, Refused, Minted, Mailing, CodesDrawn, NewestMail,
     NewestMailIsTheCode, Presented, Used, Drawn, FinalizeEnablingEmailMFA, Update
<1> QED BY <1>1, <1>2, <1>3, <1>4 DEF IInv

LEMMA DisableEmailMethodIInv ==
  ASSUME IInv, NEW r \in Requests, DisableEmailMethod(r) PROVE IInv'
<1>1. TypeOK'
  BY UpdateType, RowType DEF IInv, Minted, DisableEmailMethod
<1>2. Requesting'
  BY DEF IInv, TypeOK, Requesting, Staged, Met, Wrote, Refused, DisableEmailMethod,
     Update
<1>3. Methods'
  BY DEF IInv, TypeOK, Requesting, Met, Wrote, Refused, Methods, StillChecked,
     LockedOutOnlyByRace, VerifiedIsConfirmed, AcceptsTOTP, Overlap, Writing,
     DisableEmailMethod, Update
<1>4. Mailing'
  BY MfaAssumption
  DEF IInv, TypeOK, Requesting, Met, Wrote, Refused, Minted, Mailing, CodesDrawn,
     NewestMail, NewestMailIsTheCode, Presented, Used, Drawn, DisableEmailMethod, Update
<1> QED BY <1>1, <1>2, <1>3, <1>4 DEF IInv

LEMMA SendEmailCodeIInv ==
  ASSUME IInv, NEW r \in Requests, SendEmailCode(r) PROVE IInv'
<1>1. TypeOK'
  BY DEF IInv, TypeOK, Ops, InFlight, SendEmailCode, Call
<1>2. Requesting'
  BY MfaAssumption
  DEF IInv, TypeOK, Requesting, Staged, Met, Minted, SendEmailCode, Call
<1>3. Methods'
  BY MfaAssumption
  DEF IInv, TypeOK, Requesting, Staged, Met, Settings, InFlight, Wrote, Refused, Minted,
     Methods, StillChecked, LockedOutOnlyByRace, VerifiedIsConfirmed, AcceptsTOTP,
     AcceptsEmail, Overlap, Writing, SendEmailCode, Call
<1>4. Mailing'
  BY DEF IInv, Wrote, Mailing, CodesDrawn, NewestMail, NewestMailIsTheCode, Presented,
     Used, Drawn, SendEmailCode, Call
<1> QED BY <1>1, <1>2, <1>3, <1>4 DEF IInv

LEMMA SendEmailMessageIInv ==
  ASSUME IInv, NEW r \in Requests, SendEmailMessage(r) PROVE IInv'
<1>1. TypeOK'
  BY DEF IInv, TypeOK, InFlight, Minted, SendEmailMessage
<1>2. Requesting'
  BY DEF IInv, Requesting, Staged, Met, InFlight, SendEmailMessage
<1>3. Methods'
  BY DEF IInv, Wrote, Methods, StillChecked, LockedOutOnlyByRace, VerifiedIsConfirmed,
     AcceptsTOTP, AcceptsEmail, Overlap, Writing, SendEmailMessage
<1>4. Mailing'
  BY AppendLast
  DEF IInv, TypeOK, Requesting, Staged, Wrote, Minted, Mailing, CodesDrawn, NewestMail,
     NewestMailIsTheCode, Presented, Used, Drawn, SendEmailMessage
<1> QED BY <1>1, <1>2, <1>3, <1>4 DEF IInv

LEMMA CommitEmailCodeIInv ==
  ASSUME IInv, NEW r \in Requests, CommitEmailCode(r) PROVE IInv'
<1>1. TypeOK'
  BY DEF IInv, TypeOK, Wrote, Minted, CommitEmailCode
<1>2. Requesting'
  BY DEF IInv, TypeOK, Requesting, Staged, Met, Wrote, Refused, CommitEmailCode
<1>3. Methods'
  BY DEF IInv, TypeOK, Wrote, Methods, StillChecked, LockedOutOnlyByRace,
     VerifiedIsConfirmed, AcceptsTOTP, AcceptsEmail, Overlap, Writing, CommitEmailCode
<1>4. Mailing'
  BY DEF IInv, TypeOK, Requesting, Staged, Met, Wrote, Refused, Minted, Mailing,
     CodesDrawn, NewestMail, NewestMailIsTheCode, Presents, Presented, Used, Drawn,
     CommitEmailCode
<1> QED BY <1>1, <1>2, <1>3, <1>4 DEF IInv

LEMMA ExpireIInv ==
  ASSUME IInv, Expire PROVE IInv'
<1>1. TypeOK'
  BY DEF IInv, TypeOK, Expire
<1>2. Requesting'
  BY DEF IInv, Requesting, Staged, Met, Expire
<1>3. Methods'
  BY DEF IInv, Methods, StillChecked, LockedOutOnlyByRace, VerifiedIsConfirmed,
     AcceptsTOTP, AcceptsEmail, Overlap, Writing, Expire
<1>4. Mailing'
  BY DEF IInv, Mailing, CodesDrawn, NewestMail, NewestMailIsTheCode, Presented, Used,
     Drawn, Expire
<1> QED BY <1>1, <1>2, <1>3, <1>4 DEF IInv

LEMMA FailIInv ==
  ASSUME IInv, NEW r \in Requests, Fail(r) PROVE IInv'
<1>1. TypeOK'
  BY DEF IInv, TypeOK, Refused, Fail
<1>2. Requesting'
  BY DEF IInv, TypeOK, Requesting, Staged, Met, InFlight, Fail
<1>3. Methods'
  BY DEF IInv, InFlight, Wrote, Methods, StillChecked, LockedOutOnlyByRace,
     VerifiedIsConfirmed, AcceptsTOTP, AcceptsEmail, Overlap, Writing, Fail
<1>4. Mailing'
  BY DEF IInv, InFlight, Wrote, Mailing, CodesDrawn, NewestMail, NewestMailIsTheCode,
     Presented, Used, Drawn, Fail
<1> QED BY <1>1, <1>2, <1>3, <1>4 DEF IInv

LEMMA NextIInv == IInv /\ [Next]_vars => IInv'
<1> SUFFICES ASSUME IInv, [Next]_vars PROVE IInv'
  OBVIOUS
<1>1. ASSUME NEW r \in Requests,
             \/ EnableTOTP(r) \/ SetTOTPSecret(r)
             \/ VerifyTOTPMethod(r) \/ DisableTOTPMethod(r)
             \/ \E s \in Secrets :
                  VerifyTOTP(r, s) \/ DisableTOTP(r, s) \/ ValidateTOTP(r, s)
      PROVE  IInv'
  BY <1>1, EnableTOTPIInv, SetTOTPSecretIInv, VerifyTOTPMethodIInv,
     DisableTOTPMethodIInv, VerifyTOTPIInv, DisableTOTPIInv, ValidateTOTPIInv
<1>2. ASSUME NEW r \in Requests,
             \/ FinalizeEnablingEmailMFA(r) \/ DisableEmailMethod(r)
             \/ \E c \in Codes :
                  EnableEmail(r, c) \/ DisableEmail(r, c) \/ ValidateEmail(r, c)
      PROVE  IInv'
  BY <1>2, FinalizeEnablingEmailMFAIInv, DisableEmailMethodIInv, EnableEmailIInv,
     DisableEmailIInv, ValidateEmailIInv
<1>3. ASSUME NEW r \in Requests,
             SendEmailCode(r) \/ SendEmailMessage(r) \/ CommitEmailCode(r) \/ Fail(r)
      PROVE  IInv'
  BY <1>3, SendEmailCodeIInv, SendEmailMessageIInv, CommitEmailCodeIInv, FailIInv
<1>4. CASE Expire
  BY <1>4, ExpireIInv
<1>5. CASE UNCHANGED vars
  <2>1. TypeOK' /\ Requesting'
    BY <1>5 DEF vars, IInv, TypeOK, Requesting, Staged, Met
  <2>2. Methods'
    BY <1>5
    DEF vars, IInv, Methods, StillChecked, Writing, Overlap, LockedOutOnlyByRace,
       AcceptsTOTP, AcceptsEmail, VerifiedIsConfirmed
  <2>3. Mailing'
    BY <1>5
    DEF vars, IInv, Mailing, CodesDrawn, Drawn, Presented, Used, NewestMail,
       NewestMailIsTheCode
  <2> QED BY <2>1, <2>2, <2>3 DEF IInv
<1> QED BY <1>1, <1>2, <1>3, <1>4, <1>5 DEF Next, Quiescent

LEMMA SpecIInv == Spec => []IInv
BY InitIInv, NextIInv, PTL DEF Spec
----------------------------------------------------------------------------
\* The variables keep their types.
THEOREM TypeCorrect == Spec => []TypeOK
<1>1. IInv => TypeOK
  BY DEF IInv
<1> QED BY <1>1, SpecIInv, PTL

\* The user can always pass an MFA check, unless he disabled both methods at
\* once, or the app while a verification of it was still running.
THEOREM NotLockedOutUnlessRace == Spec => []LockedOutOnlyByRace
<1>1. IInv => LockedOutOnlyByRace
  BY DEF IInv, Methods
<1> QED BY <1>1, SpecIInv, PTL

\* The secret marked verified is one the user has shown a code of, unless a
\* verification overlapped what replaced or cleared it.
THEOREM VerifiedSecretConfirmed == Spec => []VerifiedIsConfirmed
<1>1. IInv => VerifiedIsConfirmed
  BY DEF IInv, Methods
<1> QED BY <1>1, SpecIInv, PTL

\* Once an e-mail code has changed the settings, no later request is served with
\* it: neither another change, nor a check by validateMFA.
THEOREM UsedCodesRefused == Spec => UsedCodeIsRefused
<1> DEFINE Step ==
      \A q, r \in Requests :
        /\ op[q] \in {"enable_email", "disable_email"} /\ pc[q] \in Wrote
        /\ op'[r] \in {"enable_email", "disable_email", "validate_email"}
        /\ pc[r] = "idle" /\ pc'[r] \in {"writing", "200"}
        => arg'[r] # arg[q]
<1>1. ASSUME IInv, [Next]_vars PROVE [Step]_vars
  <2> SUFFICES ASSUME NEW q \in Requests, NEW r \in Requests,
                      op[q] \in {"enable_email", "disable_email"}, pc[q] \in Wrote,
                      op'[r] \in {"enable_email", "disable_email", "validate_email"},
                      pc[r] = "idle", pc'[r] \in {"writing", "200"}
               PROVE  arg'[r] # arg[q]
    OBVIOUS
  <2>1. row.code # arg[q]
    BY <1>1 DEF IInv, Mailing, CodesDrawn, Used, Presents
  <2>2. PICK c \in Codes : EnableEmail(r, c) \/ DisableEmail(r, c) \/ ValidateEmail(r, c)
    BY <1>1
    DEF Next, IInv, TypeOK, EnableTOTP, SetTOTPSecret, VerifyTOTP, VerifyTOTPMethod,
       DisableTOTP, DisableTOTPMethod, EnableEmail, FinalizeEnablingEmailMFA,
       DisableEmail, DisableEmailMethod, SendEmailCode, SendEmailMessage,
       CommitEmailCode, ValidateTOTP, ValidateEmail, Expire, Fail, Quiescent, vars,
       Update, Call, InFlight
  \* It has presented the stored code.
  <2>3. c = row.code /\ arg'[r] = c
    BY <1>1, <2>2 DEF IInv, TypeOK, EnableEmail, DisableEmail, ValidateEmail, Call
  <2> QED BY <2>1, <2>3
<1> QED BY <1>1, SpecIInv, PTL DEF Spec, UsedCodeIsRefused

\* Codes are queued for the mailbox in the order they are committed.
THEOREM NewestMailHoldsTheCode == Spec => []NewestMailIsTheCode
<1>1. IInv => NewestMailIsTheCode
  BY DEF IInv, Mailing
<1> QED BY <1>1, SpecIInv, PTL

\* A code the user was sent is erased by a request that presented it, or met the
\* sending of it.
THEOREM CodesErasedByTheirUser == Spec => ErasedOnlyByItsUser
<1> DEFINE Step ==
      row.code # Null /\ row'.code = Null =>
        \E r \in Requests :
          /\ pc[r] \in InFlight /\ pc'[r] \in Wrote
          /\ arg[r] = row.code \/ row.code \in peers[r]
<1>1. ASSUME IInv, [Next]_vars PROVE [Step]_vars
  <2> SUFFICES ASSUME row.code # Null, row'.code = Null PROVE Step
    OBVIOUS
  <2>1. PICK r \in Requests : FinalizeEnablingEmailMFA(r) \/ DisableEmailMethod(r)
    <3>1. row \in [email : BOOLEAN, secret : Minted \cup {Null},
                   verified : BOOLEAN, code : Minted \cup {Null}]
      BY <1>1 DEF IInv, TypeOK
    <3>2. \A r \in Requests : r # Null
      BY MfaAssumption DEF Minted
    <3> QED
      BY <1>1, <3>1, <3>2
      DEF Next, EnableTOTP, SetTOTPSecret, VerifyTOTP, VerifyTOTPMethod, DisableTOTP,
         DisableTOTPMethod, EnableEmail, DisableEmail, SendEmailCode, SendEmailMessage,
         CommitEmailCode, ValidateTOTP, ValidateEmail, Expire, Fail, Quiescent, vars,
         Update
  <2>2. pc[r] = "writing" /\ op[r] \in Presents /\ pc'[r] \in Wrote
    BY <1>1, <2>1
    DEF IInv, TypeOK, FinalizeEnablingEmailMFA, DisableEmailMethod, Update, Presents,
       Wrote
  <2>3. row.code \in {arg[r], Null} \cup peers[r]
    BY <1>1, <2>2 DEF IInv, Mailing, CodesDrawn
  <2> QED BY <2>2, <2>3 DEF InFlight
<1> QED BY <1>1, SpecIInv, PTL DEF Spec, ErasedOnlyByItsUser
=================================================================================

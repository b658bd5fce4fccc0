---------------------------- MODULE Verification ----------------------------
(***************************************************************************)
(* VerificationService for one customer: setting up an authenticator, and  *)
(* codes sent by email to enrol or to confirm a withdrawal.  Every request *)
(* reads the security row before it writes; only some of the writes check  *)
(* that the row is still what was read.                                    *)
(*                                                                         *)
(* Codes and secrets are numbered as they are drawn, so that one that is   *)
(* entered either is some earlier one or is wrong.  An authenticator's     *)
(* code is its secret and the half minute it was shown in.                 *)
(***************************************************************************)
EXTENDS Integers, FiniteSets

CONSTANTS
  Checks,        \* API requests, each of them served once
  LastTick,      \* bound on the clock, in half minutes
  CodeLife,      \* time for which an emailed code is good: 5 minutes
  ResendAfter,   \* time between two codes: 1 minute
  MaxGuesses     \* wrong codes after which an emailed one is dead: 5

ASSUME VerificationAssumption ==
  /\ IsFiniteSet(Checks)
  /\ LastTick \in Nat /\ CodeLife \in Nat \ {0}
  /\ ResendAfter \in Nat /\ MaxGuesses \in Nat \ {0}

Purposes == {"ENROLLMENT", "WITHDRAWAL"}
NoCode == 0
Never == -1
Wrong == 0
NewCheck == [step |-> "NEW"]
Checked == [step |-> "CHECKED"]

VARIABLES
  tick,       \* the clock
  security,   \* the customer's user_security row
  drawn,      \* how many codes and secrets have been drawn
  check,      \* how far each request came, and what it has read
  mailed,     \* codes that reached the customer, with their purpose
  used        \* codes that were accepted: by whom, which, for what

verificationVars == <<tick, security, drawn, check, mailed, used>>

VerificationInit ==
  /\ tick = 0
  /\ security \in [secret : {NoCode}, pending : {NoCode}, lastCounter : {Never},
                   emailEnabled : BOOLEAN, code : {NoCode}, purpose : {"NONE"},
                   expires : {0}, sentAt : {Never}, attempts : {0}]
  /\ drawn = 0
  /\ check = [r \in Checks |-> NewCheck]
  /\ mailed = {}
  /\ used = {}

In(r, step) == check[r].step = step
Proceed(r, state) == check' = [check EXCEPT ![r] = state]
Ended(r) == Proceed(r, Checked)

Tock ==
  /\ tick < LastTick
  /\ tick' = tick + 1
  /\ UNCHANGED <<security, drawn, check, mailed, used>>

-----------------------------------------------------------------------------
(* beginAuthenticator: looks whether there is one, then stores a secret    *)
(* that waits for its confirmation.                                        *)
BeginAuthenticator(r) ==
  /\ In(r, "NEW")
  /\ security.secret = NoCode
  /\ Proceed(r, [step |-> "SETTING_UP"])
  /\ UNCHANGED <<tick, security, drawn, mailed, used>>

StorePending(r) ==
  /\ In(r, "SETTING_UP")
  /\ drawn' = drawn + 1
  /\ security' = [security EXCEPT !.pending = drawn']
  /\ Ended(r)
  /\ UNCHANGED <<tick, mailed, used>>

Window == {tick - 1, tick, tick + 1}

(* confirmAuthenticator writes the secret it has read, whatever the row    *)
(* holds by then.  A wrong code changes nothing.                           *)
EnterConfirmation(r, counter) ==
  /\ In(r, "NEW")
  /\ security.pending # NoCode /\ security.secret = NoCode
  /\ Proceed(r, [step |-> "CONFIRMING", secret |-> security.pending, counter |-> counter])
  /\ UNCHANGED <<tick, security, drawn, mailed, used>>

ConfirmAuthenticator(r) ==
  /\ In(r, "CONFIRMING")
  /\ security' = [security EXCEPT !.secret = check[r].secret, !.pending = NoCode,
                                  !.lastCounter = check[r].counter]
  /\ Ended(r)
  /\ UNCHANGED <<tick, drawn, mailed, used>>

(* verifyWithdrawal with an authenticator: codes only ever go forward.     *)
VerifyAuthenticator(r, counter) ==
  /\ In(r, "NEW")
  /\ security.secret # NoCode
  /\ counter > security.lastCounter
  /\ security' = [security EXCEPT !.lastCounter = counter]
  /\ Ended(r)
  /\ UNCHANGED <<tick, drawn, mailed, used>>

-----------------------------------------------------------------------------
(* sendEmailCode, up to drawing the code.                                  *)
RequestCode(r, purpose) ==
  /\ In(r, "NEW")
  /\ security.emailEnabled <=> purpose = "WITHDRAWAL"
  /\ security.sentAt = Never \/ tick - security.sentAt >= ResendAfter
  /\ Proceed(r, [step |-> "DRAWING", purpose |-> purpose])
  /\ UNCHANGED <<tick, security, drawn, mailed, used>>

StoreCode(r) ==
  /\ In(r, "DRAWING")
  /\ drawn' = drawn + 1
  /\ security' = [security EXCEPT !.code = drawn', !.purpose = check[r].purpose,
                    !.expires = tick + CodeLife, !.sentAt = tick, !.attempts = 0]
  /\ Proceed(r, [step |-> "MAILING", code |-> drawn', purpose |-> check[r].purpose])
  /\ UNCHANGED <<tick, mailed, used>>

MailCode(r) ==
  /\ In(r, "MAILING")
  /\ mailed' = mailed \cup {<<check[r].code, check[r].purpose>>}
  /\ Ended(r)
  /\ UNCHANGED <<tick, security, drawn, used>>

(* A mail that cannot be sent withdraws whatever code the row then holds.  *)
MailFails(r) ==
  /\ In(r, "MAILING")
  /\ security' = [security EXCEPT !.code = NoCode, !.purpose = "NONE",
                                  !.expires = 0, !.sentAt = Never]
  /\ Ended(r)
  /\ UNCHANGED <<tick, drawn, mailed, used>>

(* consumeEmailCode, for confirmEmail or verifyWithdrawal: what it checks  *)
(* on the row it reads.                                                    *)
Acceptable(purpose) ==
  /\ security.purpose = purpose
  /\ purpose = "WITHDRAWAL" => security.emailEnabled
  /\ security.code # NoCode
  /\ security.expires > tick
  /\ security.attempts < MaxGuesses

EnterCode(r, code, purpose) ==
  /\ In(r, "NEW")
  /\ Acceptable(purpose)
  /\ Proceed(r, [step |-> IF code = security.code THEN "CONSUMING" ELSE "MISSED",
                 seen |-> security.code, purpose |-> purpose])
  /\ UNCHANGED <<tick, security, drawn, mailed, used>>

(* A wrong code is counted outside the caller's transaction, if the code   *)
(* it was compared with is still the current one.                          *)
CountMiss(r) ==
  /\ In(r, "MISSED")
  /\ security' = IF security.code = check[r].seen
                   THEN [security EXCEPT !.attempts = @ + 1] ELSE security
  /\ Ended(r)
  /\ UNCHANGED <<tick, drawn, mailed, used>>

(* Faulty: trusts what it has read.                                        *)
StillAcceptableAsRead(r) == TRUE

StillAcceptable(r) ==
  /\ security.code = check[r].seen
  /\ security.purpose = check[r].purpose
  /\ security.attempts < MaxGuesses
  /\ security.expires > tick

ConsumeCode(r) ==
  /\ In(r, "CONSUMING")
  /\ StillAcceptable(r)
  /\ security' = [security EXCEPT !.code = NoCode, !.purpose = "NONE", !.expires = 0,
                    !.attempts = 0,
                    !.emailEnabled = @ \/ check[r].purpose = "ENROLLMENT"]
  /\ used' = used \cup {<<r, check[r].seen, check[r].purpose>>}
  /\ Ended(r)
  /\ UNCHANGED <<tick, drawn, mailed>>

(* Not any more, or the rest of the caller's transaction fails.            *)
CodeNotConsumed(r) ==
  /\ In(r, "CONSUMING")
  /\ Ended(r)
  /\ UNCHANGED <<tick, security, drawn, mailed, used>>

CheckStep(r) ==
  \/ BeginAuthenticator(r) \/ StorePending(r) \/ ConfirmAuthenticator(r)
  \/ \E counter \in Window : EnterConfirmation(r, counter) \/ VerifyAuthenticator(r, counter)
  \/ \E purpose \in Purposes :
       \/ RequestCode(r, purpose)
       \/ \E code \in {m[1] : m \in mailed} \cup {Wrong} : EnterCode(r, code, purpose)
  \/ StoreCode(r) \/ MailCode(r) \/ MailFails(r)
  \/ CountMiss(r) \/ ConsumeCode(r) \/ CodeNotConsumed(r)

VerificationNext == Tock \/ \E r \in Checks : CheckStep(r)

VerificationSpec == VerificationInit /\ [][VerificationNext]_verificationVars

-----------------------------------------------------------------------------
(* verification.service.ts consumeEmailCode: an emailed code confirms one  *)
(* thing and no other, however many requests have seen it on the row: it   *)
(* was mailed for what it is used for, and is used once.                   *)
EmailCodeServesOnce ==
  \A u \in used :
    /\ <<u[2], u[3]>> \in mailed
    /\ \A v \in used : u[2] = v[2] => u = v
=============================================================================

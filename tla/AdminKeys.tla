------------------------------ MODULE AdminKeys ------------------------------
(***************************************************************************)
(* Operators' sign-in, password confirmation and security keys:            *)
(* AdminController.login, AdminGuard and SecurityController.  A key is     *)
(* registered, and later used, by signing a challenge that serves once and *)
(* for two minutes; most keys count their signatures, and a count already  *)
(* seen is refused.  The verify handler is a sequence of statements        *)
(* without a transaction, so its requests interleave.  One operator.       *)
(***************************************************************************)
(* Signatures are taken to be right: what the library checks beside the    *)
(* count is external.  Rate limits only refuse and are left out.  A request*)
(* is taken to carry the newest of the operator's tokens.                  *)
(***************************************************************************)
EXTENDS Integers, FiniteSetsExt

CONSTANTS
  SecurityKeys,   \* the operator's devices
  Uncounted,      \* those of them that do not count
  ChallengeIds,   \* bound on the challenges
  Verifications,  \* requests to the verify handler
  NoKeyYet

ASSUME AdminKeysAssumption ==
  Uncounted \subseteq SecurityKeys /\ NoKeyYet \notin SecurityKeys

VARIABLES
  adminSession,  \* "NONE", "SIGNED_IN", or "STEPPED_UP" for five minutes
  device,        \* key -> its own count
  credential,    \* key -> the count recorded, or Unregistered
  challenge,     \* id -> row
  signature,     \* id -> [key, count] that signed it
  verifying,     \* request -> where it is
  served,        \* id -> how often it served
  counted        \* key -> counts that were accepted

keyVars == <<adminSession, device, credential, challenge, signature, verifying,
             served, counted>>

Unregistered == -1
Kinds == {"REGISTER", "VERIFY"}
NoChallenge == [kind |-> "NONE", consumed |-> FALSE, expired |-> FALSE]
Unsigned == [key |-> NoKeyYet, count |-> 0]
NotVerifying == [step |-> "NONE", id |-> 0, read |-> 0]
Registered == {k \in SecurityKeys : credential[k] # Unregistered}

AdminKeysInit ==
  /\ adminSession = "NONE"
  /\ device = [k \in SecurityKeys |-> 0]
  /\ credential \in [SecurityKeys -> {Unregistered, 0}]
  /\ challenge = [c \in ChallengeIds |-> NoChallenge]
  /\ signature = [c \in ChallengeIds |-> Unsigned]
  /\ verifying = [q \in Verifications |-> NotVerifying]
  /\ served = [c \in ChallengeIds |-> 0]
  /\ counted = [k \in SecurityKeys |-> {}]

-----------------------------------------------------------------------------
AdminLogin ==
  /\ adminSession = "NONE"
  /\ adminSession' = "SIGNED_IN"
  /\ UNCHANGED <<device, credential, challenge, signature, verifying, served, counted>>

(* One that fails, or comes after too many that did, changes nothing.      *)
ConfirmPassword ==
  /\ adminSession # "NONE"
  /\ adminSession' = "STEPPED_UP"
  /\ UNCHANGED <<device, credential, challenge, signature, verifying, served, counted>>

(* Fifteen minutes of the token, five of the step-up.                      *)
SessionRunsOut ==
  /\ \/ adminSession = "STEPPED_UP" /\ adminSession' = "SIGNED_IN"
     \/ adminSession # "NONE" /\ adminSession' = "NONE"
  /\ UNCHANGED <<device, credential, challenge, signature, verifying, served, counted>>

-----------------------------------------------------------------------------
MayRegister == Registered = {} \/ adminSession = "STEPPED_UP"

SecurityOptions(c, kind) ==
  /\ adminSession # "NONE" /\ challenge[c] = NoChallenge
  /\ IF kind = "REGISTER" THEN MayRegister ELSE Registered # {}
  /\ challenge' = [challenge EXCEPT ![c] = [NoChallenge EXCEPT !.kind = kind]]
  /\ UNCHANGED <<adminSession, device, credential, signature, verifying, served, counted>>

ChallengeExpires(c) ==
  /\ challenge[c] # NoChallenge /\ ~challenge[c].expired
  /\ challenge' = [challenge EXCEPT ![c].expired = TRUE]
  /\ UNCHANGED <<adminSession, device, credential, signature, verifying, served, counted>>

(* The device signs; a registered one does not register again.             *)
DeviceSigns(k, c) ==
  /\ challenge[c] # NoChallenge /\ signature[c] = Unsigned
  /\ IF challenge[c].kind = "REGISTER" THEN k \notin Registered ELSE k \in Registered
  /\ device' = IF k \in Uncounted THEN device ELSE [device EXCEPT ![k] = @ + 1]
  /\ signature' = [signature EXCEPT ![c] = [key |-> k, count |-> device'[k]]]
  /\ UNCHANGED <<adminSession, credential, challenge, verifying, served, counted>>

-----------------------------------------------------------------------------
VerifyAt(q, step) == verifying[q].step = step
Proceeds(q, step) == verifying' = [verifying EXCEPT ![q].step = step]
Refused(q) == verifying' = [verifying EXCEPT ![q] = NotVerifying]

(* The page sends what was signed, perhaps more than once.                 *)
FindChallenge(q, c) ==
  /\ verifying[q] = NotVerifying /\ adminSession # "NONE"
  /\ signature[c] # Unsigned
  /\ ~challenge[c].expired /\ ~challenge[c].consumed
  /\ verifying' = [verifying EXCEPT ![q] = [step |-> "FOUND", id |-> c, read |-> 0]]
  /\ UNCHANGED <<adminSession, device, credential, challenge, signature, served, counted>>

(* Faulty: the update does not ask for an unconsumed challenge.            *)
MayConsumeAgain(entry) == TRUE

MayConsume(entry) == ~entry.consumed

ConsumeChallenge(q) ==
  LET c == verifying[q].id
  IN  /\ VerifyAt(q, "FOUND")
      /\ IF MayConsume(challenge[c])
           THEN /\ challenge' = [challenge EXCEPT ![c].consumed = TRUE]
                /\ Proceeds(q, "CONSUMED")
           ELSE Refused(q) /\ UNCHANGED challenge
      /\ UNCHANGED <<adminSession, device, credential, signature, served, counted>>

(* The registration's own look at the keys; the credential's count.        *)
ReadKey(q) ==
  LET c == verifying[q].id
      k == signature[c].key
  IN  /\ VerifyAt(q, "CONSUMED")
      /\ IF challenge[c].kind = "REGISTER"
           THEN IF MayRegister THEN Proceeds(q, "READ") ELSE Refused(q)
           ELSE IF k \in Registered
           THEN verifying' = [verifying EXCEPT ![q] =
                                [step |-> "READ", id |-> c, read |-> credential[k]]]
           ELSE Refused(q)
      /\ UNCHANGED <<adminSession, device, credential, challenge, signature, served, counted>>

(* The library wants a count above the one recorded, if either counts.     *)
CountAccepted(count, read) == count > read \/ (count = 0 /\ read = 0)

(* The conditional update of the count, or the new credential's row.       *)
RecordKey(q) ==
  LET c == verifying[q].id
      k == signature[c].key
      count == signature[c].count
      recorded ==
        IF challenge[c].kind = "REGISTER"
        THEN k \notin Registered
        ELSE CountAccepted(count, verifying[q].read) /\ credential[k] = verifying[q].read
  IN  /\ VerifyAt(q, "READ")
      /\ IF recorded
           THEN /\ credential' = [credential EXCEPT ![k] = count]
                /\ counted' = [counted EXCEPT ![k] = @ \cup {count}]
                /\ served' = [served EXCEPT ![c] = @ + 1]
                /\ adminSession' \in {adminSession, "STEPPED_UP"}   \* if the answer arrives
           ELSE UNCHANGED <<credential, counted, served, adminSession>>
      /\ Refused(q)
      /\ UNCHANGED <<device, challenge, signature>>

AdminKeysNext ==
  \/ AdminLogin \/ ConfirmPassword \/ SessionRunsOut
  \/ \E c \in ChallengeIds :
       \/ \E kind \in Kinds : SecurityOptions(c, kind)
       \/ ChallengeExpires(c)
       \/ \E k \in SecurityKeys : DeviceSigns(k, c)
       \/ \E q \in Verifications : FindChallenge(q, c)
  \/ \E q \in Verifications : ConsumeChallenge(q) \/ ReadKey(q) \/ RecordKey(q)

AdminKeysSpec == AdminKeysInit /\ [][AdminKeysNext]_keyVars

-----------------------------------------------------------------------------
(* However often a signed challenge is sent and however its requests meet, *)
(* it registers or confirms once; and the count recorded of a key is the   *)
(* highest that was ever accepted, whichever of two requests is the later. *)
ChallengesServeOnce ==
  /\ \A c \in ChallengeIds : served[c] <= 1
  /\ \A k \in SecurityKeys : counted[k] # {} => credential[k] = Max(counted[k])
=============================================================================

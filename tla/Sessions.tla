------------------------------ MODULE Sessions ------------------------------
(***************************************************************************)
(* AuthService for one customer: sign-up and sign-in by password or        *)
(* Google, refresh tokens that are exchanged once, the lock after failed   *)
(* sign-ins, password changes and log-outs.  Hashing a password or signing *)
(* a token takes an await, and a request has read its rows before it.      *)
(*                                                                         *)
(* Customers share no rows of these tables, and every session has a token  *)
(* family of its own.  A refresh token is its session and version: both    *)
(* are signed into it, and the stored hash changes with the version.       *)
(***************************************************************************)
EXTENDS Integers, FiniteSets

CONSTANTS
  SessionIds,
  Calls,        \* API requests, each of them served once
  Passwords,    \* what is typed into a password field
  MaxFailures   \* AUTH_MAX_FAILED_LOGINS

ASSUME SessionAssumption ==
  /\ IsFiniteSet(SessionIds) /\ IsFiniteSet(Calls)
  /\ Passwords \subseteq Nat \ {0}
  /\ MaxFailures \in Nat \ {0}

VARIABLES
  customer,     \* the users row and whether a Google identity is linked to it
  failures,     \* user_security.failed_login_count
  lock,         \* user_security.locked_until
  session,      \* user_sessions
  call,         \* how far each request came, and what it has read
  presented     \* refresh tokens that met a live session, by the request

sessionVars == <<customer, failures, lock, session, call, presented>>

NoPassword == 0
NoSession == [version |-> -1, revoked |-> FALSE]
Waiting == [step |-> "WAITING"]
Served == [step |-> "SERVED"]
Exists(s) == session[s] # NoSession
Tokens(s) == 0..session[s].version

SessionInit ==
  /\ customer \in [signedUp : {FALSE}, password : {NoPassword}, linked : {FALSE},
                   loginEnabled : {TRUE}, gmail : BOOLEAN]
  /\ failures = 0
  /\ lock = "NONE"
  /\ session = [s \in SessionIds |-> NoSession]
  /\ call = [r \in Calls |-> Waiting]
  /\ presented = {}

At(r, step) == call[r].step = step
Continue(r, state) == call' = [call EXCEPT ![r] = state]
SignedIn(r) == Continue(r, [step |-> "ESTABLISHING"])
Finish(r) == Continue(r, Served)

(* validateAccessToken.  Expiry, thirty days after sign-in, is like having *)
(* been revoked and is left out.                                           *)
Live(s) == Exists(s) /\ ~session[s].revoked
MayAct(s) == Live(s) /\ customer.loginEnabled

Revoke(S) == session' = [s \in SessionIds |->
               IF s \in S /\ Exists(s) THEN [session[s] EXCEPT !.revoked = TRUE]
               ELSE session[s]]

-----------------------------------------------------------------------------
(* register hashes the password first.                                     *)
BeginRegistration(r, p) ==
  /\ At(r, "WAITING")
  /\ Continue(r, [step |-> "REGISTERING", password |-> p])
  /\ UNCHANGED <<customer, failures, lock, session, presented>>

(* Its transaction; the second one with that address fails on P2002.       *)
Register(r) ==
  /\ At(r, "REGISTERING")
  /\ IF customer.signedUp
       THEN Finish(r) /\ UNCHANGED customer
       ELSE /\ SignedIn(r)
            /\ customer' = [customer EXCEPT !.signedUp = TRUE, !.password = call[r].password]
  /\ UNCHANGED <<failures, lock, session, presented>>

(* google: a linked identity signs in, an address that Google vouches for  *)
(* is linked, a new one signs up; other addresses need their password.     *)
GoogleSignIn(r) ==
  /\ At(r, "WAITING")
  /\ IF customer.signedUp /\ ~customer.linked /\ ~customer.gmail
       THEN Finish(r) /\ UNCHANGED customer
       ELSE /\ customer' = [customer EXCEPT !.signedUp = TRUE, !.linked = TRUE]
            /\ IF customer.loginEnabled THEN SignedIn(r) ELSE Finish(r)
  /\ UNCHANGED <<failures, lock, session, presented>>

(* login, up to the verification of the password it has read.  While the   *)
(* lock runs nobody gets so far, whatever the password.                    *)
BeginLogin(r, p) ==
  /\ At(r, "WAITING")
  /\ customer.signedUp
  /\ lock # "RUNNING"
  /\ Continue(r, [step |-> "VERIFYING", password |-> p, row |-> customer])
  /\ UNCHANGED <<customer, failures, lock, session, presented>>

Verified(r) == call[r].row.password = call[r].password

Login(r) ==
  /\ At(r, "VERIFYING")
  /\ Verified(r)
  /\ IF call[r].row.loginEnabled
       THEN failures' = 0 /\ lock' = "NONE" /\ SignedIn(r)
       ELSE Finish(r) /\ UNCHANGED <<failures, lock>>
  /\ UNCHANGED <<customer, session, presented>>

(* recordFailedLogin: two statements.                                      *)
FailLogin(r) ==
  /\ At(r, "VERIFYING")
  /\ ~Verified(r)
  /\ failures' = failures + 1
  /\ IF failures' >= MaxFailures THEN Continue(r, [step |-> "LOCKING"]) ELSE Finish(r)
  /\ UNCHANGED <<customer, lock, session, presented>>

LockOut(r) ==
  /\ At(r, "LOCKING")
  /\ lock' = "RUNNING"
  /\ Finish(r)
  /\ UNCHANGED <<customer, failures, session, presented>>

(* Fifteen minutes later.  The count of failures stays as it is.           *)
LockRunsOut ==
  /\ lock = "RUNNING"
  /\ lock' = "OVER"
  /\ UNCHANGED <<customer, failures, session, call, presented>>

(* establishSession; its devices and risk flags are not modelled.          *)
EstablishSession(r, s) ==
  /\ At(r, "ESTABLISHING")
  /\ ~Exists(s)
  /\ session' = [session EXCEPT ![s] = [version |-> 0, revoked |-> FALSE]]
  /\ Finish(r)
  /\ UNCHANGED <<customer, failures, lock, presented>>

-----------------------------------------------------------------------------
(* refresh, up to its awaits: the session is live when it is read.         *)
BeginRefresh(r, s, v) ==
  /\ At(r, "WAITING")
  /\ Live(s)
  /\ v \in Tokens(s)
  /\ Continue(r, [step |-> "REFRESHING", session |-> s, version |-> v,
                  seen |-> session[s].version, enabled |-> customer.loginEnabled])
  /\ UNCHANGED <<customer, failures, lock, session, presented>>

Present(r) == presented' = presented \cup {<<r, call[r].session, call[r].version>>}

(* Faulty: the update asks only for the version.                           *)
MayRotateRevoked(r) ==
  /\ call[r].version = call[r].seen
  /\ call[r].enabled
  /\ session[call[r].session].version = call[r].seen

(* The checks on what was read, and the conditions of the update.          *)
MayRotate(r) ==
  /\ call[r].version = call[r].seen
  /\ call[r].enabled
  /\ session[call[r].session].version = call[r].seen
  /\ ~session[call[r].session].revoked

Rotate(r) ==
  /\ At(r, "REFRESHING")
  /\ MayRotate(r)
  /\ session' = [session EXCEPT ![call[r].session].version = call[r].seen + 1]
  /\ Present(r)
  /\ Finish(r)
  /\ UNCHANGED <<customer, failures, lock>>

(* revokeFamily and revokeCompromisedFamily: an old token, a race that was *)
(* lost, or an account that may not sign in.                               *)
RefreshDenied(r) ==
  /\ At(r, "REFRESHING")
  /\ ~MayRotate(r)
  /\ Revoke({call[r].session})
  /\ Present(r)
  /\ Finish(r)
  /\ UNCHANGED <<customer, failures, lock>>

-----------------------------------------------------------------------------
Logout(s) ==
  /\ MayAct(s)
  /\ Revoke({s})
  /\ UNCHANGED <<customer, failures, lock, call, presented>>

(* Of any session of the customer's.                                       *)
RevokeSession(s, t) ==
  /\ MayAct(s) /\ Live(t)
  /\ Revoke({t})
  /\ UNCHANGED <<customer, failures, lock, call, presented>>

LogoutAll(s) ==
  /\ MayAct(s)
  /\ Revoke(SessionIds)
  /\ UNCHANGED <<customer, failures, lock, call, presented>>

(* changePassword, up to the two hashes.                                   *)
BeginChange(r, s, current, new) ==
  /\ At(r, "WAITING")
  /\ MayAct(s)
  /\ customer.password = current /\ new # current
  /\ Continue(r, [step |-> "CHANGING", session |-> s, seen |-> current, password |-> new])
  /\ UNCHANGED <<customer, failures, lock, session, presented>>

(* Its transaction, unless the password changed in another session.        *)
ChangePassword(r) ==
  /\ At(r, "CHANGING")
  /\ Finish(r)
  /\ IF customer.password = call[r].seen
       THEN /\ customer' = [customer EXCEPT !.password = call[r].password]
            /\ Revoke(SessionIds \ {call[r].session})
       ELSE UNCHANGED <<customer, session>>
  /\ UNCHANGED <<failures, lock, presented>>

(* The process dies under a request.                                       *)
AbandonCall(r) ==
  /\ call[r] \notin {Waiting, Served}
  /\ Finish(r)
  /\ UNCHANGED <<customer, failures, lock, session, presented>>

(* No code writes loginEnabled: it is set in the database.                 *)
SetLoginEnabled ==
  /\ customer.signedUp
  /\ customer' = [customer EXCEPT !.loginEnabled = ~@]
  /\ UNCHANGED <<failures, lock, session, call, presented>>

CallStep(r) ==
  \/ \E p \in Passwords : BeginRegistration(r, p) \/ BeginLogin(r, p)
  \/ Register(r) \/ GoogleSignIn(r) \/ Login(r) \/ FailLogin(r) \/ LockOut(r)
  \/ \E s \in SessionIds :
       \/ EstablishSession(r, s)
       \/ \E v \in Tokens(s) : BeginRefresh(r, s, v)
       \/ \E p, q \in Passwords : BeginChange(r, s, p, q)
  \/ Rotate(r) \/ RefreshDenied(r) \/ ChangePassword(r) \/ AbandonCall(r)

SessionNext ==
  \/ \E r \in Calls : CallStep(r)
  \/ \E s \in SessionIds : Logout(s) \/ LogoutAll(s)
  \/ \E s, t \in SessionIds : RevokeSession(s, t)
  \/ LockRunsOut \/ SetLoginEnabled

SessionSpec == SessionInit /\ [][SessionNext]_sessionVars

-----------------------------------------------------------------------------
SessionTypeOK ==
  /\ customer \in [signedUp : BOOLEAN, password : Passwords \cup {NoPassword},
                   linked : BOOLEAN, loginEnabled : BOOLEAN, gmail : BOOLEAN]
  /\ failures \in Nat
  /\ lock \in {"NONE", "RUNNING", "OVER"}
  /\ session \in [SessionIds -> [version : Nat \cup {-1}, revoked : BOOLEAN]]
  /\ presented \subseteq Calls \X SessionIds \X Nat

(* Two requests with one token leave no session.                          *)
OneExchangePerToken ==
  \A p, q \in presented :
    p[1] # q[1] /\ p[2] = q[2] /\ p[3] = q[3] => session[p[2]].revoked

(* auth.service.ts refresh: a refresh token is good for one exchange.  As  *)
(* soon as two requests came with the same one, however they interleaved,  *)
(* the session it belongs to is over; and a session that is over, by a     *)
(* log-out, a password change or a reused token, is not revived or renewed *)
(* by a request that read it before.                                       *)
ReuseEndsTheFamily ==
  /\ []OneExchangePerToken
  /\ [][\A s \in SessionIds : session[s].revoked => session'[s] = session[s]]_sessionVars
=============================================================================

--------------------------- MODULE Services_proofs ---------------------------
(***************************************************************************)
(* The safety of the services and clients that share no state with each    *)
(* other (MCServices composes them for TLC), each for any number of its    *)
(* users, workers, connections and requests.  Every part has the same      *)
(* shape: the inductive invariant as named conjuncts, that it holds at the *)
(* start, one lemma for each group of actions, and the theorem.            *)
(***************************************************************************)
EXTENDS Sessions, Changes, OutboxPublisher, AccountStream, Verification, AdminKeys, Readiness,
        Community, MarketStreams, SampledPrices, PendingCommands, Pages, Notices, PaperTrading,
        Ledger_proofs, SequenceTheorems

-----------------------------------------------------------------------------
(* Sessions                                                                *)

RowsTypeOK ==
  /\ session \in [SessionIds -> [version : Int, revoked : BOOLEAN]]
  /\ presented \in SUBSET (Calls \X SessionIds \X Nat)
  /\ call = [r \in Calls |-> call[r]]
  /\ \A s \in SessionIds : session[s].version >= -1
  /\ \A s \in SessionIds : ~Exists(s) <=> session[s].version = -1

(* A refresh has read a session as it was then, and its token had come     *)
(* into being; versions only grow.                                         *)
RefreshesReadTokens ==
  \A r \in Calls : At(r, "REFRESHING") =>
    /\ call[r].session \in SessionIds
    /\ call[r].version \in Nat /\ call[r].seen \in Nat
    /\ call[r].seen <= session[call[r].session].version

(* Of a live session no token has been presented but older ones.           *)
PresentedAreOld ==
  \A p \in presented : ~session[p[2]].revoked => p[3] < session[p[2]].version

SessionIInv == /\ RowsTypeOK /\ RefreshesReadTokens /\ PresentedAreOld
               /\ OneExchangePerToken

LEMMA SessionsStart == SessionInit => SessionIInv
BY DEF SessionInit, SessionIInv, RowsTypeOK, RefreshesReadTokens, PresentedAreOld,
       OneExchangePerToken, NoSession, Waiting, Exists, At

(* What becomes of a session: it is renewed or ended while it lives, and   *)
(* it stays as it is once it is over.                                      *)
SessionGoesOn(old, new) ==
  /\ new.version >= old.version
  /\ old.revoked => new = old
  /\ new \in [version : Int, revoked : BOOLEAN]
  /\ new.version = -1 => new = old

LEMMA RevokingEnds ==
  ASSUME RowsTypeOK, NEW S, Revoke(S)
  PROVE  /\ session' \in [SessionIds -> [version : Int, revoked : BOOLEAN]]
         /\ \A s \in SessionIds : SessionGoesOn(session[s], session'[s])
         /\ \A s \in S \cap SessionIds : Exists(s) => session'[s].revoked
<1>1. \A t \in SessionIds : /\ session[t] \in [version : Int, revoked : BOOLEAN]
                            /\ [session[t] EXCEPT !.revoked = TRUE]
                                 \in [version : Int, revoked : BOOLEAN]
                            /\ [session[t] EXCEPT !.revoked = TRUE].version
                                 = session[t].version
                            /\ session[t].revoked =>
                                 [session[t] EXCEPT !.revoked = TRUE] = session[t]
  BY DEF RowsTypeOK
<1>2. session' = [t \in SessionIds |->
                    IF t \in S /\ Exists(t) THEN [session[t] EXCEPT !.revoked = TRUE]
                    ELSE session[t]]
  BY DEF Revoke
<1>3. session' \in [SessionIds -> [version : Int, revoked : BOOLEAN]]
  BY <1>1, <1>2
<1>4. ASSUME NEW s \in SessionIds
      PROVE  /\ SessionGoesOn(session[s], session'[s])
             /\ s \in S /\ Exists(s) => session'[s].revoked
  <2>1. session'[s] = IF s \in S /\ Exists(s) THEN [session[s] EXCEPT !.revoked = TRUE]
                      ELSE session[s]
    BY <1>2
  <2>2. CASE s \in S /\ Exists(s)
    <3>1. session[s].version # -1
      BY <2>2 DEF RowsTypeOK
    <3> QED BY <1>1, <2>1, <2>2, <3>1 DEF SessionGoesOn
  <2>3. CASE ~(s \in S /\ Exists(s))
    BY <1>1, <2>1, <2>3 DEF SessionGoesOn
  <2> QED BY <2>2, <2>3
<1> QED BY <1>3, <1>4

(* As long as sessions only go on, refreshes read what was there and a     *)
(* token presented before is old.                                          *)
LEMMA GoingOn ==
  ASSUME SessionIInv,
         session' \in [SessionIds -> [version : Int, revoked : BOOLEAN]],
         \A s \in SessionIds : SessionGoesOn(session[s], session'[s])
  PROVE  /\ \A s \in SessionIds : session'[s].version >= -1
         /\ \A p \in presented : ~session'[p[2]].revoked => p[3] < session'[p[2]].version
         /\ \A p, q \in presented :
              p[1] # q[1] /\ p[2] = q[2] /\ p[3] = q[3] => session'[p[2]].revoked
         /\ \A r \in Calls : At(r, "REFRESHING") =>
              call[r].seen <= session'[call[r].session].version
<1> USE DEF SessionIInv, RowsTypeOK
<1>1. \A s \in SessionIds : session[s].version \in Int /\ session'[s].version \in Int
                            /\ session[s].revoked \in BOOLEAN
  OBVIOUS
<1>2. \A s \in SessionIds : /\ session'[s].version >= session[s].version
                            /\ session[s].revoked => session'[s].revoked
  BY DEF SessionGoesOn
<1>3. ASSUME NEW p \in presented
      PROVE  /\ p[2] \in SessionIds /\ p[3] \in Nat
             /\ ~session[p[2]].revoked => p[3] < session[p[2]].version
  BY DEF PresentedAreOld
<1>4. ASSUME NEW p \in presented, ~session'[p[2]].revoked
      PROVE  p[3] < session'[p[2]].version
  <2>1. ~session[p[2]].revoked
    BY <1>2, <1>3, <1>4
  <2> QED BY <1>1, <1>2, <1>3, <2>1
<1>5. ASSUME NEW p \in presented, NEW q \in presented,
             p[1] # q[1], p[2] = q[2], p[3] = q[3]
      PROVE  session'[p[2]].revoked
  BY <1>2, <1>3, <1>5 DEF OneExchangePerToken
<1>6. ASSUME NEW r \in Calls, At(r, "REFRESHING")
      PROVE  call[r].seen <= session'[call[r].session].version
  BY <1>1, <1>2, <1>6 DEF RefreshesReadTokens
<1> QED BY <1>1, <1>2, <1>4, <1>5, <1>6

(* A step that renews or ends sessions, presents no token, and begins no   *)
(* refresh.                                                                *)
LEMMA OthersKeepSessions ==
  ASSUME SessionIInv,
         session' \in [SessionIds -> [version : Int, revoked : BOOLEAN]],
         \A s \in SessionIds : SessionGoesOn(session[s], session'[s]),
         presented' = presented,
         \/ call' = call
         \/ \E r \in Calls : \E state : /\ call' = [call EXCEPT ![r] = state]
                                    /\ state.step # "REFRESHING"
  PROVE  SessionIInv'
<1> USE DEF SessionIInv
<1>1. /\ \A s \in SessionIds : session'[s].version >= -1
      /\ \A p \in presented : ~session'[p[2]].revoked => p[3] < session'[p[2]].version
      /\ \A p, q \in presented :
           p[1] # q[1] /\ p[2] = q[2] /\ p[3] = q[3] => session'[p[2]].revoked
      /\ \A r \in Calls : At(r, "REFRESHING") =>
           call[r].seen <= session'[call[r].session].version
  BY GoingOn
<1>2. \A s \in SessionIds : session'[s] = NoSession <=> session'[s].version = -1
  BY DEF SessionGoesOn, RowsTypeOK, Exists, NoSession
<1>3. \A r \in Calls : call'[r].step = "REFRESHING" => call'[r] = call[r]
  BY DEF RowsTypeOK
<1>4. call' = [r \in Calls |-> call'[r]]
  BY DEF RowsTypeOK
<1>5. RowsTypeOK'
  BY <1>1, <1>2, <1>4 DEF RowsTypeOK, Exists
<1>6. RefreshesReadTokens'
  BY <1>1, <1>3 DEF RefreshesReadTokens, At
<1>7. PresentedAreOld' /\ OneExchangePerToken'
  BY <1>1 DEF PresentedAreOld, OneExchangePerToken
<1> QED BY <1>5, <1>6, <1>7

LEMMA UnchangedGoOn ==
  ASSUME SessionIInv, session' = session
  PROVE  /\ session' \in [SessionIds -> [version : Int, revoked : BOOLEAN]]
         /\ \A s \in SessionIds : SessionGoesOn(session[s], session'[s])
BY DEF SessionIInv, RowsTypeOK, SessionGoesOn

LEMMA BeginRefreshKeepsSessions ==
  ASSUME SessionIInv, NEW r \in Calls, NEW s \in SessionIds, NEW v \in Tokens(s),
         BeginRefresh(r, s, v)
  PROVE  SessionIInv'
<1> USE DEF SessionIInv
<1> DEFINE state == [step |-> "REFRESHING", session |-> s, version |-> v,
                     seen |-> session[s].version, enabled |-> customer.loginEnabled]
<1>1. /\ call' = [call EXCEPT ![r] = state] /\ session' = session /\ presented' = presented
      /\ Exists(s)
  BY DEF BeginRefresh, Continue, Live
<1>2. session[s].version \in Nat /\ v \in Nat
  BY <1>1 DEF RowsTypeOK, Tokens
<1>3. /\ state.session = s /\ state.version = v /\ state.seen = session[s].version
  OBVIOUS
<1> HIDE DEF state
<1>4. /\ call'[r] = state /\ \A q \in Calls : q # r => call'[q] = call[q]
      /\ call' = [q \in Calls |-> call'[q]]
  BY <1>1 DEF RowsTypeOK
<1>5. RowsTypeOK'
  BY <1>1, <1>4 DEF RowsTypeOK, Exists
<1>6. RefreshesReadTokens'
  BY <1>1, <1>2, <1>3, <1>4 DEF RefreshesReadTokens, At
<1>7. PresentedAreOld' /\ OneExchangePerToken'
  BY <1>1 DEF PresentedAreOld, OneExchangePerToken
<1> QED BY <1>5, <1>6, <1>7

(* A new session replaces none.                                            *)
LEMMA EstablishingGoesOn ==
  ASSUME SessionIInv, NEW r \in Calls, NEW s \in SessionIds, EstablishSession(r, s)
  PROVE  /\ session' \in [SessionIds -> [version : Int, revoked : BOOLEAN]]
         /\ \A t \in SessionIds : SessionGoesOn(session[t], session'[t])
<1> DEFINE fresh == [version |-> 0, revoked |-> FALSE]
<1>1. session' = [session EXCEPT ![s] = fresh] /\ session[s] = NoSession
  BY DEF EstablishSession, Exists
<1>2. fresh \in [version : Int, revoked : BOOLEAN] /\ fresh.version = 0
  OBVIOUS
<1>3. session[s].version = -1 /\ session[s].revoked = FALSE
  BY <1>1 DEF NoSession
<1> HIDE DEF fresh
<1>4. SessionGoesOn(session[s], fresh)
  BY <1>2, <1>3 DEF SessionGoesOn
<1> QED BY <1>1, <1>2, <1>4 DEF SessionIInv, RowsTypeOK, SessionGoesOn

(* A refresh presents its token: the session is renewed, and the token old,*)
(* or the session is over.                                                 *)
LEMMA PresentingKeepsSessions ==
  ASSUME SessionIInv, NEW r \in Calls, At(r, "REFRESHING"), Present(r), Finish(r),
         session' \in [SessionIds -> [version : Int, revoked : BOOLEAN]],
         \A s \in SessionIds : SessionGoesOn(session[s], session'[s]),
         \/ session'[call[r].session].revoked
         \/ /\ call[r].version = session[call[r].session].version
            /\ ~session[call[r].session].revoked
            /\ session'[call[r].session].version = call[r].version + 1
  PROVE  SessionIInv'
<1> USE DEF SessionIInv
<1> DEFINE s == call[r].session
           v == call[r].version
           token == <<r, s, v>>
<1>1. /\ \A t \in SessionIds : session'[t].version >= -1
      /\ \A p \in presented : ~session'[p[2]].revoked => p[3] < session'[p[2]].version
      /\ \A p, q \in presented :
           p[1] # q[1] /\ p[2] = q[2] /\ p[3] = q[3] => session'[p[2]].revoked
      /\ \A q \in Calls : At(q, "REFRESHING") =>
           call[q].seen <= session'[call[q].session].version
  BY GoingOn
<1>2. \A t \in SessionIds : session'[t] = NoSession <=> session'[t].version = -1
  BY DEF SessionGoesOn, RowsTypeOK, Exists, NoSession
<1>3. call' = [call EXCEPT ![r] = Served] /\ Served.step # "REFRESHING"
  BY DEF Finish, Continue, Served
<1>4. /\ \A q \in Calls : call'[q].step = "REFRESHING" => call'[q] = call[q]
      /\ call' = [q \in Calls |-> call'[q]]
  BY <1>3 DEF RowsTypeOK
<1>5. presented' = presented \cup {token} /\ s \in SessionIds /\ v \in Nat
      /\ token[1] = r /\ token[2] = s /\ token[3] = v
  BY DEF Present, RefreshesReadTokens
<1>6. session[s].version \in Int /\ session'[s].version \in Int
  BY <1>5 DEF RowsTypeOK
<1>7. presented' \in SUBSET (Calls \X SessionIds \X Nat)
  BY <1>5 DEF RowsTypeOK
<1>8. \/ session'[s].revoked
      \/ v = session[s].version /\ ~session[s].revoked /\ session'[s].version = v + 1
  OBVIOUS
<1> HIDE DEF s, v, token
<1>9. RowsTypeOK'
  BY <1>1, <1>2, <1>4, <1>7 DEF RowsTypeOK, Exists
<1>10. RefreshesReadTokens'
  BY <1>1, <1>4 DEF RefreshesReadTokens, At
<1>11. PresentedAreOld'
  BY <1>1, <1>5, <1>6, <1>8 DEF PresentedAreOld
<1>12. ASSUME NEW p \in presented, p[2] = s, p[3] = v
       PROVE  session'[s].revoked
  <2>1. ~(~session[s].revoked /\ v = session[s].version)
    BY <1>5, <1>6, <1>12 DEF PresentedAreOld
  <2> QED BY <1>8, <2>1
<1>13. OneExchangePerToken'
  BY <1>1, <1>5, <1>12 DEF OneExchangePerToken
<1> QED BY <1>9, <1>10, <1>11, <1>13

LEMMA RefreshKeepsSessions ==
  ASSUME SessionIInv, NEW r \in Calls, Rotate(r) \/ RefreshDenied(r)
  PROVE  /\ SessionIInv'
         /\ \A s \in SessionIds : SessionGoesOn(session[s], session'[s])
<1>1. /\ At(r, "REFRESHING") /\ call[r].session \in SessionIds /\ call[r].version \in Nat
      /\ call[r].seen \in Nat /\ call[r].seen <= session[call[r].session].version
  BY DEF SessionIInv, RefreshesReadTokens, Rotate, RefreshDenied
<1> DEFINE s == call[r].session
<1>2. CASE Rotate(r)
  <2> DEFINE x == session[s]
             n == call[r].seen + 1
             new == [x EXCEPT !.version = n]
  <2>1. /\ session' = [session EXCEPT ![s] = new]
        /\ call[r].version = call[r].seen /\ x.version = call[r].seen /\ ~x.revoked
        /\ Present(r) /\ Finish(r)
    BY <1>2 DEF Rotate, MayRotate
  <2>2. x \in [version : Int, revoked : BOOLEAN] /\ n \in Int
    BY <1>1 DEF SessionIInv, RowsTypeOK
  <2>3. n >= x.version /\ n # -1
    BY <1>1, <2>1
  <2> HIDE DEF x, n
  <2>4. new \in [version : Int, revoked : BOOLEAN] /\ new.version = n /\ ~new.revoked
    BY <2>1, <2>2
  <2>5. SessionGoesOn(x, new)
    BY <2>1, <2>3, <2>4 DEF SessionGoesOn
  <2> HIDE DEF new
  <2>6. /\ session' \in [SessionIds -> [version : Int, revoked : BOOLEAN]]
        /\ session'[s] = new /\ \A t \in SessionIds : t # s => session'[t] = session[t]
    BY <1>1, <2>1, <2>4 DEF SessionIInv, RowsTypeOK
  <2>7. \A t \in SessionIds : SessionGoesOn(session[t], session'[t])
    <3>1. \A t \in SessionIds : SessionGoesOn(session[t], session[t])
      BY DEF SessionIInv, RowsTypeOK, SessionGoesOn
    <3> QED BY <2>5, <2>6, <3>1 DEF x
  <2>8. session'[s].version = call[r].version + 1
    BY <2>1, <2>4, <2>6 DEF n
  <2> QED BY <1>1, <2>1, <2>6, <2>7, <2>8, PresentingKeepsSessions DEF x
<1>3. CASE RefreshDenied(r)
  <2>1. Revoke({s}) /\ Present(r) /\ Finish(r)
    BY <1>3 DEF RefreshDenied
  <2>2. Exists(s)
    BY <1>1 DEF SessionIInv, RowsTypeOK
  <2>3. /\ session' \in [SessionIds -> [version : Int, revoked : BOOLEAN]]
        /\ \A t \in SessionIds : SessionGoesOn(session[t], session'[t])
        /\ session'[s].revoked
    BY <1>1, <2>1, <2>2, RevokingEnds DEF SessionIInv
  <2> QED BY <1>1, <2>1, <2>3, PresentingKeepsSessions
<1> QED BY <1>2, <1>3

(* Every step keeps the invariant, and sessions only go on.                *)
LEMMA SessionsStay ==
  ASSUME SessionIInv, [SessionNext]_sessionVars
  PROVE  /\ SessionIInv'
         /\ \A s \in SessionIds : SessionGoesOn(session[s], session'[s])
<1>1. CASE UNCHANGED sessionVars
  BY <1>1, UnchangedGoOn, OthersKeepSessions DEF sessionVars
<1>2. ASSUME NEW r \in Calls, NEW p \in Passwords, BeginRegistration(r, p) \/ BeginLogin(r, p)
      PROVE  /\ SessionIInv'
             /\ \A s \in SessionIds : SessionGoesOn(session[s], session'[s])
  <2> DEFINE a == [step |-> "REGISTERING", password |-> p]
             b == [step |-> "VERIFYING", password |-> p, row |-> customer]
  <2>1. a.step # "REFRESHING" /\ b.step # "REFRESHING"
    OBVIOUS
  <2> HIDE DEF a, b
  <2>2. /\ session' = session /\ presented' = presented
        /\ call' = [call EXCEPT ![r] = a] \/ call' = [call EXCEPT ![r] = b]
    BY <1>2 DEF BeginRegistration, BeginLogin, Continue, a, b
  <2>3. /\ session' \in [SessionIds -> [version : Int, revoked : BOOLEAN]]
        /\ \A s \in SessionIds : SessionGoesOn(session[s], session'[s])
    BY <2>2, UnchangedGoOn
  <2>4. \E q \in Calls : \E state : call' = [call EXCEPT ![q] = state] /\ state.step # "REFRESHING"
    BY <2>1, <2>2
  <2> QED BY <2>2, <2>3, <2>4, OthersKeepSessions
<1>3. ASSUME NEW r \in Calls,
             \/ Register(r) \/ GoogleSignIn(r) \/ Login(r) \/ FailLogin(r) \/ LockOut(r)
             \/ AbandonCall(r)
      PROVE  /\ SessionIInv'
             /\ \A s \in SessionIds : SessionGoesOn(session[s], session'[s])
  <2> DEFINE a == [step |-> "ESTABLISHING"]
             b == [step |-> "LOCKING"]
  <2>1. a.step # "REFRESHING" /\ b.step # "REFRESHING" /\ Served.step # "REFRESHING"
    BY DEF Served
  <2> HIDE DEF a, b
  <2>2. /\ session' = session /\ presented' = presented
        /\ \/ call' = [call EXCEPT ![r] = a] \/ call' = [call EXCEPT ![r] = b]
           \/ call' = [call EXCEPT ![r] = Served]
    BY <1>3 DEF Register, GoogleSignIn, Login, FailLogin, LockOut, AbandonCall, SignedIn,
                Finish, Continue, a, b
  <2>3. /\ session' \in [SessionIds -> [version : Int, revoked : BOOLEAN]]
        /\ \A s \in SessionIds : SessionGoesOn(session[s], session'[s])
    BY <2>2, UnchangedGoOn
  <2>4. \E q \in Calls : \E state : call' = [call EXCEPT ![q] = state] /\ state.step # "REFRESHING"
    BY <2>1, <2>2
  <2> QED BY <2>2, <2>3, <2>4, OthersKeepSessions
<1>4. ASSUME NEW r \in Calls, NEW s \in SessionIds, EstablishSession(r, s)
      PROVE  /\ SessionIInv'
             /\ \A t \in SessionIds : SessionGoesOn(session[t], session'[t])
  <2>1. presented' = presented /\ call' = [call EXCEPT ![r] = Served]
        /\ Served.step # "REFRESHING"
    BY <1>4 DEF EstablishSession, Finish, Continue, Served
  <2> QED BY <1>4, <2>1, EstablishingGoesOn, OthersKeepSessions
<1>5. ASSUME NEW r \in Calls, NEW s \in SessionIds, NEW v \in Tokens(s), BeginRefresh(r, s, v)
      PROVE  /\ SessionIInv'
             /\ \A t \in SessionIds : SessionGoesOn(session[t], session'[t])
  BY <1>5, BeginRefreshKeepsSessions, UnchangedGoOn DEF BeginRefresh
<1>6. ASSUME NEW r \in Calls, NEW s \in SessionIds, NEW p, NEW q, BeginChange(r, s, p, q)
      PROVE  /\ SessionIInv'
             /\ \A t \in SessionIds : SessionGoesOn(session[t], session'[t])
  <2> DEFINE a == [step |-> "CHANGING", session |-> s, seen |-> p, password |-> q]
  <2>1. a.step # "REFRESHING"
    OBVIOUS
  <2> HIDE DEF a
  <2>2. session' = session /\ presented' = presented /\ call' = [call EXCEPT ![r] = a]
    BY <1>6 DEF BeginChange, Continue, a
  <2>3. /\ session' \in [SessionIds -> [version : Int, revoked : BOOLEAN]]
        /\ \A t \in SessionIds : SessionGoesOn(session[t], session'[t])
    BY <2>2, UnchangedGoOn
  <2> QED BY <2>1, <2>2, <2>3, OthersKeepSessions
<1>7. ASSUME NEW r \in Calls, Rotate(r) \/ RefreshDenied(r)
      PROVE  /\ SessionIInv'
             /\ \A t \in SessionIds : SessionGoesOn(session[t], session'[t])
  BY <1>7, RefreshKeepsSessions
<1>8. ASSUME NEW r \in Calls, ChangePassword(r)
      PROVE  /\ SessionIInv'
             /\ \A t \in SessionIds : SessionGoesOn(session[t], session'[t])
  <2>1. presented' = presented /\ call' = [call EXCEPT ![r] = Served]
        /\ Served.step # "REFRESHING"
    BY <1>8 DEF ChangePassword, Finish, Continue, Served
  <2>2. session' = session \/ \E S : Revoke(S)
    BY <1>8 DEF ChangePassword
  <2>3. /\ session' \in [SessionIds -> [version : Int, revoked : BOOLEAN]]
        /\ \A t \in SessionIds : SessionGoesOn(session[t], session'[t])
    <3>1. CASE session' = session
      BY <3>1, UnchangedGoOn
    <3>2. ASSUME NEW S, Revoke(S)
          PROVE  /\ session' \in [SessionIds -> [version : Int, revoked : BOOLEAN]]
                 /\ \A t \in SessionIds : SessionGoesOn(session[t], session'[t])
      BY <3>2, RevokingEnds DEF SessionIInv
    <3> QED BY <2>2, <3>1, <3>2
  <2> QED BY <2>1, <2>3, OthersKeepSessions
<1>9. ASSUME \/ \E s \in SessionIds : Logout(s) \/ LogoutAll(s)
             \/ \E s, t \in SessionIds : RevokeSession(s, t)
      PROVE  /\ SessionIInv'
             /\ \A t \in SessionIds : SessionGoesOn(session[t], session'[t])
  <2>1. presented' = presented /\ call' = call /\ \E S : Revoke(S)
    BY <1>9 DEF Logout, LogoutAll, RevokeSession
  <2>2. /\ session' \in [SessionIds -> [version : Int, revoked : BOOLEAN]]
        /\ \A t \in SessionIds : SessionGoesOn(session[t], session'[t])
    <3>1. PICK S : Revoke(S)
      BY <2>1
    <3> QED BY <3>1, RevokingEnds DEF SessionIInv
  <2> QED BY <2>1, <2>2, OthersKeepSessions
<1>10. CASE LockRunsOut \/ SetLoginEnabled
  BY <1>10, UnchangedGoOn, OthersKeepSessions DEF LockRunsOut, SetLoginEnabled
<1>11. CASE \E r \in Calls : CallStep(r)
  BY <1>2, <1>3, <1>4, <1>5, <1>6, <1>7, <1>8, <1>11 DEF CallStep
<1> QED BY <1>1, <1>9, <1>10, <1>11 DEF SessionNext

(* AuthService, refresh: a refresh token is good for one exchange, however *)
(* requests interleave, and a session that is over stays as it is, for any *)
(* number of sessions, requests and passwords.                             *)
THEOREM ReuseEndsSessions == SessionSpec => ReuseEndsTheFamily
<1>1. SessionIInv /\ [SessionNext]_sessionVars => SessionIInv'
  BY SessionsStay
<1>2. SessionIInv => OneExchangePerToken
  BY DEF SessionIInv
<1>3. SessionIInv /\ [SessionNext]_sessionVars
        => [\A s \in SessionIds : session[s].revoked => session'[s] = session[s]]_sessionVars
  BY SessionsStay DEF SessionGoesOn
<1> QED BY <1>1, <1>2, <1>3, SessionsStart, PTL DEF SessionSpec, ReuseEndsTheFamily

-----------------------------------------------------------------------------
(* Changes                                                                 *)

Shown(id, c) ==
  c = [status |-> c.status, target |-> c.target, payload |-> c.payload,
       seen |-> c.seen, maker |-> c.maker, reviewer |-> c.reviewer]

ChangesIInv ==
  /\ setting = [t \in Records |-> setting[t]]
  /\ holds = [o \in Operators |-> holds[o]]
  /\ change = [id \in ChangeIds |-> change[id]]
  /\ \A id \in ChangeIds : change[id].status # "NONE" => Shown(id, change[id])

LEMMA ChangesStart == ChangesInit => ChangesIInv
BY ChangesAssumption DEF ChangesInit, ChangesIInv, NoChange

(* What a review leaves of a change.                                       *)
LEMMA ReviewedKeepsTheRest ==
  ASSUME ChangesIInv, NEW o, NEW id \in ChangeIds, NEW status, status # "NONE",
         change[id].status = "PENDING", Reviewed(o, id, status)
  PROVE  /\ change'[id] = [status |-> status, target |-> change[id].target,
                           payload |-> change[id].payload, seen |-> change[id].seen,
                           maker |-> change[id].maker, reviewer |-> o]
         /\ change' = [i \in ChangeIds |-> change'[i]]
         /\ \A i \in ChangeIds : change'[i].status # "NONE" => Shown(i, change'[i])
<1> DEFINE c == change[id]
           new == [status |-> status, target |-> c.target, payload |-> c.payload,
                   seen |-> c.seen, maker |-> c.maker, reviewer |-> o]
<1>1. c = [status |-> c.status, target |-> c.target, payload |-> c.payload,
           seen |-> c.seen, maker |-> c.maker, reviewer |-> c.reviewer]
  BY DEF ChangesIInv, Shown
<1>2. [[c EXCEPT !.status = status] EXCEPT !.reviewer = o] = new
  <2>1. PICK a, t, p, n, m, v :
          c = [status |-> a, target |-> t, payload |-> p, seen |-> n, maker |-> m, reviewer |-> v]
    BY <1>1
  <2> HIDE DEF c
  <2>2. [c EXCEPT !.status = status]
          = [status |-> status, target |-> t, payload |-> p, seen |-> n, maker |-> m,
             reviewer |-> v]
    BY <2>1
  <2>3. new = [status |-> status, target |-> t, payload |-> p, seen |-> n, maker |-> m,
               reviewer |-> o]
    BY <2>1
  <2> DEFINE first == [c EXCEPT !.status = status]
  <2>4. first = [status |-> status, target |-> t, payload |-> p, seen |-> n, maker |-> m,
                 reviewer |-> v]
    BY <2>2
  <2> HIDE DEF first, new
  <2>5. [first EXCEPT !.reviewer = o] = new
    BY <2>3, <2>4
  <2> QED BY <2>5 DEF first
<1>3. change = [i \in ChangeIds |-> change[i]]
  BY DEF ChangesIInv
<1>4. change' = [change EXCEPT ![id] = [[c EXCEPT !.status = status] EXCEPT !.reviewer = o]]
  BY <1>3 DEF Reviewed
<1>5. change'[id] = new /\ \A i \in ChangeIds : i # id => change'[i] = change[i]
  BY <1>2, <1>3, <1>4
<1>6. Shown(id, new)
  BY DEF Shown
<1>7. change' = [i \in ChangeIds |-> change'[i]]
  BY <1>3, <1>4
<1> QED BY <1>5, <1>6, <1>7 DEF ChangesIInv

(* The property's action, in one step.                                     *)
AppliesAsRequested(t, id) ==
  /\ Approves(id, t)
  /\ change[id].seen = Snapshot(t)
  /\ KindOf(t) \in holds[change[id].maker]
  /\ change'[id].reviewer \notin {t, change[id].maker}
  /\ change[id].maker # t

LEMMA ApprovalApplies ==
  ASSUME ChangesIInv, NEW o \in Operators, NEW id \in ChangeIds, ApproveChange(o, id)
  PROVE  /\ ChangesIInv'
         /\ \A t \in Records \cup Operators :
              (t \in Records /\ setting'[t] # setting[t])
                \/ (t \in Operators /\ holds'[t] # holds[t])
              => AppliesAsRequested(t, id)
<1> DEFINE c == change[id]
<1>1. /\ c.status = "PENDING" /\ c.maker # o /\ Reviewed(o, id, "APPROVED")
      /\ Snapshot(c.target) = c.seen /\ KindOf(c.target) \in holds[c.maker]
      /\ c.target \notin {o, c.maker}
      /\ IF c.target \in Operators THEN ApplyRole(c.target, c.payload)
         ELSE ApplySetting(c.target, c.payload)
  BY DEF ApproveChange, MayApprove, MayReview
<1>2. /\ change'[id].status = "APPROVED" /\ change'[id].reviewer = o
      /\ change' = [i \in ChangeIds |-> change'[i]]
      /\ \A i \in ChangeIds : change'[i].status # "NONE" => Shown(i, change'[i])
  <2>1. change[id].status = "PENDING" /\ "APPROVED" # "NONE"
    BY <1>1
  <2>2. /\ change'[id] = [status |-> "APPROVED", target |-> change[id].target,
                           payload |-> change[id].payload, seen |-> change[id].seen,
                           maker |-> change[id].maker, reviewer |-> o]
        /\ change' = [i \in ChangeIds |-> change'[i]]
        /\ \A i \in ChangeIds : change'[i].status # "NONE" => Shown(i, change'[i])
    <3> HIDE DEF c
    <3> QED BY <1>1, <2>1, ReviewedKeepsTheRest
  <2> QED BY <2>2
<1>3. /\ setting = [t \in Records |-> setting[t]] /\ holds = [x \in Operators |-> holds[x]]
  BY DEF ChangesIInv
<1>4. /\ setting' = [t \in Records |-> setting'[t]] /\ holds' = [x \in Operators |-> holds'[x]]
      /\ \A t \in Records : t # c.target => setting'[t] = setting[t]
      /\ \A x \in Operators : x # c.target => holds'[x] = holds[x]
  <2>1. CASE c.target \in Operators
    BY <1>1, <1>3, <2>1 DEF ApplyRole
  <2>2. CASE c.target \notin Operators
    BY <1>1, <1>3, <2>2 DEF ApplySetting
  <2> QED BY <2>1, <2>2
<1>5. ChangesIInv'
  BY <1>2, <1>4 DEF ChangesIInv
<1>6. AppliesAsRequested(c.target, id)
  BY <1>1, <1>2 DEF AppliesAsRequested, Approves
<1> QED BY <1>4, <1>5, <1>6

(* Every other step writes no record and gives nobody a permission.        *)
LEMMA OthersApplyNothing ==
  ASSUME ChangesIInv,
         \/ UNCHANGED changesVars
         \/ \E o \in Operators :
              \/ Enter(o) \/ TurnedAway(o)
              \/ \E id \in ChangeIds :
                   \/ RejectChange(o, id)
                   \/ \E target \in Records \cup Operators :
                        \E payload \in Payloads(target) : RequestChange(o, id, target, payload)
  PROVE  ChangesIInv' /\ UNCHANGED <<setting, holds>>
<1>1. CASE \/ UNCHANGED changesVars
           \/ \E o \in Operators : Enter(o) \/ TurnedAway(o)
  BY <1>1 DEF changesVars, Enter, TurnedAway, ChangesIInv
<1>2. ASSUME NEW o \in Operators, NEW id \in ChangeIds, RejectChange(o, id)
      PROVE  ChangesIInv' /\ UNCHANGED <<setting, holds>>
  <2>1. change[id].status = "PENDING" /\ Reviewed(o, id, "REJECTED")
        /\ UNCHANGED <<setting, holds>>
    BY <1>2 DEF RejectChange, MayReview
  <2>2. /\ change' = [i \in ChangeIds |-> change'[i]]
        /\ \A i \in ChangeIds : change'[i].status # "NONE" => Shown(i, change'[i])
    BY <2>1, ReviewedKeepsTheRest
  <2> QED BY <2>1, <2>2 DEF ChangesIInv
<1>3. ASSUME NEW o \in Operators, NEW id \in ChangeIds, NEW target, NEW payload,
             RequestChange(o, id, target, payload)
      PROVE  ChangesIInv' /\ UNCHANGED <<setting, holds>>
  <2> DEFINE new == [status |-> "PENDING", target |-> target, payload |-> payload,
                     seen |-> Snapshot(target), maker |-> o, reviewer |-> o]
  <2>1. change' = [change EXCEPT ![id] = new] /\ UNCHANGED <<setting, holds>>
    BY <1>3 DEF RequestChange
  <2>2. Shown(id, new)
    BY DEF Shown
  <2> HIDE DEF new
  <2> QED BY <2>1, <2>2 DEF ChangesIInv
<1> QED BY <1>1, <1>2, <1>3

(* ChangesController, review: whatever a review writes is one change, made *)
(* by another operator who still may, to the record as that operator saw   *)
(* it, for any operators, records and changes.                             *)
THEOREM ChangesAppliedAsRequested == ChangesSpec => AppliedAsRequested
<1>1. ASSUME ChangesIInv, [ChangesNext]_changesVars
      PROVE  /\ ChangesIInv'
             /\ \A t \in Records \cup Operators :
                  (t \in Records /\ setting'[t] # setting[t])
                    \/ (t \in Operators /\ holds'[t] # holds[t])
                  => \E id \in ChangeIds : AppliesAsRequested(t, id)
  BY <1>1, ApprovalApplies, OthersApplyNothing DEF ChangesNext
<1>2. ChangesIInv /\ [ChangesNext]_changesVars => ChangesIInv'
  BY <1>1
<1>3. ChangesIInv /\ [ChangesNext]_changesVars
        => [\A t \in Records \cup Operators :
              (t \in Records /\ setting'[t] # setting[t])
                \/ (t \in Operators /\ holds'[t] # holds[t])
              => \E id \in ChangeIds :
                   /\ Approves(id, t)
                   /\ change[id].seen = Snapshot(t)
                   /\ KindOf(t) \in holds[change[id].maker]
                   /\ change'[id].reviewer \notin {t, change[id].maker}
                   /\ change[id].maker # t]_changesVars
  BY <1>1 DEF AppliesAsRequested
<1> QED BY <1>2, <1>3, ChangesStart, PTL DEF ChangesSpec, AppliedAsRequested

-----------------------------------------------------------------------------
(* OutboxPublisher                                                         *)

(* What a worker takes for delivered was delivered, and only a due event   *)
(* is ever claimed.                                                        *)
TakenWasDelivered ==
  \A w \in Workers : worker[w].outcome = "TAKEN" => worker[w].event \in delivered
ClaimedIsDue ==
  \A e \in Events : row[e].claim \in Workers => row[e].due

OutboxIInv == TypeOK /\ AtLeastOnce /\ TakenWasDelivered /\ ClaimedIsDue

LEMMA OutboxInitInv == Init => OutboxIInv
BY OutboxAssumption
DEF Init, OutboxIInv, TypeOK, RowType, WorkerType, AtLeastOnce, TakenWasDelivered, ClaimedIsDue, NoRow, Idle

(* Steps that leave the workers alone.                                     *)
LEMMA OutboxRowStepsInv ==
  ASSUME OutboxIInv, NEW e \in Events, Enqueue(e) \/ LeaseRunsOut(e) \/ BecomesDue(e)
  PROVE  OutboxIInv'
<1> USE DEF OutboxIInv, TypeOK, RowType, WorkerType, AtLeastOnce, TakenWasDelivered, ClaimedIsDue
<1>1. CASE Enqueue(e)
  BY <1>1, OutboxAssumption DEF Enqueue, NoRow
<1>2. CASE LeaseRunsOut(e)
  BY <1>2 DEF LeaseRunsOut
<1>3. CASE BecomesDue(e)
  BY <1>3 DEF BecomesDue
<1> QED BY <1>1, <1>2, <1>3

LEMMA OutboxClaimInv ==
  ASSUME OutboxIInv, NEW w \in Workers, Claim(w)
  PROVE  OutboxIInv'
<1> USE DEF OutboxIInv, TypeOK, RowType, WorkerType, AtLeastOnce, TakenWasDelivered, ClaimedIsDue
<1> DEFINE batch == {e \in Claimable : Cardinality({f \in Claimable : f < e}) < Limit}
<1>1. /\ worker[w] = Idle
      /\ row' = [e \in Events |->
                   IF e \in batch THEN [row[e] EXCEPT !.claim = w, !.fresh = TRUE] ELSE row[e]]
      /\ worker' = [worker EXCEPT ![w].hand = batch]
      /\ UNCHANGED delivered
  BY DEF Claim
<1>2. batch \subseteq Events /\ \A e \in batch : row[e].state = "PENDING" /\ row[e].due
  BY DEF Claimable
<1> HIDE DEF batch
<1>3. TypeOK'
  <2>1. row' \in [Events -> RowType]
    <3>1. \A e \in Events : [row[e] EXCEPT !.claim = w, !.fresh = TRUE] \in RowType
      BY DEF RowType
    <3>2. \A e \in Events : row[e] \in RowType
      BY DEF RowType
    <3> QED BY <1>1, <3>1, <3>2
  <2>2. [worker[w] EXCEPT !.hand = batch] \in WorkerType
    BY <1>2 DEF WorkerType
  <2>3. worker' \in [Workers -> WorkerType]
    <3>1. worker \in [Workers -> WorkerType]
      BY DEF WorkerType
    <3>2. worker' = [worker EXCEPT ![w] = [worker[w] EXCEPT !.hand = batch]]
      BY <1>1
    <3> QED BY <2>2, <3>1, <3>2
  <2> QED BY <1>1, <2>1, <2>3 DEF RowType, WorkerType
<1>4. AtLeastOnce' /\ ClaimedIsDue'
  BY <1>1, <1>2
<1>5. TakenWasDelivered'
  BY <1>1, <1>2
<1> QED BY <1>3, <1>4, <1>5

LEMMA OutboxDispatchInv ==
  ASSUME OutboxIInv, NEW w \in Workers, NEW e \in Events, Dispatch(w, e)
  PROVE  OutboxIInv'
<1> USE DEF OutboxIInv, TypeOK, RowType, WorkerType, AtLeastOnce, TakenWasDelivered, ClaimedIsDue
<1>1. PICK outcome \in {"TAKEN", "FAILED"}, reached \in BOOLEAN :
        /\ outcome = "TAKEN" => reached
        /\ delivered' = IF reached THEN delivered \cup {e} ELSE delivered
        /\ worker' = [worker EXCEPT ![w] = [hand    |-> worker[w].hand \ {e},
                                            event   |-> e,
                                            outcome |-> outcome]]
  BY DEF Dispatch
<1>2. row' = row
  BY DEF Dispatch
<1>3. TypeOK'
  BY <1>1, <1>2
<1>4. delivered \subseteq delivered' /\ (outcome = "TAKEN" => e \in delivered')
  BY <1>1
<1>5. AtLeastOnce' /\ ClaimedIsDue'
  BY <1>2, <1>4
<1>6. TakenWasDelivered'
  BY <1>1, <1>4
<1> QED BY <1>3, <1>5, <1>6

LEMMA OutboxRecordInv ==
  ASSUME OutboxIInv, NEW w \in Workers, Record(w)
  PROVE  OutboxIInv'
<1> USE DEF OutboxIInv, TypeOK, RowType, WorkerType, AtLeastOnce, TakenWasDelivered, ClaimedIsDue
<1> DEFINE e == worker[w].event
<1>1. /\ e \in Events
      /\ row' = IF row[e].claim = w /\ row[e].state = "PENDING"
                THEN [row EXCEPT ![e] = Recorded(worker[w].outcome)] ELSE row
      /\ worker' = [worker EXCEPT ![w].event = NoEvent, ![w].outcome = "NONE"]
      /\ UNCHANGED delivered
  BY DEF Record
<1>2. Recorded(worker[w].outcome) \in
        [state : {"PENDING", "PUBLISHED"}, claim : {"NONE"}, fresh : {FALSE}, due : {FALSE}]
  BY DEF Recorded, NoRow
<1>3. Recorded(worker[w].outcome).state = "PUBLISHED" => e \in delivered
  BY <1>1 DEF Recorded, NoRow
<1> HIDE DEF e
<1>4. TypeOK'
  <2>1. row' \in [Events -> RowType]
    <3>1. Recorded(worker[w].outcome) \in RowType /\ row \in [Events -> RowType]
      BY <1>2 DEF RowType
    <3> QED BY <1>1, <3>1
  <2>2. worker' \in [Workers -> WorkerType]
    <3>1. worker \in [Workers -> WorkerType]
      BY DEF WorkerType
    <3>2. [worker[w] EXCEPT !.event = NoEvent, !.outcome = "NONE"] \in WorkerType
      BY <3>1 DEF WorkerType
    <3>3. worker' = [worker EXCEPT ![w] =
                       [worker[w] EXCEPT !.event = NoEvent, !.outcome = "NONE"]]
      BY <1>1
    <3> QED BY <3>1, <3>2, <3>3
  <2> QED BY <1>1, <2>1, <2>2 DEF RowType, WorkerType
<1>5. AtLeastOnce'
  BY <1>1, <1>3
<1>6. ClaimedIsDue'
  BY <1>1, <1>2, OutboxAssumption
<1>7. TakenWasDelivered'
  BY <1>1
<1> QED BY <1>4, <1>5, <1>6, <1>7

LEMMA OutboxRecordingFailsInv ==
  ASSUME OutboxIInv, NEW w \in Workers, RecordingFails(w)
  PROVE  OutboxIInv'
BY DEF OutboxIInv, TypeOK, RowType, WorkerType, AtLeastOnce, TakenWasDelivered, ClaimedIsDue, RecordingFails

LEMMA OutboxEndEarlyInv ==
  ASSUME OutboxIInv, NEW w \in Workers, EndEarly(w)
  PROVE  OutboxIInv'
<1> USE DEF OutboxIInv, TypeOK, RowType, WorkerType, AtLeastOnce, TakenWasDelivered, ClaimedIsDue
<1>1. /\ worker' = [worker EXCEPT ![w] = Idle]
      /\ row' = [e \in Events |->
                   IF row[e].claim = w THEN [row[e] EXCEPT !.claim = "ORPHAN"] ELSE row[e]]
      /\ UNCHANGED delivered
  BY DEF EndEarly
<1>2. TypeOK'
  <2>1. worker' \in [Workers -> WorkerType]
    BY <1>1 DEF Idle
  <2>2. row' \in [Events -> RowType]
    BY <1>1
  <2> QED BY <1>1, <2>1, <2>2
<1>3. AtLeastOnce'
  BY <1>1
<1>4. ClaimedIsDue'
  BY <1>1, OutboxAssumption
<1>5. TakenWasDelivered'
  BY <1>1 DEF Idle
<1> QED BY <1>2, <1>3, <1>4, <1>5

LEMMA OutboxNextInv == OutboxIInv /\ [Next]_vars => OutboxIInv'
<1> SUFFICES ASSUME OutboxIInv, [Next]_vars PROVE OutboxIInv'
  OBVIOUS
<1>1. CASE \E e \in Events : Enqueue(e) \/ LeaseRunsOut(e) \/ BecomesDue(e)
  BY <1>1, OutboxRowStepsInv
<1>2. CASE \E w \in Workers : Claim(w)
  BY <1>2, OutboxClaimInv
<1>3. CASE \E w \in Workers : Record(w)
  BY <1>3, OutboxRecordInv
<1>4. CASE \E w \in Workers : RecordingFails(w)
  BY <1>4, OutboxRecordingFailsInv
<1>5. CASE \E w \in Workers : EndEarly(w)
  BY <1>5, OutboxEndEarlyInv
<1>6. CASE \E w \in Workers, e \in Events : Dispatch(w, e)
  BY <1>6, OutboxDispatchInv
<1>7. CASE UNCHANGED vars
  BY <1>7 DEF vars, OutboxIInv, TypeOK, RowType, WorkerType, AtLeastOnce, TakenWasDelivered, ClaimedIsDue
<1> QED BY <1>1, <1>2, <1>3, <1>4, <1>5, <1>6, <1>7 DEF Next

(* OutboxIInv is inductive.                                                *)
THEOREM OutboxInvariance == Spec => []OutboxIInv
<1>1. Spec => Init /\ [][Next]_vars
  BY PTL DEF Spec
<1> QED BY <1>1, OutboxInitInv, OutboxNextInv, PTL

(* What is marked published was handed to the dispatcher, for any number   *)
(* of workers and events and whatever fails.                               *)
THEOREM PublishedWasDelivered == Spec => []AtLeastOnce
<1>1. OutboxIInv => AtLeastOnce
  BY DEF OutboxIInv
<1> QED BY <1>1, OutboxInvariance, PTL

(* While a lease runs, nobody but its batch changes the event's row.       *)
THEOREM LeasesExclude == Spec => LeaseIsExclusive
<1> DEFINE Excludes ==
      \A w \in Workers, e \in Events :
        row[e].claim = w /\ row[e].fresh /\ worker'[w] = worker[w] =>
          [row'[e] EXCEPT !.fresh = TRUE] = row[e]
<1>1. ASSUME OutboxIInv, Next PROVE Excludes
  <2> SUFFICES ASSUME NEW w \in Workers, NEW e \in Events,
                      row[e].claim = w, row[e].fresh, worker'[w] = worker[w]
               PROVE  [row'[e] EXCEPT !.fresh = TRUE] = row[e]
    OBVIOUS
  <2> USE <1>1, OutboxAssumption DEF OutboxIInv, TypeOK, RowType, WorkerType
  <2>1. w # "NONE" /\ w # "ORPHAN" /\ row[e].due
    BY DEF ClaimedIsDue
  <2>2. SUFFICES ASSUME row'[e] # row[e], row'[e] # [row[e] EXCEPT !.fresh = FALSE]
                 PROVE  FALSE
    OBVIOUS
  <2>3. CASE \E x \in Events : Enqueue(x) \/ LeaseRunsOut(x) \/ BecomesDue(x)
    <3>1. PICK x \in Events : Enqueue(x) \/ LeaseRunsOut(x) \/ BecomesDue(x)
      BY <2>3
    <3>2. CASE Enqueue(x)
      BY <2>1, <2>2, <3>2 DEF Enqueue, NoRow
    <3>3. CASE LeaseRunsOut(x)
      BY <2>2, <3>3 DEF LeaseRunsOut
    <3>4. CASE BecomesDue(x)
      BY <2>1, <2>2, <3>4 DEF BecomesDue
    <3> QED BY <3>1, <3>2, <3>3, <3>4
  <2>4. CASE \E v \in Workers : Claim(v)
    <3>1. PICK v \in Workers : Claim(v)
      BY <2>4
    <3> DEFINE batch == {x \in Claimable : Cardinality({f \in Claimable : f < x}) < Limit}
    <3>2. /\ worker[v] = Idle /\ batch # {}
          /\ worker' = [worker EXCEPT ![v].hand = batch]
          /\ e \notin batch => row'[e] = row[e]
      BY <3>1 DEF Claim
    <3>3. e \notin batch
      BY <2>1 DEF Claimable
    <3> QED BY <2>2, <3>2, <3>3
  <2>5. CASE \E v \in Workers : Record(v)
    <3>1. PICK v \in Workers : Record(v)
      BY <2>5
    <3>2. v # w
      <4>1. worker[v].event # NoEvent
        BY <3>1 DEF Record
      <4>2. worker' = [worker EXCEPT ![v].event = NoEvent, ![v].outcome = "NONE"]
        BY <3>1 DEF Record
      <4>3. worker'[v].event = NoEvent
        BY <4>2
      <4> QED BY <4>1, <4>3
    <3>3. worker[v].event = e => row' = row
      BY <3>1, <3>2 DEF Record
    <3>4. worker[v].event # e => row'[e] = row[e]
      BY <3>1 DEF Record
    <3> QED BY <2>2, <3>3, <3>4
  <2>6. CASE \E v \in Workers : EndEarly(v)
    <3>1. PICK v \in Workers : EndEarly(v)
      BY <2>6
    <3>2. v # w
      BY <3>1 DEF EndEarly
    <3> QED BY <2>2, <3>1, <3>2 DEF EndEarly
  <2>7. CASE \E v \in Workers : RecordingFails(v) \/ \E x \in Events : Dispatch(v, x)
    BY <2>2, <2>7 DEF RecordingFails, Dispatch
  <2> QED BY <1>1, <2>3, <2>4, <2>5, <2>6, <2>7 DEF Next
<1>2. ASSUME OutboxIInv, [Next]_vars PROVE [Excludes]_vars
  BY <1>1, <1>2
<1>3. Spec => Init /\ [][Next]_vars
  BY PTL DEF Spec
<1> QED BY <1>2, <1>3, OutboxInvariance, PTL DEF LeaseIsExclusive

-----------------------------------------------------------------------------
(* AccountStream                                                           *)

RecoveryForm == [next : Nat, upto : Int, complete : BOOLEAN]
AppForm == [last : Nat \cup {Unset}, known : Nat, recovering : BOOLEAN, live : SUBSET Int,
            recoveries : Seq(RecoveryForm)]
PacketForm ==
  [kind : {"SNAPSHOT"}, version : Nat] \cup [kind : {"EVENT"}, sequence : Int]
    \cup [kind : {"RECOVERY", "ANSWER"}, after : Int, upto : Int, latest : Int]
    \cup [kind : {"REFUSED"}]
ReadForm ==
  {Nothing} \cup [step : {"READ"}, latest : Int] \cup [step : {"READ"}, after : Int]
    \cup [step : {"READ"}, after : Int, latest : Int]

LinkTypeOK ==
  /\ latest \in Nat
  /\ link \in [state : {"NONE", "DOWN", "OPENING", "UP"}, after : Int]
  /\ sent \in Int /\ request \in Int
  /\ packets \in Seq(PacketForm)
  /\ reading \in [Server -> ReadForm]
  /\ reading["CONNECT"] # Nothing => reading["CONNECT"].latest \in Int
  /\ reading["POLL"] # Nothing => reading["POLL"].after \in Int
  /\ reading["RECOVER"] # Nothing =>
       reading["RECOVER"].after \in Int /\ reading["RECOVER"].latest \in Int

(* Before the app subscribes nothing is on its way to it.                  *)
QuietBefore ==
  link.state = "NONE" =>
    packets = <<>> /\ app.recoveries = <<>> /\ \A h \in Server : reading[h] = Nothing

Received(a) == IF a.last = Unset THEN 0 ELSE a.last

(* The app a, having shown some events, counts as received only what it    *)
(* has, and recovers nothing beyond.                                       *)
AppInOrder(a, done) ==
  /\ a \in AppForm
  /\ \A i \in 1 .. Len(a.recoveries) : a.recoveries[i].next <= Received(a)
  /\ \A e \in (a.known + 1) .. Received(a) :
       \/ e \in done \cup a.live
       \/ \E i \in 1 .. Len(a.recoveries) :
            a.recoveries[i].next <= e /\ e <= a.recoveries[i].upto

StreamIInv == LinkTypeOK /\ QuietBefore /\ AppInOrder(app, shown)

LEMMA StreamStarts == StreamInit => StreamIInv
<1> SUFFICES ASSUME StreamInit PROVE StreamIInv
  OBVIOUS
<1> USE DEF StreamInit
<1>1. LinkTypeOK
  <2>1. latest \in Nat /\ sent \in Int /\ request \in Int /\ packets \in Seq(PacketForm)
    BY DEF Unset
  <2>2. link \in [state : {"NONE", "DOWN", "OPENING", "UP"}, after : Int]
    BY DEF Unset
  <2>3. reading \in [Server -> ReadForm] /\ \A h \in Server : reading[h] = Nothing
    BY DEF ReadForm
  <2> QED BY <2>1, <2>2, <2>3 DEF LinkTypeOK, Server
<1>2. QuietBefore
  BY DEF QuietBefore
<1>3. app \in AppForm /\ app.recoveries = <<>> /\ Received(app) = 0 /\ app.known = 0
  BY DEF AppForm, Unset, Received
<1>4. AppInOrder(app, shown)
  <2>1. 1 .. Len(app.recoveries) = {} /\ (app.known + 1) .. Received(app) = {}
    BY <1>3
  <2> QED BY <1>3, <2>1 DEF AppInOrder
<1> QED BY <1>1, <1>2, <1>4 DEF StreamIInv

(* What the server puts on the connection.                                 *)
LEMMA EmitTyped ==
  ASSUME LinkTypeOK, NEW s \in Seq(PacketForm), Emit(s)
  PROVE  packets' \in Seq(PacketForm)
BY ConcatProperties DEF Emit, LinkTypeOK

LEMMA RecoveredTyped ==
  ASSUME LinkTypeOK, NEW kind \in {"RECOVERY", "ANSWER"}, NEW after \in Int, NEW l \in Int
  PROVE  /\ Recovered(kind, after, l) \in PacketForm
         /\ Recovered(kind, after, l).upto \in Int
<1>1. UpTo(after, RecoverySize) \in Int
  BY StreamAssumption DEF UpTo, Least, LinkTypeOK
<1> QED BY <1>1 DEF Recovered, PacketForm

LEMMA ServerKeepsApp ==
  ASSUME StreamIInv, CommitEvent \/ Drop \/ ServerStep
  PROVE  StreamIInv'
<1> USE DEF StreamIInv, LinkTypeOK
<1>0. app' = app /\ shown' = shown
  BY DEF CommitEvent, Drop, ServerStep, Connect, Welcome, BeginPoll, EndPoll, BeginRecover,
         RecoverRefused, EndRecover
<1>1. AppInOrder(app, shown)'
  BY <1>0 DEF AppInOrder, Received
<1>2. app.last \in Int
  BY DEF AppInOrder, AppForm, Unset
<1>3. {"CONNECT", "POLL", "RECOVER"} = Server /\ Nothing \in ReadForm
  BY DEF Server, ReadForm
<1>4. CASE CommitEvent
  BY <1>0, <1>4 DEF CommitEvent, QuietBefore
<1>5. CASE Drop
  <2>1. /\ link' = [state |-> "DOWN", after |-> app.last] /\ sent' = Unset
        /\ reading' = [h \in Server |-> Nothing] /\ packets' = <<>> /\ request' = Unset
        /\ latest' = latest
    BY <1>5 DEF Drop
  <2>2. LinkTypeOK'
    BY <1>2, <1>3, <2>1 DEF Unset
  <2> QED BY <1>1, <2>1, <2>2 DEF QuietBefore
<1>6. CASE Connect
  <2> DEFINE r == [step |-> "READ", latest |-> latest]
  <2>1. /\ link.state = "DOWN" /\ link' = [link EXCEPT !.state = "OPENING"]
        /\ reading' = [reading EXCEPT !["CONNECT"] = r]
        /\ UNCHANGED <<latest, sent, packets, request>>
    BY <1>6 DEF Connect, Reads
  <2>2. r \in ReadForm /\ r.latest \in Int
    BY DEF ReadForm
  <2> HIDE DEF r
  <2>3. LinkTypeOK'
    BY <1>3, <2>1, <2>2
  <2> QED BY <1>1, <2>1, <2>3 DEF QuietBefore
<1>7. CASE Welcome
  <2>1. reading["CONNECT"] # Nothing /\ link.state # "NONE"
    BY <1>3, <1>7 DEF Welcome, QuietBefore
  <2>2. PICK s \in Seq(PacketForm) : Emit(s) /\ sent' \in Int
    <3>1. reading["CONNECT"].latest \in Int /\ link.after \in Int
      BY <2>1
    <3>2. CASE link.after = Unset
      <4>1. AccountSnapshot \in PacketForm
        BY DEF AccountSnapshot, PacketForm
      <4>2. <<AccountSnapshot>> \in Seq(PacketForm)
        BY <4>1
      <4> QED BY <1>7, <3>1, <3>2, <4>2 DEF Welcome
    <3>3. CASE link.after # Unset
      <4> DEFINE answer == Recovered("RECOVERY", link.after, reading["CONNECT"].latest)
      <4>1. answer \in PacketForm /\ answer.upto \in Int
        BY <3>1, RecoveredTyped
      <4>2. <<answer>> \in Seq(PacketForm)
        BY <4>1
      <4>3. Emit(<<answer>>) /\ sent' = answer.upto
        BY <1>7, <3>3 DEF Welcome
      <4> HIDE DEF answer
      <4> QED BY <4>1, <4>2, <4>3
    <3> QED BY <3>2, <3>3
  <2>3. /\ link' = [link EXCEPT !.state = "UP"]
        /\ reading' = [reading EXCEPT !["CONNECT"] = Nothing]
        /\ UNCHANGED <<latest, request>>
    BY <1>7 DEF Welcome, Reads
  <2>4. packets' \in Seq(PacketForm)
    BY <2>2, EmitTyped
  <2>5. LinkTypeOK'
    BY <1>3, <2>2, <2>3, <2>4
  <2> QED BY <1>1, <2>3, <2>5 DEF QuietBefore
<1>8. CASE BeginPoll
  <2> DEFINE r == [step |-> "READ", after |-> sent]
  <2>1. /\ link.state = "UP" /\ reading' = [reading EXCEPT !["POLL"] = r]
        /\ UNCHANGED <<latest, link, sent, packets, request>>
    BY <1>8 DEF BeginPoll, Reads
  <2>2. r \in ReadForm /\ r.after \in Int
    BY DEF ReadForm
  <2> HIDE DEF r
  <2>3. LinkTypeOK'
    BY <1>3, <2>1, <2>2
  <2> QED BY <1>1, <2>1, <2>3 DEF QuietBefore
<1>9. CASE EndPoll
  <2> DEFINE after == reading["POLL"].after
             upto == UpTo(after, PollSize)
             s == [i \in 1 .. (upto - after) |-> [kind |-> "EVENT", sequence |-> after + i]]
  <2>1. /\ reading["POLL"] # Nothing /\ Emit(s)
        /\ sent' = IF upto > after THEN upto ELSE sent
        /\ reading' = [reading EXCEPT !["POLL"] = Nothing]
        /\ UNCHANGED <<latest, link, request>>
    BY <1>9 DEF EndPoll, Reads
  <2>2. after \in Int /\ link.state # "NONE"
    BY <1>3, <2>1 DEF QuietBefore
  <2>3. upto \in Int
    BY <2>2, StreamAssumption DEF UpTo, Least
  <2>4. s \in Seq(PacketForm)
    <3>1. \A i \in Int : [kind |-> "EVENT", sequence |-> after + i] \in PacketForm
      BY <2>2 DEF PacketForm
    <3>2. PICK n \in Nat : 1 .. (upto - after) = 1 .. n
      <4>1. CASE upto - after \in Nat
        BY <4>1
      <4>2. CASE upto - after \notin Nat
        <5>1. 1 .. (upto - after) = 1 .. 0
          BY <2>2, <2>3, <4>2
        <5> QED BY <5>1
      <4> QED BY <4>1, <4>2
    <3> HIDE DEF upto, after
    <3>3. s = [i \in 1 .. n |-> [kind |-> "EVENT", sequence |-> after + i]]
      BY <3>2
    <3>4. s \in [1 .. n -> PacketForm]
      BY <3>1, <3>3
    <3> HIDE DEF s
    <3> QED BY <3>4
  <2>5. packets' \in Seq(PacketForm)
    BY <2>1, <2>4, EmitTyped
  <2>6. LinkTypeOK'
    BY <1>3, <2>1, <2>3, <2>5
  <2> QED BY <1>1, <2>1, <2>2, <2>6 DEF QuietBefore
<1>10. CASE BeginRecover
  <2> DEFINE r == [step |-> "READ", after |-> request, latest |-> latest]
  <2>1. /\ link.state # "NONE" /\ reading' = [reading EXCEPT !["RECOVER"] = r]
        /\ request' = Unset /\ UNCHANGED <<latest, link, sent, packets>>
    BY <1>10 DEF BeginRecover, Reads
  <2>2. r \in ReadForm /\ r.after \in Int /\ r.latest \in Int
    BY DEF ReadForm
  <2> HIDE DEF r
  <2>3. LinkTypeOK'
    BY <1>3, <2>1, <2>2 DEF Unset
  <2> QED BY <1>1, <2>1, <2>3 DEF QuietBefore
<1>11. CASE RecoverRefused
  <2>1. <<[kind |-> "REFUSED"]>> \in Seq(PacketForm)
    <3>1. [kind |-> "REFUSED"] \in PacketForm
      BY DEF PacketForm
    <3> QED BY <3>1
  <2>2. /\ link.state = "OPENING" /\ Emit(<<[kind |-> "REFUSED"]>>)
        /\ request' = Unset /\ UNCHANGED <<latest, link, sent, reading>>
    BY <1>11 DEF RecoverRefused
  <2>3. packets' \in Seq(PacketForm)
    BY <2>1, <2>2, EmitTyped
  <2> QED BY <1>1, <2>2, <2>3 DEF QuietBefore, Unset
<1>12. CASE EndRecover
  <2> DEFINE r == reading["RECOVER"]
             answer == Recovered("ANSWER", r.after, r.latest)
  <2>1. /\ r # Nothing /\ Emit(<<answer>>)
        /\ sent' = IF answer.upto > r.after THEN answer.upto ELSE sent
        /\ reading' = [reading EXCEPT !["RECOVER"] = Nothing]
        /\ UNCHANGED <<latest, link, request>>
    BY <1>12 DEF EndRecover, Reads
  <2>2. answer \in PacketForm /\ answer.upto \in Int
    BY <2>1, RecoveredTyped
  <2>3. link.state # "NONE"
    BY <1>3, <2>1 DEF QuietBefore
  <2> HIDE DEF answer, r
  <2>4. <<answer>> \in Seq(PacketForm)
    BY <2>2
  <2>5. packets' \in Seq(PacketForm)
    BY <2>1, <2>4, EmitTyped
  <2>6. LinkTypeOK'
    BY <1>3, <2>1, <2>2, <2>5
  <2> QED BY <1>1, <2>1, <2>3, <2>6 DEF QuietBefore
<1> QED BY <1>4, <1>5, <1>6, <1>7, <1>8, <1>9, <1>10, <1>11, <1>12 DEF ServerStep

(* What the app still recovers is typed, and begins where it may.          *)
LEMMA RecoveriesTyped ==
  ASSUME NEW a, NEW done, AppInOrder(a, done)
  PROVE  /\ a.recoveries \in Seq(RecoveryForm)
         /\ \A i \in 1 .. Len(a.recoveries) :
              /\ a.recoveries[i] \in RecoveryForm
              /\ a.recoveries[i].next \in Nat /\ a.recoveries[i].next <= Received(a)
<1>1. a.recoveries \in Seq(RecoveryForm)
  BY DEF AppInOrder, AppForm
<1>2. \A i \in 1 .. Len(a.recoveries) : a.recoveries[i] \in RecoveryForm
  BY <1>1
<1>3. \A r \in RecoveryForm : r.next \in Nat
  BY DEF RecoveryForm
<1> QED BY <1>1, <1>2, <1>3 DEF AppInOrder

(* Whether the app asks once more, and which events it is about to show,   *)
(* is no matter.                                                           *)
LEMMA AskingAgain ==
  ASSUME LinkTypeOK, NEW state, NEW done, AppInOrder(state, done), NEW after \in Int,
         AskAgain(state, after)
  PROVE  AppInOrder(app', done) /\ request' \in Int
<1>1. CASE state.recovering
  BY <1>1 DEF AskAgain, LinkTypeOK
<1>2. CASE ~state.recovering
  <2> DEFINE a == [state EXCEPT !.recovering = TRUE]
  <2>1. app' = a /\ request' = after
    BY <1>2 DEF AskAgain
  <2>2. /\ a \in AppForm /\ a.last = state.last /\ a.known = state.known /\ a.live = state.live
        /\ a.recoveries = state.recoveries
    BY DEF AppInOrder, AppForm
  <2> HIDE DEF a
  <2>3. AppInOrder(a, done)
    BY <2>2 DEF AppInOrder, Received
  <2> QED BY <2>1, <2>3
<1> QED BY <1>1, <1>2

(* A step of the app takes at most a packet and changes nothing else of    *)
(* the connection.                                                         *)
LEMMA AppMoves ==
  ASSUME StreamIInv, link.state # "NONE", AppInOrder(app', shown'), request' \in Int,
         packets' = packets \/ (packets # <<>> /\ packets' = Tail(packets)),
         UNCHANGED <<latest, link, sent, reading>>
  PROVE  StreamIInv'
<1>1. packets' \in Seq(PacketForm)
  BY HeadTailProperties DEF StreamIInv, LinkTypeOK
<1> QED BY <1>1 DEF StreamIInv, LinkTypeOK, QuietBefore, AppInOrder, Received

LEMMA TakingTakes ==
  ASSUME StreamIInv, NEW kind, Arrived(kind), Taken
  PROVE  /\ packets # <<>> /\ packets' = Tail(packets) /\ link.state # "NONE"
         /\ UNCHANGED <<latest, link, sent, reading>>
         /\ Head(packets) \in PacketForm /\ Head(packets).kind = kind
BY HeadTailProperties DEF Arrived, Taken, StreamIInv, QuietBefore, LinkTypeOK

LEMMA AppTyped ==
  ASSUME StreamIInv
  PROVE  /\ app \in AppForm /\ Sequence = Received(app) /\ Sequence \in Nat
         /\ app.last # Unset => app.last = Sequence
BY DEF StreamIInv, AppInOrder, AppForm, Received, Sequence, Unset

(* Taking what the app has already, or is not to have yet.                 *)
LEMMA SkippingKeepsApp ==
  ASSUME StreamIInv, IgnoreEvent \/ NoticeGap \/ TakeRefusal
  PROVE  StreamIInv'
<1>1. CASE IgnoreEvent
  BY <1>1, TakingTakes, AppMoves DEF IgnoreEvent, StreamIInv, LinkTypeOK, AppInOrder, Received
<1>2. CASE NoticeGap
  <2>1. AppInOrder(app', shown) /\ request' \in Int
    BY <1>2, AskingAgain, AppTyped DEF NoticeGap, StreamIInv
  <2>2. shown' = shown /\ Arrived("EVENT") /\ Taken
    BY <1>2 DEF NoticeGap
  <2>3. AppInOrder(app', shown')
    BY <2>1, <2>2
  <2> QED BY <2>1, <2>2, <2>3, TakingTakes, AppMoves
<1>3. CASE TakeRefusal
  <2> DEFINE a == [app EXCEPT !.recovering = FALSE]
  <2>1. /\ a \in AppForm /\ a.last = app.last /\ a.known = app.known /\ a.live = app.live
        /\ a.recoveries = app.recoveries
    BY AppTyped DEF AppForm
  <2>2. app' = a /\ UNCHANGED <<request, shown>> /\ Arrived("REFUSED") /\ Taken
    BY <1>3 DEF TakeRefusal
  <2> HIDE DEF a
  <2>3. AppInOrder(a, shown)
    BY <2>1 DEF AppInOrder, Received, StreamIInv
  <2>4. AppInOrder(app', shown') /\ request' \in Int
    BY <2>2, <2>3 DEF StreamIInv, LinkTypeOK
  <2> QED BY <2>2, <2>4, TakingTakes, AppMoves
<1> QED BY <1>1, <1>2, <1>3

LEMMA AcceptKeepsApp ==
  ASSUME StreamIInv, AcceptEvent
  PROVE  StreamIInv'
<1> DEFINE n == Sequence + 1
           more == app.live \cup {n}
           a == [app EXCEPT !.last = n, !.live = more]
<1>1. app' = a /\ UNCHANGED <<request, shown>> /\ Arrived("EVENT") /\ Taken
  BY DEF AcceptEvent
<1>2. app \in AppForm /\ Sequence = Received(app) /\ Sequence \in Nat /\ n \in Nat /\ n = Sequence + 1
  BY AppTyped
<1>7. more \in SUBSET Int /\ more = app.live \cup {n}
  BY <1>2 DEF AppForm
<1> HIDE DEF n, more
<1>3. /\ a \in AppForm /\ a.last = n /\ a.known = app.known /\ a.live = more
      /\ a.recoveries = app.recoveries
  BY <1>2, <1>7 DEF AppForm
<1> HIDE DEF a
<1>4. Received(a) = n
  BY <1>2, <1>3 DEF Received, Unset
<1>5. AppInOrder(a, shown)
  <2>1. \A i \in 1 .. Len(a.recoveries) : a.recoveries[i].next <= n
    BY <1>2, <1>3, RecoveriesTyped DEF StreamIInv
  <2>2. \A e \in (a.known + 1) .. n : e = n \/ e \in (app.known + 1) .. Received(app)
    BY <1>2, <1>3 DEF AppForm
  <2> QED BY <1>3, <1>4, <1>7, <2>1, <2>2 DEF StreamIInv, AppInOrder
<1>6. AppInOrder(app', shown') /\ request' \in Int
  BY <1>1, <1>5 DEF StreamIInv, LinkTypeOK
<1> QED BY <1>1, <1>6, TakingTakes, AppMoves

LEMMA ShowKeepsApp ==
  ASSUME StreamIInv, NEW e, ShowEvent(e)
  PROVE  StreamIInv'
<1> DEFINE a == [app EXCEPT !.live = @ \ {e}]
<1>1. /\ app' = a /\ shown' = shown \cup {e}
      /\ UNCHANGED <<latest, link, sent, reading, packets, request>>
  BY DEF ShowEvent
<1>2. /\ a \in AppForm /\ a.last = app.last /\ a.known = app.known /\ a.live = app.live \ {e}
      /\ a.recoveries = app.recoveries
  BY AppTyped DEF AppForm
<1> HIDE DEF a
<1>3. AppInOrder(a, shown')
  BY <1>1, <1>2 DEF StreamIInv, AppInOrder, Received
<1>4. AppInOrder(app', shown')
  BY <1>1, <1>3
<1>5. LinkTypeOK' /\ QuietBefore'
  BY <1>1, <1>2 DEF StreamIInv, LinkTypeOK, QuietBefore
<1> QED BY <1>4, <1>5 DEF StreamIInv, AppInOrder, Received

LEMMA SnapshotKeepsApp ==
  ASSUME StreamIInv, TakeSnapshot
  PROVE  StreamIInv'
<1> DEFINE version == Head(packets).version
           a == [app EXCEPT !.last = version, !.known = version]
<1>1. /\ app' = IF version < Sequence THEN app ELSE a
      /\ UNCHANGED <<request, shown>> /\ Arrived("SNAPSHOT") /\ Taken
  BY DEF TakeSnapshot
<1>2. version \in Nat
  BY <1>1, TakingTakes DEF PacketForm
<1>3. app \in AppForm /\ Sequence = Received(app) /\ Sequence \in Nat
  BY AppTyped
<1> HIDE DEF version
<1>4. CASE version < Sequence
  BY <1>1, <1>4, TakingTakes, AppMoves DEF StreamIInv, LinkTypeOK, AppInOrder, Received
<1>5. CASE ~(version < Sequence)
  <2>1. /\ a \in AppForm /\ a.last = version /\ a.known = version /\ a.recoveries = app.recoveries
    BY <1>2, <1>3 DEF AppForm
  <2>2. app' = a
    BY <1>1, <1>5
  <2> HIDE DEF a
  <2>3. Received(a) = version
    BY <1>2, <2>1 DEF Received, Unset
  <2>4. (a.known + 1) .. Received(a) = {}
    BY <1>2, <2>1, <2>3
  <2>5. \A i \in 1 .. Len(a.recoveries) : a.recoveries[i].next <= version
    BY <1>2, <1>3, <1>5, <2>1, RecoveriesTyped DEF StreamIInv
  <2>6. AppInOrder(a, shown)
    BY <2>1, <2>3, <2>4, <2>5 DEF AppInOrder
  <2>7. AppInOrder(app', shown') /\ request' \in Int
    BY <1>1, <2>2, <2>6 DEF StreamIInv, LinkTypeOK
  <2> QED BY <1>1, <2>7, TakingTakes, AppMoves
<1> QED BY <1>4, <1>5

LEMMA BeginRecoveryKeepsApp ==
  ASSUME StreamIInv, NEW state, AppInOrder(state, shown), state.last = app.last,
         Head(packets).upto \in Int, BeginRecovery(state)
  PROVE  AppInOrder(app', shown') /\ request' \in Int
<1> DEFINE packet == Head(packets)
           n == Sequence + 1
           r == [next |-> n, upto |-> packet.upto, complete |-> Complete(packet)]
           a == [state EXCEPT !.last = n, !.recoveries = Append(@, r)]
<1>1. Sequence = Received(state) /\ Sequence \in Nat /\ n \in Nat /\ n = Sequence + 1
  BY AppTyped DEF Received
<1>2. shown' = shown /\ state \in AppForm /\ request \in Int
  BY DEF BeginRecovery, AppInOrder, StreamIInv, LinkTypeOK
<1>3. CASE n <= packet.upto
  <2>1. app' = a /\ request' = request
    BY <1>3 DEF BeginRecovery
  <2>2. r \in RecoveryForm /\ r.next = n /\ r.upto = packet.upto
    BY <1>1 DEF RecoveryForm, Complete
  <2> DEFINE old == state.recoveries
             new == Append(old, r)
  <2>3. old \in Seq(RecoveryForm)
    BY <1>2 DEF AppForm
  <2> HIDE DEF r
  <2>4. /\ new \in Seq(RecoveryForm) /\ Len(old) \in Nat /\ Len(new) = Len(old) + 1
        /\ new[Len(new)] = r
        /\ \A i \in 1 .. Len(old) : new[i] = old[i]
    BY <2>2, <2>3, AppendProperties
  <2> HIDE DEF new, n
  <2>5. [state EXCEPT !.last = n, !.recoveries = new] \in AppForm
    BY <1>1, <1>2, <2>4 DEF AppForm
  <2>6. a = [state EXCEPT !.last = n, !.recoveries = new]
    BY DEF new
  <2>7. /\ a \in AppForm /\ a.last = n /\ a.known = state.known /\ a.live = state.live
        /\ a.recoveries = new
    BY <1>2, <2>5, <2>6 DEF AppForm
  <2> HIDE DEF a, old, packet
  <2>8. Received(a) = n
    BY <1>1, <2>7 DEF Received, Unset
  <2>9. \A i \in 1 .. Len(new) : new[i].next <= n
    <3>1. \A i \in 1 .. Len(old) : old[i].next <= Sequence /\ old[i].next \in Nat
      BY <1>1, RecoveriesTyped DEF old
    <3>2. \A i \in 1 .. Len(new) : i = Len(new) \/ i \in 1 .. Len(old)
      BY <2>4
    <3> QED BY <1>1, <2>2, <2>4, <3>1, <3>2
  <2>10. ASSUME NEW e \in (a.known + 1) .. n
         PROVE  \/ e \in shown \cup a.live
                \/ \E i \in 1 .. Len(new) : new[i].next <= e /\ e <= new[i].upto
    <3>1. CASE e = n
      <4>1. Len(new) \in 1 .. Len(new)
        BY <2>4
      <4> QED BY <1>1, <1>3, <2>2, <2>4, <3>1, <4>1 DEF packet
    <3>2. CASE e # n
      <4>1. e \in (state.known + 1) .. Received(state)
        BY <1>1, <1>2, <2>7, <2>10, <3>2 DEF AppForm
      <4>2. \/ e \in shown \cup state.live
            \/ \E i \in 1 .. Len(old) : old[i].next <= e /\ e <= old[i].upto
        BY <4>1 DEF AppInOrder, old
      <4>3. 1 .. Len(old) \subseteq 1 .. Len(new)
        BY <2>4
      <4> QED BY <2>4, <2>7, <4>2, <4>3
    <3> QED BY <3>1, <3>2
  <2>11. AppInOrder(a, shown)
    BY <2>7, <2>8, <2>9, <2>10 DEF AppInOrder
  <2> QED BY <1>2, <2>1, <2>11
<1>4. CASE ~(n <= packet.upto)
  <2>1. (app' = state /\ request' = request) \/ AskAgain(state, Sequence)
    BY <1>4 DEF BeginRecovery
  <2> QED BY <1>1, <1>2, <2>1, AskingAgain DEF StreamIInv
<1> QED BY <1>3, <1>4

LEMMA RecoveriesKeepApp ==
  ASSUME StreamIInv, TakeRecovery \/ TakeAnswer
  PROVE  StreamIInv'
<1>1. CASE TakeRecovery
  <2>1. Arrived("RECOVERY") /\ Taken /\ BeginRecovery(app)
    BY <1>1 DEF TakeRecovery
  <2>2. Head(packets).upto \in Int
    BY <2>1, TakingTakes DEF PacketForm
  <2>3. AppInOrder(app', shown') /\ request' \in Int
    BY <2>1, <2>2, BeginRecoveryKeepsApp DEF StreamIInv
  <2> QED BY <2>1, <2>3, TakingTakes, AppMoves
<1>2. CASE TakeAnswer
  <2> DEFINE a == [app EXCEPT !.recovering = FALSE]
  <2>1. Arrived("ANSWER") /\ Taken /\ BeginRecovery(a)
    BY <1>2 DEF TakeAnswer
  <2>2. Head(packets).upto \in Int
    BY <2>1, TakingTakes DEF PacketForm
  <2>3. /\ a \in AppForm /\ a.last = app.last /\ a.known = app.known /\ a.live = app.live
        /\ a.recoveries = app.recoveries
    BY AppTyped DEF AppForm
  <2> HIDE DEF a
  <2>4. AppInOrder(a, shown)
    BY <2>3 DEF AppInOrder, Received, StreamIInv
  <2>5. AppInOrder(app', shown') /\ request' \in Int
    BY <2>1, <2>2, <2>3, <2>4, BeginRecoveryKeepsApp
  <2> QED BY <2>1, <2>5, TakingTakes, AppMoves
<1> QED BY <1>1, <1>2

LEMMA SubscribeKeepsApp ==
  ASSUME StreamIInv, NEW cursor \in Unset .. latest, Subscribe(cursor)
  PROVE  StreamIInv'
<1> DEFINE known == IF cursor = Unset THEN 0 ELSE cursor
           a == [app EXCEPT !.last = cursor, !.known = known]
<1>1. /\ link.state = "NONE" /\ link' = [state |-> "DOWN", after |-> cursor] /\ app' = a
      /\ UNCHANGED <<latest, sent, reading, packets, request, shown>>
  BY DEF Subscribe
<1>2. cursor \in Nat \cup {Unset} /\ cursor \in Int /\ known \in Nat
  BY DEF StreamIInv, LinkTypeOK, Unset
<1>3. /\ a \in AppForm /\ a.last = cursor /\ a.known = known /\ a.recoveries = app.recoveries
  BY <1>2, AppTyped DEF AppForm
<1>4. Received(a) = known /\ a.recoveries = <<>>
  BY <1>1, <1>3 DEF Received, StreamIInv, QuietBefore
<1> HIDE DEF a, known
<1>5. AppInOrder(a, shown)
  <2>1. (a.known + 1) .. Received(a) = {} /\ 1 .. Len(a.recoveries) = {}
    BY <1>2, <1>3, <1>4
  <2> QED BY <1>3, <2>1 DEF AppInOrder
<1>6. AppInOrder(app', shown')
  BY <1>1, <1>5
<1>7. LinkTypeOK' /\ QuietBefore'
  BY <1>1, <1>2 DEF StreamIInv, LinkTypeOK, QuietBefore
<1> QED BY <1>6, <1>7 DEF StreamIInv, AppInOrder, Received

LEMMA RecoverOneKeepsApp ==
  ASSUME StreamIInv, NEW i \in DOMAIN app.recoveries, RecoverOne(i)
  PROVE  StreamIInv'
<1> DEFINE old == app.recoveries
           r == old[i]
           n == r.next + 1
           others == [j \in 1 .. (Len(old) - 1) |-> old[IF j < i THEN j ELSE j + 1]]
           less == [app EXCEPT !.recoveries = others]
           last == IF app.last < n THEN n ELSE app.last
           on == [old EXCEPT ![i].next = n]
           more == [app EXCEPT !.recoveries = on, !.last = last]
<1>1. /\ shown' = shown \cup {r.next}
      /\ IF r.next < r.upto THEN app' = more /\ request' = request
         ELSE IF r.complete THEN app' = less /\ request' = request
         ELSE AskAgain(less, Sequence)
      /\ UNCHANGED <<latest, link, sent, reading, packets>>
  BY DEF RecoverOne
<1>2. /\ app \in AppForm /\ Sequence = Received(app) /\ Sequence \in Nat
      /\ app.last # Unset => app.last = Sequence
  BY AppTyped
<1>3. /\ old \in Seq(RecoveryForm)
      /\ \A j \in 1 .. Len(old) : /\ old[j] \in RecoveryForm /\ old[j].next \in Nat
                                   /\ old[j].next <= Sequence
  BY <1>2, RecoveriesTyped DEF StreamIInv
<1>4. i \in 1 .. Len(old) /\ Len(old) \in Nat
  BY <1>3
<1>5. r \in RecoveryForm /\ r.next \in Nat /\ r.next <= Sequence /\ r.upto \in Int /\ n = r.next + 1
  BY <1>3, <1>4 DEF RecoveryForm
<1>6. link.state # "NONE"
  <2>1. old # <<>>
    BY <1>4
  <2> QED BY <2>1 DEF StreamIInv, QuietBefore
<1>7. \A e \in (app.known + 1) .. Sequence :
        \/ e \in shown \cup app.live
        \/ \E j \in 1 .. Len(old) : old[j].next <= e /\ e <= old[j].upto
  BY <1>2 DEF StreamIInv, AppInOrder
<1>8. CASE r.next < r.upto
  <2>1. last \in Nat /\ n \in Nat
    BY <1>2, <1>5 DEF AppForm, Unset
  <2>2. last = IF Sequence < n THEN n ELSE Sequence
    <3>1. CASE app.last = Unset
      <4>1. Sequence = 0 /\ app.last < n
        BY <1>2, <1>5, <3>1 DEF Received, Unset
      <4> QED BY <1>5, <4>1
    <3>2. CASE app.last # Unset
      BY <1>2, <3>2
    <3> QED BY <3>1, <3>2
  <2>13. n <= last /\ Sequence <= last
    BY <1>2, <2>1, <2>2
  <2>3. /\ on \in Seq(RecoveryForm) /\ Len(on) = Len(old)
        /\ on[i] = [r EXCEPT !.next = n] /\ \A j \in 1 .. Len(old) : j # i => on[j] = old[j]
    <3>1. [r EXCEPT !.next = n] \in RecoveryForm
      BY <1>5, <2>1 DEF RecoveryForm
    <3>2. on = [old EXCEPT ![i] = [r EXCEPT !.next = n]]
      OBVIOUS
    <3> HIDE DEF n, r, on
    <3> QED BY <1>3, <1>4, <3>1, <3>2, ExceptSeq
  <2>4. on[i].next = n /\ on[i].upto = r.upto
    BY <1>5, <2>3 DEF RecoveryForm
  <2> HIDE DEF n, r, on, last, old
  <2>5. more \in AppForm /\ more.last = last /\ more.known = app.known /\ more.live = app.live
        /\ more.recoveries = on
    BY <1>2, <2>1, <2>3 DEF AppForm
  <2>6. app' = more /\ request' = request
    BY <1>1, <1>8
  <2> HIDE DEF more
  <2>7. Received(more) = last
    BY <2>1, <2>5 DEF Received, Unset
  <2>8. \A j \in 1 .. Len(on) : on[j].next <= last
    <3> SUFFICES ASSUME NEW j \in 1 .. Len(old) PROVE on[j].next <= last
      BY <2>3
    <3>1. CASE j = i
      BY <2>4, <2>13, <3>1
    <3>2. CASE j # i
      <4>1. on[j] = old[j] /\ old[j].next \in Nat /\ old[j].next <= Sequence
        BY <1>3, <2>3, <3>2
      <4> QED BY <1>2, <2>1, <2>13, <4>1
    <3> QED BY <3>1, <3>2
  <2>9. ASSUME NEW e \in (app.known + 1) .. last
        PROVE  \/ e \in shown' \cup app.live
               \/ \E j \in 1 .. Len(on) : on[j].next <= e /\ e <= on[j].upto
    <3>1. e \in Int /\ app.known \in Nat
      BY <1>2, <2>1 DEF AppForm
    <3>2. CASE e = n
      <4>1. i \in 1 .. Len(on) /\ n <= r.upto
        BY <1>4, <1>5, <1>8, <2>3
      <4>2. on[i].next <= e /\ e <= on[i].upto
        BY <2>1, <2>4, <3>2, <4>1
      <4> QED BY <4>1, <4>2
    <3>3. CASE e # n
      <4>1. e \in (app.known + 1) .. Sequence
        BY <1>2, <1>5, <2>1, <2>2, <2>9, <3>1, <3>3
      <4>2. CASE e \in shown \cup app.live
        BY <1>1, <4>2
      <4>3. ASSUME NEW j \in 1 .. Len(old), old[j].next <= e, e <= old[j].upto
            PROVE  \/ e \in shown' \cup app.live
                   \/ \E k \in 1 .. Len(on) : on[k].next <= e /\ e <= on[k].upto
        <5>1. CASE j # i
          BY <2>3, <4>3, <5>1
        <5>2. CASE j = i /\ e = r.next
          BY <1>1, <5>2
        <5>3. CASE j = i /\ e # r.next
          <6>1. old[j] = r
            BY <5>3 DEF r
          <6>2. n <= e /\ e <= r.upto
            BY <1>5, <3>1, <4>3, <5>3, <6>1
          <6> QED BY <1>4, <2>3, <2>4, <6>2
        <5> QED BY <5>1, <5>2, <5>3
      <4> QED BY <1>7, <4>1, <4>2, <4>3
    <3> QED BY <3>2, <3>3
  <2>10. AppInOrder(more, shown')
    BY <2>5, <2>7, <2>8, <2>9 DEF AppInOrder
  <2>11. LinkTypeOK' /\ QuietBefore'
    BY <1>1, <1>6, <2>6 DEF StreamIInv, LinkTypeOK, QuietBefore
  <2>12. AppInOrder(app', shown')
    BY <2>6, <2>10
  <2> QED BY <2>11, <2>12 DEF StreamIInv, AppInOrder, Received
<1>9. CASE ~(r.next < r.upto)
  <2>1. /\ others \in Seq(RecoveryForm) /\ Len(others) = Len(old) - 1
        /\ \A j \in 1 .. (Len(old) - 1) : others[j] = old[IF j < i THEN j ELSE j + 1]
    <3>1. Len(old) - 1 \in Nat
      BY <1>4
    <3>2. \A j \in 1 .. (Len(old) - 1) : (IF j < i THEN j ELSE j + 1) \in 1 .. Len(old)
      BY <1>4
    <3>3. others \in [1 .. (Len(old) - 1) -> RecoveryForm]
      BY <1>3, <3>2
    <3>4. others \in Seq(RecoveryForm) /\ Len(others) = Len(old) - 1
      <4> DEFINE m == Len(old) - 1
      <4>1. m \in Nat /\ others \in [1 .. m -> RecoveryForm]
        BY <3>1, <3>3
      <4> HIDE DEF m, others
      <4>2. others \in Seq(RecoveryForm) /\ Len(others) = m
        BY <4>1
      <4> QED BY <4>2 DEF m
    <3> QED BY <3>4
  <2> HIDE DEF others
  <2>2. less \in AppForm /\ less.last = app.last /\ less.known = app.known /\ less.live = app.live
        /\ less.recoveries = others
    BY <1>2, <2>1 DEF AppForm
  <2> HIDE DEF less, r, n, old
  <2>3. Received(less) = Sequence
    BY <1>2, <2>2 DEF Received
  <2>4. \A j \in 1 .. (Len(old) - 1) : (IF j < i THEN j ELSE j + 1) \in 1 .. Len(old)
    BY <1>4
  <2>5. \A j \in 1 .. Len(others) : others[j].next <= Sequence
    BY <1>3, <1>4, <2>1, <2>4
  <2>6. \A j \in 1 .. Len(old) : j # i =>
          \E k \in 1 .. Len(others) : others[k] = old[j]
    <3> SUFFICES ASSUME NEW j \in 1 .. Len(old), j # i
                 PROVE  \E k \in 1 .. Len(others) : others[k] = old[j]
      OBVIOUS
    <3>1. CASE j < i
      <4>1. j \in 1 .. (Len(old) - 1)
        BY <1>4, <3>1
      <4> QED BY <2>1, <3>1, <4>1
    <3>2. CASE ~(j < i)
      <4>1. j - 1 \in 1 .. (Len(old) - 1) /\ ~(j - 1 < i) /\ (j - 1) + 1 = j
        BY <1>4, <3>2
      <4>2. others[j - 1] = old[j]
        BY <2>1, <4>1
      <4> QED BY <2>1, <4>1, <4>2
    <3> QED BY <3>1, <3>2
  <2>7. \A e \in (app.known + 1) .. Sequence :
          \/ e \in shown' \cup app.live
          \/ \E j \in 1 .. Len(others) : others[j].next <= e /\ e <= others[j].upto
    <3> SUFFICES ASSUME NEW e \in (app.known + 1) .. Sequence, e \notin shown' \cup app.live
                 PROVE  \E j \in 1 .. Len(others) : others[j].next <= e /\ e <= others[j].upto
      OBVIOUS
    <3>1. PICK j \in 1 .. Len(old) : old[j].next <= e /\ e <= old[j].upto
      BY <1>1, <1>7
    <3>2. j # i
      <4>1. e \in Int /\ e # r.next
        BY <1>1, <1>2 DEF AppForm
      <4> QED BY <1>5, <1>9, <3>1, <4>1 DEF r
    <3> QED BY <2>6, <3>1, <3>2
  <2>8. AppInOrder(less, shown')
    BY <2>2, <2>3, <2>5, <2>7 DEF AppInOrder
  <2>9. (app' = less /\ request' = request) \/ AskAgain(less, Sequence)
    BY <1>1, <1>9
  <2>10. AppInOrder(app', shown') /\ request' \in Int
    <3> DEFINE done == shown'
    <3>1. AppInOrder(less, done) /\ Sequence \in Int
      BY <1>2, <2>8
    <3>2. LinkTypeOK
      BY DEF StreamIInv
    <3>3. CASE AskAgain(less, Sequence)
      BY <3>1, <3>2, <3>3, AskingAgain
    <3>4. CASE app' = less /\ request' = request
      BY <3>1, <3>2, <3>4 DEF LinkTypeOK
    <3> QED BY <2>9, <3>3, <3>4
  <2> QED BY <1>1, <1>6, <2>10, AppMoves
<1> QED BY <1>8, <1>9

(* AccountStream: no event is counted as received without the app having   *)
(* it, for any number of events, packets, recoveries and drops.            *)
THEOREM NoEventLeftOut == StreamSpec => []NothingLeftOut
<1>1. StreamInit => StreamIInv
  BY StreamStarts
<1>2. StreamIInv /\ [StreamNext]_streamVars => StreamIInv'
  <2> SUFFICES ASSUME StreamIInv, [StreamNext]_streamVars PROVE StreamIInv'
    OBVIOUS
  <2>1. CASE UNCHANGED streamVars
    BY <2>1 DEF streamVars, StreamIInv, LinkTypeOK, QuietBefore, AppInOrder, Received
  <2>2. CASE Receive
    BY <2>2, SkippingKeepsApp, AcceptKeepsApp, SnapshotKeepsApp, RecoveriesKeepApp DEF Receive
  <2>3. CASE StreamNext
    BY <2>2, <2>3, ServerKeepsApp, SubscribeKeepsApp, ShowKeepsApp, RecoverOneKeepsApp
    DEF StreamNext
  <2> QED BY <2>1, <2>3
<1>3. StreamIInv => NothingLeftOut
  <2> SUFFICES ASSUME StreamIInv PROVE NothingLeftOut
    OBVIOUS
  <2>1. Sequence = Received(app) /\ app.recoveries \in Seq(RecoveryForm)
    BY AppTyped, RecoveriesTyped DEF StreamIInv
  <2>2. DOMAIN app.recoveries = 1 .. Len(app.recoveries)
    BY <2>1
  <2> QED BY <2>1, <2>2 DEF StreamIInv, AppInOrder, NothingLeftOut
<1> QED BY <1>1, <1>2, <1>3, PTL DEF StreamSpec

-----------------------------------------------------------------------------
(* Verification                                                            *)

SecurityRow == [secret : Nat, pending : Nat, lastCounter : Int, emailEnabled : BOOLEAN,
                code : Nat, purpose : Purposes \cup {"NONE"}, expires : Int, sentAt : Int,
                attempts : Int]
CheckForms ==
  [step : {"NEW", "CHECKED", "SETTING_UP"}]
    \cup [step : {"CONFIRMING"}, secret : Nat, counter : Int]
    \cup [step : {"DRAWING"}, purpose : Purposes]
    \cup [step : {"MAILING"}, code : Nat, purpose : Purposes]
    \cup [step : {"CONSUMING", "MISSED"}, seen : Nat, purpose : Purposes]

VerificationTypeOK ==
  /\ tick \in Int /\ drawn \in Nat
  /\ security \in SecurityRow
  /\ check \in [Checks -> CheckForms]
  /\ mailed \subseteq Nat \X Purposes
  /\ used \subseteq Checks \X Nat \X Purposes

(* Where a code is known: in mails, in a mail under way, and on the row.   *)
KnownCode(code, purpose) ==
  \/ <<code, purpose>> \in mailed
  \/ \E r \in Checks : In(r, "MAILING") /\ check[r].code = code /\ check[r].purpose = purpose
  \/ security.code = code /\ security.purpose = purpose /\ code # NoCode

(* A code was drawn for one purpose.                                       *)
OnePurpose ==
  /\ \A code \in Nat, purpose \in Purposes \cup {"NONE"} :
       KnownCode(code, purpose) => code # NoCode /\ code <= drawn
  /\ \A code \in Nat, purpose, other \in Purposes \cup {"NONE"} :
       KnownCode(code, purpose) /\ KnownCode(code, other) => purpose = other

(* A code about to be consumed was mailed for it, and one that was used is *)
(* no longer on the row.                                                   *)
ConsumedWasMailed ==
  /\ \A r \in Checks : In(r, "CONSUMING") => <<check[r].seen, check[r].purpose>> \in mailed
  /\ \A u \in used : <<u[2], u[3]>> \in mailed /\ u[2] # security.code
  /\ \A u, v \in used : u[2] = v[2] => u = v

VerificationIInv == VerificationTypeOK /\ OnePurpose /\ ConsumedWasMailed

LEMMA VerificationStarts == VerificationInit => VerificationIInv
<1> SUFFICES ASSUME VerificationInit PROVE VerificationIInv
  OBVIOUS
<1> USE DEF VerificationInit
<1>1. security \in SecurityRow /\ security.code = NoCode
  BY DEF SecurityRow, NoCode, Never
<1>2. NewCheck \in CheckForms /\ NewCheck.step = "NEW"
  BY DEF NewCheck, CheckForms
<1>3. VerificationTypeOK
  BY <1>1, <1>2 DEF VerificationTypeOK
<1>4. \A code, purpose : ~KnownCode(code, purpose)
  BY <1>1, <1>2 DEF KnownCode, In
<1>5. OnePurpose
  BY <1>4 DEF OnePurpose
<1>6. ConsumedWasMailed
  BY <1>2 DEF ConsumedWasMailed, In
<1> QED BY <1>3, <1>5, <1>6 DEF VerificationIInv

(* A step that puts no code on the row, in a mail or to use, and takes     *)
(* none up that was not mailed.                                            *)
LEMMA NoNewCode ==
  ASSUME VerificationIInv, NEW r \in Checks, NEW state \in CheckForms,
         check' = [check EXCEPT ![r] = state], state.step # "MAILING",
         state.step = "CONSUMING" => <<state.seen, state.purpose>> \in mailed,
         security' \in SecurityRow, security'.code = security.code \/ security'.code = NoCode,
         security'.code # NoCode => security'.purpose = security.purpose,
         tick' = tick, drawn' = drawn \/ drawn' = drawn + 1, mailed' = mailed, used' = used
  PROVE  VerificationIInv'
<1> USE DEF VerificationIInv, VerificationTypeOK
<1>1. VerificationTypeOK'
  OBVIOUS
<1>2. check'[r] = state /\ \A s \in Checks \ {r} : check'[s] = check[s]
  OBVIOUS
<1>3. \A code, purpose : KnownCode(code, purpose)' => KnownCode(code, purpose)
  <2> SUFFICES ASSUME NEW code, NEW purpose, KnownCode(code, purpose)' PROVE KnownCode(code, purpose)
    OBVIOUS
  <2> QED BY <1>2 DEF KnownCode, In
<1>4. OnePurpose'
  <2>1. \A code \in Nat, purpose \in Purposes \cup {"NONE"} :
          KnownCode(code, purpose)' => code # NoCode /\ code <= drawn'
    BY <1>3 DEF OnePurpose
  <2> QED BY <1>3, <2>1 DEF OnePurpose
<1>5. ConsumedWasMailed'
  <2>1. \A s \in Checks : check'[s].step = "CONSUMING" => <<check'[s].seen, check'[s].purpose>> \in mailed'
    BY <1>2 DEF ConsumedWasMailed, In
  <2>2. \A u \in used : u[2] # security'.code
    <3>1. \A u \in used : u[2] \in Nat /\ u[3] \in Purposes /\ <<u[2], u[3]>> \in mailed /\ u[2] # security.code
      BY DEF ConsumedWasMailed
    <3>2. \A u \in used : KnownCode(u[2], u[3])
      BY <3>1 DEF KnownCode
    <3>3. \A u \in used : u[2] # NoCode
      BY <3>1, <3>2 DEF OnePurpose
    <3> QED BY <3>1, <3>3
  <2> QED BY <2>1, <2>2 DEF ConsumedWasMailed, In
<1> QED BY <1>1, <1>4, <1>5

LEMMA CheckedForm ==
  /\ Checked \in CheckForms /\ Checked.step = "CHECKED"
  /\ [step |-> "SETTING_UP"] \in CheckForms
BY DEF Checked, CheckForms

(* Steps of the authenticator and of requests that come or go.             *)
LEMMA AuthenticatorStepsKeepCodes ==
  ASSUME VerificationIInv, NEW r \in Checks,
         \/ BeginAuthenticator(r) \/ StorePending(r) \/ ConfirmAuthenticator(r)
         \/ \E counter \in Window : EnterConfirmation(r, counter) \/ VerifyAuthenticator(r, counter)
  PROVE  VerificationIInv'
<1>1. security \in SecurityRow /\ drawn \in Nat /\ tick \in Int /\ check[r] \in CheckForms
  BY DEF VerificationIInv, VerificationTypeOK
<1>2. CASE BeginAuthenticator(r)
  <2>1. [step |-> "SETTING_UP"].step = "SETTING_UP"
    OBVIOUS
  <2> QED BY <1>1, <1>2, <2>1, CheckedForm, NoNewCode DEF BeginAuthenticator, Proceed
<1>3. CASE StorePending(r)
  <2>1. /\ check' = [check EXCEPT ![r] = Checked] /\ drawn' = drawn + 1
        /\ security' = [security EXCEPT !.pending = drawn + 1]
        /\ UNCHANGED <<tick, mailed, used>>
    BY <1>3 DEF StorePending, Ended, Proceed
  <2>2. security' \in SecurityRow /\ security'.code = security.code /\ security'.purpose = security.purpose
    BY <1>1, <2>1 DEF SecurityRow
  <2> QED BY <1>1, <2>1, <2>2, CheckedForm, NoNewCode
<1>4. CASE ConfirmAuthenticator(r)
  <2>1. /\ check' = [check EXCEPT ![r] = Checked] /\ check[r].step = "CONFIRMING"
        /\ security' = [security EXCEPT !.secret = check[r].secret, !.pending = NoCode,
                                        !.lastCounter = check[r].counter]
        /\ UNCHANGED <<tick, drawn, mailed, used>>
    BY <1>4 DEF ConfirmAuthenticator, Ended, In, Proceed
  <2>2. check[r].secret \in Nat /\ check[r].counter \in Int
    BY <1>1, <2>1 DEF CheckForms
  <2>3. security' \in SecurityRow /\ security'.code = security.code /\ security'.purpose = security.purpose
    BY <1>1, <2>1, <2>2 DEF SecurityRow, NoCode
  <2> QED BY <1>1, <2>1, <2>3, CheckedForm, NoNewCode
<1>5. ASSUME NEW counter \in Window, EnterConfirmation(r, counter)
      PROVE  VerificationIInv'
  <2> DEFINE state == [step |-> "CONFIRMING", secret |-> security.pending, counter |-> counter]
  <2>1. counter \in Int
    BY <1>1 DEF Window
  <2>2. state \in CheckForms /\ state.step = "CONFIRMING"
    BY <1>1, <2>1 DEF CheckForms, SecurityRow
  <2>3. check' = [check EXCEPT ![r] = state] /\ UNCHANGED <<tick, security, drawn, mailed, used>>
    BY <1>5 DEF EnterConfirmation, Proceed
  <2> HIDE DEF state
  <2> QED BY <1>1, <2>2, <2>3, NoNewCode
<1>6. ASSUME NEW counter \in Window, VerifyAuthenticator(r, counter)
      PROVE  VerificationIInv'
  <2>1. counter \in Int
    BY <1>1 DEF Window
  <2>2. /\ security' = [security EXCEPT !.lastCounter = counter] /\ check' = [check EXCEPT ![r] = Checked]
        /\ UNCHANGED <<tick, drawn, mailed, used>>
    BY <1>6 DEF VerifyAuthenticator, Ended, Proceed
  <2>3. security' \in SecurityRow /\ security'.code = security.code /\ security'.purpose = security.purpose
    BY <1>1, <2>1, <2>2 DEF SecurityRow
  <2> QED BY <1>1, <2>2, <2>3, CheckedForm, NoNewCode
<1> QED BY <1>2, <1>3, <1>4, <1>5, <1>6

LEMMA RequestCodeKeepsCodes ==
  ASSUME VerificationIInv, NEW r \in Checks, NEW purpose \in Purposes, RequestCode(r, purpose)
  PROVE  VerificationIInv'
<1> DEFINE state == [step |-> "DRAWING", purpose |-> purpose]
<1>1. security \in SecurityRow /\ drawn \in Nat
  BY DEF VerificationIInv, VerificationTypeOK
<1>2. state \in CheckForms /\ state.step = "DRAWING"
  BY DEF CheckForms
<1>3. check' = [check EXCEPT ![r] = state] /\ UNCHANGED <<tick, security, drawn, mailed, used>>
  BY DEF RequestCode, Proceed
<1> HIDE DEF state
<1> QED BY <1>1, <1>2, <1>3, NoNewCode

LEMMA StoreCodeKeepsCodes ==
  ASSUME VerificationIInv, NEW r \in Checks, StoreCode(r)
  PROVE  VerificationIInv'
<1> USE DEF VerificationIInv, VerificationTypeOK
<1> DEFINE purpose == check[r].purpose
           code == drawn + 1
           state == [step |-> "MAILING", code |-> code, purpose |-> purpose]
<1>1. /\ check[r].step = "DRAWING" /\ drawn' = code
      /\ security' = [security EXCEPT !.code = code, !.purpose = purpose,
                        !.expires = tick + CodeLife, !.sentAt = tick, !.attempts = 0]
      /\ check' = [check EXCEPT ![r] = state]
      /\ UNCHANGED <<tick, mailed, used>>
  BY DEF StoreCode, In, Proceed
<1>2. purpose \in Purposes /\ code \in Nat \ {0} /\ drawn < code
  BY <1>1 DEF CheckForms
<1>3. state \in CheckForms /\ state.step = "MAILING" /\ state.code = code /\ state.purpose = purpose
  BY <1>2 DEF CheckForms
<1> HIDE DEF purpose, code, state
<1>4. security' \in SecurityRow /\ security'.code = code /\ security'.purpose = purpose
  <2>1. tick + CodeLife \in Int /\ tick \in Int /\ 0 \in Int
    BY VerificationAssumption
  <2> DEFINE until == tick + CodeLife
  <2>2. until \in Int
    BY <2>1
  <2> HIDE DEF until
  <2>3. [security EXCEPT !.code = code, !.purpose = purpose, !.expires = until, !.sentAt = tick,
                         !.attempts = 0] \in SecurityRow
    BY <1>2, <2>1, <2>2 DEF SecurityRow
  <2> QED BY <1>1, <2>3 DEF SecurityRow, until
<1>5. VerificationTypeOK'
  BY <1>1, <1>2, <1>3, <1>4
<1>6. check'[r] = state /\ \A s \in Checks \ {r} : check'[s] = check[s]
  BY <1>1
<1>7. \A c \in Nat, p \in Purposes \cup {"NONE"} :
        KnownCode(c, p)' => (c = code /\ p = purpose) \/ (c # code /\ KnownCode(c, p))
  <2> SUFFICES ASSUME NEW c \in Nat, NEW p \in Purposes \cup {"NONE"}, KnownCode(c, p)'
               PROVE  (c = code /\ p = purpose) \/ (c # code /\ KnownCode(c, p))
    OBVIOUS
  <2>1. (c = code /\ p = purpose) \/ KnownCode(c, p)
    BY <1>1, <1>3, <1>4, <1>6 DEF KnownCode, In
  <2>2. KnownCode(c, p) => c <= drawn
    BY DEF OnePurpose
  <2> QED BY <1>2, <2>1, <2>2
<1>8. OnePurpose'
  <2>1. \A c \in Nat, p \in Purposes \cup {"NONE"} : KnownCode(c, p)' => c # NoCode /\ c <= drawn'
    BY <1>1, <1>2, <1>7 DEF OnePurpose, NoCode
  <2>2. \A c \in Nat, p, o \in Purposes \cup {"NONE"} : KnownCode(c, p)' /\ KnownCode(c, o)' => p = o
    BY <1>7 DEF OnePurpose
  <2> QED BY <2>1, <2>2 DEF OnePurpose
<1>9. ConsumedWasMailed'
  <2>1. \A u \in used : u[2] # code
    <3>1. \A u \in used : u[2] \in Nat /\ u[3] \in Purposes /\ KnownCode(u[2], u[3])
      BY DEF ConsumedWasMailed, KnownCode
    <3> QED BY <1>2, <3>1 DEF OnePurpose
  <2>2. \A s \in Checks : check'[s].step = "CONSUMING" => <<check'[s].seen, check'[s].purpose>> \in mailed'
    BY <1>1, <1>3, <1>6 DEF ConsumedWasMailed, In
  <2> QED BY <1>1, <1>4, <2>1, <2>2 DEF ConsumedWasMailed, In
<1> QED BY <1>5, <1>8, <1>9

LEMMA MailCodeKeepsCodes ==
  ASSUME VerificationIInv, NEW r \in Checks, MailCode(r)
  PROVE  VerificationIInv'
<1> USE DEF VerificationIInv, VerificationTypeOK
<1>1. /\ check[r].step = "MAILING"
      /\ mailed' = mailed \cup {<<check[r].code, check[r].purpose>>}
      /\ check' = [check EXCEPT ![r] = Checked]
      /\ UNCHANGED <<tick, security, drawn, used>>
  BY DEF MailCode, In, Ended, Proceed
<1>2. check[r].code \in Nat /\ check[r].purpose \in Purposes
  BY <1>1 DEF CheckForms
<1>3. check'[r] = Checked /\ \A s \in Checks \ {r} : check'[s] = check[s]
  BY <1>1
<1>4. VerificationTypeOK'
  BY <1>1, <1>2, CheckedForm
<1>5. \A code, purpose : KnownCode(code, purpose)' => KnownCode(code, purpose)
  BY <1>1, <1>3, CheckedForm DEF KnownCode, In
<1>6. OnePurpose'
  <2>1. \A code \in Nat, purpose \in Purposes \cup {"NONE"} :
          KnownCode(code, purpose)' => code # NoCode /\ code <= drawn'
    BY <1>1, <1>5 DEF OnePurpose
  <2> QED BY <1>5, <2>1 DEF OnePurpose
<1>7. ConsumedWasMailed'
  BY <1>1, <1>3, CheckedForm DEF ConsumedWasMailed, In
<1> QED BY <1>4, <1>6, <1>7

LEMMA MailFailsKeepsCodes ==
  ASSUME VerificationIInv, NEW r \in Checks, MailFails(r)
  PROVE  VerificationIInv'
<1>1. security \in SecurityRow /\ drawn \in Nat
  BY DEF VerificationIInv, VerificationTypeOK
<1>2. /\ security' = [security EXCEPT !.code = NoCode, !.purpose = "NONE",
                                      !.expires = 0, !.sentAt = Never]
      /\ check' = [check EXCEPT ![r] = Checked] /\ UNCHANGED <<tick, drawn, mailed, used>>
  BY DEF MailFails, Ended, Proceed
<1>3. security' \in SecurityRow /\ security'.code = NoCode
  <2>1. NoCode \in Nat /\ 0 \in Int /\ Never \in Int
    BY DEF NoCode, Never
  <2>2. [security EXCEPT !.code = NoCode, !.purpose = "NONE", !.expires = 0, !.sentAt = Never]
          \in SecurityRow
    BY <1>1, <2>1 DEF SecurityRow
  <2> QED BY <1>1, <1>2, <2>2 DEF SecurityRow
<1> QED BY <1>1, <1>2, <1>3, CheckedForm, NoNewCode

LEMMA EnterCodeKeepsCodes ==
  ASSUME VerificationIInv, NEW r \in Checks, NEW purpose \in Purposes,
         NEW code \in {m[1] : m \in mailed} \cup {Wrong}, EnterCode(r, code, purpose)
  PROVE  VerificationIInv'
<1> DEFINE state == [step |-> IF code = security.code THEN "CONSUMING" ELSE "MISSED",
                     seen |-> security.code, purpose |-> purpose]
<1>1. security \in SecurityRow /\ drawn \in Nat /\ mailed \subseteq Nat \X Purposes
  BY DEF VerificationIInv, VerificationTypeOK
<1>2. check' = [check EXCEPT ![r] = state] /\ UNCHANGED <<tick, security, drawn, mailed, used>>
  BY DEF EnterCode, Proceed
<1>3. /\ state \in CheckForms /\ state.seen = security.code /\ state.purpose = purpose
      /\ state.step \in {"CONSUMING", "MISSED"}
      /\ state.step = "CONSUMING" => code = security.code
  BY <1>1 DEF CheckForms, SecurityRow
<1>4. code = security.code => <<security.code, purpose>> \in mailed
  <2> SUFFICES ASSUME code = security.code PROVE <<security.code, purpose>> \in mailed
    OBVIOUS
  <2>1. security.purpose = purpose /\ security.code # NoCode
    BY DEF EnterCode, Acceptable
  <2>2. PICK m \in mailed : m[1] = security.code
    BY <2>1 DEF Wrong, NoCode
  <2>3. m = <<security.code, m[2]>> /\ m[2] \in Purposes /\ security.code \in Nat
    BY <1>1, <2>2 DEF SecurityRow
  <2>4. KnownCode(security.code, m[2]) /\ KnownCode(security.code, purpose)
    BY <2>1, <2>2, <2>3 DEF KnownCode
  <2>5. m[2] = purpose
    BY <2>3, <2>4 DEF VerificationIInv, OnePurpose
  <2> QED BY <2>2, <2>3, <2>5
<1> HIDE DEF state
<1> QED BY <1>1, <1>2, <1>3, <1>4, NoNewCode

LEMMA MissesKeepCodes ==
  ASSUME VerificationIInv, NEW r \in Checks, CountMiss(r) \/ CodeNotConsumed(r)
  PROVE  VerificationIInv'
<1>1. security \in SecurityRow /\ drawn \in Nat
  BY DEF VerificationIInv, VerificationTypeOK
<1>2. CASE CountMiss(r)
  <2>1. /\ security' = security \/ security' = [security EXCEPT !.attempts = @ + 1]
        /\ check' = [check EXCEPT ![r] = Checked] /\ UNCHANGED <<tick, drawn, mailed, used>>
    BY <1>2 DEF CountMiss, Ended, Proceed
  <2>2. security' \in SecurityRow /\ security'.code = security.code /\ security'.purpose = security.purpose
    BY <1>1, <2>1 DEF SecurityRow
  <2> QED BY <1>1, <2>1, <2>2, CheckedForm, NoNewCode
<1>3. CASE CodeNotConsumed(r)
  BY <1>1, <1>3, CheckedForm, NoNewCode DEF CodeNotConsumed, Ended, Proceed
<1> QED BY <1>2, <1>3

LEMMA ConsumeCodeKeepsCodes ==
  ASSUME VerificationIInv, NEW r \in Checks, ConsumeCode(r)
  PROVE  VerificationIInv'
<1> USE DEF VerificationIInv, VerificationTypeOK
<1> DEFINE seen == check[r].seen
           purpose == check[r].purpose
           enabled == security.emailEnabled \/ purpose = "ENROLLMENT"
<1>1. /\ check[r].step = "CONSUMING" /\ security.code = seen
      /\ security' = [security EXCEPT !.code = NoCode, !.purpose = "NONE", !.expires = 0,
                        !.attempts = 0, !.emailEnabled = enabled]
      /\ used' = used \cup {<<r, seen, purpose>>}
      /\ check' = [check EXCEPT ![r] = Checked]
      /\ UNCHANGED <<tick, drawn, mailed>>
  BY DEF ConsumeCode, StillAcceptable, In, Ended, Proceed
<1>2. seen \in Nat /\ purpose \in Purposes /\ <<seen, purpose>> \in mailed
  BY <1>1 DEF CheckForms, ConsumedWasMailed, In
<1>3. security' \in SecurityRow /\ security'.code = NoCode
  <2>1. enabled \in BOOLEAN /\ 0 \in Int
    OBVIOUS
  <2> HIDE DEF enabled
  <2>2. [security EXCEPT !.code = NoCode, !.purpose = "NONE", !.expires = 0,
                        !.attempts = 0, !.emailEnabled = enabled] \in SecurityRow
    BY <2>1 DEF SecurityRow, NoCode
  <2> QED BY <1>1, <2>2 DEF SecurityRow
<1> HIDE DEF seen, purpose, enabled
<1>4. check'[r] = Checked /\ \A s \in Checks \ {r} : check'[s] = check[s]
  BY <1>1
<1>5. VerificationTypeOK'
  BY <1>1, <1>2, <1>3, CheckedForm
<1>6. \A c, p : KnownCode(c, p)' => KnownCode(c, p)
  BY <1>1, <1>3, <1>4, CheckedForm DEF KnownCode, In
<1>7. OnePurpose'
  <2>1. \A c \in Nat, p \in Purposes \cup {"NONE"} : KnownCode(c, p)' => c # NoCode /\ c <= drawn'
    BY <1>1, <1>6 DEF OnePurpose
  <2> QED BY <1>6, <2>1 DEF OnePurpose
<1>8. ConsumedWasMailed'
  <2>1. \A u \in used : u[2] \in Nat /\ u[3] \in Purposes /\ <<u[2], u[3]>> \in mailed /\ u[2] # seen
    BY <1>1 DEF ConsumedWasMailed
  <2>2. \A u \in used' : u \in used \/ (u = <<r, seen, purpose>> /\ u[2] = seen /\ u[3] = purpose)
    BY <1>1
  <2>3. \A u \in used' : <<u[2], u[3]>> \in mailed
    BY <1>2, <2>1, <2>2
  <2>4. \A u \in used' : u[2] # NoCode
    <3>1. \A u \in used' : u[2] \in Nat /\ u[3] \in Purposes
      BY <1>2, <2>1, <2>2
    <3>2. \A u \in used' : KnownCode(u[2], u[3])
      BY <2>3 DEF KnownCode
    <3> QED BY <3>1, <3>2 DEF OnePurpose
  <2>5. \A u, v \in used' : u[2] = v[2] => u = v
    BY <2>1, <2>2 DEF ConsumedWasMailed
  <2>6. \A s \in Checks : check'[s].step = "CONSUMING" => <<check'[s].seen, check'[s].purpose>> \in mailed'
    BY <1>1, <1>4, CheckedForm DEF ConsumedWasMailed, In
  <2> QED BY <1>1, <1>3, <2>3, <2>4, <2>5, <2>6 DEF ConsumedWasMailed, In
<1> QED BY <1>5, <1>7, <1>8

(* Verification: an emailed code serves once and for what it was mailed    *)
(* for, for any number of requests.                                        *)
THEOREM EmailCodeUsedOnce == VerificationSpec => []EmailCodeServesOnce
<1>1. VerificationInit => VerificationIInv
  BY VerificationStarts
<1>2. VerificationIInv /\ [VerificationNext]_verificationVars => VerificationIInv'
  <2> SUFFICES ASSUME VerificationIInv, [VerificationNext]_verificationVars
               PROVE  VerificationIInv'
    OBVIOUS
  <2>1. CASE UNCHANGED verificationVars \/ Tock
    <3>1. UNCHANGED <<security, drawn, check, mailed, used>> /\ tick' \in Int
      BY <2>1 DEF verificationVars, Tock, VerificationIInv, VerificationTypeOK
    <3> QED BY <3>1 DEF VerificationIInv, VerificationTypeOK, OnePurpose, KnownCode, In,
                        ConsumedWasMailed
  <2>2. CASE \E r \in Checks : CheckStep(r)
    BY <2>2, AuthenticatorStepsKeepCodes, RequestCodeKeepsCodes, StoreCodeKeepsCodes,
       MailCodeKeepsCodes, MailFailsKeepsCodes, EnterCodeKeepsCodes, MissesKeepCodes,
       ConsumeCodeKeepsCodes DEF CheckStep
  <2> QED BY <2>1, <2>2 DEF VerificationNext
<1>3. VerificationIInv => EmailCodeServesOnce
  BY DEF VerificationIInv, ConsumedWasMailed, EmailCodeServesOnce
<1> QED BY <1>1, <1>2, <1>3, PTL DEF VerificationSpec

-----------------------------------------------------------------------------
(* AdminKeys                                                               *)

Verifying == {"FOUND", "CONSUMED", "READ"}
ChallengeType == [kind : Kinds \cup {"NONE"}, consumed : BOOLEAN, expired : BOOLEAN]
SignatureType == [key : SecurityKeys \cup {NoKeyYet}, count : Nat]
VerifyingType == [step : {"NONE"} \cup Verifying, id : ChallengeIds \cup {0}, read : Int]

AdminKeysTypeOK ==
  /\ device \in [SecurityKeys -> Nat]
  /\ credential \in [SecurityKeys -> Nat \cup {Unregistered}]
  /\ challenge \in [ChallengeIds -> ChallengeType]
  /\ signature \in [ChallengeIds -> SignatureType]
  /\ verifying \in [Verifications -> VerifyingType]
  /\ served \in [ChallengeIds -> Nat]
  /\ counted \in [SecurityKeys -> SUBSET Nat]

(* A request under way is about a signed challenge.                        *)
SignedOnes ==
  /\ \A c \in ChallengeIds : signature[c] # Unsigned => signature[c].key \in SecurityKeys
  /\ \A q \in Verifications : verifying[q].step # "NONE" =>
       verifying[q].id \in ChallengeIds /\ signature[verifying[q].id] # Unsigned

Holding(q) == verifying[q].step \in {"CONSUMED", "READ"}

(* A consumed challenge is one request's, and has not served before that   *)
(* request is through.                                                     *)
HeldByOne ==
  /\ \A q \in Verifications : Holding(q) =>
       /\ challenge[verifying[q].id].consumed
       /\ served[verifying[q].id] = 0
       /\ \A p \in Verifications : Holding(p) /\ verifying[p].id = verifying[q].id => p = q
  /\ \A c \in ChallengeIds : served[c] <= 1 /\ (served[c] # 0 => challenge[c].consumed)

(* No accepted count is above the recorded one, which was accepted itself. *)
RecordedIsHighest ==
  \A k \in SecurityKeys :
    /\ \A n \in counted[k] : n <= credential[k]
    /\ counted[k] # {} => credential[k] \in counted[k]

AdminKeysIInv == AdminKeysTypeOK /\ SignedOnes /\ HeldByOne /\ RecordedIsHighest

LEMMA AdminKeysStart == AdminKeysInit => AdminKeysIInv
<1> SUFFICES ASSUME AdminKeysInit PROVE AdminKeysIInv
  OBVIOUS
<1> USE DEF AdminKeysInit
<1>1. /\ NoChallenge \in ChallengeType /\ Unsigned \in SignatureType
      /\ NotVerifying \in VerifyingType /\ NotVerifying.step = "NONE"
  BY DEF NoChallenge, ChallengeType, Unsigned, SignatureType, NotVerifying, VerifyingType
<1>2. credential \in [SecurityKeys -> Nat \cup {Unregistered}]
  OBVIOUS
<1>3. AdminKeysTypeOK
  BY <1>1, <1>2 DEF AdminKeysTypeOK
<1>4. SignedOnes /\ HeldByOne /\ RecordedIsHighest
  BY <1>1 DEF SignedOnes, HeldByOne, RecordedIsHighest, Holding
<1> QED BY <1>3, <1>4 DEF AdminKeysIInv

(* Steps of the session and of the challenges, before a request is there.  *)
LEMMA ChallengeStepsKeepKeys ==
  ASSUME AdminKeysIInv,
         \/ AdminLogin \/ ConfirmPassword \/ SessionRunsOut
         \/ \E c \in ChallengeIds : \/ \E kind \in Kinds : SecurityOptions(c, kind)
                                    \/ ChallengeExpires(c)
                                    \/ \E k \in SecurityKeys : DeviceSigns(k, c)
  PROVE  AdminKeysIInv'
<1> USE DEF AdminKeysIInv, AdminKeysTypeOK
<1>1. CASE AdminLogin \/ ConfirmPassword \/ SessionRunsOut
  BY <1>1 DEF AdminLogin, ConfirmPassword, SessionRunsOut, SignedOnes, HeldByOne, Holding,
              RecordedIsHighest
<1>2. ASSUME NEW c \in ChallengeIds, NEW e \in ChallengeType,
             challenge' = [challenge EXCEPT ![c] = e], e.consumed = challenge[c].consumed,
             UNCHANGED <<device, credential, signature, verifying, served, counted>>
      PROVE  AdminKeysIInv'
  <2>1. \A d \in ChallengeIds : challenge'[d].consumed = challenge[d].consumed
    BY <1>2
  <2>2. AdminKeysTypeOK' /\ SignedOnes' /\ RecordedIsHighest'
    BY <1>2 DEF SignedOnes, RecordedIsHighest
  <2>3. HeldByOne'
    <3>1. \A q \in Verifications : Holding(q)' <=> Holding(q)
      BY <1>2 DEF Holding
    <3>2. \A q \in Verifications : Holding(q) => verifying[q].id \in ChallengeIds
      BY DEF Holding, SignedOnes
    <3> QED BY <1>2, <2>1, <3>1, <3>2 DEF HeldByOne
  <2> QED BY <2>2, <2>3
<1>3. ASSUME NEW c \in ChallengeIds, NEW kind \in Kinds, SecurityOptions(c, kind)
      PROVE  AdminKeysIInv'
  <2> DEFINE e == [NoChallenge EXCEPT !.kind = kind]
  <2>1. e \in ChallengeType /\ e.consumed = challenge[c].consumed
    BY <1>3 DEF SecurityOptions, NoChallenge, ChallengeType
  <2>2. /\ challenge' = [challenge EXCEPT ![c] = e]
        /\ UNCHANGED <<device, credential, signature, verifying, served, counted>>
    BY <1>3 DEF SecurityOptions
  <2> HIDE DEF e
  <2> QED BY <1>2, <2>1, <2>2
<1>4. ASSUME NEW c \in ChallengeIds, ChallengeExpires(c)
      PROVE  AdminKeysIInv'
  <2> DEFINE e == [challenge[c] EXCEPT !.expired = TRUE]
  <2>1. e \in ChallengeType /\ e.consumed = challenge[c].consumed
    BY <1>4 DEF ChallengeType
  <2>2. /\ challenge' = [challenge EXCEPT ![c] = e]
        /\ UNCHANGED <<device, credential, signature, verifying, served, counted>>
    BY <1>4 DEF ChallengeExpires
  <2> HIDE DEF e
  <2> QED BY <1>2, <2>1, <2>2
<1>5. ASSUME NEW c \in ChallengeIds, NEW k \in SecurityKeys, DeviceSigns(k, c)
      PROVE  AdminKeysIInv'
  <2>1. device' \in [SecurityKeys -> Nat]
    BY <1>5 DEF DeviceSigns
  <2>2. PICK s \in SignatureType :
          /\ s # Unsigned /\ s.key = k /\ signature' = [signature EXCEPT ![c] = s]
    <3> DEFINE s == [key |-> k, count |-> device'[k]]
    <3>1. s \in SignatureType /\ s.key = k
      BY <2>1 DEF SignatureType
    <3>2. s # Unsigned
      BY <3>1, AdminKeysAssumption DEF Unsigned
    <3> QED BY <1>5, <3>1, <3>2 DEF DeviceSigns
  <2>3. /\ signature[c] = Unsigned
        /\ UNCHANGED <<adminSession, credential, challenge, verifying, served, counted>>
    BY <1>5 DEF DeviceSigns
  <2>4. AdminKeysTypeOK'
    BY <2>1, <2>2, <2>3
  <2>5. SignedOnes'
    BY <2>2, <2>3 DEF SignedOnes
  <2>6. HeldByOne' /\ RecordedIsHighest'
    BY <2>3 DEF HeldByOne, Holding, RecordedIsHighest
  <2> QED BY <2>4, <2>5, <2>6
<1> QED BY <1>1, <1>3, <1>4, <1>5

(* A request leaves, or goes on without consuming or recording.            *)
LEMMA RequestGoesOn ==
  ASSUME AdminKeysIInv, NEW q \in Verifications, NEW e \in VerifyingType,
         verifying' = [verifying EXCEPT ![q] = e],
         e.step # "NONE" => e.id \in ChallengeIds /\ signature[e.id] # Unsigned,
         e.step \in {"CONSUMED", "READ"} => Holding(q) /\ e.id = verifying[q].id,
         UNCHANGED <<device, credential, challenge, signature, served, counted>>
  PROVE  AdminKeysIInv'
<1> USE DEF AdminKeysIInv, AdminKeysTypeOK
<1>1. verifying'[q] = e /\ \A p \in Verifications \ {q} : verifying'[p] = verifying[p]
  OBVIOUS
<1>2. AdminKeysTypeOK' /\ RecordedIsHighest'
  BY DEF RecordedIsHighest
<1>3. SignedOnes'
  BY <1>1 DEF SignedOnes
<1>4. \A p \in Verifications : Holding(p)' => Holding(p) /\ verifying'[p].id = verifying[p].id
  BY <1>1 DEF Holding
<1>5. HeldByOne'
  BY <1>4 DEF HeldByOne
<1> QED BY <1>2, <1>3, <1>5

LEMMA FindChallengeKeepsKeys ==
  ASSUME AdminKeysIInv, NEW q \in Verifications, NEW c \in ChallengeIds, FindChallenge(q, c)
  PROVE  AdminKeysIInv'
<1> DEFINE e == [step |-> "FOUND", id |-> c, read |-> 0]
<1>1. e \in VerifyingType /\ e.step = "FOUND" /\ e.id = c
  BY DEF VerifyingType, Verifying
<1>2. /\ verifying' = [verifying EXCEPT ![q] = e] /\ signature[c] # Unsigned
      /\ UNCHANGED <<device, credential, challenge, signature, served, counted>>
  BY DEF FindChallenge
<1> HIDE DEF e
<1> QED BY <1>1, <1>2, RequestGoesOn

LEMMA RefusalKeepsKeys ==
  ASSUME AdminKeysIInv, NEW q \in Verifications, Refused(q),
         UNCHANGED <<device, credential, challenge, signature, served, counted>>
  PROVE  AdminKeysIInv'
<1>1. NotVerifying \in VerifyingType /\ NotVerifying.step = "NONE"
  BY DEF NotVerifying, VerifyingType
<1> QED BY <1>1, RequestGoesOn DEF Refused

LEMMA ConsumeChallengeKeepsKeys ==
  ASSUME AdminKeysIInv, NEW q \in Verifications, ConsumeChallenge(q)
  PROVE  AdminKeysIInv'
<1> DEFINE c == verifying[q].id
           e == [verifying[q] EXCEPT !.step = "CONSUMED"]
<1>1. /\ verifying[q] \in VerifyingType /\ verifying[q].step = "FOUND"
      /\ c \in ChallengeIds /\ signature[c] # Unsigned
  BY DEF ConsumeChallenge, VerifyAt, AdminKeysIInv, AdminKeysTypeOK, SignedOnes
<1>2. CASE challenge[c].consumed
  <2>1. Refused(q) /\ UNCHANGED <<device, credential, challenge, signature, served, counted>>
    BY <1>2 DEF ConsumeChallenge, MayConsume
  <2> QED BY <2>1, RefusalKeepsKeys
<1>3. CASE ~challenge[c].consumed
  <2> USE DEF AdminKeysIInv, AdminKeysTypeOK
  <2>1. /\ challenge' = [challenge EXCEPT ![c] = [challenge[c] EXCEPT !.consumed = TRUE]]
        /\ verifying' = [verifying EXCEPT ![q] = e]
        /\ UNCHANGED <<device, credential, signature, served, counted>>
    BY <1>3 DEF ConsumeChallenge, MayConsume, Proceeds
  <2>2. e \in VerifyingType /\ e.step = "CONSUMED" /\ e.id = c
    BY <1>1 DEF VerifyingType, Verifying
  <2>3. challenge' \in [ChallengeIds -> ChallengeType]
    <3>1. challenge[c] \in ChallengeType
      BY <1>1
    <3>2. [challenge[c] EXCEPT !.consumed = TRUE] \in ChallengeType
      BY <3>1 DEF ChallengeType
    <3> QED BY <2>1, <3>2
  <2>4. \A d \in ChallengeIds : challenge'[d].consumed <=> d = c \/ challenge[d].consumed
    <3>1. challenge[c] \in ChallengeType
      BY <1>1
    <3>2. [challenge[c] EXCEPT !.consumed = TRUE].consumed
      BY <3>1 DEF ChallengeType
    <3> QED BY <1>1, <2>1, <3>2
  <2>5. c = verifying[q].id
    OBVIOUS
  <2> HIDE DEF e, c
  <2>6. verifying'[q] = e /\ \A p \in Verifications \ {q} : verifying'[p] = verifying[p]
    BY <2>1
  <2>7. AdminKeysTypeOK' /\ RecordedIsHighest'
    BY <2>1, <2>2, <2>3 DEF RecordedIsHighest
  <2>8. SignedOnes'
    BY <1>1, <2>1, <2>2, <2>6 DEF SignedOnes
  <2>9. \A p \in Verifications \ {q} : Holding(p)' <=> Holding(p)
    BY <2>6 DEF Holding
  <2>10. \A p \in Verifications : Holding(p) => verifying[p].id \in ChallengeIds /\ verifying[p].id # c
    BY <1>3 DEF HeldByOne, Holding, SignedOnes
  <2>11. served[c] = 0
    BY <1>1, <1>3 DEF HeldByOne
  <2>12. HeldByOne'
    BY <1>1, <2>1, <2>2, <2>4, <2>6, <2>9, <2>10, <2>11 DEF HeldByOne
  <2> QED BY <2>7, <2>8, <2>12
<1> QED BY <1>2, <1>3

LEMMA ReadKeyKeepsKeys ==
  ASSUME AdminKeysIInv, NEW q \in Verifications, ReadKey(q)
  PROVE  AdminKeysIInv'
<1> DEFINE c == verifying[q].id
           k == signature[c].key
           e == [verifying[q] EXCEPT !.step = "READ"]
           f == [step |-> "READ", id |-> c, read |-> credential[k]]
<1>1. /\ verifying[q] \in VerifyingType /\ verifying[q].step = "CONSUMED"
      /\ c \in ChallengeIds /\ signature[c] # Unsigned /\ Holding(q)
  BY DEF ReadKey, VerifyAt, AdminKeysIInv, AdminKeysTypeOK, SignedOnes, Holding
<1>2. k \in SecurityKeys /\ credential[k] \in Int
  BY <1>1 DEF AdminKeysIInv, AdminKeysTypeOK, SignedOnes, Unregistered
<1>3. e \in VerifyingType /\ e.step = "READ" /\ e.id = c
  BY <1>1 DEF VerifyingType, Verifying
<1>4. f \in VerifyingType /\ f.step = "READ" /\ f.id = c
  BY <1>1, <1>2 DEF VerifyingType, Verifying
<1>5. /\ UNCHANGED <<device, credential, challenge, signature, served, counted>>
      /\ \/ verifying' = [verifying EXCEPT ![q] = e]
         \/ verifying' = [verifying EXCEPT ![q] = f]
         \/ Refused(q)
  BY DEF ReadKey, Proceeds
<1>6. c = verifying[q].id
  OBVIOUS
<1> HIDE DEF c, k, e, f
<1>7. CASE verifying' = [verifying EXCEPT ![q] = e]
  BY <1>1, <1>3, <1>5, <1>6, <1>7, RequestGoesOn
<1>8. CASE verifying' = [verifying EXCEPT ![q] = f]
  BY <1>1, <1>4, <1>5, <1>6, <1>8, RequestGoesOn
<1>9. CASE Refused(q)
  BY <1>5, <1>9, RefusalKeepsKeys
<1> QED BY <1>5, <1>7, <1>8, <1>9

LEMMA RecordKeyKeepsKeys ==
  ASSUME AdminKeysIInv, NEW q \in Verifications, RecordKey(q)
  PROVE  AdminKeysIInv'
<1> DEFINE c == verifying[q].id
           k == signature[c].key
           count == signature[c].count
           recorded == IF challenge[c].kind = "REGISTER" THEN k \notin Registered
                       ELSE /\ CountAccepted(count, verifying[q].read)
                            /\ credential[k] = verifying[q].read
<1>1. /\ verifying[q] \in VerifyingType /\ verifying[q].step = "READ"
      /\ c \in ChallengeIds /\ signature[c] # Unsigned /\ Holding(q)
  BY DEF RecordKey, VerifyAt, AdminKeysIInv, AdminKeysTypeOK, SignedOnes, Holding
<1>2. k \in SecurityKeys /\ count \in Nat
  BY <1>1 DEF AdminKeysIInv, AdminKeysTypeOK, SignedOnes, SignatureType
<1>3. CASE ~recorded
  <2>1. Refused(q) /\ UNCHANGED <<device, credential, challenge, signature, served, counted>>
    BY <1>3 DEF RecordKey
  <2> QED BY <2>1, RefusalKeepsKeys
<1>4. CASE recorded
  <2> USE DEF AdminKeysIInv, AdminKeysTypeOK
  <2>1. /\ credential' = [credential EXCEPT ![k] = count]
        /\ counted' = [counted EXCEPT ![k] = counted[k] \cup {count}]
        /\ served' = [served EXCEPT ![c] = served[c] + 1]
        /\ verifying' = [verifying EXCEPT ![q] = NotVerifying]
        /\ UNCHANGED <<device, challenge, signature>>
    BY <1>4 DEF RecordKey, Refused
  <2>2. credential[k] <= count /\ \A n \in counted[k] : n <= count
    <3>1. credential[k] \in Nat \cup {-1} /\ counted[k] \subseteq Nat /\ verifying[q].read \in Int
      BY <1>1, <1>2 DEF Unregistered, VerifyingType
    <3>2. credential[k] <= count
      <4>1. CASE challenge[c].kind = "REGISTER"
        BY <1>2, <1>4, <3>1, <4>1 DEF Registered, Unregistered
      <4>2. CASE challenge[c].kind # "REGISTER"
        <5>1. CountAccepted(count, verifying[q].read) /\ credential[k] = verifying[q].read
          BY <1>4, <4>2
        <5> HIDE DEF count, k
        <5> QED BY <1>2, <3>1, <5>1 DEF CountAccepted
      <4> QED BY <4>1, <4>2
    <3>3. \A n \in counted[k] : n \in Nat /\ n <= credential[k]
      BY <1>2, <3>1 DEF RecordedIsHighest
    <3> HIDE DEF count, k
    <3> QED BY <1>2, <3>1, <3>2, <3>3
  <2>3. NotVerifying \in VerifyingType /\ NotVerifying.step = "NONE"
    BY DEF NotVerifying, VerifyingType
  <2>4. c = verifying[q].id
    OBVIOUS
  <2> HIDE DEF c, k, count
  <2>5. verifying'[q] = NotVerifying /\ \A p \in Verifications \ {q} : verifying'[p] = verifying[p]
    BY <2>1
  <2>6. AdminKeysTypeOK'
    BY <1>1, <1>2, <2>1, <2>3
  <2>7. SignedOnes'
    BY <2>1, <2>3, <2>5 DEF SignedOnes
  <2>8. \A p \in Verifications : Holding(p)' =>
          Holding(p) /\ verifying'[p] = verifying[p] /\ verifying[p].id # c
    BY <1>1, <2>3, <2>4, <2>5 DEF Holding, HeldByOne
  <2>9. challenge[c].consumed /\ served[c] = 0
    BY <1>1, <2>4 DEF HeldByOne
  <2>10. HeldByOne'
    <3>1. \A d \in ChallengeIds : served'[d] = IF d = c THEN 1 ELSE served[d]
      BY <1>1, <2>1, <2>9
    <3>2. \A d \in ChallengeIds : served'[d] <= 1 /\ (served'[d] # 0 => challenge'[d].consumed)
      BY <2>1, <2>9, <3>1 DEF HeldByOne
    <3>3. \A p \in Verifications : Holding(p) => verifying[p].id \in ChallengeIds
      BY DEF Holding, SignedOnes
    <3> QED BY <2>1, <2>8, <3>1, <3>2, <3>3 DEF HeldByOne
  <2>11. RecordedIsHighest'
    BY <1>2, <2>1, <2>2 DEF RecordedIsHighest
  <2> QED BY <2>6, <2>7, <2>10, <2>11
<1> QED BY <1>3, <1>4

(* AdminKeys: a challenge serves once and the recorded count is the        *)
(* highest accepted, for any number of keys, challenges and requests.      *)
THEOREM KeysServeOnce == AdminKeysSpec => []ChallengesServeOnce
<1>1. AdminKeysInit => AdminKeysIInv
  BY AdminKeysStart
<1>2. AdminKeysIInv /\ [AdminKeysNext]_keyVars => AdminKeysIInv'
  <2> SUFFICES ASSUME AdminKeysIInv, [AdminKeysNext]_keyVars PROVE AdminKeysIInv'
    OBVIOUS
  <2>1. CASE UNCHANGED keyVars
    BY <2>1 DEF keyVars, AdminKeysIInv, AdminKeysTypeOK, SignedOnes, HeldByOne, Holding,
                RecordedIsHighest
  <2>2. CASE AdminKeysNext
    BY <2>2, ChallengeStepsKeepKeys, FindChallengeKeepsKeys, ConsumeChallengeKeepsKeys,
       ReadKeyKeepsKeys, RecordKeyKeepsKeys DEF AdminKeysNext
  <2> QED BY <2>1, <2>2
<1>3. AdminKeysIInv => ChallengesServeOnce
  <2> SUFFICES ASSUME AdminKeysIInv PROVE ChallengesServeOnce
    OBVIOUS
  <2>1. ASSUME NEW k \in SecurityKeys, counted[k] # {}
        PROVE  credential[k] = Max(counted[k])
    <3>1. /\ credential[k] \in counted[k] /\ \A n \in counted[k] : n <= credential[k]
          /\ counted[k] \subseteq Nat
      BY <2>1 DEF AdminKeysIInv, AdminKeysTypeOK, RecordedIsHighest
    <3> QED BY <3>1 DEF Max
  <2> QED BY <2>1 DEF ChallengesServeOnce, AdminKeysIInv, HeldByOne
<1> QED BY <1>1, <1>2, <1>3, PTL DEF AdminKeysSpec

-----------------------------------------------------------------------------
(* Readiness                                                               *)

SignatureForm == [kind : {"SIGNATURE"}, gate : Gates, file : Files \cup {OfficeRecord},
                  by : Signers, expires : Int, revoked : BOOLEAN]
StatementForm == [kind : {"STATEMENT"}, bank : Banks, category : Categories, file : Files,
                  by : Signers, asOf : Int, status : {"PENDING", "APPROVED", "REJECTED"}]
Forms == SignatureForm \cup StatementForm
FileForms == [owner : {"NONE"}, claimedBy : Nat]
               \cup [owner : Signers, purpose : {"RELEASE", "TREASURY"}, claimedBy : Nat]

ReadinessTypeOK ==
  /\ day \in Int
  /\ file \in [Files -> FileForms]
  /\ record \in [RowIds -> {NoRecord} \cup Forms]
  /\ attaching \in [Posts -> {NotAttaching} \cup Forms]

(* An office record stands for a file only where the gate allows one.      *)
OfficeOnly(form) == form.file = OfficeRecord => form.gate \in OfficeGates

(* The file of a row is claimed by that row.                               *)
RowsHoldTheirFiles ==
  \A id \in RowIds : record[id] # NoRecord =>
    /\ OfficeOnly(record[id])
    /\ record[id].file # OfficeRecord => file[record[id].file].claimedBy = id

ReadinessIInv ==
  /\ ReadinessTypeOK
  /\ RowsHoldTheirFiles
  /\ \A p \in Posts : attaching[p] # NotAttaching => OfficeOnly(attaching[p])

(* A form names its file, which is one of the files or an office record.   *)
LEMMA FormsNameFiles ==
  ASSUME NEW form \in Forms
  PROVE  /\ form.file \in Files \cup {OfficeRecord}
         /\ form.kind \in {"SIGNATURE", "STATEMENT"}
         /\ form.kind = "STATEMENT" => form.file \in Files
         /\ form # NoRecord /\ form # NotAttaching
BY DEF Forms, SignatureForm, StatementForm, NoRecord, NotAttaching

LEMMA ReadinessStarts == ReadinessInit => ReadinessIInv
<1> SUFFICES ASSUME ReadinessInit PROVE ReadinessIInv
  OBVIOUS
<1>1. NoFile \in FileForms
  BY DEF NoFile, FileForms, Unclaimed
<1> QED BY <1>1 DEF ReadinessInit, ReadinessIInv, ReadinessTypeOK, RowsHoldTheirFiles

LEMMA ClaimsAndRows ==
  ASSUME ReadinessIInv, NextDay \/ \E o \in Signers, gate \in Gates : GiveOrTakeGate(o, gate)
  PROVE  ReadinessIInv'
<1>1. UNCHANGED <<file, record, attaching>> /\ day' \in Int
  BY DEF NextDay, GiveOrTakeGate, ReadinessIInv, ReadinessTypeOK
<1> QED BY <1>1 DEF ReadinessIInv, ReadinessTypeOK, RowsHoldTheirFiles, OfficeOnly

LEMMA UploadKeepsClaims ==
  ASSUME ReadinessIInv, NEW o \in Signers, NEW f \in Files,
         NEW purpose \in {"RELEASE", "TREASURY"}, UploadEvidence(o, f, purpose)
  PROVE  ReadinessIInv'
<1> USE DEF ReadinessIInv, ReadinessTypeOK
<1> DEFINE new == [owner |-> o, purpose |-> purpose, claimedBy |-> Unclaimed]
<1>1. /\ file[f] = NoFile /\ file' = [file EXCEPT ![f] = new]
      /\ UNCHANGED <<day, authority, record, attaching>>
  BY DEF UploadEvidence
<1>2. new \in FileForms /\ NoFile.claimedBy = Unclaimed
  BY DEF FileForms, Unclaimed, NoFile
<1> HIDE DEF new
<1>3. ReadinessTypeOK'
  BY <1>1, <1>2
<1>4. RowsHoldTheirFiles'
  <2> SUFFICES ASSUME NEW id \in RowIds, record[id] # NoRecord
               PROVE  /\ OfficeOnly(record[id])
                      /\ record[id].file # OfficeRecord => file'[record[id].file].claimedBy = id
    BY <1>1 DEF RowsHoldTheirFiles, OfficeOnly
  <2>1. record[id].file # OfficeRecord => file[record[id].file].claimedBy = id
    BY DEF RowsHoldTheirFiles
  <2>2. record[id].file = f => FALSE
    BY <1>1, <1>2, <2>1, ReadinessAssumption DEF Unclaimed
  <2>3. record[id].file # OfficeRecord => file'[record[id].file] = file[record[id].file]
    <3>1. record[id] \in Forms
      OBVIOUS
    <3>2. record[id].file \in Files \cup {OfficeRecord}
      BY <3>1, FormsNameFiles
    <3> QED BY <1>1, <2>2, <3>2
  <2> QED BY <2>1, <2>3 DEF RowsHoldTheirFiles
<1> QED BY <1>1, <1>3, <1>4 DEF OfficeOnly

(* A request is looked at, or given up.                                    *)
LEMMA RequestsKeepClaims ==
  ASSUME ReadinessIInv, NEW p \in Posts, NEW form \in {NotAttaching} \cup Forms,
         form # NotAttaching => OfficeOnly(form),
         attaching' = [attaching EXCEPT ![p] = form], UNCHANGED <<day, file, record>>
  PROVE  ReadinessIInv'
<1> USE DEF ReadinessIInv, ReadinessTypeOK
<1>1. ReadinessTypeOK'
  OBVIOUS
<1>2. RowsHoldTheirFiles'
  BY DEF RowsHoldTheirFiles, OfficeOnly
<1>3. \A s \in Posts : attaching'[s] # NotAttaching =>
        (attaching'[s].file = OfficeRecord => attaching'[s].gate \in OfficeGates)
  BY DEF OfficeOnly
<1> QED BY <1>1, <1>2, <1>3 DEF OfficeOnly

LEMMA BeginSignatureKeepsClaims ==
  ASSUME ReadinessIInv, NEW o \in Signers, NEW p \in Posts, NEW gate \in Gates,
         NEW f \in Files \cup {OfficeRecord}, NEW d \in 1 .. GoodFor,
         BeginSignature(p, o, gate, f, day + d)
  PROVE  ReadinessIInv'
<1> DEFINE form == [kind |-> "SIGNATURE", gate |-> gate, file |-> f, by |-> o,
                    expires |-> day + d, revoked |-> FALSE]
<1>1. day + d \in Int
  BY ReadinessAssumption DEF ReadinessIInv, ReadinessTypeOK
<1>2. form \in Forms /\ form.file = f /\ form.gate = gate
  BY <1>1 DEF Forms, SignatureForm
<1>3. /\ attaching' = [attaching EXCEPT ![p] = form] /\ UNCHANGED <<day, file, record>>
      /\ f = OfficeRecord => gate \in OfficeGates
  BY DEF BeginSignature
<1> HIDE DEF form
<1> QED BY <1>2, <1>3, RequestsKeepClaims DEF OfficeOnly

LEMMA BeginStatementKeepsClaims ==
  ASSUME ReadinessIInv, NEW o \in Signers, NEW p \in Posts, NEW f \in Files, NEW bank \in Banks,
         NEW category \in Categories, NEW asOf \in 0 .. LastDay,
         BeginStatement(p, o, bank, category, f, asOf)
  PROVE  ReadinessIInv'
<1> DEFINE form == [kind |-> "STATEMENT", bank |-> bank, category |-> category, file |-> f,
                    by |-> o, asOf |-> asOf, status |-> "PENDING"]
<1>1. form \in Forms /\ form.file = f
  BY DEF Forms, StatementForm
<1>2. attaching' = [attaching EXCEPT ![p] = form] /\ UNCHANGED <<day, file, record>>
  BY DEF BeginStatement
<1> HIDE DEF form
<1> QED BY <1>1, <1>2, RequestsKeepClaims, ReadinessAssumption DEF OfficeOnly

LEMMA AttachRefusedKeepsClaims ==
  ASSUME ReadinessIInv, NEW p \in Posts, AttachRefused(p)
  PROVE  ReadinessIInv'
BY RequestsKeepClaims DEF AttachRefused

LEMMA AttachKeepsClaims ==
  ASSUME ReadinessIInv, NEW p \in Posts, NEW id \in RowIds, Attach(p, id)
  PROVE  ReadinessIInv'
<1> USE DEF ReadinessIInv, ReadinessTypeOK
<1> DEFINE new == attaching[p]
<1>1. /\ new # NotAttaching /\ new \in Forms /\ MayClaim(new.file) /\ record[id] = NoRecord
      /\ record' = [record EXCEPT ![id] = new]
      /\ file' = IF new.file = OfficeRecord THEN file
                 ELSE [file EXCEPT ![new.file] = [file[new.file] EXCEPT !.claimedBy = id]]
      /\ attaching' = [attaching EXCEPT ![p] = NotAttaching]
      /\ day' = day
  BY DEF Attach
<1>2. /\ new.file \in Files \cup {OfficeRecord}
      /\ new.file # OfficeRecord => file[new.file].claimedBy = Unclaimed
  BY <1>1, FormsNameFiles DEF MayClaim
<1>3. OfficeOnly(new)
  BY <1>1
<1> HIDE DEF new
<1>4. file' \in [Files -> FileForms]
  <2>1. \A f \in Files : [file[f] EXCEPT !.claimedBy = id] \in FileForms
    <3> SUFFICES ASSUME NEW f \in Files PROVE [file[f] EXCEPT !.claimedBy = id] \in FileForms
      OBVIOUS
    <3>1. id \in Nat /\ file[f] \in FileForms
      BY ReadinessAssumption
    <3> QED BY <3>1 DEF FileForms
  <2> QED BY <1>1, <1>2, <2>1
<1>5. ReadinessTypeOK'
  BY <1>1, <1>4
<1>6. RowsHoldTheirFiles'
  <2> SUFFICES ASSUME NEW j \in RowIds, record'[j] # NoRecord
               PROVE  /\ record'[j].file = OfficeRecord => record'[j].gate \in OfficeGates
                      /\ record'[j].file # OfficeRecord => file'[record'[j].file].claimedBy = j
    BY DEF RowsHoldTheirFiles, OfficeOnly
  <2>1. CASE j = id
    <3>1. record'[j] = new
      BY <1>1, <2>1
    <3>2. \A f \in Files : [file[f] EXCEPT !.claimedBy = id].claimedBy = id
      <4> SUFFICES ASSUME NEW f \in Files PROVE [file[f] EXCEPT !.claimedBy = id].claimedBy = id
        OBVIOUS
      <4>1. file[f] \in FileForms
        OBVIOUS
      <4> QED BY <4>1 DEF FileForms
    <3> QED BY <1>1, <1>2, <1>3, <2>1, <3>1, <3>2 DEF OfficeOnly
  <2>2. CASE j # id
    <3>1. record'[j] = record[j] /\ record[j] \in Forms
      BY <1>1, <2>2
    <3>2. record[j].file \in Files \cup {OfficeRecord}
      BY <3>1, FormsNameFiles
    <3>3. /\ OfficeOnly(record[j])
          /\ record[j].file # OfficeRecord => file[record[j].file].claimedBy = j
      BY <2>2, <3>1 DEF RowsHoldTheirFiles
    <3>4. j # Unclaimed
      BY ReadinessAssumption DEF Unclaimed
    <3>5. record[j].file # OfficeRecord => file'[record[j].file] = file[record[j].file]
      BY <1>1, <1>2, <3>2, <3>3, <3>4
    <3> QED BY <3>1, <3>3, <3>5 DEF OfficeOnly
  <2> QED BY <2>1, <2>2
<1>7. \A s \in Posts : attaching'[s] # NotAttaching =>
        (attaching'[s].file = OfficeRecord => attaching'[s].gate \in OfficeGates)
  BY <1>1 DEF OfficeOnly
<1> QED BY <1>5, <1>6, <1>7 DEF OfficeOnly

(* A row is revoked or reviewed: its file stays what it was.               *)
LEMMA DecisionsKeepClaims ==
  ASSUME ReadinessIInv, NEW o \in Signers, NEW id \in RowIds,
         \/ RevokeSignature(o, id)
         \/ \E decision \in {"APPROVED", "REJECTED"} : ReviewStatement(o, id, decision)
  PROVE  ReadinessIInv'
<1> USE DEF ReadinessIInv, ReadinessTypeOK
<1>1. PICK e \in Forms :
        /\ record' = [record EXCEPT ![id] = e] /\ record[id] # NoRecord
        /\ e.file = record[id].file
        /\ OfficeOnly(e)
  <2>1. CASE RevokeSignature(o, id)
    <3>1. record[id].kind = "SIGNATURE" /\ record' = [record EXCEPT ![id].revoked = TRUE]
      BY <2>1 DEF RevokeSignature
    <3>2. record[id] \in SignatureForm
      BY <3>1 DEF NoRecord, Forms, StatementForm
    <3> DEFINE e == [record[id] EXCEPT !.revoked = TRUE]
    <3>3. e \in SignatureForm /\ e.file = record[id].file /\ e.gate = record[id].gate
      BY <3>2 DEF SignatureForm
    <3>4. record[id] # NoRecord
      BY <3>1 DEF NoRecord
    <3>5. OfficeOnly(record[id])
      BY <3>4 DEF RowsHoldTheirFiles
    <3> HIDE DEF e
    <3>6. record' = [record EXCEPT ![id] = e]
      BY <3>1 DEF e
    <3> QED BY <3>3, <3>4, <3>5, <3>6 DEF OfficeOnly, Forms
  <2>2. CASE \E decision \in {"APPROVED", "REJECTED"} : ReviewStatement(o, id, decision)
    <3>1. PICK decision \in {"APPROVED", "REJECTED"} :
            record[id].kind = "STATEMENT" /\ record' = [record EXCEPT ![id].status = decision]
      BY <2>2 DEF ReviewStatement
    <3>2. record[id] \in StatementForm
      BY <3>1 DEF NoRecord, Forms, SignatureForm
    <3> DEFINE e == [record[id] EXCEPT !.status = decision]
    <3>3. e \in StatementForm /\ e.file = record[id].file /\ e.file \in Files
      BY <3>2 DEF StatementForm
    <3>4. record[id] # NoRecord
      BY <3>1 DEF NoRecord
    <3> HIDE DEF e
    <3>5. record' = [record EXCEPT ![id] = e]
      BY <3>1 DEF e
    <3> QED BY <3>3, <3>4, <3>5, ReadinessAssumption DEF OfficeOnly, Forms
  <2> QED BY <2>1, <2>2
<1>2. UNCHANGED <<day, file, attaching>>
  BY DEF RevokeSignature, ReviewStatement
<1>3. ReadinessTypeOK'
  BY <1>1, <1>2
<1>4. \A j \in RowIds : record'[j] # NoRecord =>
        /\ record'[j].file = OfficeRecord => record'[j].gate \in OfficeGates
        /\ record'[j].file # OfficeRecord => file'[record'[j].file].claimedBy = j
  <2> TAKE j \in RowIds
  <2>1. CASE j = id
    BY <1>1, <1>2, <2>1 DEF OfficeOnly, RowsHoldTheirFiles
  <2>2. CASE j # id
    BY <1>1, <1>2, <2>2 DEF OfficeOnly, RowsHoldTheirFiles
  <2> QED BY <2>1, <2>2
<1>5. RowsHoldTheirFiles'
  BY <1>4 DEF RowsHoldTheirFiles, OfficeOnly
<1> QED BY <1>2, <1>3, <1>5 DEF OfficeOnly

LEMMA ClaimedOnce == ReadinessIInv => EvidenceIsSingleUse
<1> SUFFICES ASSUME ReadinessIInv PROVE EvidenceIsSingleUse
  OBVIOUS
<1> USE DEF ReadinessIInv, RowsHoldTheirFiles
<1>1. \A a, b \in {id \in RowIds : record[id] # NoRecord} :
        record[a].file = record[b].file /\ record[a].file # OfficeRecord => a = b
  OBVIOUS
<1>2. Signatures = Standing
  <2>1. \A id \in Standing :
          IF record[id].file = OfficeRecord THEN record[id].gate \in OfficeGates ELSE Backed(id)
    BY DEF Standing, NoRecord, OfficeOnly, Backed
  <2> QED BY <2>1 DEF Signatures
<1>3. Counted = Fresh
  <2>1. \A id \in Fresh : id \in RowIds /\ record[id].kind = "STATEMENT"
    BY DEF Fresh, LatestOf, Newest, StatementsOf
  <2>2. \A id \in Fresh : Backed(id)
    <3> SUFFICES ASSUME NEW id \in Fresh PROVE Backed(id)
      OBVIOUS
    <3>1. record[id] # NoRecord /\ record[id] \in Forms
      BY <2>1 DEF NoRecord, ReadinessTypeOK
    <3>2. record[id].file # OfficeRecord
      BY <2>1, <3>1, FormsNameFiles, ReadinessAssumption
    <3> QED BY <2>1, <3>1, <3>2 DEF Backed
  <2> QED BY <2>2 DEF Counted
<1> QED BY <1>1, <1>2, <1>3 DEF EvidenceIsSingleUse

(* Readiness: evidence is single-use and what counts keeps its file, for   *)
(* any number of administrators, rows, files and requests.                 *)
THEOREM EvidenceUsedOnce == ReadinessSpec => []EvidenceIsSingleUse
<1>1. ReadinessInit => ReadinessIInv
  BY ReadinessStarts
<1>2. ReadinessIInv /\ [ReadinessNext]_readinessVars => ReadinessIInv'
  <2> SUFFICES ASSUME ReadinessIInv, [ReadinessNext]_readinessVars PROVE ReadinessIInv'
    OBVIOUS
  <2>1. CASE UNCHANGED readinessVars
    BY <2>1 DEF readinessVars, ReadinessIInv, ReadinessTypeOK, RowsHoldTheirFiles, OfficeOnly
  <2>2. ASSUME NEW o \in Signers, SignerStep(o) PROVE ReadinessIInv'
    BY <2>2, ClaimsAndRows, UploadKeepsClaims, BeginSignatureKeepsClaims,
       BeginStatementKeepsClaims, DecisionsKeepClaims DEF SignerStep
  <2>3. CASE ReadinessNext
    BY <2>2, <2>3, ClaimsAndRows, AttachKeepsClaims, AttachRefusedKeepsClaims DEF ReadinessNext
  <2> QED BY <2>1, <2>3
<1> QED BY <1>1, <1>2, ClaimedOnce, PTL DEF ReadinessSpec

-----------------------------------------------------------------------------
(* Community                                                               *)

(* What a transaction carries: a user's own row as it read it, or that the *)
(* image was taken.                                                        *)
PostRecords == [likes : Int, dislikes : Int, comments : Int, shares : Int]
EditType == [op : {"NONE", "REACT", "COMMENT", "SHARE", "CREATE"}, user : Members \cup {"NONE"},
             value : Reactions \cup {"NONE"}, step : {"NONE", "BEGIN", "READ"}, tries : Nat,
             old : Reactions \cup {"NONE", "ROW"}, stale : BOOLEAN]

CommunityTypeOK ==
  /\ post \in PostRecords
  /\ reaction \in [Members -> Reactions \cup {"NONE"}]
  /\ sharedBy \subseteq Members
  /\ commented \in Nat /\ claims \in Nat
  /\ edit \in [Posters -> EditType]

UnderWay ==
  \A r \in Posters : edit[r].step # "NONE" => edit[r].op # "NONE" /\ edit[r].user \in Members

(* A transaction that no commit came between still sees the rows as they   *)
(* are.                                                                    *)
ReadsHold ==
  \A r \in Posters : edit[r].step = "READ" /\ ~edit[r].stale => edit[r].old = OwnRow(r)

CommunityIInv == CommunityTypeOK /\ UnderWay /\ ReadsHold /\ CountersMatchRows

LEMMA CommunityStarts == CommunityInit => CommunityIInv
<1> SUFFICES ASSUME CommunityInit PROVE CommunityIInv
  OBVIOUS
<1>1. CommunityTypeOK /\ UnderWay /\ ReadsHold
  BY DEF CommunityInit, CommunityTypeOK, PostRecords, EditType, NoEdit, UnderWay, ReadsHold
<1>2. \A v \in {"LIKE", "DISLIKE"} : {u \in Members : reaction[u] = v} = {}
  BY DEF CommunityInit
<1>3. CountersMatchRows
  BY <1>2, FS_EmptySet DEF CommunityInit, CountersMatchRows
<1> QED BY <1>1, <1>3 DEF CommunityIInv

(* Steps that write no row: a request comes, reads, ends or tries again.   *)
LEMMA RequestStepsKeepRows ==
  ASSUME CommunityIInv, NEW r \in Posters,
         \/ \E u \in Members, value \in Reactions \cup {"NONE"} : EditAsked(r, "REACT", u, value)
         \/ \E u \in Members, op \in {"COMMENT", "SHARE", "CREATE"} : EditAsked(r, op, u, "NONE")
         \/ ReadRow(r) \/ ReturnAsIs(r) \/ Conflict(r)
  PROVE  CommunityIInv'
<1> USE DEF CommunityIInv, CommunityTypeOK
<1>1. UNCHANGED <<post, reaction, sharedBy, commented, claims>>
  BY DEF EditAsked, ReadRow, ReturnAsIs, Conflict
<1>2. PICK e \in EditType :
        /\ edit' = [edit EXCEPT ![r] = e]
        /\ e.step # "NONE" => e.op # "NONE" /\ e.user \in Members
        /\ e.step = "READ" => e.op = edit[r].op /\ e.user = edit[r].user /\ e.old = OwnRow(r)
  <2>1. CASE \/ \E u \in Members, value \in Reactions \cup {"NONE"} : EditAsked(r, "REACT", u, value)
             \/ \E u \in Members, op \in {"COMMENT", "SHARE", "CREATE"} : EditAsked(r, op, u, "NONE")
    <3>1. PICK u \in Members, value \in Reactions \cup {"NONE"},
               op \in {"REACT", "COMMENT", "SHARE", "CREATE"} : EditAsked(r, op, u, value)
      BY <2>1
    <3> DEFINE e == [NoEdit EXCEPT !.op = op, !.user = u, !.value = value, !.step = "BEGIN"]
    <3>2. e \in EditType /\ e.step = "BEGIN" /\ e.op # "NONE" /\ e.user \in Members
      BY DEF EditType, NoEdit
    <3> QED BY <3>1, <3>2 DEF EditAsked
  <2>2. CASE ReadRow(r)
    <3> DEFINE e == [edit[r] EXCEPT !.step = "READ", !.old = OwnRow(r), !.stale = FALSE,
                                    !.tries = @ + 1]
    <3>1. edit[r] \in EditType /\ edit[r].step = "BEGIN"
      BY <2>2 DEF ReadRow
    <3>2. edit[r].op # "NONE" /\ edit[r].user \in Members
      BY <3>1 DEF UnderWay
    <3>3. OwnRow(r) \in Reactions \cup {"NONE", "ROW"}
      BY <3>2 DEF OwnRow
    <3>4. e \in EditType
      <4> DEFINE x == edit[r]
                 own == OwnRow(r)
      <4>1. x \in EditType /\ x.tries + 1 \in Nat /\ own \in Reactions \cup {"NONE", "ROW"}
        BY <3>1, <3>3 DEF EditType
      <4> DEFINE n == x.tries + 1
      <4>2. n \in Nat
        BY <4>1
      <4> HIDE DEF x, own, n
      <4>3. [x EXCEPT !.step = "READ", !.old = own, !.stale = FALSE, !.tries = n] \in EditType
        BY ONLY <4>1, <4>2 DEF EditType
      <4> QED BY <4>3 DEF x, own, n
    <3>5. edit' = [edit EXCEPT ![r] = e]
      BY <2>2 DEF ReadRow
    <3>6. e.op = edit[r].op /\ e.user = edit[r].user /\ e.old = OwnRow(r)
      BY <3>1 DEF EditType
    <3> QED BY <3>2, <3>4, <3>5, <3>6
  <2>3. CASE ReturnAsIs(r)
    <3>1. NoEdit \in EditType /\ NoEdit.step = "NONE"
      BY DEF EditType, NoEdit
    <3>2. edit' = [edit EXCEPT ![r] = NoEdit]
      BY <2>3 DEF ReturnAsIs
    <3> QED BY <3>1, <3>2
  <2>4. CASE Conflict(r)
    <3> DEFINE e == [edit[r] EXCEPT !.step = "BEGIN", !.old = "NONE", !.stale = FALSE]
    <3>1. edit[r] \in EditType /\ edit[r].step = "READ"
      BY <2>4 DEF Conflict
    <3>2. edit[r].op # "NONE" /\ edit[r].user \in Members
      BY <3>1 DEF UnderWay
    <3>3. e \in EditType /\ e.step = "BEGIN" /\ e.op = edit[r].op /\ e.user = edit[r].user
      BY <3>1 DEF EditType
    <3>4. NoEdit \in EditType /\ NoEdit.step = "NONE"
      BY DEF EditType, NoEdit
    <3>5. edit' = [edit EXCEPT ![r] = e] \/ edit' = [edit EXCEPT ![r] = NoEdit]
      BY <2>4 DEF Conflict
    <3> QED BY <3>2, <3>3, <3>4, <3>5
  <2> QED BY <2>1, <2>2, <2>3, <2>4
<1>3. CommunityTypeOK'
  BY <1>1, <1>2
<1>4. UnderWay'
  BY <1>2 DEF UnderWay
<1>5. ReadsHold'
  <2> SUFFICES ASSUME NEW s \in Posters, edit'[s].step = "READ", ~edit'[s].stale
               PROVE  edit'[s].old = OwnRow(s)'
    BY DEF ReadsHold
  <2>1. CASE s = r
    <3>1. edit'[s] = e
      BY <1>2, <2>1
    <3> QED BY <1>1, <1>2, <2>1, <3>1 DEF OwnRow
  <2>2. CASE s # r
    <3>1. edit'[s] = edit[s]
      BY <1>2, <2>2
    <3> QED BY <1>1, <3>1 DEF OwnRow, ReadsHold
  <2> QED BY <2>1, <2>2
<1>6. CountersMatchRows'
  BY <1>1 DEF CountersMatchRows
<1> QED BY <1>3, <1>4, <1>5, <1>6

(* After a commit the transactions it came between are stale, and those it *)
(* did not touch read what they read.                                      *)
LEMMA CommitLeavesRest ==
  ASSUME CommunityTypeOK, UnderWay, ReadsHold, NEW r \in Posters, edit[r].step = "READ",
         EditDone(r),
         \A s \in Posters : Touches(s) # Touches(r) =>
           CASE edit[s].op = "CREATE" -> claims' = claims
             [] OTHER -> reaction' = reaction /\ sharedBy' = sharedBy
  PROVE  edit' \in [Posters -> EditType] /\ UnderWay' /\ ReadsHold'
<1>1. \A s \in Posters : [edit[s] EXCEPT !.stale = TRUE] \in EditType
  BY DEF CommunityTypeOK, EditType
<1>2. NoEdit \in EditType
  BY DEF NoEdit, EditType
<1>3. edit' \in [Posters -> EditType]
  BY <1>1, <1>2 DEF EditDone, CommunityTypeOK
<1>4. \A s \in Posters :
        \/ edit'[s] = NoEdit
        \/ edit[s].step = "READ" /\ edit'[s] = [edit[s] EXCEPT !.stale = TRUE]
        \/ edit'[s] = edit[s] /\ (edit[s].step = "READ" => Touches(s) # Touches(r))
  BY DEF EditDone
<1>5. UnderWay'
  <2> SUFFICES ASSUME NEW s \in Posters, edit'[s].step # "NONE"
               PROVE  edit'[s].op # "NONE" /\ edit'[s].user \in Members
    BY DEF UnderWay
  <2>1. edit[s] \in EditType
    BY DEF CommunityTypeOK
  <2>2. NoEdit.step = "NONE"
    BY DEF NoEdit
  <2>3. edit'[s].step = edit[s].step /\ edit'[s].op = edit[s].op /\ edit'[s].user = edit[s].user
    BY <1>4, <2>1, <2>2 DEF EditType
  <2> QED BY <2>3 DEF UnderWay
<1>6. ReadsHold'
  <2> SUFFICES ASSUME NEW s \in Posters, edit'[s].step = "READ", ~edit'[s].stale
               PROVE  edit'[s].old = OwnRow(s)'
    BY DEF ReadsHold
  <2>1. edit[s] \in EditType
    BY DEF CommunityTypeOK
  <2>2. edit'[s] = edit[s] /\ Touches(s) # Touches(r)
    <3>1. NoEdit.step = "NONE"
      BY DEF NoEdit
    <3>2. [edit[s] EXCEPT !.stale = TRUE].stale = TRUE
      BY <2>1 DEF EditType
    <3> QED BY <1>4, <3>1, <3>2
  <2>3. edit[s].old = OwnRow(s)
    BY <2>2 DEF ReadsHold
  <2>4. OwnRow(s)' = OwnRow(s)
    BY <2>2 DEF OwnRow
  <2> QED BY <2>2, <2>3, <2>4
<1> QED BY <1>3, <1>5, <1>6

LEMMA CommitReactionKeepsRows ==
  ASSUME CommunityIInv, NEW r \in Posters, CommitReaction(r)
  PROVE  CommunityIInv'
<1> USE DEF CommunityIInv, CommunityTypeOK
<1> DEFINE e == edit[r]
<1>1. /\ e \in EditType /\ e.op = "REACT" /\ e.step = "READ" /\ ~e.stale
      /\ reaction' = [reaction EXCEPT ![e.user] = e.value]
      /\ post' = [post EXCEPT
           !.likes = @ + One(e.value = "LIKE") - One(e.old = "LIKE"),
           !.dislikes = @ + One(e.value = "DISLIKE") - One(e.old = "DISLIKE")]
      /\ EditDone(r)
      /\ UNCHANGED <<sharedBy, commented, claims>>
  BY DEF CommitReaction, MayCommit, Serializes
<1>2. e.user \in Members /\ e.old = reaction[e.user] /\ e.value \in Reactions \cup {"NONE"}
  BY <1>1 DEF UnderWay, ReadsHold, OwnRow, EditType
<1>3. edit' \in [Posters -> EditType] /\ UnderWay' /\ ReadsHold'
  <2>1. \A s \in Posters : Touches(s) # Touches(r) =>
           CASE edit[s].op = "CREATE" -> claims' = claims
             [] OTHER -> reaction' = reaction /\ sharedBy' = sharedBy
    BY <1>1 DEF Touches
  <2> QED BY <1>1, <2>1, CommitLeavesRest
<1>4. \A c \in {"LIKE", "DISLIKE"} :
        Cardinality({u \in Members : reaction'[u] = c})
          = Cardinality({u \in Members : reaction[u] = c}) + One(e.value = c) - One(e.old = c)
  <2> TAKE c \in {"LIKE", "DISLIKE"}
  <2> DEFINE Before == {m \in Members : reaction[m] = c}
             After == {m \in Members : reaction'[m] = c}
             Rest == {m \in Members \ {e.user} : reaction[m] = c}
  <2>1. IsFiniteSet(Rest) /\ e.user \notin Rest
    <3>1. Rest \subseteq Members
      OBVIOUS
    <3> QED BY <3>1, FS_Subset, CommunityAssumption
  <2>2. Cardinality(Rest) \in Nat /\ Cardinality(Rest \cup {e.user}) = Cardinality(Rest) + 1
    BY <2>1, FS_AddElement, FS_CardinalityType
  <2>3. Before = (IF e.old = c THEN Rest \cup {e.user} ELSE Rest)
    BY <1>2
  <2>4. After = (IF e.value = c THEN Rest \cup {e.user} ELSE Rest)
    BY <1>1, <1>2
  <2> HIDE DEF Before, After, Rest
  <2>5. Cardinality(Before) = Cardinality(Rest) + One(e.old = c)
    <3>1. CASE e.old = c
      BY <2>2, <2>3, <3>1 DEF One
    <3>2. CASE e.old # c
      BY <2>2, <2>3, <3>2 DEF One
    <3> QED BY <3>1, <3>2
  <2>6. Cardinality(After) = Cardinality(Rest) + One(e.value = c)
    <3>1. CASE e.value = c
      BY <2>2, <2>4, <3>1 DEF One
    <3>2. CASE e.value # c
      BY <2>2, <2>4, <3>2 DEF One
    <3> QED BY <3>1, <3>2
  <2>7. Cardinality(After) = Cardinality(Before) + One(e.value = c) - One(e.old = c)
    BY ONLY <2>2, <2>5, <2>6 DEF One
  <2> QED BY <2>7 DEF Before, After
<1>5. post' \in PostRecords /\ reaction' \in [Members -> Reactions \cup {"NONE"}]
  <2>1. post' \in PostRecords
    <3> DEFINE a == One(e.value = "LIKE")
               b == One(e.old = "LIKE")
               c == One(e.value = "DISLIKE")
               d == One(e.old = "DISLIKE")
    <3>1. a \in Int /\ b \in Int /\ c \in Int /\ d \in Int
      BY DEF One
    <3>2. post' = [post EXCEPT !.likes = post.likes + a - b, !.dislikes = post.dislikes + c - d]
      BY <1>1
    <3> HIDE DEF a, b, c, d
    <3>3. post \in PostRecords /\ post.likes + a - b \in Int /\ post.dislikes + c - d \in Int
      BY <3>1 DEF PostRecords
    <3> DEFINE m == post.likes + a - b
               n == post.dislikes + c - d
    <3> HIDE DEF m, n
    <3>4. [post EXCEPT !.likes = m, !.dislikes = n] \in PostRecords
      BY <3>3 DEF PostRecords, m, n
    <3> QED BY <3>2, <3>4 DEF m, n
  <2> QED BY <1>1, <1>2, <2>1
<1>6. CountersMatchRows'
  BY <1>1, <1>4 DEF CountersMatchRows, PostRecords
<1> QED BY <1>1, <1>3, <1>5, <1>6

LEMMA CommitCommentKeepsRows ==
  ASSUME CommunityIInv, NEW r \in Posters, CommitComment(r)
  PROVE  CommunityIInv'
<1> USE DEF CommunityIInv, CommunityTypeOK
<1>1. /\ edit[r].op = "COMMENT" /\ edit[r].step = "READ" /\ EditDone(r)
      /\ commented' = commented + 1
      /\ post' = [post EXCEPT !.comments = @ + 1]
      /\ UNCHANGED <<reaction, sharedBy, claims>>
  BY DEF CommitComment, MayCommit
<1>2. edit' \in [Posters -> EditType] /\ UnderWay' /\ ReadsHold'
  BY <1>1, CommitLeavesRest
<1>3. post' \in PostRecords /\ CountersMatchRows'
  BY <1>1 DEF PostRecords, CountersMatchRows
<1> QED BY <1>1, <1>2, <1>3

LEMMA CommitShareKeepsRows ==
  ASSUME CommunityIInv, NEW r \in Posters, CommitShare(r)
  PROVE  CommunityIInv'
<1> USE DEF CommunityIInv, CommunityTypeOK
<1>1. /\ edit[r].op = "SHARE" /\ edit[r].step = "READ" /\ EditDone(r) /\ ~edit[r].stale
      /\ edit[r].old = "NONE"
      /\ sharedBy' = sharedBy \cup {edit[r].user}
      /\ post' = [post EXCEPT !.shares = @ + 1]
      /\ UNCHANGED <<reaction, commented, claims>>
  BY DEF CommitShare, MayCommit, Serializes, NothingToDo
<1>2. edit[r].user \in Members /\ edit[r].user \notin sharedBy
  BY <1>1 DEF UnderWay, ReadsHold, OwnRow
<1>3. edit' \in [Posters -> EditType] /\ UnderWay' /\ ReadsHold'
  <2>1. \A s \in Posters : Touches(s) # Touches(r) =>
           CASE edit[s].op = "CREATE" -> claims' = claims
             [] OTHER -> reaction' = reaction /\ sharedBy' = sharedBy
    BY <1>1 DEF Touches
  <2> QED BY <1>1, <2>1, CommitLeavesRest
<1>4. IsFiniteSet(sharedBy)
  BY CommunityAssumption, FS_Subset
<1>5. Cardinality(sharedBy') = Cardinality(sharedBy) + 1
  BY <1>1, <1>2, <1>4, FS_AddElement
<1>6. post' \in PostRecords /\ CountersMatchRows'
  BY <1>1, <1>5 DEF PostRecords, CountersMatchRows
<1> QED BY <1>1, <1>2, <1>3, <1>6

LEMMA CommitPostKeepsRows ==
  ASSUME CommunityIInv, NEW r \in Posters, CommitPost(r)
  PROVE  CommunityIInv'
<1> USE DEF CommunityIInv, CommunityTypeOK
<1>1. /\ edit[r].op = "CREATE" /\ edit[r].step = "READ" /\ EditDone(r) /\ ~edit[r].stale
      /\ edit[r].old = "NONE"
      /\ claims' = claims + 1
      /\ UNCHANGED <<post, reaction, sharedBy, commented>>
  BY DEF CommitPost, MayCommit, Serializes, NothingToDo
<1>2. claims = 0
  BY <1>1 DEF ReadsHold, OwnRow
<1>3. edit' \in [Posters -> EditType] /\ UnderWay' /\ ReadsHold'
  <2>1. \A s \in Posters : Touches(s) # Touches(r) =>
           CASE edit[s].op = "CREATE" -> claims' = claims
             [] OTHER -> reaction' = reaction /\ sharedBy' = sharedBy
    BY <1>1 DEF Touches
  <2> QED BY <1>1, <2>1, CommitLeavesRest
<1>4. CountersMatchRows'
  BY <1>1, <1>2 DEF CountersMatchRows
<1> QED BY <1>1, <1>2, <1>3, <1>4

(* Community: the counters are the numbers of the rows, for any number of  *)
(* members, requests and tries.                                            *)
THEOREM CountersRight == CommunitySpec => []CountersMatchRows
<1>1. CommunityInit => CommunityIInv
  BY CommunityStarts
<1>2. CommunityIInv /\ [CommunityNext]_communityVars => CommunityIInv'
  <2> SUFFICES ASSUME CommunityIInv, [CommunityNext]_communityVars PROVE CommunityIInv'
    OBVIOUS
  <2>1. CASE UNCHANGED communityVars
    BY <2>1 DEF communityVars, CommunityIInv, CommunityTypeOK, UnderWay, ReadsHold, OwnRow,
                CountersMatchRows
  <2>2. CASE CommunityNext
    BY <2>2, RequestStepsKeepRows, CommitReactionKeepsRows, CommitCommentKeepsRows,
       CommitShareKeepsRows, CommitPostKeepsRows DEF CommunityNext
  <2> QED BY <2>1, <2>2
<1>3. CommunityIInv => CountersMatchRows
  BY DEF CommunityIInv
<1> QED BY <1>1, <1>2, <1>3, PTL DEF CommunitySpec

-----------------------------------------------------------------------------
(* MarketStreams                                                           *)

StateType == [subscribers : SUBSET Sockets, socket : Link, reconnectTimer : BOOLEAN,
              stopped : BOOLEAN]

(* A stream of the map has the customers of its key, no connection that is *)
(* being closed, and is connected or about to be.                          *)
Serving(i, customers, state) ==
  /\ state.subscribers = customers /\ customers # {} /\ ~state.stopped
  /\ state.socket = "NONE" <=> state.reconnectTimer

(* One outside it is connected for nobody.                                 *)
Resting(state) ==
  state.subscribers = {} /\ state.socket = "NONE" /\ ~state.reconnectTimer

(* The map for customers who look at chosen, whose states are mapped and   *)
(* which dying are being closed.                                           *)
MapInOrder(chosen, map, mapped, dying) ==
  /\ chosen \in [Sockets -> Keys \cup {NoKey}]
  /\ map \in [Keys -> StreamStates \cup {NoStream}]
  /\ mapped \in [StreamStates -> StateType]
  /\ dying \subseteq StreamStates
  /\ \A k, j \in Keys : map[k] = map[j] /\ map[k] # NoStream => k = j
  /\ \A k \in Keys : map[k] # NoStream =>
       Serving(map[k], {c \in Sockets : chosen[c] = k}, mapped[map[k]])
  /\ \A k \in Keys : map[k] = NoStream => \A c \in Sockets : chosen[c] # k
  /\ \A k \in Keys : map[k] \notin dying
  /\ \A i \in StreamStates : (\A k \in Keys : map[k] # i) => Resting(mapped[i])

TickersInOrder ==
  /\ tickers \in [socket : Link, timer : BOOLEAN, stopped : BOOLEAN]
  /\ ~tickers.stopped => (tickers.socket = "NONE" <=> tickers.timer)

MarketIInv == MapInOrder(clientStreams, streams, stream, closing) /\ TickersInOrder

LEMMA MarketStarts == MarketInit => MarketIInv
<1> SUFFICES ASSUME MarketInit PROVE MarketIInv
  OBVIOUS
<1>1. NewStream \in StateType /\ Resting(NewStream)
  BY DEF NewStream, StateType, Link, Resting
<1>2. MapInOrder(clientStreams, streams, stream, closing)
  BY <1>1, MarketAssumption DEF MarketInit, MapInOrder
<1>3. TickersInOrder
  BY DEF MarketInit, TickersInOrder, NoTickers, Link
<1> QED BY <1>2, <1>3 DEF MarketIInv

(* What happens to one stream and leaves the map and the customers alone.  *)
LEMMA StreamEvent ==
  ASSUME MarketIInv, NEW i \in StreamStates, NEW state \in StateType,
         stream' = [stream EXCEPT ![i] = state],
         state.subscribers = stream[i].subscribers, state.stopped = stream[i].stopped,
         Mapped(i) => (state.socket = "NONE" <=> state.reconnectTimer),
         ~Mapped(i) => state.socket = "NONE" /\ ~state.reconnectTimer,
         closing' \subseteq closing, UNCHANGED <<clientStreams, streams, tickers>>
  PROVE  MarketIInv'
<1> USE DEF MarketIInv, MapInOrder
<1>1. stream' \in [StreamStates -> StateType] /\ closing' \subseteq StreamStates
  OBVIOUS
<1>2. \A k \in Keys : streams[k] # NoStream =>
        Serving(streams[k], {c \in Sockets : clientStreams[c] = k}, stream'[streams[k]])
  <2> SUFFICES ASSUME NEW k \in Keys, streams[k] # NoStream
               PROVE  Serving(streams[k], {c \in Sockets : clientStreams[c] = k}, stream'[streams[k]])
    OBVIOUS
  <2>1. Serving(streams[k], {c \in Sockets : clientStreams[c] = k}, stream[streams[k]])
    OBVIOUS
  <2>2. CASE streams[k] = i
    BY <2>1, <2>2 DEF Serving, Mapped
  <2>3. CASE streams[k] # i
    BY <2>1, <2>3 DEF Serving
  <2> QED BY <2>2, <2>3
<1>3. \A j \in StreamStates : (\A k \in Keys : streams[k] # j) => Resting(stream'[j])
  <2> SUFFICES ASSUME NEW j \in StreamStates, \A k \in Keys : streams[k] # j
               PROVE  Resting(stream'[j])
    OBVIOUS
  <2>1. Resting(stream[j]) /\ ~Mapped(j)
    BY DEF Mapped
  <2> QED BY <2>1 DEF Resting
<1>4. MapInOrder(clientStreams', streams', stream', closing')
  BY <1>1, <1>2, <1>3
<1>5. TickersInOrder'
  BY DEF TickersInOrder
<1> QED BY <1>4, <1>5

LEMMA StreamTyped ==
  ASSUME MarketIInv, NEW i \in StreamStates
  PROVE  /\ stream[i] \in StateType
         /\ Mapped(i) => /\ stream[i].subscribers # {} /\ ~stream[i].stopped
                         /\ stream[i].socket = "NONE" <=> stream[i].reconnectTimer
                         /\ i \notin closing
         /\ ~Mapped(i) => Resting(stream[i])
BY MarketAssumption DEF MarketIInv, MapInOrder, Mapped, Serving

LEMMA ConnectionEventsKeepMap ==
  ASSUME MarketIInv, NEW i \in StreamStates,
         ProviderOpens(i) \/ ProviderCloses(i) \/ ClosingEnds(i) \/ Reconnects(i)
  PROVE  MarketIInv'
<1>1. /\ stream[i] \in StateType
      /\ Mapped(i) => /\ stream[i].subscribers # {} /\ ~stream[i].stopped
                      /\ stream[i].socket = "NONE" <=> stream[i].reconnectTimer
                      /\ i \notin closing
      /\ ~Mapped(i) => Resting(stream[i])
  BY StreamTyped
<1>2. CASE ProviderOpens(i)
  <2> DEFINE state == [stream[i] EXCEPT !.socket = "OPEN"]
  <2>1. /\ state \in StateType /\ state.socket = "OPEN"
        /\ state.subscribers = stream[i].subscribers /\ state.stopped = stream[i].stopped
        /\ state.reconnectTimer = stream[i].reconnectTimer
    BY <1>1 DEF StateType, Link
  <2>2. /\ stream[i].socket = "CONNECTING" /\ stream' = [stream EXCEPT ![i] = state]
        /\ UNCHANGED <<clientStreams, streams, closing, tickers>>
    BY <1>2 DEF ProviderOpens
  <2>3. Mapped(i) /\ ~state.reconnectTimer
    BY <1>1, <2>1, <2>2 DEF Resting
  <2> HIDE DEF state
  <2> QED BY <2>1, <2>2, <2>3, StreamEvent
<1>3. CASE ProviderCloses(i) \/ ClosingEnds(i)
  <2> DEFINE timer == Wanted(stream[i]) \/ stream[i].reconnectTimer
             state == [stream[i] EXCEPT !.socket = "NONE", !.reconnectTimer = timer]
  <2>1. timer \in BOOLEAN /\ (Mapped(i) => timer)
    BY <1>1 DEF Wanted, StateType
  <2>2. ~Mapped(i) => ~timer
    BY <1>1 DEF Resting, Wanted
  <2>3. /\ stream' = [stream EXCEPT ![i] = state] /\ closing' \subseteq closing
        /\ UNCHANGED <<clientStreams, streams, tickers>>
    BY <1>3 DEF ProviderCloses, ClosingEnds, OnClose
  <2> HIDE DEF timer
  <2>4. /\ state \in StateType /\ state.socket = "NONE" /\ state.reconnectTimer = timer
        /\ state.subscribers = stream[i].subscribers /\ state.stopped = stream[i].stopped
    BY <1>1, <2>1 DEF StateType, Link
  <2> HIDE DEF state
  <2> QED BY <2>1, <2>2, <2>3, <2>4, StreamEvent
<1>4. CASE Reconnects(i)
  <2> DEFINE state == [stream[i] EXCEPT !.reconnectTimer = FALSE, !.socket = "CONNECTING"]
             rest == [stream[i] EXCEPT !.reconnectTimer = FALSE]
  <2>1. Mapped(i) /\ stream[i].subscribers # {} /\ ~stream[i].stopped
    BY <1>1, <1>4 DEF Reconnects, Resting
  <2>2. rest.subscribers = stream[i].subscribers /\ rest.stopped = stream[i].stopped
    BY <1>1 DEF StateType
  <2>3. ConnectProvider(rest) = [rest EXCEPT !.socket = "CONNECTING"]
    BY <2>1, <2>2 DEF ConnectProvider, Wanted
  <2>4. [rest EXCEPT !.socket = "CONNECTING"] = state
    BY <1>1 DEF StateType
  <2>5. /\ stream' = [stream EXCEPT ![i] = ConnectProvider(rest)]
        /\ UNCHANGED <<clientStreams, streams, closing, tickers>>
    BY <1>4 DEF Reconnects
  <2>6. /\ state \in StateType /\ state.socket = "CONNECTING" /\ ~state.reconnectTimer
        /\ state.subscribers = stream[i].subscribers /\ state.stopped = stream[i].stopped
    BY <1>1 DEF StateType, Link
  <2>7. stream' = [stream EXCEPT ![i] = state]
    BY <2>3, <2>4, <2>5
  <2> HIDE DEF state, rest
  <2> QED BY <2>1, <2>5, <2>6, <2>7, StreamEvent
<1> QED BY <1>2, <1>3, <1>4

(* releaseClient leaves a map in which the customer is nowhere.            *)
LEMMA LeavesInOrder ==
  ASSUME MarketIInv, NEW c \in Sockets
  PROVE  LET rest == Remains(c)
         IN  /\ MapInOrder([clientStreams EXCEPT ![c] = NoKey], rest.streams, rest.stream,
                           rest.closing)
             /\ \A i \in StreamStates : ~Mapped(i) /\ i \notin closing =>
                  (\A k \in Keys : rest.streams[k] # i) /\ i \notin rest.closing
<1> USE DEF MarketIInv, MapInOrder
<1> DEFINE chosen == [clientStreams EXCEPT ![c] = NoKey]
           k == clientStreams[c]
           i == streams[k]
           left == stream[i].subscribers \ {c}
<1>1. CASE k = NoKey
  <2>1. Remains(c) = [streams |-> streams, stream |-> stream, closing |-> closing]
    BY <1>1 DEF Remains
  <2>2. chosen = clientStreams
    BY <1>1
  <2>3. MapInOrder(chosen, streams, stream, closing)
    BY <2>2
  <2> QED BY <2>1, <2>3 DEF Mapped
<1>2. CASE k # NoKey
  <2>1. k \in Keys /\ i \in StreamStates /\ i # NoStream
    BY <1>2
  <2>2. Serving(i, {d \in Sockets : clientStreams[d] = k}, stream[i])
    BY <2>1
  <2>3. left = {d \in Sockets : chosen[d] = k}
    BY <1>2, <2>1, <2>2, MarketAssumption DEF Serving
  <2>4. \A j \in Keys \ {k} : {d \in Sockets : chosen[d] = j} = {d \in Sockets : clientStreams[d] = j}
    BY MarketAssumption
  <2>5. chosen \in [Sockets -> Keys \cup {NoKey}]
    OBVIOUS
  <2>6. \A j \in Keys \ {k} : streams[j] # i
    BY <2>1
  <2>7. stream[i] \in StateType /\ i \notin closing
    BY <2>1
  <2>8. CASE left # {}
    <3> DEFINE mapped == [stream EXCEPT ![i].subscribers = left]
    <3>1. Remains(c) = [streams |-> streams, closing |-> closing, stream |-> mapped]
      BY <1>2, <2>8 DEF Remains
    <3>2. /\ [stream[i] EXCEPT !.subscribers = left] \in StateType
          /\ Serving(i, left, [stream[i] EXCEPT !.subscribers = left])
      BY <2>2, <2>7, <2>8 DEF Serving, StateType
    <3>3. mapped \in [StreamStates -> StateType] /\ mapped[i] = [stream[i] EXCEPT !.subscribers = left]
          /\ \A j \in StreamStates \ {i} : mapped[j] = stream[j]
      BY <2>1, <3>2
    <3> HIDE DEF mapped, left, i, k, chosen
    <3>4. \A j \in Keys : streams[j] # NoStream =>
            Serving(streams[j], {d \in Sockets : chosen[d] = j}, mapped[streams[j]])
      <4> SUFFICES ASSUME NEW j \in Keys, streams[j] # NoStream
                   PROVE  Serving(streams[j], {d \in Sockets : chosen[d] = j}, mapped[streams[j]])
        OBVIOUS
      <4>1. CASE j = k
        BY <2>3, <3>2, <3>3, <4>1 DEF i
      <4>2. CASE j # k
        <5>1. mapped[streams[j]] = stream[streams[j]]
          BY <2>6, <3>3, <4>2
        <5>2. {d \in Sockets : chosen[d] = j} = {d \in Sockets : clientStreams[d] = j}
          BY <2>4, <4>2
        <5> QED BY <5>1, <5>2
      <4> QED BY <4>1, <4>2
    <3>5. \A j \in Keys : streams[j] = NoStream => \A d \in Sockets : chosen[d] # j
      BY MarketAssumption DEF chosen
    <3>6. \A j \in StreamStates : (\A l \in Keys : streams[l] # j) => Resting(mapped[j])
      BY <2>1, <3>3 DEF i
    <3>7. MapInOrder(chosen, streams, mapped, closing)
      BY <2>5, <3>3, <3>4, <3>5, <3>6
    <3> QED BY <3>1, <3>7 DEF Mapped, chosen
  <2>9. CASE left = {}
    <3> DEFINE stopped == [subscribers |-> {}, socket |-> "NONE", reconnectTimer |-> FALSE,
                           stopped |-> TRUE]
               mapped == [stream EXCEPT ![i] = stopped]
               map == [streams EXCEPT ![k] = NoStream]
               dying == IF stream[i].socket = "NONE" THEN closing ELSE closing \cup {i}
    <3>1. Remains(c) = [streams |-> map, stream |-> mapped, closing |-> dying]
      BY <1>2, <2>9 DEF Remains
    <3>2. stopped \in StateType /\ Resting(stopped)
      BY DEF StateType, Resting, Link
    <3> HIDE DEF stopped
    <3>3. /\ mapped \in [StreamStates -> StateType] /\ mapped[i] = stopped
          /\ \A j \in StreamStates \ {i} : mapped[j] = stream[j]
      BY <2>1, <3>2
    <3>4. /\ map \in [Keys -> StreamStates \cup {NoStream}] /\ map[k] = NoStream
          /\ \A j \in Keys \ {k} : map[j] = streams[j]
      BY <2>1
    <3>5. dying \subseteq StreamStates /\ dying \subseteq closing \cup {i}
      BY <2>1
    <3> HIDE DEF mapped, map, dying, left, i, k, chosen
    <3>6. \A j \in Keys : map[j] # NoStream =>
            Serving(map[j], {d \in Sockets : chosen[d] = j}, mapped[map[j]])
      <4> SUFFICES ASSUME NEW j \in Keys, map[j] # NoStream
                   PROVE  Serving(map[j], {d \in Sockets : chosen[d] = j}, mapped[map[j]])
        OBVIOUS
      <4>1. j # k /\ map[j] = streams[j] /\ streams[j] \in StreamStates /\ streams[j] # i
        BY <2>6, <3>4
      <4>2. mapped[streams[j]] = stream[streams[j]]
        BY <3>3, <4>1
      <4>3. {d \in Sockets : chosen[d] = j} = {d \in Sockets : clientStreams[d] = j}
        BY <2>4, <4>1
      <4>4. Serving(streams[j], {d \in Sockets : clientStreams[d] = j}, stream[streams[j]])
        BY <4>1
      <4> QED BY <4>1, <4>2, <4>3, <4>4
    <3>7. \A j \in Keys : map[j] = NoStream => \A d \in Sockets : chosen[d] # j
      <4> SUFFICES ASSUME NEW j \in Keys, map[j] = NoStream, NEW d \in Sockets
                   PROVE  chosen[d] # j
        OBVIOUS
      <4>1. CASE j = k
        BY <2>3, <2>9, <4>1
      <4>2. CASE j # k
        BY <3>4, <4>2, MarketAssumption DEF chosen
      <4> QED BY <4>1, <4>2
    <3>8. \A j \in StreamStates : (\A l \in Keys : map[l] # j) => Resting(mapped[j])
      <4> SUFFICES ASSUME NEW j \in StreamStates, \A l \in Keys : map[l] # j
                   PROVE  Resting(mapped[j])
        OBVIOUS
      <4>1. CASE j = i
        BY <3>2, <3>3, <4>1
      <4>2. CASE j # i
        <5>1. \A l \in Keys : streams[l] # j
          BY <2>1, <3>4, <4>2 DEF i
        <5> QED BY <3>3, <4>2, <5>1
      <4> QED BY <4>1, <4>2
    <3>9. \A l, j \in Keys : map[l] = map[j] /\ map[l] # NoStream => l = j
      BY <3>4
    <3>10. \A l \in Keys : map[l] \notin dying
      BY <2>1, <2>6, <3>4, <3>5, MarketAssumption
    <3>11. MapInOrder(chosen, map, mapped, dying)
      BY <2>5, <3>3, <3>4, <3>5, <3>6, <3>7, <3>8, <3>9, <3>10
    <3>12. \A j \in StreamStates : ~Mapped(j) /\ j \notin closing =>
             (\A l \in Keys : map[l] # j) /\ j \notin dying
      <4> SUFFICES ASSUME NEW j \in StreamStates, ~Mapped(j), j \notin closing
                   PROVE  (\A l \in Keys : map[l] # j) /\ j \notin dying
        OBVIOUS
      <4>1. j # i /\ \A l \in Keys : streams[l] # j
        BY <2>1 DEF Mapped, i
      <4> QED BY <3>4, <3>5, <4>1, MarketAssumption
    <3>13. /\ Remains(c).streams = map /\ Remains(c).stream = mapped /\ Remains(c).closing = dying
      BY <3>1
    <3> HIDE DEF MarketIInv, MapInOrder
    <3> QED BY <3>11, <3>12, <3>13 DEF chosen
  <2> QED BY <2>8, <2>9
<1> QED BY <1>1, <1>2

LEMMA UnsubscribeKeepsMap ==
  ASSUME MarketIInv, NEW c \in Sockets, UnsubscribeFeed(c)
  PROVE  MarketIInv'
<1> DEFINE rest == Remains(c)
<1>1. /\ streams' = rest.streams /\ stream' = rest.stream /\ closing' = rest.closing
      /\ clientStreams' = [clientStreams EXCEPT ![c] = NoKey] /\ tickers' = tickers
  BY DEF UnsubscribeFeed
<1>2. MapInOrder([clientStreams EXCEPT ![c] = NoKey], rest.streams, rest.stream, rest.closing)
  BY LeavesInOrder
<1> HIDE DEF rest
<1>3. MapInOrder(clientStreams', streams', stream', closing')
  BY <1>1, <1>2
<1>4. TickersInOrder'
  BY <1>1 DEF MarketIInv, TickersInOrder
<1> QED BY <1>3, <1>4 DEF MarketIInv, MapInOrder, Serving, Resting

LEMMA SubscribeKeepsMap ==
  ASSUME MarketIInv, NEW c \in Sockets, NEW k \in Keys, SubscribeFeed(c, k)
  PROVE  MarketIInv'
<1> DEFINE rest == Remains(c)
           chosen == [clientStreams EXCEPT ![c] = NoKey]
           map == rest.streams
           mapped == rest.stream
           dying == rest.closing
<1>1. /\ MapInOrder(chosen, map, mapped, dying)
      /\ \A i \in StreamStates : ~Mapped(i) /\ i \notin closing =>
           (\A j \in Keys : map[j] # i) /\ i \notin dying
  BY LeavesInOrder
<1>2. /\ clientStreams' = [clientStreams EXCEPT ![c] = k] /\ closing' = dying /\ tickers' = tickers
      /\ \/ /\ map[k] # NoStream /\ streams' = map
            /\ stream' = [mapped EXCEPT ![map[k]].subscribers = @ \cup {c}]
         \/ /\ map[k] = NoStream
            /\ \E i \in StreamStates :
                 /\ Collected(i) /\ streams' = [map EXCEPT ![k] = i]
                 /\ stream' = [mapped EXCEPT ![i] =
                                 ConnectProvider([NewStream EXCEPT !.subscribers = {c}])]
  BY DEF SubscribeFeed
<1>3. clientStreams \in [Sockets -> Keys \cup {NoKey}]
  BY DEF MarketIInv, MapInOrder
<1>4. /\ clientStreams' \in [Sockets -> Keys \cup {NoKey}] /\ clientStreams'[c] = k
      /\ chosen[c] = NoKey
      /\ \A d \in Sockets \ {c} : clientStreams'[d] = chosen[d]
  BY <1>2, <1>3
<1> HIDE DEF rest, chosen, map, mapped, dying
<1> USE DEF MapInOrder
<1>5. \A j \in Keys \ {k} : {d \in Sockets : clientStreams'[d] = j} = {d \in Sockets : chosen[d] = j}
  BY <1>4, MarketAssumption
<1>6. {d \in Sockets : clientStreams'[d] = k} = {d \in Sockets : chosen[d] = k} \cup {c}
  BY <1>4
<1>7. ASSUME map[k] # NoStream, streams' = map,
             stream' = [mapped EXCEPT ![map[k]].subscribers = @ \cup {c}]
      PROVE  MapInOrder(clientStreams', streams', stream', closing')
  <2> DEFINE i == map[k]
             joined == [mapped[i] EXCEPT !.subscribers = mapped[i].subscribers \cup {c}]
  <2>1. i \in StreamStates /\ mapped[i] \in StateType
    BY <1>1, <1>7
  <2>2. Serving(i, {d \in Sockets : chosen[d] = k}, mapped[i])
    BY <1>1, <1>7
  <2>3. joined \in StateType /\ Serving(i, {d \in Sockets : clientStreams'[d] = k}, joined)
    BY <1>6, <2>1, <2>2 DEF Serving, StateType
  <2>4. /\ stream' \in [StreamStates -> StateType] /\ stream'[i] = joined
        /\ \A j \in StreamStates \ {i} : stream'[j] = mapped[j]
    BY <1>1, <1>7, <2>1, <2>3
  <2>5. i = map[k]
    OBVIOUS
  <2> HIDE DEF i, joined
  <2>6. \A j \in Keys : map[j] # NoStream =>
          Serving(map[j], {d \in Sockets : clientStreams'[d] = j}, stream'[map[j]])
    <3> SUFFICES ASSUME NEW j \in Keys, map[j] # NoStream
                 PROVE  Serving(map[j], {d \in Sockets : clientStreams'[d] = j}, stream'[map[j]])
      OBVIOUS
    <3>1. CASE j = k
      BY <2>3, <2>4, <2>5, <3>1
    <3>2. CASE j # k
      <4>1. map[j] # i /\ map[j] \in StreamStates
        BY <1>1, <1>7, <2>5, <3>2
      <4>2. Serving(map[j], {d \in Sockets : chosen[d] = j}, mapped[map[j]])
        BY <1>1
      <4>3. {d \in Sockets : clientStreams'[d] = j} = {d \in Sockets : chosen[d] = j}
        BY <1>5, <3>2
      <4> QED BY <2>4, <4>1, <4>2, <4>3
    <3> QED BY <3>1, <3>2
  <2>7. \A j \in Keys : map[j] = NoStream => \A d \in Sockets : clientStreams'[d] # j
    BY <1>1, <1>4, <1>7
  <2>8. \A j \in StreamStates : (\A l \in Keys : map[l] # j) => Resting(stream'[j])
    BY <1>1, <2>4, <2>5
  <2> QED BY <1>1, <1>2, <1>4, <1>7, <2>4, <2>6, <2>7, <2>8
<1>8. ASSUME map[k] = NoStream, NEW i \in StreamStates, Collected(i),
             streams' = [map EXCEPT ![k] = i],
             stream' = [mapped EXCEPT ![i] = ConnectProvider([NewStream EXCEPT !.subscribers = {c}])]
      PROVE  MapInOrder(clientStreams', streams', stream', closing')
  <2> DEFINE new == [subscribers |-> {c}, socket |-> "CONNECTING", reconnectTimer |-> FALSE,
                     stopped |-> FALSE]
  <2>1. ConnectProvider([NewStream EXCEPT !.subscribers = {c}]) = new
    BY DEF ConnectProvider, Wanted, NewStream
  <2>2. {d \in Sockets : clientStreams'[d] = k} = {c}
    BY <1>1, <1>6, <1>8
  <2>3. new \in StateType /\ Serving(i, {c}, new)
    BY DEF StateType, Link, Serving
  <2>4. (\A j \in Keys : map[j] # i) /\ i \notin dying /\ i # NoStream
    BY <1>1, <1>8, MarketAssumption DEF Collected
  <2> HIDE DEF new
  <2>5. /\ stream' \in [StreamStates -> StateType] /\ stream'[i] = new
        /\ \A j \in StreamStates \ {i} : stream'[j] = mapped[j]
    BY <1>1, <1>8, <2>1, <2>3
  <2>6. /\ streams' \in [Keys -> StreamStates \cup {NoStream}] /\ streams'[k] = i
        /\ \A j \in Keys \ {k} : streams'[j] = map[j]
    BY <1>1, <1>8
  <2>7. \A j \in Keys : streams'[j] # NoStream =>
          Serving(streams'[j], {d \in Sockets : clientStreams'[d] = j}, stream'[streams'[j]])
    <3> SUFFICES ASSUME NEW j \in Keys, streams'[j] # NoStream
                 PROVE  Serving(streams'[j], {d \in Sockets : clientStreams'[d] = j}, stream'[streams'[j]])
      OBVIOUS
    <3>1. CASE j = k
      BY <2>2, <2>3, <2>5, <2>6, <3>1
    <3>2. CASE j # k
      <4>1. streams'[j] = map[j] /\ map[j] # i /\ map[j] \in StreamStates
        BY <1>1, <2>4, <2>6, <3>2
      <4>2. Serving(map[j], {d \in Sockets : chosen[d] = j}, mapped[map[j]])
        BY <1>1, <4>1
      <4>3. {d \in Sockets : clientStreams'[d] = j} = {d \in Sockets : chosen[d] = j}
        BY <1>5, <3>2
      <4> QED BY <2>5, <4>1, <4>2, <4>3
    <3> QED BY <3>1, <3>2
  <2>8. \A j \in Keys : streams'[j] = NoStream => \A d \in Sockets : clientStreams'[d] # j
    BY <1>1, <1>4, <2>4, <2>6
  <2>9. \A j \in StreamStates : (\A l \in Keys : streams'[l] # j) => Resting(stream'[j])
    <3> SUFFICES ASSUME NEW j \in StreamStates, \A l \in Keys : streams'[l] # j
                 PROVE  Resting(stream'[j])
      OBVIOUS
    <3>1. j # i /\ stream'[j] = mapped[j]
      BY <2>5, <2>6
    <3>2. \A l \in Keys : map[l] # j
      BY <1>8, <2>6, MarketAssumption
    <3> QED BY <1>1, <3>1, <3>2
  <2>10. \A l, j \in Keys : streams'[l] = streams'[j] /\ streams'[l] # NoStream => l = j
    BY <1>1, <2>4, <2>6
  <2>11. \A l \in Keys : streams'[l] \notin closing'
    BY <1>1, <1>2, <2>4, <2>6
  <2> QED BY <1>1, <1>2, <1>4, <2>5, <2>6, <2>7, <2>8, <2>9, <2>10, <2>11
<1>9. MapInOrder(clientStreams', streams', stream', closing')
  BY <1>2, <1>7, <1>8
<1>10. TickersInOrder'
  BY <1>2 DEF MarketIInv, TickersInOrder
<1> QED BY <1>9, <1>10 DEF MarketIInv, Serving, Resting

LEMMA TickersKeepMap ==
  ASSUME MarketIInv, TickersAppear \/ TickersGo \/ TickersBreak \/ TickersConnect
  PROVE  MarketIInv'
<1>1. UNCHANGED <<clientStreams, streams, stream, closing>>
  BY DEF TickersAppear, TickersGo, TickersBreak, TickersConnect
<1>2. TickersInOrder'
  <2>1. /\ tickers \in [socket : Link, timer : BOOLEAN, stopped : BOOLEAN]
        /\ ~tickers.stopped => (tickers.socket = "NONE" <=> tickers.timer)
    BY DEF MarketIInv, TickersInOrder
  <2>2. CASE TickersAppear
    <3>1. PICK socket \in {"CONNECTING", "NONE"} :
            tickers' = [socket |-> socket, timer |-> socket = "NONE", stopped |-> FALSE]
      BY <2>2 DEF TickersAppear
    <3>2. CASE socket = "NONE"
      BY <3>1, <3>2 DEF TickersInOrder, Link
    <3>3. CASE socket = "CONNECTING"
      BY <3>1, <3>3 DEF TickersInOrder, Link
    <3> QED BY <3>2, <3>3
  <2>3. CASE TickersGo
    BY <2>3 DEF TickersGo, TickersInOrder, NoTickers, Link
  <2>4. CASE TickersBreak
    <3> DEFINE timer == ~tickers.stopped
    <3>1. timer \in BOOLEAN /\ (timer <=> ~tickers.stopped)
      OBVIOUS
    <3>2. tickers' = [tickers EXCEPT !.socket = "NONE", !.timer = timer]
      BY <2>4 DEF TickersBreak
    <3> HIDE DEF timer
    <3> QED BY <2>1, <3>1, <3>2 DEF TickersInOrder, Link
  <2>5. CASE TickersConnect
    <3>1. CASE tickers' = [tickers EXCEPT !.socket = "CONNECTING", !.timer = FALSE]
      BY <2>1, <3>1 DEF TickersInOrder, Link
    <3>2. CASE tickers.socket = "CONNECTING" /\ tickers' = [tickers EXCEPT !.socket = "OPEN"]
      <4>1. tickers' \in [socket : Link, timer : BOOLEAN, stopped : BOOLEAN]
        BY <2>1, <3>2 DEF Link
      <4>2. /\ tickers'.socket = "OPEN" /\ tickers'.timer = tickers.timer
            /\ tickers'.stopped = tickers.stopped
        BY <2>1, <3>2
      <4> QED BY <2>1, <3>2, <4>1, <4>2 DEF TickersInOrder
    <3> QED BY <2>5, <3>1, <3>2 DEF TickersConnect
  <2> QED BY <2>2, <2>3, <2>4, <2>5
<1> QED BY <1>1, <1>2 DEF MarketIInv, MapInOrder, Serving, Resting

(* MarketStreams: one connection per instrument looked at and none for     *)
(* nobody, for any number of customers, instruments and streams.           *)
THEOREM FeedsConnectedOnce == MarketSpec => []OneConnectionPerFeed
<1>1. MarketInit => MarketIInv
  BY MarketStarts
<1>2. MarketIInv /\ [MarketNext]_marketVars => MarketIInv'
  <2> SUFFICES ASSUME MarketIInv, [MarketNext]_marketVars PROVE MarketIInv'
    OBVIOUS
  <2>1. CASE UNCHANGED marketVars
    BY <2>1 DEF marketVars, MarketIInv, MapInOrder, Serving, Resting, TickersInOrder
  <2>2. CASE MarketNext
    BY <2>2, ConnectionEventsKeepMap, UnsubscribeKeepsMap, SubscribeKeepsMap, TickersKeepMap
    DEF MarketNext
  <2> QED BY <2>1, <2>2
<1>3. MarketIInv => OneConnectionPerFeed
  <2> SUFFICES ASSUME MarketIInv PROVE OneConnectionPerFeed
    OBVIOUS
  <2>1. \A i \in StreamStates : stream[i].socket # "NONE" \/ stream[i].reconnectTimer => Mapped(i)
    BY StreamTyped DEF Resting
  <2>2. ASSUME NEW k \in Keys
        PROVE  IF streams[k] = NoStream THEN \A c \in Sockets : clientStreams[c] # k
               ELSE /\ stream[streams[k]].subscribers = {c \in Sockets : clientStreams[c] = k}
                    /\ stream[streams[k]].subscribers # {}
                    /\ stream[streams[k]].socket = "NONE" <=> stream[streams[k]].reconnectTimer
    BY DEF MarketIInv, MapInOrder, Serving
  <2>3. ~tickers.stopped => (tickers.socket = "NONE" <=> tickers.timer)
    BY DEF MarketIInv, TickersInOrder
  <2> QED BY <2>1, <2>2, <2>3 DEF OneConnectionPerFeed
<1> QED BY <1>1, <1>2, <1>3, PTL DEF MarketSpec

-----------------------------------------------------------------------------
(* SampledPrices                                                           *)

PassType == [quarter : Int, todo : SUBSET Slugs, slug : Slugs \cup {"NONE"},
             step : {"NONE", "NEXT", "LOOK", "ASK"}]

SampledTypeOK ==
  /\ quarter \in 0 .. LastQuarter
  /\ busy \in [Replicas -> BOOLEAN] /\ starts \in [Replicas -> Nat]
  /\ attempted \in [Replicas \X Slugs -> Int]
  /\ samples \subseteq Slugs \X Int \X Replicas \X Nat
  /\ pass \in [Replicas \X Passes -> PassType]
  /\ asks \in [Replicas \X Slugs \X (0 .. LastQuarter) -> Nat]

(* In a process busy keeps the passes apart, and no instrument was asked   *)
(* for in a later quarter than the pass under way is about.                *)
OnePassOnly ==
  \A r \in Replicas :
    /\ \A p \in Passes : pass[<<r, p>>].step # "NONE" =>
         /\ busy[r]
         /\ pass[<<r, p>>].quarter \in 0 .. quarter
         /\ \A i \in Slugs : attempted[<<r, i>>] <= pass[<<r, p>>].quarter
         /\ \A o \in Passes : pass[<<r, o>>].step # "NONE" => o = p
    /\ \A p \in Passes : pass[<<r, p>>] # NoPass => pass[<<r, p>>].step # "NONE"
    /\ \A i \in Slugs : attempted[<<r, i>>] <= quarter

(* What a pass is about to ask for, its process has not asked for in that  *)
(* quarter, and what it has asked for the process had not stored.          *)
AboutToAsk(r, e) ==
  e.step = "LOOK" => e.slug \in Slugs /\ attempted[<<r, e.slug>>] < e.quarter
HasAsked(r, e) ==
  e.step = "ASK" =>
    /\ e.slug \in Slugs
    /\ \A s \in samples : ~(s[1] = e.slug /\ s[2] = e.quarter /\ s[3] = r)
AsksForTheMissing ==
  \A r \in Replicas : \A p \in Passes :
    AboutToAsk(r, pass[<<r, p>>]) /\ HasAsked(r, pass[<<r, p>>])

(* A quarter up to the one asked for last had its question in this run of  *)
(* the process.                                                            *)
QuestionsCounted ==
  \A r \in Replicas : \A i \in Slugs : \A q \in 0 .. LastQuarter :
    asks[<<r, i, q>>] <= starts[r] + (IF q <= attempted[<<r, i>>] THEN 1 ELSE 0)

OnePrice == \A s, t \in samples : s[1] = t[1] /\ s[2] = t[2] /\ s[3] = t[3] => s = t

SampledIInv ==
  SampledTypeOK /\ OnePassOnly /\ AsksForTheMissing /\ QuestionsCounted /\ OnePrice

LEMMA SampledStarts == SampledInit => SampledIInv
<1> SUFFICES ASSUME SampledInit PROVE SampledIInv
  OBVIOUS
<1>1. /\ quarter = 0 /\ busy = [r \in Replicas |-> FALSE] /\ samples = {}
      /\ starts = [r \in Replicas |-> 0]
      /\ attempted = [m \in Replicas \X Slugs |-> -1]
      /\ pass = [w \in Replicas \X Passes |-> NoPass]
      /\ asks = [a \in Replicas \X Slugs \X (0 .. LastQuarter) |-> 0]
  BY DEF SampledInit, NoQuarter
<1>2. NoPass \in PassType /\ NoPass.step = "NONE"
  BY DEF PassType, NoPass, NoQuarter
<1>3. LastQuarter \in Nat /\ -1 \in Int
  BY SampledAssumption
<1>4. SampledTypeOK
  <2>1. quarter \in 0 .. LastQuarter /\ samples = {} /\ starts \in [Replicas -> Nat]
    BY <1>1, <1>3
  <2>2. busy \in [Replicas -> BOOLEAN] /\ attempted \in [Replicas \X Slugs -> Int]
    BY <1>1
  <2>3. pass \in [Replicas \X Passes -> PassType]
    BY <1>1, <1>2
  <2>4. asks \in [Replicas \X Slugs \X (0 .. LastQuarter) -> Nat]
    BY <1>1
  <2> QED BY <2>1, <2>2, <2>3, <2>4 DEF SampledTypeOK
<1>5. /\ \A r \in Replicas : \A p \in Passes : pass[<<r, p>>] = NoPass
      /\ \A r \in Replicas : \A i \in Slugs : attempted[<<r, i>>] = -1
      /\ \A r \in Replicas : \A i \in Slugs : \A q \in 0 .. LastQuarter : asks[<<r, i, q>>] = 0
      /\ \A r \in Replicas : starts[r] = 0
  BY <1>1
<1>6. OnePassOnly /\ AsksForTheMissing /\ OnePrice
  BY <1>1, <1>2, <1>3, <1>5 DEF OnePassOnly, AsksForTheMissing, AboutToAsk, HasAsked, OnePrice
<1>7. QuestionsCounted
  <2> SUFFICES ASSUME NEW r \in Replicas, NEW i \in Slugs, NEW q \in 0 .. LastQuarter
               PROVE  asks[<<r, i, q>>] <= starts[r] + (IF q <= attempted[<<r, i>>] THEN 1 ELSE 0)
    BY DEF QuestionsCounted
  <2>1. asks[<<r, i, q>>] = 0 /\ starts[r] = 0
    BY <1>5
  <2> QED BY <2>1
<1> QED BY <1>4, <1>6, <1>7 DEF SampledIInv

LEMMA NextQuarterKeepsSamples ==
  ASSUME SampledIInv, NextQuarter
  PROVE  SampledIInv'
<1> USE SampledAssumption DEF SampledIInv, SampledTypeOK
<1>1. quarter' = quarter + 1 /\ UNCHANGED <<busy, attempted, samples, pass, asks, starts>>
  BY DEF NextQuarter
<1>2. SampledTypeOK'
  BY DEF NextQuarter
<1>3. OnePassOnly'
  BY <1>1 DEF OnePassOnly
<1>4. AsksForTheMissing' /\ QuestionsCounted' /\ OnePrice'
  BY <1>1 DEF AsksForTheMissing, AboutToAsk, HasAsked, QuestionsCounted, OnePrice
<1> QED BY <1>2, <1>3, <1>4

LEMMA RestartKeepsSamples ==
  ASSUME SampledIInv, NEW r \in Replicas, RestartProcess(r)
  PROVE  SampledIInv'
<1> USE SampledAssumption DEF SampledIInv, SampledTypeOK
<1>1. /\ starts' = [starts EXCEPT ![r] = @ + 1]
      /\ busy' = [busy EXCEPT ![r] = FALSE]
      /\ attempted' = [m \in Replicas \X Slugs |-> IF m[1] = r THEN -1 ELSE attempted[m]]
      /\ pass' = [w \in Replicas \X Passes |-> IF w[1] = r THEN NoPass ELSE pass[w]]
      /\ UNCHANGED <<quarter, samples, asks>>
  BY DEF RestartProcess, NoQuarter
<1>2. NoPass \in PassType /\ NoPass.step = "NONE" /\ -1 \in Int
  BY DEF PassType, NoPass, NoQuarter
<1>3. SampledTypeOK'
  <2>1. attempted' \in [Replicas \X Slugs -> Int]
    BY <1>1, <1>2
  <2>2. pass' \in [Replicas \X Passes -> PassType]
    BY <1>1, <1>2
  <2>3. busy' \in [Replicas -> BOOLEAN] /\ starts' \in [Replicas -> Nat]
    BY <1>1
  <2> QED BY <1>1, <2>1, <2>2, <2>3
<1>4. /\ \A o \in Replicas : \A p \in Passes :
           pass'[<<o, p>>] = IF o = r THEN NoPass ELSE pass[<<o, p>>]
      /\ \A o \in Replicas : \A i \in Slugs :
           attempted'[<<o, i>>] = IF o = r THEN -1 ELSE attempted[<<o, i>>]
      /\ \A o \in Replicas : /\ busy'[o] = IF o = r THEN FALSE ELSE busy[o]
                             /\ starts'[o] = IF o = r THEN starts[o] + 1 ELSE starts[o]
  BY <1>1
<1>5. OnePassOnly'
  BY <1>1, <1>2, <1>4 DEF OnePassOnly
<1>6. AsksForTheMissing'
  <2> SUFFICES ASSUME NEW o \in Replicas, NEW n \in Passes
               PROVE  AboutToAsk(o, pass[<<o, n>>])' /\ HasAsked(o, pass[<<o, n>>])'
    BY DEF AsksForTheMissing
  <2>1. CASE o = r
    BY <1>2, <1>4, <2>1 DEF AboutToAsk, HasAsked
  <2>2. CASE o # r
    <3>1. /\ pass'[<<o, n>>] = pass[<<o, n>>]
          /\ \A i \in Slugs : attempted'[<<o, i>>] = attempted[<<o, i>>]
      BY <1>4, <2>2
    <3>2. AboutToAsk(o, pass[<<o, n>>]) /\ HasAsked(o, pass[<<o, n>>])
      BY DEF AsksForTheMissing
    <3>3. AboutToAsk(o, pass[<<o, n>>])'
      BY <3>1, <3>2 DEF AboutToAsk
    <3>4. HasAsked(o, pass[<<o, n>>])'
      BY <1>1, <3>1, <3>2 DEF HasAsked
    <3> QED BY <3>3, <3>4
  <2> QED BY <2>1, <2>2
<1>7. QuestionsCounted'
  <2> SUFFICES ASSUME NEW o \in Replicas, NEW i \in Slugs, NEW q \in 0 .. LastQuarter
               PROVE  asks'[<<o, i, q>>]
                        <= starts'[o] + (IF q <= attempted'[<<o, i>>] THEN 1 ELSE 0)
    BY DEF QuestionsCounted
  <2>1. asks[<<o, i, q>>] <= starts[o] + (IF q <= attempted[<<o, i>>] THEN 1 ELSE 0)
    BY DEF QuestionsCounted
  <2>2. asks[<<o, i, q>>] \in Nat /\ starts[o] \in Nat /\ attempted[<<o, i>>] \in Int
    OBVIOUS
  <2> QED BY <1>1, <1>4, <2>1, <2>2
<1>8. OnePrice'
  BY <1>1 DEF OnePrice
<1> QED BY <1>3, <1>5, <1>6, <1>7, <1>8

LEMMA BeginPassKeepsSamples ==
  ASSUME SampledIInv, NEW r \in Replicas, NEW p \in Passes, BeginPass(r, p)
  PROVE  SampledIInv'
<1> USE SampledAssumption DEF SampledIInv, SampledTypeOK
<1> DEFINE e == [quarter |-> quarter, todo |-> Slugs, slug |-> "NONE", step |-> "NEXT"]
<1>1. /\ ~busy[r] /\ busy' = [busy EXCEPT ![r] = TRUE]
      /\ samples' \subseteq samples
      /\ pass' = [pass EXCEPT ![<<r, p>>] = e]
      /\ UNCHANGED <<quarter, attempted, asks, starts>>
  BY DEF BeginPass, MayPoll
<1>2. e \in PassType /\ e.step = "NEXT" /\ e.quarter = quarter
  BY DEF PassType
<1>3. \A o \in Passes : pass[<<r, o>>].step = "NONE"
  BY <1>1 DEF OnePassOnly
<1> HIDE DEF e
<1>4. SampledTypeOK'
  BY <1>1, <1>2
<1>5. /\ pass'[<<r, p>>] = e /\ busy'[r] /\ \A o \in Replicas \ {r} : busy'[o] = busy[o]
      /\ \A o \in Replicas : \A n \in Passes : o # r \/ n # p => pass'[<<o, n>>] = pass[<<o, n>>]
  BY <1>1
<1>6. OnePassOnly'
  BY <1>1, <1>2, <1>3, <1>5 DEF OnePassOnly
<1>7. AsksForTheMissing'
  <2> SUFFICES ASSUME NEW o \in Replicas, NEW n \in Passes
               PROVE  AboutToAsk(o, pass[<<o, n>>])' /\ HasAsked(o, pass[<<o, n>>])'
    BY DEF AsksForTheMissing
  <2>1. CASE o = r /\ n = p
    BY <1>2, <1>5, <2>1 DEF AboutToAsk, HasAsked
  <2>2. CASE o # r \/ n # p
    BY <1>1, <1>5, <2>2 DEF AsksForTheMissing, AboutToAsk, HasAsked
  <2> QED BY <2>1, <2>2
<1>8. QuestionsCounted' /\ OnePrice'
  BY <1>1 DEF QuestionsCounted, OnePrice
<1> QED BY <1>4, <1>6, <1>7, <1>8

(* A step of a pass under way that leaves the samples alone.               *)
LEMMA PassGoesOn ==
  ASSUME SampledIInv, NEW r \in Replicas, NEW p \in Passes, pass[<<r, p>>].step # "NONE",
         NEW e \in PassType, pass' = [pass EXCEPT ![<<r, p>>] = e],
         e.step # "NONE", e.quarter = pass[<<r, p>>].quarter,
         e.step = "LOOK" => e.slug \in Slugs /\ attempted[<<r, e.slug>>] < e.quarter,
         e.step # "ASK", UNCHANGED <<quarter, busy, attempted, samples, asks, starts>>
  PROVE  SampledIInv'
<1> USE SampledAssumption DEF SampledIInv, SampledTypeOK
<1>1. /\ pass'[<<r, p>>] = e
      /\ \A o \in Replicas : \A n \in Passes : o # r \/ n # p => pass'[<<o, n>>] = pass[<<o, n>>]
  OBVIOUS
<1>2. SampledTypeOK'
  OBVIOUS
<1>3. OnePassOnly'
  BY <1>1 DEF OnePassOnly
<1>4. AsksForTheMissing'
  <2> SUFFICES ASSUME NEW o \in Replicas, NEW n \in Passes
               PROVE  AboutToAsk(o, pass[<<o, n>>])' /\ HasAsked(o, pass[<<o, n>>])'
    BY DEF AsksForTheMissing
  <2>1. CASE o = r /\ n = p
    BY <1>1, <2>1 DEF AboutToAsk, HasAsked
  <2>2. CASE o # r \/ n # p
    BY <1>1, <2>2 DEF AsksForTheMissing, AboutToAsk, HasAsked
  <2> QED BY <2>1, <2>2
<1>5. QuestionsCounted' /\ OnePrice'
  BY DEF QuestionsCounted, OnePrice
<1> QED BY <1>2, <1>3, <1>4, <1>5

LEMMA NextInstrumentKeepsSamples ==
  ASSUME SampledIInv, NEW r \in Replicas, NEW p \in Passes, NEW i \in Slugs,
         NextInstrument(r, p, i)
  PROVE  SampledIInv'
<1> DEFINE w == <<r, p>>
           later == [pass[w] EXCEPT !.todo = @ \ {i}]
           look == [later EXCEPT !.slug = i, !.step = "LOOK"]
<1>1. pass[w] \in PassType /\ pass[w].step = "NEXT" /\ attempted[<<r, i>>] \in Int
  BY DEF SampledIInv, SampledTypeOK, NextInstrument
<1>2. attempted[<<r, i>>] <= pass[w].quarter /\ pass[w].quarter \in Int
  BY <1>1 DEF SampledIInv, OnePassOnly, PassType
<1>3. later \in PassType /\ later.step = "NEXT" /\ later.quarter = pass[w].quarter
  BY <1>1 DEF PassType
<1>4. look \in PassType /\ look.step = "LOOK" /\ look.quarter = pass[w].quarter /\ look.slug = i
  BY <1>1 DEF PassType
<1>5. UNCHANGED <<quarter, busy, attempted, samples, asks, starts>>
  BY DEF NextInstrument
<1>6. \/ attempted[<<r, i>>] = pass[w].quarter /\ pass' = [pass EXCEPT ![w] = later]
      \/ attempted[<<r, i>>] # pass[w].quarter /\ pass' = [pass EXCEPT ![w] = look]
  BY DEF NextInstrument
<1> HIDE DEF later, look
<1>7. CASE pass' = [pass EXCEPT ![w] = later]
  BY <1>1, <1>3, <1>5, <1>7, PassGoesOn
<1>8. CASE attempted[<<r, i>>] # pass[w].quarter /\ pass' = [pass EXCEPT ![w] = look]
  <2>1. attempted[<<r, look.slug>>] < look.quarter /\ look.slug \in Slugs
    BY <1>1, <1>2, <1>4, <1>8
  <2>2. pass[w].step # "NONE" /\ look.step # "NONE" /\ look.step # "ASK"
    BY <1>1, <1>4
  <2> QED BY <1>4, <1>5, <1>8, <2>1, <2>2, PassGoesOn
<1> QED BY <1>6, <1>7, <1>8

LEMMA LookUpKeepsSamples ==
  ASSUME SampledIInv, NEW r \in Replicas, NEW p \in Passes, LookUp(r, p)
  PROVE  SampledIInv'
<1> DEFINE w == <<r, p>>
           i == pass[w].slug
           q == pass[w].quarter
           next == [pass[w] EXCEPT !.step = "NEXT"]
           ask == [pass[w] EXCEPT !.step = "ASK"]
<1>1. pass[w] \in PassType /\ pass[w].step = "LOOK"
  BY DEF SampledIInv, SampledTypeOK, LookUp
<1>2. i \in Slugs /\ attempted[<<r, i>>] < q /\ q \in 0 .. quarter /\ quarter \in 0 .. LastQuarter
  BY <1>1 DEF SampledIInv, SampledTypeOK, AsksForTheMissing, AboutToAsk, OnePassOnly
<1>3. next \in PassType /\ next.step = "NEXT" /\ next.quarter = q
  BY <1>1 DEF PassType
<1>4. ask \in PassType /\ ask.step = "ASK" /\ ask.quarter = q /\ ask.slug = i
  BY <1>1 DEF PassType
<1>5. CASE \E s \in samples : s[1] = i /\ s[2] >= q
  <2>1. /\ pass' = [pass EXCEPT ![w] = next]
        /\ UNCHANGED <<quarter, busy, attempted, samples, asks, starts>>
    BY <1>5 DEF LookUp
  <2> HIDE DEF next, i, q
  <2> QED BY <1>1, <1>3, <2>1, PassGoesOn DEF q
<1>6. CASE ~ \E s \in samples : s[1] = i /\ s[2] >= q
  <2> USE SampledAssumption DEF SampledIInv, SampledTypeOK
  <2>1. /\ pass' = [pass EXCEPT ![w] = ask]
        /\ attempted' = [attempted EXCEPT ![<<r, i>>] = q]
        /\ asks' = [asks EXCEPT ![<<r, i, q>>] = @ + 1]
        /\ UNCHANGED <<quarter, busy, samples, starts>>
    BY <1>6 DEF LookUp
  <2>2. q = pass[w].quarter /\ <<r, i, q>> \in Replicas \X Slugs \X (0 .. LastQuarter)
    BY <1>2
  <2> HIDE DEF i, q, ask
  <2>3. /\ pass'[w] = ask
        /\ \A o \in Replicas : \A n \in Passes : o # r \/ n # p => pass'[<<o, n>>] = pass[<<o, n>>]
        /\ attempted'[<<r, i>>] = q
        /\ \A o \in Replicas : \A j \in Slugs :
             o # r \/ j # i => attempted'[<<o, j>>] = attempted[<<o, j>>]
    BY <1>2, <2>1
  <2>4. SampledTypeOK'
    BY <1>2, <1>4, <2>1, <2>2
  <2>5. \A n \in Passes : pass[<<r, n>>].step # "NONE" => n = p
    BY <1>1 DEF OnePassOnly
  <2>6. OnePassOnly'
    <3>1. \A j \in Slugs : attempted'[<<r, j>>] <= q /\ attempted'[<<r, j>>] <= quarter
      <4>1. \A j \in Slugs : attempted[<<r, j>>] <= q
        BY <1>1, <2>2 DEF OnePassOnly
      <4>2. \A j \in Slugs : attempted'[<<r, j>>] <= q /\ attempted'[<<r, j>>] \in Int
        BY <1>2, <2>3, <2>4, <4>1
      <4> QED BY <1>2, <4>2
    <3>2. busy[r]
      BY <1>1 DEF OnePassOnly
    <3>3. ASSUME NEW o \in Replicas \ {r}
          PROVE  /\ \A j \in Slugs : attempted'[<<o, j>>] = attempted[<<o, j>>]
                 /\ \A n \in Passes : pass'[<<o, n>>] = pass[<<o, n>>]
      BY <2>3
    <3>4. \A n \in Passes \ {p} : pass'[<<r, n>>] = pass[<<r, n>>]
      BY <2>3
    <3> QED BY <1>2, <1>4, <2>1, <2>3, <2>5, <3>1, <3>2, <3>3, <3>4 DEF OnePassOnly
  <2>7. AsksForTheMissing'
    <3>1. \A n \in Passes \ {p} : pass'[<<r, n>>].step = "NONE"
      BY <2>3, <2>5
    <3>2. \A s \in samples : ~(s[1] = i /\ s[2] = q)
      BY <1>2, <1>6
    <3>3. ASSUME NEW o \in Replicas \ {r}, NEW n \in Passes
          PROVE  /\ pass'[<<o, n>>] = pass[<<o, n>>]
                 /\ \A j \in Slugs : attempted'[<<o, j>>] = attempted[<<o, j>>]
      BY <2>3
    <3> SUFFICES ASSUME NEW o \in Replicas, NEW n \in Passes
                 PROVE  AboutToAsk(o, pass[<<o, n>>])' /\ HasAsked(o, pass[<<o, n>>])'
      BY DEF AsksForTheMissing
    <3>4. CASE o # r
      BY <2>1, <3>3, <3>4 DEF AsksForTheMissing, AboutToAsk, HasAsked
    <3>5. CASE o = r /\ n # p
      BY <3>1, <3>5 DEF AboutToAsk, HasAsked
    <3>6. CASE o = r /\ n = p
      BY <1>2, <1>4, <2>1, <2>3, <3>2, <3>6 DEF AboutToAsk, HasAsked
    <3> QED BY <3>4, <3>5, <3>6
  <2>8. QuestionsCounted'
    <3> SUFFICES ASSUME NEW o \in Replicas, NEW j \in Slugs, NEW n \in 0 .. LastQuarter
                 PROVE  asks'[<<o, j, n>>]
                          <= starts'[o] + (IF n <= attempted'[<<o, j>>] THEN 1 ELSE 0)
      BY DEF QuestionsCounted
    <3>1. asks[<<o, j, n>>] <= starts[o] + (IF n <= attempted[<<o, j>>] THEN 1 ELSE 0)
      BY DEF QuestionsCounted
    <3>2. /\ asks[<<o, j, n>>] \in Nat /\ attempted[<<o, j>>] \in Int
          /\ starts[o] \in Nat /\ starts' = starts
      BY <2>1
    <3>3. CASE o # r \/ j # i
      <4>1. asks'[<<o, j, n>>] = asks[<<o, j, n>>] /\ attempted'[<<o, j>>] = attempted[<<o, j>>]
        BY <2>1, <2>3, <3>3
      <4> QED BY <3>1, <3>2, <4>1
    <3>4. CASE o = r /\ j = i /\ n # q
      <4>1. asks'[<<o, j, n>>] = asks[<<o, j, n>>] /\ attempted'[<<o, j>>] = q
        BY <2>1, <2>3, <3>4
      <4> QED BY <1>2, <3>1, <3>2, <3>4, <4>1
    <3>5. CASE o = r /\ j = i /\ n = q
      <4>1. asks'[<<o, j, n>>] = asks[<<o, j, n>>] + 1 /\ attempted'[<<o, j>>] = q
        BY <2>1, <2>2, <2>3, <3>5
      <4> QED BY <1>2, <3>1, <3>2, <3>5, <4>1
    <3> QED BY <3>3, <3>4, <3>5
  <2>9. OnePrice'
    BY <2>1 DEF OnePrice
  <2> QED BY <2>4, <2>6, <2>7, <2>8, <2>9
<1> QED BY <1>5, <1>6

LEMMA RecordSampleKeepsSamples ==
  ASSUME SampledIInv, NEW r \in Replicas, NEW p \in Passes, RecordSample(r, p)
  PROVE  SampledIInv'
<1> USE SampledAssumption DEF SampledIInv, SampledTypeOK
<1> DEFINE w == <<r, p>>
           i == pass[w].slug
           q == pass[w].quarter
           same == {s \in samples : s[1] = i /\ s[2] = q /\ s[3] = r}
           n == Cardinality(same)
           e == [pass[w] EXCEPT !.step = "NEXT"]
<1>1. /\ pass[w].step = "ASK" /\ pass[w] \in PassType
      /\ samples' = samples \/ samples' = samples \cup {<<i, q, r, n>>}
      /\ pass' = [pass EXCEPT ![w] = e]
      /\ UNCHANGED <<quarter, busy, attempted, asks, starts>>
  BY DEF RecordSample
<1>2. i \in Slugs /\ \A s \in samples : ~(s[1] = i /\ s[2] = q /\ s[3] = r)
  BY <1>1 DEF AsksForTheMissing, HasAsked
<1>3. n = 0 /\ q \in Int
  <2>1. same = {}
    BY <1>2
  <2> HIDE DEF same
  <2> QED BY <1>1, <2>1, FS_EmptySet DEF PassType
<1>4. e \in PassType /\ e.step = "NEXT" /\ e.quarter = q
  BY <1>1 DEF PassType
<1>5. q = pass[w].quarter
  OBVIOUS
<1> HIDE DEF e, n, same, i, q
<1>6. SampledTypeOK'
  BY <1>1, <1>2, <1>3, <1>4
<1>7. /\ pass'[w] = e
      /\ \A o \in Replicas : \A m \in Passes : o # r \/ m # p => pass'[<<o, m>>] = pass[<<o, m>>]
  BY <1>1
<1>8. \A m \in Passes : pass[<<r, m>>].step # "NONE" => m = p
  BY <1>1 DEF OnePassOnly
<1>9. OnePassOnly'
  BY <1>1, <1>4, <1>5, <1>7 DEF OnePassOnly
<1>10. AsksForTheMissing'
  <2>1. \A m \in Passes \ {p} : pass'[<<r, m>>].step = "NONE"
    BY <1>7, <1>8
  <2>2. \A s \in samples' \ samples : s[3] = r
    BY <1>1
  <2> SUFFICES ASSUME NEW o \in Replicas, NEW m \in Passes
               PROVE  AboutToAsk(o, pass[<<o, m>>])' /\ HasAsked(o, pass[<<o, m>>])'
    BY DEF AsksForTheMissing
  <2>3. CASE o = r /\ m = p
    BY <1>4, <1>7, <2>3 DEF AboutToAsk, HasAsked
  <2>4. CASE o = r /\ m # p
    BY <2>1, <2>4 DEF AboutToAsk, HasAsked
  <2>5. CASE o # r
    BY <1>1, <1>7, <2>2, <2>5 DEF AsksForTheMissing, AboutToAsk, HasAsked
  <2> QED BY <2>3, <2>4, <2>5
<1>11. QuestionsCounted'
  BY <1>1 DEF QuestionsCounted
<1>12. OnePrice'
  BY <1>1, <1>2 DEF OnePrice
<1> QED BY <1>6, <1>9, <1>10, <1>11, <1>12

LEMMA EndPassKeepsSamples ==
  ASSUME SampledIInv, NEW r \in Replicas, NEW p \in Passes, EndPass(r, p)
  PROVE  SampledIInv'
<1> USE SampledAssumption DEF SampledIInv, SampledTypeOK
<1>1. /\ pass[<<r, p>>].step # "NONE" /\ busy' = [busy EXCEPT ![r] = FALSE]
      /\ pass' = [pass EXCEPT ![<<r, p>>] = NoPass]
      /\ UNCHANGED <<quarter, attempted, samples, asks, starts>>
  BY DEF EndPass
<1>2. NoPass \in PassType /\ NoPass.step = "NONE"
  BY DEF PassType, NoPass, NoQuarter
<1>3. \A n \in Passes : pass'[<<r, n>>] = NoPass
  BY <1>1 DEF OnePassOnly
<1>4. \A o \in Replicas \ {r} : busy'[o] = busy[o] /\ \A n \in Passes : pass'[<<o, n>>] = pass[<<o, n>>]
  BY <1>1
<1>5. SampledTypeOK'
  BY <1>1, <1>2
<1>6. OnePassOnly'
  BY <1>1, <1>2, <1>3, <1>4 DEF OnePassOnly
<1>7. AsksForTheMissing'
  <2> SUFFICES ASSUME NEW o \in Replicas, NEW n \in Passes
               PROVE  AboutToAsk(o, pass[<<o, n>>])' /\ HasAsked(o, pass[<<o, n>>])'
    BY DEF AsksForTheMissing
  <2>1. CASE o = r
    BY <1>2, <1>3, <2>1 DEF AboutToAsk, HasAsked
  <2>2. CASE o # r
    BY <1>1, <1>4, <2>2 DEF AsksForTheMissing, AboutToAsk, HasAsked
  <2> QED BY <2>1, <2>2
<1>8. QuestionsCounted' /\ OnePrice'
  BY <1>1 DEF QuestionsCounted, OnePrice
<1> QED BY <1>5, <1>6, <1>7, <1>8

(* SampledPrices: one price per quarter of each process and one question   *)
(* per quarter and run of it, for any number of instruments, processes and *)
(* passes.                                                                 *)
THEOREM ProcessesSampleOnce == SampledSpec => []OneSamplePerProcess
<1>1. SampledInit => SampledIInv
  BY SampledStarts
<1>2. SampledIInv /\ [SampledNext]_sampledVars => SampledIInv'
  <2> SUFFICES ASSUME SampledIInv, [SampledNext]_sampledVars PROVE SampledIInv'
    OBVIOUS
  <2>1. CASE UNCHANGED sampledVars
    BY <2>1 DEF sampledVars, SampledIInv, SampledTypeOK, OnePassOnly, AsksForTheMissing,
                AboutToAsk, HasAsked, QuestionsCounted, OnePrice
  <2>2. CASE SampledNext
    BY <2>2, NextQuarterKeepsSamples, RestartKeepsSamples, BeginPassKeepsSamples,
       NextInstrumentKeepsSamples, LookUpKeepsSamples, RecordSampleKeepsSamples,
       EndPassKeepsSamples DEF SampledNext
  <2> QED BY <2>1, <2>2
<1>3. SampledIInv => OneSamplePerProcess
  <2> SUFFICES ASSUME SampledIInv PROVE OneSamplePerProcess
    OBVIOUS
  <2>1. \A s, t \in samples : s[1] = t[1] /\ s[2] = t[2] /\ s[3] = t[3] => s = t
    BY DEF SampledIInv, OnePrice
  <2>2. ASSUME NEW r \in Replicas, NEW i \in Slugs, NEW q \in 0 .. LastQuarter
        PROVE  asks[<<r, i, q>>] <= 1 + starts[r]
    <3>1. asks[<<r, i, q>>] <= starts[r] + (IF q <= attempted[<<r, i>>] THEN 1 ELSE 0)
      BY DEF SampledIInv, QuestionsCounted
    <3>2. asks[<<r, i, q>>] \in Nat /\ starts[r] \in Nat
      BY DEF SampledIInv, SampledTypeOK
    <3> QED BY <3>1, <3>2
  <2> QED BY <2>1, <2>2 DEF OneSamplePerProcess
<1> QED BY <1>1, <1>2, <1>3, PTL DEF SampledSpec

-----------------------------------------------------------------------------
(* PendingCommands                                                         *)

Answers == {"NONE", "DONE", "UNREACHABLE"} \cup Refusals \cup {"THROTTLED", "SIGN_IN", "GATE"}
CommandType == [id : Nat, uncertain : BOOLEAN]
SendingType == [id : Nat, uncertain : BOOLEAN, answer : Answers]

PendingTypeOK ==
  /\ client \in Clients
  /\ stored \in CommandType
  /\ held \in [Tabs -> CommandType]
  /\ sending \in [Tabs -> SendingType]
  /\ confirmed \in 0 .. MaxCommands
  /\ executed \in [Ids -> Nat]
  /\ late \in SUBSET Ids
  /\ killed \in BOOLEAN

TheWindow == CHOOSE t \in Tabs : TRUE

(* A command that was not confirmed yet is nowhere, and carried out by     *)
(* nobody.                                                                 *)
NothingUnconfirmed ==
  /\ stored.id <= confirmed
  /\ \A t \in Tabs : held[t].id <= confirmed /\ sending[t].id <= confirmed
  /\ \A c \in Ids : c > confirmed => executed[c] = 0 /\ c \notin late
  /\ \A t \in Tabs : sending[t].id = 0 => sending[t].answer = "NONE"

(* The funding repository, as long as the app was not closed over a        *)
(* request: its only window sends the command in the slot, and a command   *)
(* that no answer was lost to was carried out only if it was answered so.  *)
SlotIsSent ==
  client = FUNDING /\ ~killed =>
    LET message == sending[TheWindow]
    IN  /\ message.id # 0 =>
             stored = [id |-> message.id, uncertain |-> message.uncertain]
        /\ message.id = 0 /\ stored.id # 0 => stored.uncertain
        /\ stored.id = 0 => ~stored.uncertain
        /\ (message.id # 0 /\ ~message.uncertain
              /\ message.answer \in {"NONE", "INVALID", "GATE"}) =>
             executed[message.id] = 0 /\ message.id \notin late

PendingIInv ==
  /\ PendingTypeOK /\ NothingUnconfirmed /\ SlotIsSent /\ OneExecutionPerCommand

LEMMA PendingStarts == PendingInit => PendingIInv
<1> SUFFICES ASSUME PendingInit PROVE PendingIInv
  OBVIOUS
<1> USE DEF PendingInit
<1>1. NoCommand \in CommandType /\ NoCommand.id = 0 /\ ~NoCommand.uncertain
  BY DEF NoCommand, CommandType
<1>2. NotSending \in SendingType /\ NotSending.id = 0 /\ NotSending.answer = "NONE"
  BY DEF NotSending, SendingType, Answers
<1>3. PendingTypeOK
  <2>1. stored \in CommandType /\ held \in [Tabs -> CommandType]
    BY <1>1
  <2>2. sending \in [Tabs -> SendingType]
    BY <1>2
  <2>3. confirmed \in 0 .. MaxCommands /\ executed \in [Ids -> Nat] /\ late \in SUBSET Ids
    BY CommandAssumption
  <2>4. client \in Clients /\ killed \in BOOLEAN
    OBVIOUS
  <2> QED BY <2>1, <2>2, <2>3, <2>4 DEF PendingTypeOK
<1>4. NothingUnconfirmed
  BY <1>1, <1>2, CommandAssumption DEF NothingUnconfirmed, Ids
<1>5. SlotIsSent
  <2>1. TheWindow \in Tabs
    BY CommandAssumption DEF TheWindow
  <2> QED BY <1>1, <1>2, <2>1 DEF SlotIsSent
<1>6. OneExecutionPerCommand
  BY DEF OneExecutionPerCommand
<1> QED BY <1>3, <1>4, <1>5, <1>6 DEF PendingIInv

(* The window of a client that is not the page.                            *)
LEMMA OneWindow ==
  ASSUME NEW t \in Windows
  PROVE  t \in Tabs /\ TheWindow \in Tabs /\ (client # PREDICTIONS => t = TheWindow)
BY CommandAssumption DEF Windows, TheWindow

LEMMA ClientsDiffer == FUNDING # PREDICTIONS /\ CONTRACTS # PREDICTIONS /\ FUNDING # CONTRACTS
BY DEF FUNDING, PREDICTIONS, CONTRACTS

LEMMA SubmitKeepsSlot ==
  ASSUME PendingIInv, NEW t \in Windows, Submit(t)
  PROVE  PendingIInv' /\ (client = FUNDING => stored' # NoCommand)
<1> USE DEF PendingIInv
<1> DEFINE n == confirmed + 1
           command == [id |-> n, uncertain |-> FALSE]
           message == [id |-> n, uncertain |-> FALSE, answer |-> "NONE"]
<1>1. /\ n \in Nat /\ n # 0 /\ n \in 0 .. MaxCommands /\ n \in Ids /\ n > confirmed
      /\ confirmed \in Nat
  BY CommandAssumption DEF Submit, PendingTypeOK, Ids
<1>2. /\ confirmed' = n /\ stored' = command /\ sending' = [sending EXCEPT ![t] = message]
      /\ held' = [held EXCEPT ![t] = command] \/ held' = held
      /\ UNCHANGED <<client, executed, late, killed>>
  BY DEF Submit, Request, Hold
<1> HIDE DEF n
<1>3. command \in CommandType /\ command.id = n /\ ~command.uncertain
  BY <1>1 DEF CommandType
<1>4. message \in SendingType /\ message.id = n /\ ~message.uncertain /\ message.answer = "NONE"
  BY <1>1 DEF SendingType, Answers
<1>5. command = [id |-> message.id, uncertain |-> message.uncertain]
  BY <1>4
<1>6. command # NoCommand
  BY <1>1, <1>3 DEF NoCommand
<1> HIDE DEF command, message
<1>7. t \in Tabs /\ TheWindow \in Tabs /\ (client = FUNDING => t = TheWindow)
  BY OneWindow, ClientsDiffer
<1>8. PendingTypeOK'
  BY <1>1, <1>2, <1>3, <1>4, <1>7 DEF PendingTypeOK
<1>9. NothingUnconfirmed'
  <2>1. \A u \in Tabs : held'[u].id <= n /\ sending'[u].id <= n
    <3>1. \A u \in Tabs : /\ held[u].id \in Nat /\ sending[u].id \in Nat
                          /\ held[u].id <= confirmed /\ sending[u].id <= confirmed
      BY DEF PendingTypeOK, CommandType, SendingType, NothingUnconfirmed
    <3>2. \A u \in Tabs : /\ held'[u] = held[u] \/ held'[u] = command
                          /\ sending'[u] = sending[u] \/ sending'[u] = message
      BY <1>2 DEF PendingTypeOK
    <3> QED BY <1>1, <1>3, <1>4, <3>1, <3>2
  <2>2. \A u \in Tabs : sending'[u].id = 0 => sending'[u].answer = "NONE"
    BY <1>1, <1>2, <1>4 DEF PendingTypeOK, NothingUnconfirmed
  <2>3. \A c \in Ids : c > n => executed[c] = 0 /\ c \notin late
    BY <1>1 DEF NothingUnconfirmed, Ids
  <2>4. stored'.id <= n
    BY <1>1, <1>2, <1>3
  <2> QED BY <1>2, <2>1, <2>2, <2>3, <2>4 DEF NothingUnconfirmed
<1>10. SlotIsSent'
  <2>1. executed[n] = 0 /\ n \notin late
    BY <1>1 DEF NothingUnconfirmed
  <2>2. client = FUNDING => sending'[TheWindow] = message
    BY <1>2, <1>7 DEF PendingTypeOK
  <2> QED BY <1>1, <1>2, <1>4, <1>5, <2>1, <2>2 DEF SlotIsSent
<1>11. OneExecutionPerCommand'
  BY <1>2 DEF OneExecutionPerCommand
<1> QED BY <1>2, <1>6, <1>8, <1>9, <1>10, <1>11

LEMMA RetryKeepsSlot ==
  ASSUME PendingIInv, NEW t \in Windows, RetryPending(t)
  PROVE  PendingIInv'
<1> USE DEF PendingIInv
<1> DEFINE command == Known(t)
           message == [id |-> command.id, uncertain |-> command.uncertain, answer |-> "NONE"]
<1>1. t \in Tabs /\ TheWindow \in Tabs /\ (client = FUNDING => t = TheWindow)
  BY OneWindow, ClientsDiffer
<1>2. /\ command # NoCommand /\ sending[t] = NotSending
      /\ sending' = [sending EXCEPT ![t] = message]
      /\ UNCHANGED <<client, stored, held, confirmed, executed, late, killed>>
  BY DEF RetryPending, Request
<1>3. command \in CommandType /\ command.id <= confirmed
      /\ (client = FUNDING => command = stored)
  BY <1>1, ClientsDiffer DEF Known, PendingTypeOK, NothingUnconfirmed
<1> HIDE DEF command
<1>4. /\ message \in SendingType /\ message.id = command.id /\ message.answer = "NONE"
      /\ message.uncertain = command.uncertain
  BY <1>3 DEF CommandType, SendingType, Answers
<1>5. command = [id |-> message.id, uncertain |-> message.uncertain]
  BY <1>3, <1>4 DEF CommandType
<1> HIDE DEF message
<1>6. sending' \in [Tabs -> SendingType] /\ sending'[t] = message
      /\ \A u \in Tabs : u # t => sending'[u] = sending[u]
  BY <1>1, <1>2, <1>4 DEF PendingTypeOK
<1>7. PendingTypeOK'
  BY <1>2, <1>6 DEF PendingTypeOK
<1>8. NothingUnconfirmed'
  BY <1>2, <1>3, <1>4, <1>6 DEF NothingUnconfirmed
<1>9. SlotIsSent'
  <2> SUFFICES ASSUME client = FUNDING, ~killed
               PROVE  /\ message.id # 0 =>
                           stored = [id |-> message.id, uncertain |-> message.uncertain]
                      /\ message.id = 0 /\ stored.id # 0 => stored.uncertain
                      /\ stored.id = 0 => ~stored.uncertain
                      /\ (message.id # 0 /\ ~message.uncertain
                            /\ message.answer \in {"NONE", "INVALID", "GATE"}) =>
                           executed[message.id] = 0 /\ message.id \notin late
    BY <1>1, <1>2, <1>6 DEF SlotIsSent
  <2>1. sending[TheWindow].id = 0
    BY <1>1, <1>2 DEF NotSending
  <2>2. /\ stored.id # 0 => stored.uncertain
        /\ stored.id = 0 => ~stored.uncertain
    BY <2>1 DEF SlotIsSent
  <2> QED BY <1>3, <1>4, <1>5, <2>2
<1>10. OneExecutionPerCommand'
  BY <1>2 DEF OneExecutionPerCommand
<1> QED BY <1>7, <1>8, <1>9, <1>10

LEMMA RestoreKeepsSlot ==
  ASSUME PendingIInv, NEW t \in Windows, Restore(t)
  PROVE  PendingIInv'
<1>1. client = PREDICTIONS /\ held' = [held EXCEPT ![t] = stored]
      /\ UNCHANGED <<client, stored, sending, confirmed, executed, late, killed>>
  BY DEF Restore, Hold
<1>2. PendingTypeOK'
  BY <1>1 DEF PendingIInv, PendingTypeOK
<1> QED BY <1>1, <1>2, ClientsDiffer
        DEF PendingIInv, PendingTypeOK, NothingUnconfirmed, SlotIsSent, OneExecutionPerCommand

(* What the server carries out it carries out once, and it was confirmed.  *)
LEMMA CarryingOut ==
  ASSUME PendingIInv, NEW c \in Ids, Carried(c) \/ UNCHANGED executed
  PROVE  /\ executed' \in [Ids -> Nat]
         /\ \A d \in Ids : d # c => executed'[d] = executed[d]
         /\ \A d \in Ids : executed'[d] <= 1
<1> USE DEF PendingIInv, PendingTypeOK, OneExecutionPerCommand
<1>1. CASE executed' = executed
  BY <1>1
<1>2. CASE executed' # executed
  <2> DEFINE n == executed[c] + 1
  <2>1. executed' = [executed EXCEPT ![c] = n] /\ n = 1
    BY <1>2 DEF Carried, MustExecute
  <2> HIDE DEF n
  <2> QED BY <2>1
<1> QED BY <1>1, <1>2

LEMMA ServeKeepsSlot ==
  ASSUME PendingIInv, NEW t \in Windows, Serve(t)
  PROVE  PendingIInv'
<1> USE DEF PendingIInv
<1>1. t \in Tabs /\ TheWindow \in Tabs /\ (client = FUNDING => t = TheWindow)
  BY OneWindow, ClientsDiffer
<1>2. PICK answer \in {"DONE"} \cup Refusals \cup NotHandled :
        /\ answer \in Refusals => MustExecute(sending[t].id)
        /\ sending' = [sending EXCEPT ![t].answer = answer]
        /\ IF answer = "DONE" THEN Carried(sending[t].id) ELSE UNCHANGED executed
  BY DEF Serve
<1> DEFINE x == sending[t]
           c == x.id
           replied == [x EXCEPT !.answer = answer]
<1>3. /\ c # 0 /\ x.answer = "NONE"
      /\ UNCHANGED <<client, stored, held, confirmed, late, killed>>
  BY DEF Serve, Asked
<1>4. x \in SendingType /\ c \in Ids /\ c <= confirmed /\ answer \in Answers
  <2>1. x \in SendingType /\ c \in Nat /\ c <= confirmed /\ confirmed \in 0 .. MaxCommands
    BY <1>1 DEF PendingTypeOK, NothingUnconfirmed, SendingType
  <2>2. answer \in Answers
    BY <1>2 DEF Answers, NotHandled
  <2> HIDE DEF c
  <2>3. c \in Ids
    BY <1>3, <2>1, CommandAssumption DEF Ids
  <2> QED BY <2>1, <2>2, <2>3
<1>5. /\ executed' \in [Ids -> Nat] /\ \A d \in Ids : d # c => executed'[d] = executed[d]
      /\ \A d \in Ids : executed'[d] <= 1
  <2>1. Carried(c) \/ UNCHANGED executed
    BY <1>2
  <2> HIDE DEF c
  <2> QED BY <1>4, <2>1, CarryingOut
<1>6. answer # "DONE" => executed' = executed
  BY <1>2
<1>7. /\ replied \in SendingType /\ replied.id = c /\ replied.uncertain = x.uncertain
      /\ replied.answer = answer
  <2> HIDE DEF x
  <2> QED BY <1>4 DEF SendingType, c
<1>8. sending' \in [Tabs -> SendingType] /\ sending'[t] = replied
      /\ \A u \in Tabs : u # t => sending'[u] = sending[u]
  <2>1. sending' = [sending EXCEPT ![t] = replied]
    BY <1>2
  <2> HIDE DEF replied
  <2> QED BY <1>1, <1>7, <2>1 DEF PendingTypeOK
<1> HIDE DEF replied
<1>9. PendingTypeOK'
  BY <1>3, <1>5, <1>8 DEF PendingTypeOK
<1>10. NothingUnconfirmed'
  <2>1. \A d \in Ids : d > confirmed => d # c
    <3> HIDE DEF c
    <3> QED BY <1>4 DEF PendingTypeOK, Ids
  <2> QED BY <1>3, <1>4, <1>5, <1>7, <1>8, <2>1 DEF NothingUnconfirmed
<1>11. SlotIsSent'
  <2>1. CASE client = FUNDING /\ ~killed
    <3>1. /\ stored = [id |-> x.id, uncertain |-> x.uncertain]
          /\ stored.id = 0 => ~stored.uncertain
          /\ ~x.uncertain => executed[c] = 0 /\ c \notin late
      BY <1>1, <1>3, <2>1 DEF SlotIsSent
    <3>2. sending'[TheWindow] = replied
      BY <1>1, <1>8, <2>1
    <3>3. /\ replied.id = c /\ replied.uncertain = x.uncertain
          /\ replied.answer \in {"NONE", "INVALID", "GATE"} => executed' = executed
      BY <1>6, <1>7
    <3> QED BY <1>3, <3>1, <3>2, <3>3 DEF SlotIsSent
  <2>2. CASE ~(client = FUNDING /\ ~killed)
    BY <1>3, <2>2 DEF SlotIsSent
  <2> QED BY <2>1, <2>2
<1>12. OneExecutionPerCommand'
  BY <1>5 DEF OneExecutionPerCommand
<1> QED BY <1>9, <1>10, <1>11, <1>12

(* The request ends for the window, and may come late to the server.       *)
LEMMA TimeOutKeepsSlot ==
  ASSUME PendingIInv, NEW t \in Windows, TimeOut(t)
  PROVE  PendingIInv'
<1> USE DEF PendingIInv
<1> DEFINE x == sending[t]
           lost == [x EXCEPT !.answer = "UNREACHABLE"]
<1>1. t \in Tabs /\ TheWindow \in Tabs /\ (client = FUNDING => t = TheWindow)
  BY OneWindow, ClientsDiffer
<1>2. /\ x.id # 0 /\ sending' = [sending EXCEPT ![t] = lost]
      /\ late' = late \/ late' = late \cup {x.id}
      /\ UNCHANGED <<client, stored, held, confirmed, executed, killed>>
  BY DEF TimeOut
<1>3. x \in SendingType /\ x.id \in Ids /\ x.id <= confirmed
  <2>1. x \in SendingType /\ x.id \in Nat /\ x.id <= confirmed /\ confirmed \in 0 .. MaxCommands
    BY <1>1 DEF PendingTypeOK, NothingUnconfirmed, SendingType
  <2> HIDE DEF x
  <2> QED BY <1>2, <2>1, CommandAssumption DEF Ids
<1> HIDE DEF x
<1>4. /\ lost \in SendingType /\ lost.id = x.id /\ lost.uncertain = x.uncertain
      /\ lost.answer = "UNREACHABLE"
  BY <1>3 DEF SendingType, Answers
<1> HIDE DEF lost
<1>5. sending' \in [Tabs -> SendingType] /\ sending'[t] = lost
      /\ \A u \in Tabs : u # t => sending'[u] = sending[u]
  BY <1>1, <1>2, <1>4 DEF PendingTypeOK
<1>6. PendingTypeOK'
  BY <1>2, <1>3, <1>5 DEF PendingTypeOK
<1>7. NothingUnconfirmed'
  <2>1. \A d \in Ids : d > confirmed => d # x.id
    BY <1>3 DEF PendingTypeOK, Ids
  <2> QED BY <1>2, <1>3, <1>4, <1>5, <2>1 DEF NothingUnconfirmed
<1>8. SlotIsSent'
  BY <1>1, <1>2, <1>4, <1>5 DEF SlotIsSent, x
<1>9. OneExecutionPerCommand'
  BY <1>2 DEF OneExecutionPerCommand
<1> QED BY <1>6, <1>7, <1>8, <1>9

LEMMA ServeLateKeepsSlot ==
  ASSUME PendingIInv, NEW c \in Ids, ServeLate(c)
  PROVE  PendingIInv'
<1> USE DEF PendingIInv
<1>1. /\ c \in late /\ late' = late \ {c} /\ (Carried(c) \/ UNCHANGED executed)
      /\ UNCHANGED <<client, stored, held, sending, confirmed, killed>>
  BY DEF ServeLate
<1>2. /\ executed' \in [Ids -> Nat] /\ \A d \in Ids : d # c => executed'[d] = executed[d]
      /\ \A d \in Ids : executed'[d] <= 1
  BY <1>1, CarryingOut
<1>3. PendingTypeOK'
  BY <1>1, <1>2 DEF PendingTypeOK
<1>4. NothingUnconfirmed'
  BY <1>1, <1>2 DEF NothingUnconfirmed
<1>5. SlotIsSent'
  <2> DEFINE message == sending[TheWindow]
  <2>1. TheWindow \in Tabs
    BY CommandAssumption DEF TheWindow
  <2>2. message.id # 0 => message.id \in Ids
    <3>1. message.id \in Nat /\ message.id <= confirmed /\ confirmed \in 0 .. MaxCommands
      BY <2>1 DEF PendingTypeOK, NothingUnconfirmed, SendingType
    <3> HIDE DEF message
    <3> QED BY <3>1, CommandAssumption DEF Ids
  <2> QED BY <1>1, <1>2, <2>2 DEF SlotIsSent
<1>6. OneExecutionPerCommand'
  BY <1>2 DEF OneExecutionPerCommand
<1> QED BY <1>3, <1>4, <1>5, <1>6

(* The slot is freed when the outcome is known: told, or nothing had been  *)
(* carried out, or the rate had moved.                                     *)
LEMMA ReceiveKeepsSlot ==
  ASSUME PendingIInv, NEW t \in Windows, ReceiveAnswer(t)
  PROVE  PendingIInv' /\ (client = FUNDING /\ ~killed => ~OutcomeDiscarded)
<1> USE DEF PendingIInv
<1> DEFINE x == sending[t]
           command == [id |-> x.id, uncertain |-> x.uncertain]
           answer == x.answer
<1>1. t \in Tabs /\ TheWindow \in Tabs /\ (client = FUNDING => t = TheWindow)
  BY OneWindow, ClientsDiffer
<1>2. /\ answer # "NONE"
      /\ told' = IF answer = "DONE" THEN told \cup {command.id} ELSE told
      /\ IF Forgets(command, answer)
           THEN stored' = NoCommand /\ Hold(t, NoCommand)
           ELSE stored' = KeptAs(command) /\ UNCHANGED held
      /\ sending' = [sending EXCEPT ![t] = NotSending]
      /\ UNCHANGED <<client, confirmed, executed, late, killed>>
  BY DEF ReceiveAnswer
<1>3. /\ x \in SendingType /\ x.id # 0 /\ x.id \in Nat /\ x.id <= confirmed
      /\ x.uncertain \in BOOLEAN
  BY <1>1, <1>2 DEF PendingTypeOK, NothingUnconfirmed, SendingType
<1>4. NoCommand \in CommandType /\ NoCommand.id = 0 /\ ~NoCommand.uncertain
  BY DEF NoCommand, CommandType
<1>5. NotSending \in SendingType /\ NotSending.id = 0 /\ NotSending.answer = "NONE"
  BY DEF NotSending, SendingType, Answers
<1>6. /\ stored' \in CommandType
      /\ stored' = NoCommand \/ stored' = stored \/ stored'.id = x.id
      /\ client = FUNDING => \/ stored' = NoCommand
                             \/ stored' = [id |-> x.id, uncertain |-> TRUE]
  <2> DEFINE kept == [id |-> x.id, uncertain |-> TRUE]
  <2>1. kept \in CommandType /\ kept.id = x.id
    BY <1>3 DEF CommandType
  <2>2. stored' = NoCommand \/ stored' = KeptAs(command)
    BY <1>2
  <2>3. KeptAs(command) = IF client = FUNDING THEN kept ELSE stored
    BY DEF KeptAs
  <2> HIDE DEF kept, x
  <2>4. stored \in CommandType
    BY DEF PendingTypeOK
  <2>5. /\ stored' \in CommandType
        /\ stored' = NoCommand \/ stored' = stored \/ stored' = kept
        /\ client = FUNDING => stored' = NoCommand \/ stored' = kept
    BY <1>4, <2>1, <2>2, <2>3, <2>4
  <2> QED BY <2>1, <2>5 DEF kept
<1>7. /\ held' \in [Tabs -> CommandType]
      /\ \A u \in Tabs : held'[u] = held[u] \/ held'[u] = NoCommand
  <2>1. held' = held \/ held' = [held EXCEPT ![t] = NoCommand]
    BY <1>2 DEF Hold
  <2> QED BY <1>4, <2>1 DEF PendingTypeOK
<1>8. sending' \in [Tabs -> SendingType] /\ sending'[t] = NotSending
      /\ \A u \in Tabs : u # t => sending'[u] = sending[u]
  BY <1>1, <1>2, <1>5 DEF PendingTypeOK
<1>9. PendingTypeOK'
  BY <1>2, <1>6, <1>7, <1>8 DEF PendingTypeOK
<1>10. confirmed \in Nat
  BY CommandAssumption DEF PendingTypeOK
<1>11. NothingUnconfirmed'
  <2>1. stored'.id <= confirmed
    <3> HIDE DEF x
    <3> QED BY <1>3, <1>4, <1>6, <1>10 DEF NothingUnconfirmed
  <2>2. \A u \in Tabs : /\ held'[u].id <= confirmed /\ sending'[u].id <= confirmed
                        /\ sending'[u].id = 0 => sending'[u].answer = "NONE"
    BY <1>4, <1>5, <1>7, <1>8, <1>10 DEF NothingUnconfirmed
  <2> QED BY <1>2, <2>1, <2>2 DEF NothingUnconfirmed
<1>12. SlotIsSent'
  <2> SUFFICES ASSUME client = FUNDING, ~killed
               PROVE  /\ sending'[TheWindow].id = 0
                      /\ stored'.id # 0 => stored'.uncertain
                      /\ stored'.id = 0 => ~stored'.uncertain
    BY <1>2 DEF SlotIsSent
  <2>1. sending'[TheWindow].id = 0
    BY <1>1, <1>5, <1>8
  <2>2. stored' = NoCommand \/ stored' = [id |-> x.id, uncertain |-> TRUE]
    BY <1>6
  <2>3. /\ stored'.id # 0 => stored'.uncertain
        /\ stored'.id = 0 => ~stored'.uncertain
    BY <1>3, <1>4, <2>2
  <2> QED BY <2>1, <2>3
<1>13. OneExecutionPerCommand'
  BY <1>2 DEF OneExecutionPerCommand
<1>14. ASSUME client = FUNDING, ~killed, OutcomeDiscarded PROVE FALSE
  <2>1. /\ stored' = NoCommand /\ executed[stored.id] > 0 /\ stored.id \notin told'
        /\ answer # "CHANGED"
    BY <1>1, <1>14 DEF OutcomeDiscarded
  <2>2. stored.id = x.id /\ (~x.uncertain /\ answer \in {"INVALID", "GATE"} => executed[x.id] = 0)
    BY <1>1, <1>3, <1>14 DEF SlotIsSent
  <2>3. answer # "DONE"
    BY <1>2, <2>1, <2>2
  <2>4. ~(answer \in {"INVALID", "GATE"} /\ ~x.uncertain)
    <3> HIDE DEF x
    <3> QED BY <2>1, <2>2
  <2>5. ~Forgets(command, answer)
    BY <1>14, <2>1, <2>3, <2>4, ClientsDiffer DEF Forgets, FundingForgets
  <2>6. stored' = [id |-> x.id, uncertain |-> TRUE]
    BY <1>2, <1>14, <2>5 DEF KeptAs
  <2> QED BY <1>3, <1>4, <2>1, <2>6
<1> QED BY <1>9, <1>11, <1>12, <1>13, <1>14

LEMMA KillKeepsSlot ==
  ASSUME PendingIInv, NEW t \in Windows, Kill(t)
  PROVE  PendingIInv'
<1> USE DEF PendingIInv
<1> DEFINE x == sending[t]
<1>1. t \in Tabs /\ TheWindow \in Tabs /\ (client = FUNDING => t = TheWindow)
  BY OneWindow, ClientsDiffer
<1>2. /\ killed' = (killed \/ x # NotSending)
      /\ late' \in {late} \cup (IF Asked(t) THEN {late \cup {x.id}} ELSE {})
      /\ sending' = [sending EXCEPT ![t] = NotSending]
      /\ held' = [held EXCEPT ![t] = NoCommand] \/ held' = held
      /\ UNCHANGED <<client, stored, confirmed, executed>>
  BY DEF Kill, Hold
<1>3. NoCommand \in CommandType /\ NoCommand.id = 0
  BY DEF NoCommand, CommandType
<1>4. NotSending \in SendingType /\ NotSending.id = 0 /\ NotSending.answer = "NONE"
  BY DEF NotSending, SendingType, Answers
<1>5. \/ late' = late
      \/ /\ x.id \in Ids /\ x.id <= confirmed /\ x # NotSending
         /\ late' = late \cup {x.id}
  <2>1. x.id \in Nat /\ x.id <= confirmed /\ confirmed \in 0 .. MaxCommands
    BY <1>1 DEF PendingTypeOK, NothingUnconfirmed, SendingType
  <2>2. late' = late \/ (x.id # 0 /\ late' = late \cup {x.id})
    BY <1>2 DEF Asked
  <2>3. x.id # 0 => x # NotSending
    BY <1>4
  <2> HIDE DEF x
  <2> QED BY <2>1, <2>2, <2>3, CommandAssumption DEF Ids
<1>6. killed' \in BOOLEAN /\ (~killed' => ~killed /\ x = NotSending)
  BY <1>2
<1>7. PendingTypeOK'
  BY <1>1, <1>2, <1>3, <1>4, <1>5, <1>6 DEF PendingTypeOK
<1>8. NothingUnconfirmed'
  <2>1. confirmed \in Nat
    BY CommandAssumption DEF PendingTypeOK
  <2>2. \A d \in Ids : d > confirmed => executed[d] = 0 /\ d \notin late'
    <3> HIDE DEF x
    <3> QED BY <1>5, <2>1 DEF NothingUnconfirmed, Ids
  <2>3. \A u \in Tabs : /\ held'[u].id <= confirmed /\ sending'[u].id <= confirmed
                        /\ sending'[u].id = 0 => sending'[u].answer = "NONE"
    BY <1>2, <1>3, <1>4, <2>1 DEF NothingUnconfirmed, PendingTypeOK
  <2> QED BY <1>2, <2>2, <2>3 DEF NothingUnconfirmed
<1>9. SlotIsSent'
  <2> SUFFICES ASSUME client = FUNDING, ~killed' PROVE SlotIsSent'
    BY <1>2 DEF SlotIsSent
  <2>1. ~killed /\ x = NotSending
    BY <1>6
  <2>2. sending' = sending
    BY <1>1, <1>2, <2>1 DEF PendingTypeOK
  <2>3. late' = late
    BY <1>5, <2>1
  <2> QED BY <1>2, <2>1, <2>2, <2>3 DEF SlotIsSent
<1>10. OneExecutionPerCommand'
  BY <1>2 DEF OneExecutionPerCommand
<1> QED BY <1>7, <1>8, <1>9, <1>10

LEMMA PendingStays ==
  ASSUME PendingIInv, [PendingNext]_pendingVars
  PROVE  /\ PendingIInv'
         /\ client = FUNDING /\ ~killed => ~OutcomeDiscarded
<1>1. stored' = stored => ~OutcomeDiscarded
  BY DEF OutcomeDiscarded
<1>2. CASE UNCHANGED pendingVars
  BY <1>1, <1>2 DEF pendingVars, PendingIInv, PendingTypeOK, NothingUnconfirmed, SlotIsSent,
                    OneExecutionPerCommand
<1>3. ASSUME NEW t \in Windows, Submit(t)
      PROVE  PendingIInv' /\ (client = FUNDING /\ ~killed => ~OutcomeDiscarded)
  BY <1>3, SubmitKeepsSlot DEF OutcomeDiscarded
<1>4. ASSUME NEW t \in Windows,
             RetryPending(t) \/ Restore(t) \/ Serve(t) \/ TimeOut(t) \/ Kill(t)
      PROVE  PendingIInv' /\ stored' = stored
  BY <1>4, RetryKeepsSlot, RestoreKeepsSlot, ServeKeepsSlot, TimeOutKeepsSlot, KillKeepsSlot
  DEF RetryPending, Restore, Serve, TimeOut, Kill
<1>5. ASSUME NEW c \in Ids, ServeLate(c)
      PROVE  PendingIInv' /\ stored' = stored
  BY <1>5, ServeLateKeepsSlot DEF ServeLate
<1> QED BY <1>1, <1>2, <1>3, <1>4, <1>5, ReceiveKeepsSlot DEF PendingNext

(* The clients' commands: one confirmation is carried out once, and the    *)
(* funding repository gives up no uncertain outcome as long as the app     *)
(* runs, for any number of windows, commands and late requests.            *)
THEOREM CommandsKept == PendingSpec => PendingCommandsKept
<1>1. PendingIInv /\ [PendingNext]_pendingVars => PendingIInv'
  BY PendingStays
<1>2. PendingIInv => OneExecutionPerCommand
  BY DEF PendingIInv
<1>3. PendingIInv /\ [PendingNext]_pendingVars
        => [client = FUNDING /\ ~killed => ~OutcomeDiscarded]_pendingVars
  BY PendingStays
<1> QED BY <1>1, <1>2, <1>3, PendingStarts, PTL DEF PendingSpec, PendingCommandsKept

-----------------------------------------------------------------------------
(* Pages                                                                   *)

LoadType == [view : Views \cup {"NONE"}, by : {"NONE", "LOAD", "REFRESH"}, stopped : BOOLEAN,
             answer : Int]

PagesTypeOK ==
  /\ view \in Views /\ actedIn \in Views \cup {"NONE"}
  /\ revision \in Nat
  /\ displayed \in [view : Views \cup {"NONE"}, revision : Nat]
  /\ asked \in [Slots -> LoadType]

(* An answer tells a revision of a view chosen, and so does the screen.    *)
NothingInvented ==
  /\ \A s \in Slots : asked[s].answer # -1 =>
       /\ asked[s].view \in Views
       /\ asked[s].answer \in Nat /\ asked[s].answer <= revision
  /\ \A s \in Slots : asked[s].view = "NONE" => asked[s] = Unasked
  /\ displayed.revision <= revision
  /\ displayed.view = "NONE" => displayed.revision = 0

(* The newest load was asked after the answer on the screen had come.      *)
NewestIsNewer ==
  newest \in Slots /\ asked[newest].answer # -1 => displayed.revision <= asked[newest].answer

PagesIInv == PagesTypeOK /\ NothingInvented /\ NewestIsNewer

LEMMA PagesStart == PagesInit => PagesIInv
<1> SUFFICES ASSUME PagesInit PROVE PagesIInv
  OBVIOUS
<1>1. Unasked \in LoadType /\ Unasked.answer = -1
  BY DEF Unasked, LoadType
<1>2. PagesTypeOK
  BY <1>1 DEF PagesInit, PagesTypeOK, BlankPage
<1> QED BY <1>1, <1>2 DEF PagesInit, PagesIInv, NothingInvented, NewestIsNewer, BlankPage

(* A load is asked: it becomes the newest, and has no answer.  What was    *)
(* asked before is as it was, or was given up.                             *)
LEMMA AskingKeepsLists ==
  ASSUME PagesIInv, NEW s \in Slots, NEW v \in Views, NEW by \in {"LOAD", "REFRESH"},
         NEW requests \in [Slots -> LoadType],
         \A t \in Slots : \/ requests[t] = asked[t]
                          \/ /\ requests[t] = [asked[t] EXCEPT !.stopped = TRUE]
                             /\ asked[t].by = "REFRESH",
         Ask(s, v, by, requests),
         view' \in Views, actedIn' \in Views \cup {"NONE"},
         revision' \in Nat, revision' = revision \/ revision' = revision + 1,
         displayed' = displayed \/ displayed' = BlankPage
  PROVE  PagesIInv'
<1> USE DEF PagesIInv
<1> DEFINE load == [view |-> v, by |-> by, stopped |-> FALSE, answer |-> -1]
<1>1. asked' = [requests EXCEPT ![s] = load] /\ newest' = s
  BY DEF Ask
<1>2. load \in LoadType /\ load.answer = -1 /\ load.view = v /\ v # "NONE"
  BY PagesAssumption DEF LoadType
<1> HIDE DEF load
<1>3. asked' \in [Slots -> LoadType] /\ asked'[s] = load
      /\ \A t \in Slots : t # s => asked'[t] = requests[t]
  BY <1>1, <1>2
<1>4. ASSUME NEW t \in Slots
      PROVE  /\ requests[t].answer = asked[t].answer /\ requests[t].view = asked[t].view
             /\ requests[t].view = "NONE" => requests[t] = Unasked
  <2>1. asked[t] \in LoadType
    BY DEF PagesTypeOK
  <2>2. CASE requests[t] = asked[t]
    BY <2>2 DEF NothingInvented
  <2>3. CASE requests[t] = [asked[t] EXCEPT !.stopped = TRUE] /\ asked[t].by = "REFRESH"
    <3>1. asked[t] # Unasked
      BY <2>3 DEF Unasked
    <3> QED BY <2>1, <2>3, <3>1 DEF LoadType, NothingInvented
  <2> QED BY <2>2, <2>3
<1>5. BlankPage \in [view : Views \cup {"NONE"}, revision : Nat] /\ BlankPage.revision = 0
  BY DEF BlankPage
<1>6. displayed' \in [view : Views \cup {"NONE"}, revision : Nat]
      /\ displayed'.revision <= revision'
      /\ (displayed'.view = "NONE" => displayed'.revision = 0)
  BY <1>5 DEF PagesTypeOK, NothingInvented
<1>7. \A t \in Slots : asked'[t].answer # -1 =>
        /\ asked'[t].view \in Views
        /\ asked'[t].answer \in Nat /\ asked'[t].answer <= revision'
  <2>1. revision \in Nat /\ revision <= revision'
    BY DEF PagesTypeOK
  <2> QED BY <1>2, <1>3, <1>4, <2>1 DEF NothingInvented
<1>8. PagesTypeOK'
  BY <1>3, <1>6 DEF PagesTypeOK
<1>9. NothingInvented'
  BY <1>2, <1>3, <1>4, <1>6, <1>7 DEF NothingInvented
<1>10. NewestIsNewer'
  BY <1>1, <1>2, <1>3 DEF NewestIsNewer
<1> QED BY <1>8, <1>9, <1>10

(* A slot is freed, with or without its answer going to the screen.        *)
LEMMA ArrivingKeepsLists ==
  ASSUME PagesIInv, NEW s \in Slots, Arrive(s) \/ Fail(s)
  PROVE  /\ PagesIInv'
         /\ displayed.view = displayed'.view => displayed.revision <= displayed'.revision
<1> USE DEF PagesIInv
<1>1. asked' = [asked EXCEPT ![s] = Unasked] /\ UNCHANGED <<view, actedIn, revision, newest>>
  BY DEF Arrive, Fail, Release
<1>2. Unasked \in LoadType /\ Unasked.answer = -1
  BY DEF Unasked, LoadType
<1>3. asked' \in [Slots -> LoadType] /\ asked'[s] = Unasked
      /\ \A t \in Slots : t # s => asked'[t] = asked[t]
  BY <1>1, <1>2 DEF PagesTypeOK
<1>4. CASE displayed' = displayed
  <2>1. PagesTypeOK'
    BY <1>1, <1>3, <1>4 DEF PagesTypeOK
  <2>2. NothingInvented' /\ NewestIsNewer'
    BY <1>1, <1>2, <1>3, <1>4 DEF NothingInvented, NewestIsNewer
  <2>3. displayed.revision <= displayed'.revision
    BY <1>4 DEF PagesTypeOK
  <2> QED BY <2>1, <2>2, <2>3
<1>5. CASE displayed' # displayed
  <2> DEFINE v == asked[s].view
             n == asked[s].answer
  <2>1. s = newest /\ n # -1 /\ displayed' = [view |-> v, revision |-> n]
    BY <1>5 DEF Arrive, Fail, Accepts
  <2>2. v \in Views /\ n \in Nat /\ n <= revision /\ displayed.revision <= n
    BY <2>1 DEF NothingInvented, NewestIsNewer
  <2> HIDE DEF v, n
  <2>3. /\ displayed' \in [view : Views \cup {"NONE"}, revision : Nat]
        /\ displayed'.revision = n /\ displayed'.view # "NONE"
    BY <2>1, <2>2, PagesAssumption
  <2>4. PagesTypeOK'
    BY <1>1, <1>3, <2>3 DEF PagesTypeOK
  <2>5. NothingInvented'
    BY <1>1, <1>2, <1>3, <2>2, <2>3 DEF NothingInvented
  <2>6. NewestIsNewer'
    BY <1>1, <1>2, <1>3, <2>1 DEF NewestIsNewer
  <2> QED BY <2>2, <2>3, <2>4, <2>5, <2>6
<1> QED BY <1>4, <1>5

LEMMA AnsweringKeepsLists ==
  ASSUME PagesIInv, NEW s \in Slots, Answered(s)
  PROVE  PagesIInv'
<1> USE DEF PagesIInv
<1> DEFINE x == asked[s]
           answer == [x EXCEPT !.answer = revision]
<1>1. /\ asked' = [asked EXCEPT ![s] = answer] /\ asked[s] # Unasked
      /\ UNCHANGED <<view, actedIn, revision, newest, displayed>>
  BY DEF Answered, Free
<1>2. revision \in Nat /\ x \in LoadType
  BY DEF PagesTypeOK
<1>3. x.view \in Views
  BY <1>1, <1>2 DEF NothingInvented, LoadType
<1> HIDE DEF x
<1>4. answer \in LoadType /\ answer.answer = revision /\ answer.view = x.view
  BY <1>2 DEF LoadType
<1> HIDE DEF answer
<1>5. asked' \in [Slots -> LoadType] /\ asked'[s] = answer
      /\ \A t \in Slots : t # s => asked'[t] = asked[t]
  BY <1>1, <1>4 DEF PagesTypeOK
<1>6. PagesTypeOK'
  BY <1>1, <1>5 DEF PagesTypeOK
<1>7. NothingInvented'
  BY <1>1, <1>2, <1>3, <1>4, <1>5, PagesAssumption DEF NothingInvented
<1>8. NewestIsNewer'
  BY <1>1, <1>4, <1>5 DEF NewestIsNewer, NothingInvented
<1> QED BY <1>6, <1>7, <1>8

LEMMA PagesStay ==
  ASSUME PagesIInv, [PagesNext]_pagesVars
  PROVE  /\ PagesIInv'
         /\ displayed.view = displayed'.view => displayed.revision <= displayed'.revision
<1> DEFINE Onward == displayed.view = displayed'.view =>
                       displayed.revision <= displayed'.revision
<1>1. /\ view \in Views /\ actedIn \in Views \cup {"NONE"} /\ revision \in Nat
      /\ displayed.revision \in Nat /\ asked \in [Slots -> LoadType]
      /\ (displayed.view = "NONE" => displayed.revision = 0)
  BY DEF PagesIInv, PagesTypeOK, NothingInvented
<1>2. displayed' = displayed => Onward
  BY <1>1
<1>3. displayed' = BlankPage => Onward
  <2>1. BlankPage.view = "NONE" /\ BlankPage.revision = 0
    BY DEF BlankPage
  <2> QED BY <1>1, <2>1
<1> SUFFICES PagesIInv' /\ Onward
  BY DEF Onward
<1> HIDE DEF Onward
<1>4. CASE UNCHANGED pagesVars
  BY <1>2, <1>4 DEF pagesVars, PagesIInv, PagesTypeOK, NothingInvented, NewestIsNewer
<1>5. ASSUME NEW v \in Views, Choose(v) PROVE PagesIInv' /\ Onward
  <2>1. view' \in Views /\ actedIn' = actedIn /\ revision' = revision
    BY <1>5 DEF Choose
  <2>2. CASE page = "CONSOLE"
    <3> DEFINE stopped == [s \in Slots |-> IF asked[s].by = "REFRESH"
                                           THEN [asked[s] EXCEPT !.stopped = TRUE]
                                           ELSE asked[s]]
    <3>1. displayed' = BlankPage /\ \E s \in Slots : Ask(s, v, "LOAD", stopped)
      BY <1>5, <2>2 DEF Choose
    <3>2. \A s \in Slots : asked[s] \in LoadType
                           /\ [asked[s] EXCEPT !.stopped = TRUE] \in LoadType
      BY <1>1 DEF LoadType
    <3>3. stopped \in [Slots -> LoadType]
      BY <3>2
    <3>4. \A t \in Slots : \/ stopped[t] = asked[t]
                           \/ /\ stopped[t] = [asked[t] EXCEPT !.stopped = TRUE]
                              /\ asked[t].by = "REFRESH"
      OBVIOUS
    <3> HIDE DEF stopped
    <3>5. PICK s \in Slots : Ask(s, v, "LOAD", stopped)
      BY <3>1
    <3>6. PagesIInv'
      BY <1>1, <2>1, <3>1, <3>3, <3>4, <3>5, AskingKeepsLists
    <3> QED BY <1>3, <3>1, <3>6
  <2>3. CASE page # "CONSOLE"
    <3>1. UNCHANGED <<asked, newest, displayed>>
      BY <1>5, <2>3 DEF Choose
    <3> QED BY <1>2, <2>1, <3>1 DEF PagesIInv, PagesTypeOK, NothingInvented, NewestIsNewer
  <2> QED BY <2>2, <2>3
<1>6. CASE Debounced \/ RefreshRequests \/ TimedLoad
  <2> DEFINE requests == asked
             v == view
  <2>1. PICK s \in Slots : Ask(s, v, "LOAD", requests) \/ Ask(s, v, "REFRESH", requests)
    BY <1>6 DEF Debounced, RefreshRequests, TimedLoad
  <2>2. /\ requests \in [Slots -> LoadType] /\ v \in Views
        /\ \A t \in Slots : \/ requests[t] = asked[t]
                           \/ /\ requests[t] = [asked[t] EXCEPT !.stopped = TRUE]
                              /\ asked[t].by = "REFRESH"
    BY <1>1
  <2>3. /\ view' \in Views /\ actedIn' \in Views \cup {"NONE"}
        /\ revision' \in Nat /\ revision' = revision /\ displayed' = displayed
    BY <1>1, <1>6 DEF Debounced, RefreshRequests, TimedLoad
  <2> HIDE DEF requests, v
  <2>4. CASE Ask(s, v, "LOAD", requests)
    <3>1. PagesIInv'
      BY <2>2, <2>3, <2>4, AskingKeepsLists
    <3> QED BY <1>2, <2>3, <3>1
  <2>5. CASE Ask(s, v, "REFRESH", requests)
    <3>1. PagesIInv'
      BY <2>2, <2>3, <2>5, AskingKeepsLists
    <3> QED BY <1>2, <2>3, <3>1
  <2> QED BY <2>1, <2>4, <2>5
<1>7. CASE BeginAction
  BY <1>1, <1>2, <1>7
  DEF BeginAction, PagesIInv, PagesTypeOK, NothingInvented, NewestIsNewer
<1>8. CASE CompleteAction
  <2>1. /\ actedIn # "NONE" /\ actedIn' = "NONE" /\ UNCHANGED <<view, displayed>>
        /\ \/ /\ revision' = revision + 1
              /\ \E s \in Slots :
                   Ask(s, IF page = "PREDICTIONS" THEN view ELSE actedIn, "LOAD", asked)
           \/ UNCHANGED <<revision, asked, newest>>
    BY <1>8 DEF CompleteAction
  <2>2. CASE UNCHANGED <<revision, asked, newest>>
    BY <1>1, <1>2, <2>1, <2>2 DEF PagesIInv, PagesTypeOK, NothingInvented, NewestIsNewer
  <2>3. CASE /\ revision' = revision + 1
             /\ \E s \in Slots :
                  Ask(s, IF page = "PREDICTIONS" THEN view ELSE actedIn, "LOAD", asked)
    <3> DEFINE v == IF page = "PREDICTIONS" THEN view ELSE actedIn
               requests == asked
    <3>1. v \in Views
      BY <1>1, <2>1
    <3>2. PICK s \in Slots : Ask(s, v, "LOAD", requests)
      BY <2>3
    <3>5. /\ requests \in [Slots -> LoadType]
          /\ \A t \in Slots : \/ requests[t] = asked[t]
                             \/ /\ requests[t] = [asked[t] EXCEPT !.stopped = TRUE]
                                /\ asked[t].by = "REFRESH"
      BY <1>1
    <3> HIDE DEF v, requests
    <3>3. revision' \in Nat
      BY <1>1, <2>3
    <3>4. PagesIInv'
      BY <1>1, <2>1, <2>3, <3>1, <3>2, <3>3, <3>5, AskingKeepsLists
    <3> QED BY <1>2, <2>1, <3>4
  <2> QED BY <2>1, <2>2, <2>3
<1>9. CASE ServerChanges
  <2>1. revision' = revision + 1 /\ UNCHANGED <<view, actedIn, asked, newest, displayed>>
    BY <1>9 DEF ServerChanges
  <2>2. \A s \in Slots : asked[s].answer \in Int
    BY <1>1 DEF LoadType
  <2> QED BY <1>1, <1>2, <2>1, <2>2 DEF PagesIInv, PagesTypeOK, NothingInvented, NewestIsNewer
<1>10. ASSUME NEW s \in Slots, Answered(s) PROVE PagesIInv' /\ Onward
  BY <1>2, <1>10, AnsweringKeepsLists DEF Answered
<1>11. ASSUME NEW s \in Slots, Arrive(s) \/ Fail(s) PROVE PagesIInv' /\ Onward
  BY <1>11, ArrivingKeepsLists DEF Onward
<1> QED BY <1>4, <1>5, <1>6, <1>7, <1>8, <1>9, <1>10, <1>11 DEF PagesNext

(* The pages: the list of a view on the screen never gives way to an older *)
(* one of that view, for any number of views, loads under way and errors.  *)
THEOREM ListsOnlyGoForward == PagesSpec => ListsNeverGoBack
<1>1. PagesIInv /\ [PagesNext]_pagesVars => PagesIInv'
  BY PagesStay
<1>2. PagesIInv /\ [PagesNext]_pagesVars
        => [displayed.view = displayed'.view =>
              displayed.revision <= displayed'.revision]_pagesVars
  BY PagesStay
<1> QED BY <1>1, <1>2, PagesStart, PTL DEF PagesSpec, ListsNeverGoBack

-----------------------------------------------------------------------------
(* Notices                                                                 *)

(* A finite set of integers has a least and a greatest member.             *)
LEMMA EndsOfIntegers ==
  ASSUME NEW S \in SUBSET Int, IsFiniteSet(S), S # {}
  PROVE  /\ \E x \in S : \A y \in S : x <= y
         /\ \E x \in S : \A y \in S : x >= y
<1> DEFINE HasEnds(T) == /\ \E x \in T : \A y \in T : x <= y
                         /\ \E x \in T : \A y \in T : x >= y
           C == {T \in SUBSET S : T # {} /\ ~HasEnds(T)}
<1>1. C = {}
  <2> SUFFICES ASSUME C # {} PROVE FALSE
    OBVIOUS
  <2>1. PICK T \in C : \A U \in C : ~(U \subseteq T /\ U # T)
    <3>1. C \in SUBSET SUBSET S
      OBVIOUS
    <3>2. IsWellFoundedOn(StrictSubsetOrdering(S), FiniteSubsetsOf(S))
      BY FS_StrictSubsetOrderingWellFounded
    <3> HIDE DEF C
    <3>3. C \subseteq FiniteSubsetsOf(S)
      BY <3>1, FS_Subset DEF FiniteSubsetsOf
    <3>4. PICK T \in C : \A U \in C : <<U, T>> \notin StrictSubsetOrdering(S)
      <4> HIDE DEF StrictSubsetOrdering, FiniteSubsetsOf
      <4> QED BY <3>2, <3>3, WFMin
    <3> QED BY <3>1, <3>4 DEF StrictSubsetOrdering
  <2>2. PICK x \in T : TRUE
    OBVIOUS
  <2>3. T \ {x} \notin C
    BY <2>1, <2>2
  <2>4. CASE T = {x}
    BY <2>1, <2>2, <2>4
  <2>5. CASE T # {x}
    <3>1. HasEnds(T \ {x})
      BY <2>1, <2>2, <2>3, <2>5
    <3>2. PICK low \in T \ {x}, high \in T \ {x} :
            \A y \in T \ {x} : low <= y /\ y <= high
      BY <3>1
    <3>3. \A y \in T : y \in Int
      BY <2>1
    <3>4. \E z \in T : \A y \in T : z <= y
      BY <2>2, <3>2, <3>3
    <3>5. \E z \in T : \A y \in T : z >= y
      BY <2>2, <3>2, <3>3
    <3> QED BY <2>1, <3>4, <3>5
  <2> QED BY <2>4, <2>5
<1> QED BY <1>1

PollType == [after : Int, step : {"NONE", "SENT", "ANSWERED"}, next : Int, events : SUBSET Int]

NoticesTypeOK ==
  /\ happened \in Nat /\ saved \in Int /\ since \in Nat
  /\ noticeCursor \in [PageWindows -> Int]
  /\ checking \in [PageWindows -> PollType]
  /\ announced \in SUBSET Int

(* At a time when the stream holds now events, a cursor at c has passed    *)
(* over no settlement that is not among those heard, but for those before  *)
(* the beginning.                                                          *)
Passed(c, now, beginning, heard) ==
  /\ NoCursor <= c /\ c <= now
  /\ \A e \in beginning + 1 .. c : e \notin OtherEvents => e \in heard

(* A poll asks from a cursor that passed over nothing, and its answer      *)
(* holds every settlement it moves the cursor past.                        *)
PollInOrder(poll, now, beginning, heard) ==
  /\ Passed(poll.after, now, beginning, heard)
  /\ poll.step = "ANSWERED" =>
       /\ 0 <= poll.next /\ poll.next <= now
       /\ poll.after # NoCursor => Passed(poll.next, now, beginning, heard \cup poll.events)

NoticesIInv ==
  /\ NoticesTypeOK
  /\ Passed(saved, happened, since, announced)
  /\ \A w \in PageWindows :
       /\ Passed(noticeCursor[w], happened, since, announced)
       /\ PollInOrder(checking[w], happened, since, announced)

LEMMA NoticesStart == NoticesInit => NoticesIInv
<1> SUFFICES ASSUME NoticesInit PROVE NoticesIInv
  OBVIOUS
<1> USE DEF NoticesInit, NoCursor
<1>1. NotChecking \in PollType
  BY DEF NotChecking, PollType
<1>2. NoticesTypeOK
  BY <1>1 DEF NoticesTypeOK
<1>3. Passed(NoCursor, happened, since, announced)
  BY DEF Passed
<1>4. PollInOrder(NotChecking, happened, since, announced)
  BY <1>3 DEF PollInOrder, NotChecking
<1> QED BY <1>2, <1>3, <1>4 DEF NoticesIInv

(* What personalEvents answers: the page holds the first settlements after *)
(* the cursor, so none it leaves out is at or before the cursor it returns.*)
LEMMA PageLeavesNoneOut ==
  ASSUME happened \in Nat, NEW after \in Int, NoCursor <= after, after <= happened
  PROVE  LET answer == PersonalEvents(after)
         IN  /\ answer \in PollType
             /\ answer.after = after /\ answer.step = "ANSWERED"
             /\ 0 <= answer.next /\ answer.next <= happened
             /\ after # NoCursor =>
                  \A e \in after + 1 .. answer.next :
                    e \notin OtherEvents => e \in answer.events
<1> DEFINE mine == {e \in after + 1 .. happened : e \notin OtherEvents}
           before(e) == {f \in mine : f < e}
           first == {e \in mine : Cardinality(before(e)) < EventPage}
           answer == PersonalEvents(after)
<1>1. CASE after = NoCursor
  <2>1. answer = [after |-> after, step |-> "ANSWERED", next |-> happened, events |-> {}]
    BY <1>1 DEF PersonalEvents
  <2> QED BY <1>1, <2>1 DEF PollType
<1>2. CASE after # NoCursor
  <2>1. answer = [after |-> after, step |-> "ANSWERED", events |-> first,
                  next |-> IF Cardinality(first) = EventPage THEN Max(first) ELSE happened]
    BY <1>2 DEF PersonalEvents
  <2>2. after \in Nat /\ EventPage \in Nat /\ EventPage # 0
    BY <1>2, NoticesAssumption DEF NoCursor
  <2>3. IsFiniteSet(mine) /\ mine \subseteq Int /\ first \subseteq mine
    <3>1. IsFiniteSet(after + 1 .. happened)
      BY <2>2, FS_Interval
    <3>2. mine \subseteq after + 1 .. happened
      OBVIOUS
    <3>3. IsFiniteSet(mine)
      <4> HIDE DEF mine
      <4> QED BY <3>1, <3>2, FS_Subset
    <3> QED BY <3>3
  <2>4. IsFiniteSet(first) /\ Cardinality(first) \in Nat
    BY <2>3, FS_Subset, FS_CardinalityType
  <2>5. \A e : IsFiniteSet(before(e)) /\ Cardinality(before(e)) \in Nat
    <3>1. \A e : before(e) \subseteq mine
      OBVIOUS
    <3> HIDE DEF before, mine
    <3> QED BY <2>3, <3>1, FS_Subset, FS_CardinalityType
  <2>6. CASE Cardinality(first) = EventPage
    <3>1. first # {}
      BY <2>2, <2>6, FS_EmptySet
    <3>2. Max(first) \in first /\ \A e \in first : e <= Max(first)
      <4>1. \E x \in first : \A y \in first : x >= y
        <5> HIDE DEF first
        <5> QED BY <2>3, <2>4, <3>1, EndsOfIntegers
      <4>2. \A y \in first : y \in Int
        BY <2>3
      <4> HIDE DEF first
      <4> QED BY <4>1, <4>2 DEF Max
    <3> DEFINE m == Max(first)
    <3>3. m \in mine /\ Cardinality(before(m)) < EventPage
      BY <3>2
    <3>4. ASSUME NEW e \in after + 1 .. m, e \notin OtherEvents PROVE e \in first
      <4> HIDE DEF m
      <4>1. e \in mine
        BY <2>3, <3>3, <3>4
      <4>2. before(e) \subseteq before(m)
        BY <2>3, <3>3, <3>4
      <4>3. Cardinality(before(e)) <= Cardinality(before(m))
        <5> HIDE DEF before
        <5> QED BY <2>5, <4>2, FS_Subset
      <4>4. Cardinality(before(e)) < EventPage
        <5> DEFINE x == Cardinality(before(e))
                   y == Cardinality(before(m))
        <5>1. x \in Nat /\ y \in Nat /\ x <= y /\ y < EventPage
          BY <2>5, <3>3, <4>3
        <5> HIDE DEF x, y
        <5>2. x < EventPage
          BY <2>2, <5>1
        <5> QED BY <5>2 DEF x
      <4> QED BY <4>1, <4>4
    <3>5. answer.next = m /\ answer.events = first /\ answer.after = after
          /\ answer.step = "ANSWERED"
      BY <2>1, <2>6
    <3>6. m \in Int /\ 0 <= m /\ m <= happened
      BY <2>2, <3>3
    <3>7. answer \in PollType
      <4>1. first \in SUBSET Int
        BY <2>3
      <4>2. answer = [after |-> after, step |-> "ANSWERED", events |-> first, next |-> m]
        BY <2>1, <2>6
      <4> HIDE DEF first, m, answer
      <4> QED BY <3>6, <4>1, <4>2 DEF PollType
    <3>8. \A e \in after + 1 .. answer.next : e \notin OtherEvents => e \in answer.events
      <4> HIDE DEF first, m, answer
      <4> QED BY <3>4, <3>5
    <3>9. 0 <= answer.next /\ answer.next <= happened
      <4> HIDE DEF first, m, answer
      <4> QED BY <3>5, <3>6
    <3> HIDE DEF first, m, answer
    <3> QED BY <3>5, <3>7, <3>8, <3>9 DEF answer
  <2>7. CASE Cardinality(first) # EventPage
    <3>1. Cardinality(first) < EventPage
      <4>1. CASE first = {}
        <5>1. Cardinality(first) = 0
          BY <4>1, FS_EmptySet
        <5> HIDE DEF first
        <5> QED BY <2>2, <5>1
      <4>2. CASE first # {}
        <5>1. PICK m \in first : \A y \in first : m >= y
          <6> HIDE DEF first
          <6> QED BY <2>3, <2>4, <4>2, EndsOfIntegers
        <5>2. \A y \in first : y \in before(m) \/ y = m
          BY <2>3, <5>1
        <5>3. m \notin before(m) /\ Cardinality(before(m)) < EventPage
          BY <2>3, <5>1
        <5>4. first \subseteq before(m) \cup {m}
          BY <5>2
        <5>5. /\ IsFiniteSet(before(m) \cup {m})
              /\ Cardinality(before(m) \cup {m}) = Cardinality(before(m)) + 1
          <6> HIDE DEF before, first
          <6> QED BY <2>5, <5>3, FS_AddElement
        <5>6. Cardinality(first) <= Cardinality(before(m) \cup {m})
          <6> HIDE DEF before, first
          <6> QED BY <5>4, <5>5, FS_Subset
        <5> DEFINE x == Cardinality(first)
                   y == Cardinality(before(m))
        <5>7. /\ x \in Nat /\ y \in Nat /\ x <= y + 1 /\ y < EventPage
              /\ x # EventPage
          BY <2>4, <2>5, <2>7, <5>3, <5>5, <5>6
        <5> HIDE DEF x, y
        <5>8. x < EventPage
          BY <2>2, <5>7
        <5> QED BY <5>8 DEF x
      <4> QED BY <4>1, <4>2
    <3>2. mine \subseteq first
      <4> SUFFICES ASSUME mine \ first # {} PROVE FALSE
        OBVIOUS
      <4> DEFINE left == mine \ first
      <4>1. PICK e \in left : \A y \in left : e <= y
        <5>1. IsFiniteSet(left) /\ left \in SUBSET Int
          BY <2>3, FS_Subset
        <5> HIDE DEF left
        <5> QED BY <5>1, EndsOfIntegers DEF left
      <4>2. before(e) \subseteq first
        <5>1. \A y \in before(e) : y \in mine /\ ~(e <= y)
          BY <2>3
        <5> HIDE DEF first, before, mine
        <5> QED BY <4>1, <5>1
      <4>3. Cardinality(before(e)) <= Cardinality(first)
        <5> HIDE DEF before, first
        <5> QED BY <2>4, <4>2, FS_Subset
      <4>4. ~(Cardinality(before(e)) < EventPage)
        BY <4>1
      <4> DEFINE x == Cardinality(first)
                 y == Cardinality(before(e))
      <4>5. x \in Nat /\ y \in Nat /\ y <= x /\ x < EventPage /\ ~(y < EventPage)
        BY <2>4, <2>5, <3>1, <4>3, <4>4
      <4> HIDE DEF x, y
      <4> QED BY <2>2, <4>5
    <3>3. answer = [after |-> after, step |-> "ANSWERED", events |-> first, next |-> happened]
      BY <2>1, <2>7
    <3>4. first \in SUBSET Int
      BY <2>3
    <3>5. \A e \in after + 1 .. happened : e \notin OtherEvents => e \in first
      BY <3>2
    <3> HIDE DEF first
    <3>6. answer \in PollType
      BY <3>3, <3>4 DEF PollType
    <3>7. \A e \in after + 1 .. answer.next : e \notin OtherEvents => e \in answer.events
      BY <3>3, <3>5
    <3>8. answer.next = happened /\ answer.after = after /\ answer.step = "ANSWERED"
      BY <3>3
    <3> HIDE DEF answer
    <3>9. 0 <= answer.next /\ answer.next <= happened
      BY <3>8
    <3> QED BY <3>6, <3>7, <3>8, <3>9 DEF answer
  <2> QED BY <2>6, <2>7
<1> QED BY <1>1, <1>2

(* A cursor stays right when events happen, when more settlements are      *)
(* announced and when windows are told to begin later; a poll does too.     *)
LEMMA StaysPassed ==
  ASSUME NEW n \in Nat, NEW m \in Nat, n <= m,
         NEW a \in Int, NEW b \in Int, a <= b,
         NEW t, NEW u, t \subseteq u,
         NEW c \in Int, Passed(c, n, a, t)
  PROVE  Passed(c, m, b, u)
<1>1. ASSUME NEW e \in b + 1 .. c PROVE e \in a + 1 .. c
  OBVIOUS
<1>2. NoCursor <= c /\ c <= m
  BY DEF Passed, NoCursor
<1> QED BY <1>1, <1>2 DEF Passed

LEMMA PollStays ==
  ASSUME NEW n \in Nat, NEW m \in Nat, n <= m,
         NEW a \in Int, NEW b \in Int, a <= b,
         NEW t, NEW u, t \subseteq u,
         NEW poll \in PollType, PollInOrder(poll, n, a, t)
  PROVE  PollInOrder(poll, m, b, u)
<1>1. poll.after \in Int /\ poll.next \in Int
  BY DEF PollType
<1>2. Passed(poll.after, m, b, u)
  BY <1>1, StaysPassed DEF PollInOrder
<1>3. ASSUME poll.step = "ANSWERED"
      PROVE  /\ 0 <= poll.next /\ poll.next <= m
             /\ poll.after # NoCursor => Passed(poll.next, m, b, u \cup poll.events)
  <2>1. 0 <= poll.next /\ poll.next <= n
    BY <1>3 DEF PollInOrder
  <2>2. ASSUME poll.after # NoCursor PROVE Passed(poll.next, m, b, u \cup poll.events)
    <3>1. Passed(poll.next, n, a, t \cup poll.events)
      BY <1>3, <2>2 DEF PollInOrder
    <3>2. t \cup poll.events \subseteq u \cup poll.events
      OBVIOUS
    <3> QED BY <1>1, <3>1, <3>2, StaysPassed
  <2> QED BY <1>1, <2>1, <2>2
<1> QED BY <1>2, <1>3 DEF PollInOrder

(* A step that gives one window a right poll and a right cursor, and only  *)
(* adds to what happened and was heard, leaves everything right.           *)
LEMMA WindowMoves ==
  ASSUME NoticesIInv, NEW w, NEW c, NEW poll,
         happened' \in Nat, happened <= happened', since' \in Nat, since <= since',
         announced' \in SUBSET Int, announced \subseteq announced',
         saved' \in Int, Passed(saved', happened', since', announced'),
         c \in Int, w \in PageWindows => Passed(c, happened', since', announced'),
         poll \in PollType,
         w \in PageWindows => PollInOrder(poll, happened', since', announced'),
         noticeCursor' = [noticeCursor EXCEPT ![w] = c],
         checking' = [checking EXCEPT ![w] = poll]
  PROVE  NoticesIInv'
<1> USE DEF NoticesIInv, NoticesTypeOK
<1>1. NoticesTypeOK'
  OBVIOUS
<1>2. ASSUME NEW w2 \in PageWindows
      PROVE  /\ Passed(noticeCursor'[w2], happened', since', announced')
             /\ PollInOrder(checking'[w2], happened', since', announced')
  <2>1. CASE w2 = w
    BY <2>1
  <2>2. CASE w2 # w
    <3>1. noticeCursor'[w2] = noticeCursor[w2] /\ checking'[w2] = checking[w2]
      BY <2>2
    <3>2. noticeCursor[w2] \in Int /\ checking[w2] \in PollType
      OBVIOUS
    <3> DEFINE m == happened'
               b == since'
               u == announced'
    <3>3. /\ happened \in Nat /\ m \in Nat /\ happened <= m
          /\ since \in Int /\ b \in Int /\ since <= b /\ announced \subseteq u
          /\ Passed(noticeCursor[w2], happened, since, announced)
          /\ PollInOrder(checking[w2], happened, since, announced)
      OBVIOUS
    <3> HIDE DEF m, b, u, NoticesIInv, NoticesTypeOK
    <3>4. Passed(noticeCursor[w2], m, b, u)
      BY <3>2, <3>3, StaysPassed
    <3>5. PollInOrder(checking[w2], m, b, u)
      BY <3>2, <3>3, PollStays
    <3> QED BY <3>1, <3>4, <3>5 DEF m, b, u
  <2> QED BY <2>1, <2>2
<1> QED BY <1>1, <1>2

LEMMA NoticesStay ==
  ASSUME NoticesIInv, [NoticesNext]_noticesVars
  PROVE  NoticesIInv'
<1>0. /\ NoticesTypeOK
      /\ Passed(saved, happened, since, announced)
      /\ \A w \in PageWindows : /\ Passed(noticeCursor[w], happened, since, announced)
                                /\ PollInOrder(checking[w], happened, since, announced)
  BY DEF NoticesIInv
<1>1. /\ NotChecking \in PollType /\ NotChecking.after = NoCursor /\ NotChecking.step = "NONE"
      /\ NoCursor \in Int
  BY DEF NotChecking, PollType, NoCursor
<1>2. ASSUME NEW a \in Nat, NEW now \in Nat, NEW heard PROVE PollInOrder(NotChecking, now, a, heard)
  BY <1>1 DEF PollInOrder, Passed, NoCursor
<1>3. happened \in Nat /\ since \in Nat /\ saved \in Int /\ announced \in SUBSET Int
  BY <1>0 DEF NoticesTypeOK
<1>4. ASSUME NEW w \in PageWindows
      PROVE  noticeCursor[w] \in Int /\ checking[w] \in PollType
  BY <1>0 DEF NoticesTypeOK
<1>5. CASE UNCHANGED noticesVars
  BY <1>0, <1>5 DEF NoticesIInv, noticesVars, NoticesTypeOK
<1>6. CASE EventHappens
  <2>1. /\ happened' = happened + 1
        /\ UNCHANGED <<saved, noticeCursor, checking, announced, since>>
    BY <1>6 DEF EventHappens
  <2>2. happened' \in Nat /\ happened <= happened'
    BY <1>3, <2>1
  <2>3. Passed(saved, happened', since, announced)
    BY <1>0, <1>3, <2>2, StaysPassed
  <2>4. ASSUME NEW w \in PageWindows
        PROVE  /\ Passed(noticeCursor[w], happened', since, announced)
               /\ PollInOrder(checking[w], happened', since, announced)
    BY <1>0, <1>3, <1>4, <2>2, StaysPassed, PollStays
  <2>5. NoticesTypeOK'
    BY <1>0, <2>1, <2>2 DEF NoticesTypeOK
  <2> QED BY <2>1, <2>3, <2>4, <2>5 DEF NoticesIInv
<1>7. ASSUME NEW w \in PageWindows, Visit(w) \/ CheckFails(w)
      PROVE  NoticesIInv'
  <2>1. /\ UNCHANGED <<happened, saved, announced, since>>
        /\ checking' = [checking EXCEPT ![w] = NotChecking]
        /\ noticeCursor' = [noticeCursor EXCEPT ![w] = saved]
           \/ noticeCursor' = [noticeCursor EXCEPT ![w] = noticeCursor[w]]
    BY <1>0, <1>7 DEF Visit, CheckFails, NoticesTypeOK
  <2>2. PollInOrder(NotChecking, happened, since, announced)
    BY <1>2, <1>3
  <2>0. /\ happened' \in Nat /\ happened <= happened' /\ since' \in Nat /\ since <= since'
        /\ announced' \in SUBSET Int /\ announced \subseteq announced'
        /\ saved' \in Int /\ Passed(saved', happened', since', announced')
    BY <1>0, <1>3, <2>1
  <2>3. PollInOrder(NotChecking, happened', since', announced')
    BY <2>1, <2>2
  <2>4. CASE noticeCursor' = [noticeCursor EXCEPT ![w] = saved]
    <3>1. Passed(saved, happened', since', announced') /\ saved \in Int
      BY <2>1, <2>0
    <3> QED BY <1>1, <2>1, <2>3, <2>4, <2>0, <3>1, WindowMoves
  <2>5. CASE noticeCursor' = [noticeCursor EXCEPT ![w] = noticeCursor[w]]
    <3>1. Passed(noticeCursor[w], happened', since', announced')
      BY <1>0, <2>1
    <3> QED BY <1>1, <1>4, <2>1, <2>3, <2>5, <2>0, <3>1, WindowMoves
  <2> QED BY <2>1, <2>4, <2>5
<1>8. ASSUME NEW w \in PageWindows, Check(w)
      PROVE  NoticesIInv'
  <2> DEFINE poll == [NotChecking EXCEPT !.after = noticeCursor[w], !.step = "SENT"]
  <2>1. poll \in PollType /\ poll.after = noticeCursor[w] /\ poll.step = "SENT"
    <3> HIDE DEF NotChecking
    <3> QED BY <1>1, <1>4 DEF PollType
  <2>2. /\ checking' = [checking EXCEPT ![w] = poll]
        /\ noticeCursor' = [noticeCursor EXCEPT ![w] = noticeCursor[w]]
        /\ UNCHANGED <<happened, saved, announced, since>>
    BY <1>0, <1>8 DEF Check, NoticesTypeOK
  <2>3. PollInOrder(poll, happened, since, announced)
    BY <1>0, <2>1 DEF PollInOrder
  <2> HIDE DEF poll
  <2>0. /\ happened' \in Nat /\ happened <= happened' /\ since' \in Nat /\ since <= since'
        /\ announced' \in SUBSET Int /\ announced \subseteq announced'
        /\ saved' \in Int /\ Passed(saved', happened', since', announced')
    BY <1>0, <1>3, <2>2
  <2>4. /\ PollInOrder(poll, happened', since', announced')
        /\ Passed(noticeCursor[w], happened', since', announced')
    BY <1>0, <2>2, <2>3
  <2> QED BY <1>4, <2>1, <2>2, <2>4, <2>0, WindowMoves
<1>9. ASSUME NEW w \in PageWindows, AnswerCheck(w)
      PROVE  NoticesIInv'
  <2> DEFINE after == checking[w].after
             answer == PersonalEvents(after)
  <2>1. /\ checking' = [checking EXCEPT ![w] = answer]
        /\ noticeCursor' = [noticeCursor EXCEPT ![w] = noticeCursor[w]]
        /\ UNCHANGED <<happened, saved, announced, since>>
    BY <1>0, <1>9 DEF AnswerCheck, NoticesTypeOK
  <2>2. after \in Int /\ Passed(after, happened, since, announced)
    BY <1>0, <1>4 DEF PollType, PollInOrder
  <2>3. /\ answer \in PollType
        /\ answer.after = after /\ answer.step = "ANSWERED"
        /\ 0 <= answer.next /\ answer.next <= happened
        /\ after # NoCursor =>
             \A e \in after + 1 .. answer.next :
               e \notin OtherEvents => e \in answer.events
    <3> HIDE DEF after
    <3> QED BY <1>3, <2>2, PageLeavesNoneOut DEF Passed
  <2> HIDE DEF answer, after
  <2>4. ASSUME after # NoCursor
        PROVE  Passed(answer.next, happened, since, announced \cup answer.events)
    <3>1. answer.next \in Int
      BY <2>3 DEF PollType
    <3>2. ASSUME NEW e \in since + 1 .. answer.next, e \notin OtherEvents
          PROVE  e \in announced \cup answer.events
      <4>1. e \in since + 1 .. after \/ e \in after + 1 .. answer.next
        BY <1>3, <2>2, <3>1
      <4> QED BY <2>2, <2>3, <2>4, <3>2, <4>1 DEF Passed
    <3> QED BY <1>3, <2>3, <3>1, <3>2 DEF Passed, NoCursor
  <2>5. PollInOrder(answer, happened, since, announced)
    BY <2>2, <2>3, <2>4 DEF PollInOrder
  <2>0. /\ happened' \in Nat /\ happened <= happened' /\ since' \in Nat /\ since <= since'
        /\ announced' \in SUBSET Int /\ announced \subseteq announced'
        /\ saved' \in Int /\ Passed(saved', happened', since', announced')
    BY <1>0, <1>3, <2>1
  <2>6. /\ PollInOrder(answer, happened', since', announced')
        /\ Passed(noticeCursor[w], happened', since', announced')
    BY <1>0, <2>1, <2>5
  <2> QED BY <1>4, <2>1, <2>3, <2>6, <2>0, WindowMoves
<1>10. ASSUME NEW w \in PageWindows, ReceiveEvents(w)
       PROVE  NoticesIInv'
  <2> DEFINE answer == checking[w]
             next == answer.next
             seen == answer.events
  <2>1. /\ answer.step = "ANSWERED"
        /\ noticeCursor' = [noticeCursor EXCEPT ![w] = next]
        /\ saved' = next
        /\ announced' = announced \cup seen
        /\ since' = IF answer.after = NoCursor THEN Max({since, next}) ELSE since
        /\ checking' = [checking EXCEPT ![w] = NotChecking]
        /\ happened' = happened
    BY <1>10 DEF ReceiveEvents
  <2>2. /\ next \in Int /\ 0 <= next /\ next <= happened
        /\ answer.after # NoCursor => Passed(next, happened, since, announced \cup seen)
    BY <1>0, <1>4, <2>1 DEF PollType, PollInOrder
  <2>3. seen \in SUBSET Int
    BY <1>4 DEF PollType
  <2> HIDE DEF next, seen, answer
  <2>4. /\ Max({since, next}) \in {since, next}
        /\ since <= Max({since, next}) /\ next <= Max({since, next})
    BY <1>3, <2>2 DEF Max
  <2>5. since' \in Nat /\ since <= since' /\ (answer.after = NoCursor => next <= since')
    BY <1>3, <2>1, <2>2, <2>4
  <2>6. announced' \in SUBSET Int /\ announced \subseteq announced'
    BY <1>3, <2>1, <2>3
  <2>7. Passed(next, happened', since', announced')
    <3>1. CASE answer.after = NoCursor
      BY <1>3, <2>1, <2>2, <2>5, <3>1 DEF Passed, NoCursor
    <3>2. CASE answer.after # NoCursor
      BY <2>1, <2>2, <3>2
    <3> QED BY <3>1, <3>2
  <2>8. PollInOrder(NotChecking, happened', since', announced')
    BY <1>2, <1>3, <2>1, <2>5
  <2>9. happened' \in Nat /\ happened <= happened'
    BY <1>3, <2>1
  <2> QED BY <1>1, <2>1, <2>2, <2>5, <2>6, <2>7, <2>8, <2>9, WindowMoves
<1>11. ASSUME NEW poll \in abandoned, ReceiveAbandoned(poll)
       PROVE  NoticesIInv'
  BY <1>0, <1>11 DEF ReceiveAbandoned, NoticesIInv, NoticesTypeOK
<1> QED BY <1>5, <1>6, <1>7, <1>8, <1>9, <1>10, <1>11 DEF NoticesNext

(* NOTIFICATIONS: the cursor in storage passes over no settlement that no  *)
(* window has announced, though polls fail, windows are reloaded and one   *)
(* answer holds but a page of the events: predictions.tsx.                 *)
THEOREM SettlementsTold == NoticesSpec => []SettlementsAnnounced
<1>1. NoticesIInv => SettlementsAnnounced
  BY DEF NoticesIInv, Passed, SettlementsAnnounced
<1> QED BY <1>1, NoticesStart, NoticesStay, PTL DEF NoticesSpec

-----------------------------------------------------------------------------
(* Practice trading                                                        *)

(* Orders as the page lists them.                                          *)
OrderRecords ==
  {Filled} \cup [status : {"open"}, coin : Coins, side : {"buy", "sell"},
                 quantity : Quantities, price : Prices]
PaperRecords == [cash : Int, holdings : [Coins -> Int], orders : Seq(OrderRecords)]

(* What the orders at the places D of a list may take, each taking W of it. *)
Worth(W, orders, D) == SumFunctionOnSet([n \in DOMAIN orders |-> W[orders[n]]], D)

(* What an order may take of the cash, or of a coin.                       *)
InCash      == [order \in OrderRecords |-> CashFor(order)]
InCoins(i)  == [order \in OrderRecords |-> HoldingFor(order, i)]
IsWorth(W)  == W \in [OrderRecords -> Nat] /\ W[Filled] = 0

LEMMA WorthsAre ==
  /\ IsWorth(InCash)
  /\ \A i : IsWorth(InCoins(i))
<1>1. Filled \in OrderRecords /\ CashFor(Filled) = 0 /\ \A i : HoldingFor(Filled, i) = 0
  BY DEF Filled, OrderRecords, CashFor, HoldingFor
<1>2. ASSUME NEW order \in OrderRecords
      PROVE  CashFor(order) \in Nat /\ \A i : HoldingFor(order, i) \in Nat
  <2>1. CASE order = Filled
    BY <1>1, <2>1
  <2>2. CASE order # Filled
    <3>1. order.quantity \in Nat /\ order.price \in Nat
      BY <2>2, PaperAssumption DEF OrderRecords
    <3>2. order.quantity * order.price \in Nat
      BY <3>1
    <3> QED BY <3>1, <3>2 DEF CashFor, HoldingFor
  <2> QED BY <2>1, <2>2
<1> QED BY <1>1, <1>2 DEF IsWorth, InCash, InCoins

LEMMA ReservedIs ==
  ASSUME NEW state \in PaperRecords
  PROVE  /\ ReservedCash(state) = Worth(InCash, state.orders, DOMAIN state.orders)
         /\ \A i : ReservedHolding(state, i) = Worth(InCoins(i), state.orders, DOMAIN state.orders)
<1>1. \A n \in DOMAIN state.orders : state.orders[n] \in OrderRecords
  <2>1. state.orders \in Seq(OrderRecords)
    BY DEF PaperRecords
  <2> QED BY <2>1, ElementOfSeq
<1>2. [n \in DOMAIN state.orders |-> CashFor(state.orders[n])]
        = [n \in DOMAIN state.orders |-> InCash[state.orders[n]]]
  BY <1>1 DEF InCash
<1>3. \A i : [n \in DOMAIN state.orders |-> HoldingFor(state.orders[n], i)]
               = [n \in DOMAIN state.orders |-> InCoins(i)[state.orders[n]]]
  BY <1>1 DEF InCoins
<1>4. ReservedCash(state)
        = SumFunctionOnSet([n \in DOMAIN state.orders |-> CashFor(state.orders[n])], DOMAIN state.orders)
  BY DEF ReservedCash, SumFunction
<1>5. \A i : ReservedHolding(state, i)
        = SumFunctionOnSet([n \in DOMAIN state.orders |-> HoldingFor(state.orders[n], i)],
                           DOMAIN state.orders)
  BY DEF ReservedHolding, SumFunction
<1> QED BY <1>2, <1>3, <1>4, <1>5 DEF Worth

LEMMA WorthTypes ==
  ASSUME NEW W, IsWorth(W), NEW orders \in Seq(OrderRecords), NEW D \in SUBSET DOMAIN orders
  PROVE  /\ IsFiniteSet(D)
         /\ \A n \in D : W[orders[n]] \in Nat /\ [m \in DOMAIN orders |-> W[orders[m]]][n] = W[orders[n]]
         /\ Worth(W, orders, D) \in Nat
<1> DEFINE f == [m \in DOMAIN orders |-> W[orders[m]]]
<1>1. DOMAIN orders = 1..Len(orders) /\ Len(orders) \in Nat
  BY LenProperties
<1>2. IsFiniteSet(D)
  <2>1. IsFiniteSet(1..Len(orders))
    BY <1>1, FS_Interval
  <2> QED BY <1>1, <2>1, FS_Subset
<1>3. ASSUME NEW n \in D PROVE W[orders[n]] \in Nat /\ f[n] = W[orders[n]]
  BY <1>1, ElementOfSeq DEF IsWorth
<1>4. Worth(W, orders, D) = SumFunctionOnSet(f, D)
  BY DEF Worth
<1> HIDE DEF f
<1>5. SumFunctionOnSet(f, D) \in Nat
  BY <1>2, <1>3, SumBounds
<1> QED BY <1>2, <1>3, <1>4, <1>5 DEF f

LEMMA WorthNat ==
  ASSUME NEW W, IsWorth(W), NEW orders \in Seq(OrderRecords)
  PROVE  Worth(W, orders, DOMAIN orders) \in Nat
<1> DEFINE D == DOMAIN orders
<1>1. D \in SUBSET DOMAIN orders
  OBVIOUS
<1> HIDE DEF D
<1>2. Worth(W, orders, D) \in Nat
  BY <1>1, WorthTypes
<1> QED BY <1>2 DEF D

LEMMA WorthTakeOut ==
  ASSUME NEW W, IsWorth(W), NEW orders \in Seq(OrderRecords), NEW n \in DOMAIN orders
  PROVE  /\ Worth(W, orders, DOMAIN orders) = W[orders[n]] + Worth(W, orders, DOMAIN orders \ {n})
         /\ Worth(W, orders, DOMAIN orders \ {n}) \in Nat
         /\ W[orders[n]] \in Nat
<1> DEFINE f == [m \in DOMAIN orders |-> W[orders[m]]]
           D == DOMAIN orders
           X == D \ {n}
<1>1. D \in SUBSET DOMAIN orders /\ X \in SUBSET DOMAIN orders /\ n \in D
  OBVIOUS
<1>2. IsFiniteSet(D) /\ \A m \in D : f[m] \in Nat /\ f[m] = W[orders[m]]
  BY <1>1, WorthTypes
<1>3. Worth(W, orders, D) = SumFunctionOnSet(f, D) /\ Worth(W, orders, X) = SumFunctionOnSet(f, X)
  BY DEF Worth
<1> HIDE DEF f, D
<1>4. SumFunctionOnSet(f, D) = f[n] + SumFunctionOnSet(f, D \ {n})
  <2>1. \A m \in D : f[m] \in Int
    BY <1>2
  <2> QED BY <1>1, <1>2, <2>1, SumTakeOut
<1>5. Worth(W, orders, X) \in Nat
  <2> HIDE DEF X
  <2> QED BY <1>1, WorthTypes
<1>6. W[orders[n]] \in Nat /\ f[n] = W[orders[n]]
  BY <1>1, <1>2
<1> QED BY <1>3, <1>4, <1>5, <1>6 DEF D

(* A list whose open orders are those of another, each at a place of its   *)
(* own, is worth no more.                                                  *)
LEMMA WorthMoves ==
  ASSUME NEW W, IsWorth(W),
         NEW old \in Seq(OrderRecords), NEW X \in SUBSET DOMAIN old,
         NEW new \in Seq(OrderRecords), NEW D \in SUBSET DOMAIN new, NEW from,
         \A m \in D : new[m] # Filled => from[m] \in X /\ new[m] = old[from[m]],
         \A m, n \in D : new[m] # Filled /\ new[n] # Filled /\ from[m] = from[n] => m = n
  PROVE  Worth(W, new, D) <= Worth(W, old, X)
<1> DEFINE f == [m \in DOMAIN new |-> W[new[m]]]
           g == [m \in DOMAIN old |-> W[old[m]]]
<1>1. IsFiniteSet(D) /\ \A m \in D : f[m] \in Nat /\ f[m] = W[new[m]]
  BY WorthTypes
<1>2. IsFiniteSet(X) /\ \A m \in X : g[m] \in Nat /\ g[m] = W[old[m]]
  BY WorthTypes
<1>3. \A m \in D : f[m] # 0 => new[m] # Filled
  BY <1>1 DEF IsWorth
<1> HIDE DEF f, g
<1>4. \A m \in D : f[m] # 0 => from[m] \in X /\ f[m] <= g[from[m]]
  BY <1>1, <1>2, <1>3
<1>5. \A m, n \in D : f[m] # 0 /\ f[n] # 0 /\ from[m] = from[n] => m = n
  BY <1>3
<1>6. SumFunctionOnSet(f, D) <= SumFunctionOnSet(g, X)
  BY <1>1, <1>2, <1>4, <1>5, SumInto
<1> QED BY <1>6 DEF f, g, Worth

LEMMA KeptIs ==
  ASSUME NEW orders \in Seq(OrderRecords)
  PROVE  /\ KeptOrders(orders) \in Seq(OrderRecords)
         /\ Len(KeptOrders(orders)) = IF Len(orders) <= OrdersKept THEN Len(orders) ELSE OrdersKept
         /\ \A m \in 1..Len(KeptOrders(orders)) : KeptOrders(orders)[m] = orders[m]
<1> DEFINE k == IF Len(orders) <= OrdersKept THEN Len(orders) ELSE OrdersKept
<1>1. Len(orders) \in Nat /\ OrdersKept \in Nat /\ k \in Nat /\ k <= Len(orders)
  BY LenProperties, PaperAssumption
<1>2. Min({Len(orders), OrdersKept}) = k
  BY <1>1 DEF Min
<1>3. \A m \in 1..k : orders[m] \in OrderRecords
  BY <1>1, ElementOfSeq
<1> HIDE DEF k
<1>4. /\ SubSeq(orders, 1, k) \in Seq(OrderRecords)
      /\ Len(SubSeq(orders, 1, k)) = k
      /\ \A m \in 1..k : SubSeq(orders, 1, k)[m] = orders[m]
  <2>1. /\ SubSeq(orders, 1, k) \in Seq(OrderRecords)
        /\ Len(SubSeq(orders, 1, k)) = IF 1 <= k THEN k - 1 + 1 ELSE 0
        /\ \A m \in 1..(k - 1 + 1) : SubSeq(orders, 1, k)[m] = orders[1 + m - 1]
    BY <1>1, <1>3, SubSeqProperties
  <2> QED BY <1>1, <2>1
<1> QED BY <1>2, <1>4 DEF KeptOrders, k

LEMMA RemovedIs ==
  ASSUME NEW orders \in Seq(OrderRecords), NEW n \in 1..Len(orders)
  PROVE  /\ RemoveAt(orders, n) \in Seq(OrderRecords)
         /\ Len(RemoveAt(orders, n)) = Len(orders) - 1
         /\ \A m \in 1..Len(orders) - 1 :
              RemoveAt(orders, n)[m] = IF m < n THEN orders[m] ELSE orders[m + 1]
<1> DEFINE L == Len(orders)
           a == SubSeq(orders, 1, n - 1)
           b == SubSeq(orders, n + 1, L)
<1>1. L \in Nat /\ n \in Nat /\ 1 <= n /\ n <= L
  BY LenProperties
<1>2. \A m \in 1..L : orders[m] \in OrderRecords
  BY ElementOfSeq
<1>3. /\ a \in Seq(OrderRecords) /\ Len(a) = n - 1
      /\ \A m \in 1..n - 1 : a[m] = orders[m]
  <2>1. \A m \in 1..n - 1 : orders[m] \in OrderRecords
    BY <1>1, <1>2
  <2>2. /\ a \in Seq(OrderRecords)
        /\ Len(a) = IF 1 <= n - 1 THEN (n - 1) - 1 + 1 ELSE 0
        /\ \A m \in 1..(n - 1) - 1 + 1 : a[m] = orders[1 + m - 1]
    BY <1>1, <2>1, SubSeqProperties
  <2> HIDE DEF a, L
  <2> QED BY <1>1, <2>2
<1>4. /\ b \in Seq(OrderRecords) /\ Len(b) = L - n
      /\ \A m \in 1..L - n : b[m] = orders[n + m]
  <2>1. \A m \in n + 1..L : orders[m] \in OrderRecords
    BY <1>1, <1>2
  <2>2. /\ b \in Seq(OrderRecords)
        /\ Len(b) = IF n + 1 <= L THEN L - (n + 1) + 1 ELSE 0
        /\ \A m \in 1..L - (n + 1) + 1 : b[m] = orders[n + 1 + m - 1]
    BY <1>1, <2>1, SubSeqProperties
  <2> HIDE DEF b, L
  <2> QED BY <1>1, <2>2
<1>5. /\ a \o b \in Seq(OrderRecords)
      /\ Len(a \o b) = Len(a) + Len(b)
      /\ \A m \in 1..Len(a) + Len(b) : (a \o b)[m] = IF m <= Len(a) THEN a[m] ELSE b[m - Len(a)]
  <2> HIDE DEF a, b
  <2> QED BY <1>3, <1>4, ConcatProperties
<1>6. RemoveAt(orders, n) = a \o b
  BY DEF RemoveAt
<1> HIDE DEF a, b, L
<1>7. Len(a \o b) = L - 1
  BY <1>1, <1>3, <1>4, <1>5
<1>8. ASSUME NEW m \in 1..L - 1
      PROVE  (a \o b)[m] = IF m < n THEN orders[m] ELSE orders[m + 1]
  <2>1. CASE m < n
    BY <1>1, <1>3, <1>4, <1>5, <2>1
  <2>2. CASE m >= n
    <3>1. m - (n - 1) \in 1..L - n /\ n + (m - (n - 1)) = m + 1
      BY <1>1, <2>2
    <3>2. b[m - (n - 1)] = orders[m + 1]
      BY <1>4, <3>1
    <3>3. (a \o b)[m] = b[m - (n - 1)]
      BY <1>1, <1>3, <1>4, <1>5, <2>2
    <3> QED BY <1>1, <2>2, <3>2, <3>3
  <2>3. m < n \/ m >= n
    BY <1>1
  <2> QED BY <2>1, <2>2, <2>3
<1> QED BY <1>5, <1>6, <1>7, <1>8 DEF L

(* An order in front of a list, and the list cut to what is kept.          *)
InFront(order, rest) == KeptOrders(<<order>> \o rest)

LEMMA InFrontIs ==
  ASSUME NEW order \in OrderRecords, NEW rest \in Seq(OrderRecords)
  PROVE  /\ InFront(order, rest) \in Seq(OrderRecords)
         /\ Len(InFront(order, rest))
              = IF Len(rest) < OrdersKept THEN Len(rest) + 1 ELSE OrdersKept
         /\ Len(InFront(order, rest)) >= 1
         /\ InFront(order, rest)[1] = order
         /\ \A m \in 2..Len(InFront(order, rest)) :
              m - 1 \in 1..Len(rest) /\ InFront(order, rest)[m] = rest[m - 1]
<1>1. <<order>> \in Seq(OrderRecords) /\ Len(<<order>>) = 1 /\ <<order>>[1] = order
  OBVIOUS
<1> DEFINE front == <<order>>
           all == front \o rest
           new == InFront(order, rest)
<1> HIDE DEF front
<1>2. /\ all \in Seq(OrderRecords) /\ Len(all) = 1 + Len(rest)
      /\ \A m \in 1..1 + Len(rest) : all[m] = IF m <= 1 THEN front[m] ELSE rest[m - 1]
  BY <1>1, ConcatProperties DEF front
<1> HIDE DEF all, new
<1>3. /\ new \in Seq(OrderRecords)
      /\ Len(new) = IF Len(all) <= OrdersKept THEN Len(all) ELSE OrdersKept
      /\ \A m \in 1..Len(new) : new[m] = all[m]
  <2>1. new = KeptOrders(all)
    BY DEF all, front, new, InFront
  <2> QED BY <1>2, <2>1, KeptIs
<1>4. Len(rest) \in Nat /\ OrdersKept \in Nat /\ OrdersKept >= 1
  BY LenProperties, PaperAssumption
<1>5. Len(new) = (IF Len(rest) < OrdersKept THEN Len(rest) + 1 ELSE OrdersKept)
      /\ Len(new) >= 1 /\ Len(new) <= Len(rest) + 1
  BY <1>2, <1>3, <1>4
<1>6. new[1] = order
  BY <1>1, <1>2, <1>3, <1>4, <1>5 DEF front
<1>7. ASSUME NEW m \in 2..Len(new) PROVE m - 1 \in 1..Len(rest) /\ new[m] = rest[m - 1]
  BY <1>2, <1>3, <1>4, <1>5
<1> QED BY <1>3, <1>5, <1>6, <1>7 DEF new

(* Placing adds what the order takes; what is cut off takes nothing more.  *)
LEMMA PlacedWorth ==
  ASSUME NEW W, IsWorth(W), NEW order \in OrderRecords, NEW rest \in Seq(OrderRecords)
  PROVE  Worth(W, InFront(order, rest), DOMAIN InFront(order, rest))
           <= W[order] + Worth(W, rest, DOMAIN rest)
<1> DEFINE new == InFront(order, rest)
<1>1. /\ new \in Seq(OrderRecords) /\ Len(new) >= 1 /\ new[1] = order
      /\ \A m \in 2..Len(new) : m - 1 \in 1..Len(rest) /\ new[m] = rest[m - 1]
  BY InFrontIs
<1> HIDE DEF new
<1>2. DOMAIN new = 1..Len(new) /\ DOMAIN rest = 1..Len(rest) /\ Len(new) \in Nat
  BY <1>1, LenProperties
<1> DEFINE D == DOMAIN new \ {1}
           X == DOMAIN rest
           from == [m \in D |-> m - 1]
<1>3. D \in SUBSET DOMAIN new /\ X \in SUBSET DOMAIN rest /\ 1 \in DOMAIN new
  BY <1>1, <1>2
<1>4. \A m \in D : from[m] \in X /\ new[m] = rest[from[m]]
  BY <1>1, <1>2
<1>5. \A m, n \in D : from[m] = from[n] => m = n
  BY <1>2
<1> HIDE DEF D, X, from
<1>6. Worth(W, new, D) <= Worth(W, rest, X)
  BY <1>1, <1>3, <1>4, <1>5, WorthMoves
<1>7. Worth(W, new, DOMAIN new) = W[order] + Worth(W, new, D) /\ Worth(W, new, D) \in Nat
      /\ W[order] \in Nat
  BY <1>1, <1>3, WorthTakeOut DEF D
<1>8. Worth(W, rest, X) \in Nat
  BY <1>3, WorthTypes
<1> QED BY <1>6, <1>7, <1>8 DEF new, X

LEMMA RemovedWorth ==
  ASSUME NEW W, IsWorth(W), NEW old \in Seq(OrderRecords), NEW n \in 1..Len(old)
  PROVE  Worth(W, RemoveAt(old, n), DOMAIN RemoveAt(old, n)) + W[old[n]]
           <= Worth(W, old, DOMAIN old)
<1> DEFINE new == RemoveAt(old, n)
           D == DOMAIN new
           X == DOMAIN old \ {n}
           from == [m \in D |-> IF m < n THEN m ELSE m + 1]
<1>1. /\ new \in Seq(OrderRecords) /\ Len(new) = Len(old) - 1
      /\ \A m \in 1..Len(old) - 1 : new[m] = IF m < n THEN old[m] ELSE old[m + 1]
  BY RemovedIs
<1> HIDE DEF new
<1>2. DOMAIN new = 1..Len(old) - 1 /\ DOMAIN old = 1..Len(old) /\ Len(old) \in Nat
  BY <1>1, LenProperties
<1>3. X \in SUBSET DOMAIN old /\ n \in DOMAIN old /\ D \in SUBSET DOMAIN new
  BY <1>2
<1>4. \A m \in D : from[m] \in X /\ new[m] = old[from[m]]
  BY <1>1, <1>2
<1>5. \A m, k \in D : from[m] = from[k] => m = k
  BY <1>2
<1> HIDE DEF D, X, from
<1>6. Worth(W, new, D) <= Worth(W, old, X)
  BY <1>1, <1>3, <1>4, <1>5, WorthMoves
<1>7. Worth(W, old, DOMAIN old) = W[old[n]] + Worth(W, old, X) /\ Worth(W, old, X) \in Nat
      /\ W[old[n]] \in Nat
  BY <1>3, WorthTakeOut DEF X
<1>8. Worth(W, new, D) \in Nat
  BY <1>1, <1>3, WorthTypes
<1> QED BY <1>6, <1>7, <1>8 DEF new, D

(* A practice account that is well formed and covers its open orders.      *)
IsSound(state) ==
  /\ state \in PaperRecords
  /\ Len(state.orders) <= OrdersKept
  /\ ReservedCash(state) <= state.cash
  /\ \A i \in Coins : ReservedHolding(state, i) <= state.holdings[i]

(* There is enough for one order and the rest of the list.                 *)
Affords(state, order, rest) ==
  /\ InCash[order] + Worth(InCash, rest, DOMAIN rest) <= state.cash
  /\ \A i \in Coins : InCoins(i)[order] + Worth(InCoins(i), rest, DOMAIN rest) <= state.holdings[i]

IsOpen(order) == order \in OrderRecords /\ order.status = "open"

LEMMA OpenIs ==
  ASSUME NEW order, IsOpen(order)
  PROVE  /\ order.coin \in Coins /\ order.side \in {"buy", "sell"}
         /\ order.quantity \in Nat /\ order.price \in Nat /\ order.quantity * order.price \in Nat
         /\ order.side = "buy" => /\ InCash[order] = order.quantity * order.price
                                  /\ \A i : InCoins(i)[order] = 0
         /\ order.side = "sell" => /\ InCash[order] = 0
                                   /\ \A i : InCoins(i)[order] = IF i = order.coin
                                                                 THEN order.quantity ELSE 0
<1>1. order \in [status : {"open"}, coin : Coins, side : {"buy", "sell"},
                 quantity : Quantities, price : Prices]
  BY DEF IsOpen, OrderRecords, Filled
<1>2. order.quantity \in Nat /\ order.price \in Nat
  BY <1>1, PaperAssumption
<1>3. order.quantity * order.price \in Nat
  BY <1>2
<1>4. InCash[order] = CashFor(order) /\ \A i : InCoins(i)[order] = HoldingFor(order, i)
  BY DEF IsOpen, InCash, InCoins
<1>5. order.status = "open" /\ order.coin \in Coins /\ order.side \in {"buy", "sell"}
  BY <1>1
<1> QED BY <1>2, <1>3, <1>4, <1>5 DEF CashFor, HoldingFor

LEMMA CoveredAffords ==
  ASSUME NEW state, IsSound(state), NEW order, IsOpen(order), Covers(state, order)
  PROVE  Affords(state, order, state.orders)
<1>1. /\ ReservedCash(state) = Worth(InCash, state.orders, DOMAIN state.orders)
      /\ \A i : ReservedHolding(state, i) = Worth(InCoins(i), state.orders, DOMAIN state.orders)
  BY ReservedIs DEF IsSound
<1>2. /\ state.orders \in Seq(OrderRecords)
      /\ state.cash \in Int /\ \A i \in Coins : state.holdings[i] \in Int
  BY DEF IsSound, PaperRecords
<1>3. /\ Worth(InCash, state.orders, DOMAIN state.orders) \in Nat
      /\ \A i : Worth(InCoins(i), state.orders, DOMAIN state.orders) \in Nat
  BY <1>2, WorthsAre, WorthNat
<1> DEFINE cash == Worth(InCash, state.orders, DOMAIN state.orders)
           coins(i) == Worth(InCoins(i), state.orders, DOMAIN state.orders)
<1>4. cash <= state.cash /\ \A i \in Coins : coins(i) <= state.holdings[i]
  BY <1>1 DEF IsSound
<1>5. CASE order.side = "buy"
  <2>1. order.quantity * order.price <= state.cash - cash
    BY <1>1, <1>5 DEF Covers
  <2>2. order.quantity * order.price \in Nat /\ InCash[order] = order.quantity * order.price
        /\ \A i : InCoins(i)[order] = 0
    BY <1>5, OpenIs
  <2> HIDE DEF cash, coins
  <2>3. InCash[order] + cash <= state.cash
    <3>1. cash \in Nat
      BY <1>3 DEF cash
    <3> QED BY <1>2, <2>1, <2>2, <3>1
  <2>4. \A i \in Coins : InCoins(i)[order] + coins(i) <= state.holdings[i]
    <3>1. \A i : coins(i) \in Nat
      BY <1>3 DEF coins
    <3> QED BY <1>2, <1>4, <2>2, <3>1
  <2> QED BY <2>3, <2>4 DEF cash, coins, Affords
<1>6. CASE order.side = "sell"
  <2>1. order.quantity <= state.holdings[order.coin] - coins(order.coin)
    BY <1>1, <1>6 DEF Covers
  <2>2. InCash[order] = 0 /\ order.quantity \in Nat /\ order.coin \in Coins
        /\ \A i : InCoins(i)[order] = IF i = order.coin THEN order.quantity ELSE 0
    BY <1>6, OpenIs
  <2> HIDE DEF cash, coins
  <2>3. InCash[order] + cash <= state.cash
    <3>1. cash \in Nat
      BY <1>3 DEF cash
    <3> QED BY <1>2, <1>4, <2>2, <3>1
  <2>4. \A i \in Coins : InCoins(i)[order] + coins(i) <= state.holdings[i]
    <3>1. \A i : coins(i) \in Nat
      BY <1>3 DEF coins
    <3> QED BY <1>2, <1>4, <2>1, <2>2, <3>1
  <2> QED BY <2>3, <2>4 DEF cash, coins, Affords
<1> QED BY <1>5, <1>6, OpenIs

LEMMA RemovedAffords ==
  ASSUME NEW state, IsSound(state), NEW n \in 1..Len(state.orders)
  PROVE  Affords(state, state.orders[n], RemoveAt(state.orders, n))
<1>1. /\ ReservedCash(state) = Worth(InCash, state.orders, DOMAIN state.orders)
      /\ \A i : ReservedHolding(state, i) = Worth(InCoins(i), state.orders, DOMAIN state.orders)
  BY ReservedIs DEF IsSound
<1>2. /\ state.orders \in Seq(OrderRecords)
      /\ state.cash \in Int /\ \A i \in Coins : state.holdings[i] \in Int
  BY DEF IsSound, PaperRecords
<1> DEFINE old == state.orders
           new == RemoveAt(state.orders, n)
<1>3. ASSUME NEW W, IsWorth(W)
      PROVE  /\ W[old[n]] + Worth(W, new, DOMAIN new) <= Worth(W, old, DOMAIN old)
             /\ W[old[n]] + Worth(W, new, DOMAIN new) \in Int /\ Worth(W, old, DOMAIN old) \in Int
  <2>1. Worth(W, new, DOMAIN new) + W[old[n]] <= Worth(W, old, DOMAIN old)
    BY <1>2, <1>3, RemovedWorth
  <2>2. new \in Seq(OrderRecords) /\ n \in DOMAIN old
    BY <1>2, RemovedIs, LenProperties
  <2>3. W[old[n]] \in Nat /\ Worth(W, old, DOMAIN old) \in Nat
    BY <1>2, <1>3, <2>2, WorthTakeOut, WorthNat
  <2> HIDE DEF new
  <2>4. Worth(W, new, DOMAIN new) \in Nat
    BY <1>3, <2>2, WorthNat
  <2> QED BY <2>1, <2>3, <2>4
<1> HIDE DEF new
<1>4. InCash[old[n]] + Worth(InCash, new, DOMAIN new) <= state.cash
  <2>1. /\ InCash[old[n]] + Worth(InCash, new, DOMAIN new) <= Worth(InCash, old, DOMAIN old)
        /\ InCash[old[n]] + Worth(InCash, new, DOMAIN new) \in Int
        /\ Worth(InCash, old, DOMAIN old) \in Int
    BY <1>3, WorthsAre
  <2> QED BY <1>1, <1>2, <2>1 DEF IsSound
<1>5. ASSUME NEW i \in Coins
      PROVE  InCoins(i)[old[n]] + Worth(InCoins(i), new, DOMAIN new) <= state.holdings[i]
  <2>1. /\ InCoins(i)[old[n]] + Worth(InCoins(i), new, DOMAIN new) <= Worth(InCoins(i), old, DOMAIN old)
        /\ InCoins(i)[old[n]] + Worth(InCoins(i), new, DOMAIN new) \in Int
        /\ Worth(InCoins(i), old, DOMAIN old) \in Int
    BY <1>3, WorthsAre
  <2>2. Worth(InCoins(i), old, DOMAIN old) <= state.holdings[i]
    BY <1>1 DEF IsSound
  <2> QED BY <1>2, <2>1, <2>2
<1> QED BY <1>4, <1>5 DEF Affords, new

(* Whatever is left of the orders, a list with one of them in front is     *)
(* sound as long as there was room for both.                               *)
LEMMA WithInFront ==
  ASSUME NEW order \in OrderRecords, NEW rest \in Seq(OrderRecords),
         NEW state, state \in PaperRecords, state.orders = InFront(order, rest),
         Affords(state, order, rest)
  PROVE  IsSound(state)
<1>1. Len(state.orders) <= OrdersKept
  <2>1. Len(state.orders) = IF Len(rest) < OrdersKept THEN Len(rest) + 1 ELSE OrdersKept
    BY InFrontIs
  <2> QED BY <2>1, LenProperties, PaperAssumption
<1>2. ASSUME NEW W, IsWorth(W)
      PROVE  /\ Worth(W, state.orders, DOMAIN state.orders) <= W[order] + Worth(W, rest, DOMAIN rest)
             /\ Worth(W, state.orders, DOMAIN state.orders) \in Int
             /\ W[order] + Worth(W, rest, DOMAIN rest) \in Int
  <2>1. InFront(order, rest) \in Seq(OrderRecords)
    BY InFrontIs
  <2>2. Worth(W, InFront(order, rest), DOMAIN InFront(order, rest)) <= W[order] + Worth(W, rest, DOMAIN rest)
    BY <1>2, PlacedWorth
  <2>3. Worth(W, InFront(order, rest), DOMAIN InFront(order, rest)) \in Nat
        /\ Worth(W, rest, DOMAIN rest) \in Nat /\ W[order] \in Nat
    BY <1>2, <2>1, WorthNat DEF IsWorth
  <2> QED BY <2>2, <2>3
<1>3. state.cash \in Int /\ \A i \in Coins : state.holdings[i] \in Int
  BY DEF PaperRecords
<1>4. Worth(InCash, state.orders, DOMAIN state.orders) <= state.cash
  <2>1. /\ Worth(InCash, state.orders, DOMAIN state.orders) <= InCash[order] + Worth(InCash, rest, DOMAIN rest)
        /\ Worth(InCash, state.orders, DOMAIN state.orders) \in Int
        /\ InCash[order] + Worth(InCash, rest, DOMAIN rest) \in Int
    BY <1>2, WorthsAre
  <2> QED BY <1>3, <2>1 DEF Affords
<1>5. ASSUME NEW i \in Coins
      PROVE  Worth(InCoins(i), state.orders, DOMAIN state.orders) <= state.holdings[i]
  <2>1. /\ Worth(InCoins(i), state.orders, DOMAIN state.orders)
             <= InCoins(i)[order] + Worth(InCoins(i), rest, DOMAIN rest)
        /\ Worth(InCoins(i), state.orders, DOMAIN state.orders) \in Int
        /\ InCoins(i)[order] + Worth(InCoins(i), rest, DOMAIN rest) \in Int
    BY <1>2, WorthsAre
  <2> QED BY <1>3, <2>1 DEF Affords
<1> QED BY <1>1, <1>4, <1>5, ReservedIs DEF IsSound

(* An order that is filled takes no more than it was counted for, as the   *)
(* price has reached its own.                                              *)
LEMMA FilledIsSound ==
  ASSUME NEW state \in PaperRecords, NEW order, IsOpen(order), NEW price \in Prices,
         Reached(order, price), NEW rest \in Seq(OrderRecords), Affords(state, order, rest)
  PROVE  /\ IsSound(FillOrder(state, order, price, rest))
         /\ FillOrder(state, order, price, rest).orders = InFront(Filled, rest)
<1> DEFINE next == FillOrder(state, order, price, rest)
           q == order.quantity
           owned == state.holdings[order.coin]
<1>1. /\ order.coin \in Coins /\ order.side \in {"buy", "sell"}
      /\ q \in Nat /\ order.price \in Nat /\ q * order.price \in Nat
  BY OpenIs
<1>2. price \in Nat /\ q * price \in Nat
  BY <1>1, PaperAssumption
<1>3. state.cash \in Int /\ owned \in Int /\ state.holdings \in [Coins -> Int]
      /\ \A i \in Coins : state.holdings[i] \in Int
  BY <1>1 DEF PaperRecords
<1>4. \A x \in Int : Max({0, x}) = IF x > 0 THEN x ELSE 0
  <2> SUFFICES ASSUME NEW x \in Int PROVE Max({0, x}) = IF x > 0 THEN x ELSE 0
    OBVIOUS
  <2> QED BY DEF Max
<1>5. /\ next.cash = IF order.side = "buy" THEN state.cash - q * price ELSE state.cash + q * price
      /\ next.holdings = [state.holdings EXCEPT ![order.coin] =
                            IF order.side = "buy" THEN owned + q ELSE Max({0, owned - q})]
      /\ next.orders = InFront(Filled, rest)
      /\ next = [cash |-> next.cash, holdings |-> next.holdings, orders |-> next.orders]
  BY DEF FillOrder, InFront
<1> HIDE DEF next
<1>6. Filled \in OrderRecords /\ InCash[Filled] = 0 /\ \A i : InCoins(i)[Filled] = 0
  BY WorthsAre DEF IsWorth, OrderRecords
<1>7. InFront(Filled, rest) \in Seq(OrderRecords)
  BY <1>6, InFrontIs
<1>8. next.cash \in Int
  BY <1>1, <1>2, <1>3, <1>5
<1>9. \A i \in Coins :
        next.holdings[i] = IF i # order.coin THEN state.holdings[i]
                           ELSE IF order.side = "buy" THEN owned + q
                           ELSE IF owned - q > 0 THEN owned - q ELSE 0
  <2>1. owned - q \in Int
    BY <1>1, <1>3
  <2>2. Max({0, owned - q}) = IF owned - q > 0 THEN owned - q ELSE 0
    BY <1>4, <2>1
  <2> QED BY <1>1, <1>3, <1>5, <2>2
<1>10. next.holdings \in [Coins -> Int]
  <2>1. (IF order.side = "buy" THEN owned + q ELSE Max({0, owned - q})) \in Int
    BY <1>1, <1>3, <1>4
  <2> QED BY <1>1, <1>3, <1>5, <2>1
<1>11. next \in PaperRecords
  BY <1>5, <1>7, <1>8, <1>10 DEF PaperRecords
<1> DEFINE cash == Worth(InCash, rest, DOMAIN rest)
           coins(i) == Worth(InCoins(i), rest, DOMAIN rest)
<1>12. cash \in Nat /\ \A i : coins(i) \in Nat
  BY WorthsAre, WorthNat
<1>13. InCash[order] + cash <= state.cash
       /\ \A i \in Coins : InCoins(i)[order] + coins(i) <= state.holdings[i]
  BY DEF Affords
<1> HIDE DEF cash, coins
<1>14. cash <= next.cash /\ \A i \in Coins : coins(i) <= next.holdings[i]
  <2>1. CASE order.side = "buy"
    <3>1. InCash[order] = q * order.price /\ \A i : InCoins(i)[order] = 0
      BY <2>1, OpenIs
    <3>2. q * price <= q * order.price
      <4>1. price <= order.price
        BY <2>1 DEF Reached
      <4>2. order.price - price \in Nat
        BY <1>1, <1>2, <4>1
      <4>3. q * (order.price - price) \in Nat
        BY <1>1, <4>2
      <4>4. q * (order.price - price) = q * order.price - q * price
        BY <1>1, <1>2
      <4> QED BY <1>1, <1>2, <4>3, <4>4
    <3>3. next.cash = state.cash - q * price
      BY <1>5, <2>1
    <3>4. cash <= next.cash
      BY <1>1, <1>2, <1>3, <1>12, <1>13, <3>1, <3>2, <3>3
    <3>5. \A i \in Coins : coins(i) <= next.holdings[i]
      BY <1>1, <1>3, <1>9, <1>12, <1>13, <2>1, <3>1
    <3> QED BY <3>4, <3>5
  <2>2. CASE order.side = "sell"
    <3>1. InCash[order] = 0 /\ \A i : InCoins(i)[order] = IF i = order.coin THEN q ELSE 0
      BY <2>2, OpenIs
    <3>2. next.cash = state.cash + q * price
      BY <1>5, <2>2
    <3>3. cash <= next.cash
      BY <1>2, <1>3, <1>12, <1>13, <3>1, <3>2
    <3>4. ASSUME NEW i \in Coins PROVE coins(i) <= next.holdings[i]
      <4>1. CASE i = order.coin
        <5>1. q + coins(i) <= owned
          BY <1>13, <3>1, <4>1
        <5>2. next.holdings[i] = IF owned - q > 0 THEN owned - q ELSE 0
          BY <1>9, <2>2, <4>1
        <5> QED BY <1>1, <1>3, <1>12, <5>1, <5>2
      <4>2. CASE i # order.coin
        <5>1. next.holdings[i] = state.holdings[i]
          BY <1>9, <4>2
        <5>2. InCoins(i)[order] = 0
          BY <3>1, <4>2
        <5> QED BY <1>3, <1>12, <1>13, <5>1, <5>2
      <4> QED BY <4>1, <4>2
    <3> QED BY <3>3, <3>4
  <2> QED BY <1>1, <2>1, <2>2
<1>15. Affords(next, Filled, rest)
  BY <1>6, <1>12, <1>14 DEF Affords, cash, coins
<1>16. IsSound(next)
  BY <1>5, <1>6, <1>11, <1>15, WithInFront
<1> QED BY <1>5, <1>16 DEF next

LEMMA LeastOf ==
  ASSUME NEW L \in Nat, NEW C \in SUBSET (0..L), C # {}
  PROVE  \E k \in C : \A m \in C : k <= m
<1>1. IsFiniteSet(C)
  <2>1. IsFiniteSet(0..L)
    BY FS_Interval
  <2> QED BY <2>1, FS_Subset
<1>2. C \in SUBSET Int
  OBVIOUS
<1> QED BY <1>1, <1>2, EndsOfIntegers

(* What the price does at place n of the list: the order there is filled,  *)
(* or left.                                                                *)
IsDue(order, i, price) == order.status = "open" /\ order.coin = i /\ Reached(order, price)
AtPlace(state, now, i, price, n) ==
  IF IsDue(state.orders[n], i, price)
  THEN FillOrder(now, state.orders[n], price, RemoveAt(now.orders, n))
  ELSE now

(* The account after each place up to k.                                   *)
IsProgress(after, state, i, price, k) ==
  after = [n \in 0..k |-> IF n = 0 THEN state ELSE AtPlace(state, after[n-1], i, price, n)]

LEMMA FillReachedIs ==
  ASSUME NEW state, NEW i, NEW price
  PROVE  FillReached(state, i, price)
           = (CHOOSE after : IsProgress(after, state, i, price, Len(state.orders)))
               [Len(state.orders)]
BY DEF FillReached, IsProgress, AtPlace, IsDue

LEMMA ProgressExists ==
  ASSUME NEW state, NEW i, NEW price, NEW L \in Nat
  PROVE  \E after : IsProgress(after, state, i, price, L)
<1> DEFINE P(k) == \E after : IsProgress(after, state, i, price, k)
           C == {k \in 0..L : ~P(k)}
<1>1. ASSUME C # {} PROVE FALSE
  <2>1. PICK k \in C : \A m \in C : k <= m
    <3>1. C \in SUBSET (0..L)
      OBVIOUS
    <3> HIDE DEF C
    <3> QED BY <1>1, <3>1, LeastOf
  <2>2. k \in 0..L /\ ~P(k)
    BY <2>1
  <2>3. CASE k = 0
    <3>1. IsProgress([n \in 0..0 |-> state], state, i, price, 0)
      BY DEF IsProgress
    <3> QED BY <2>2, <2>3, <3>1
  <2>4. CASE k # 0
    <3>1. k - 1 \in 0..L /\ k - 1 \notin C
      BY <2>1, <2>2, <2>4
    <3>2. PICK h : IsProgress(h, state, i, price, k - 1)
      BY <3>1
    <3> DEFINE g == [n \in 0..k |-> IF n = k THEN AtPlace(state, h[k-1], i, price, k) ELSE h[n]]
    <3>3. ASSUME NEW n \in 0..k
          PROVE  g[n] = IF n = 0 THEN state ELSE AtPlace(state, g[n-1], i, price, n)
      <4>1. CASE n = k
        <5>1. g[n] = AtPlace(state, h[k-1], i, price, k) /\ g[n-1] = h[k-1]
          BY <2>2, <2>4, <4>1
        <5> QED BY <2>4, <4>1, <5>1
      <4>2. CASE n # k /\ n # 0
        <5>1. n \in 0..k-1 /\ n - 1 \in 0..k-1 /\ g[n] = h[n] /\ g[n-1] = h[n-1]
          BY <2>2, <4>2
        <5>2. h[n] = AtPlace(state, h[n-1], i, price, n)
          BY <3>2, <4>2, <5>1 DEF IsProgress
        <5> QED BY <4>2, <5>1, <5>2
      <4>3. CASE n # k /\ n = 0
        <5>1. 0 \in 0..k-1 /\ g[n] = h[0]
          BY <2>2, <2>4, <4>3
        <5>2. h[0] = state
          BY <3>2, <5>1 DEF IsProgress
        <5> QED BY <4>3, <5>1, <5>2
      <4> QED BY <4>1, <4>2, <4>3
    <3>4. g = [n \in 0..k |-> g[n]]
      OBVIOUS
    <3> HIDE DEF g
    <3>5. IsProgress(g, state, i, price, k)
      BY <3>3, <3>4 DEF IsProgress
    <3> QED BY <2>2, <3>5
  <2> QED BY <2>3, <2>4
<1>2. L \in 0..L
  OBVIOUS
<1> QED BY <1>1, <1>2

(* An order stays at its place until its turn; filling it leaves a sound   *)
(* account and the places behind.                                          *)
LEMMA AtPlaceIsSound ==
  ASSUME NEW state, NEW now, IsSound(now), NEW i, NEW price \in Prices,
         NEW n \in 1..Len(now.orders), now.orders[n] = state.orders[n]
  PROVE  /\ IsSound(AtPlace(state, now, i, price, n))
         /\ Len(AtPlace(state, now, i, price, n).orders) = Len(now.orders)
         /\ \A m \in n + 1..Len(now.orders) :
              AtPlace(state, now, i, price, n).orders[m] = now.orders[m]
<1>1. now.orders \in Seq(OrderRecords) /\ now \in PaperRecords /\ Len(now.orders) <= OrdersKept
  BY DEF IsSound, PaperRecords
<1>2. CASE ~IsDue(state.orders[n], i, price)
  BY <1>2 DEF AtPlace
<1>3. CASE IsDue(state.orders[n], i, price)
  <2> DEFINE order == state.orders[n]
             rest == RemoveAt(now.orders, n)
             next == FillOrder(now, order, price, rest)
  <2>1. order \in OrderRecords /\ IsOpen(order) /\ Reached(order, price)
    BY <1>1, <1>3, ElementOfSeq DEF IsOpen, IsDue
  <2>2. /\ rest \in Seq(OrderRecords) /\ Len(rest) = Len(now.orders) - 1
        /\ \A m \in 1..Len(now.orders) - 1 :
             rest[m] = IF m < n THEN now.orders[m] ELSE now.orders[m + 1]
    BY <1>1, RemovedIs
  <2>3. Affords(now, order, rest)
    BY RemovedAffords
  <2> HIDE DEF order, rest
  <2>4. IsSound(next) /\ next.orders = InFront(Filled, rest)
    BY <1>1, <2>1, <2>2, <2>3, FilledIsSound
  <2>5. Filled \in OrderRecords
    BY DEF OrderRecords
  <2>6. /\ Len(InFront(Filled, rest)) = IF Len(rest) < OrdersKept THEN Len(rest) + 1 ELSE OrdersKept
        /\ \A m \in 2..Len(InFront(Filled, rest)) : InFront(Filled, rest)[m] = rest[m - 1]
    BY <2>2, <2>5, InFrontIs
  <2>7. Len(now.orders) \in Nat /\ OrdersKept \in Nat
    BY <1>1, LenProperties, PaperAssumption
  <2>8. Len(InFront(Filled, rest)) = Len(now.orders)
    BY <1>1, <2>2, <2>6, <2>7
  <2>9. ASSUME NEW m \in n + 1..Len(now.orders) PROVE InFront(Filled, rest)[m] = now.orders[m]
    <3>1. m \in 2..Len(now.orders) /\ m - 1 \in 1..Len(now.orders) - 1 /\ ~(m - 1 < n) /\ (m - 1) + 1 = m
      BY <2>7
    <3>2. InFront(Filled, rest)[m] = rest[m - 1]
      BY <2>6, <2>8, <3>1
    <3>3. rest[m - 1] = now.orders[(m - 1) + 1]
      BY <2>2, <3>1
    <3> QED BY <3>1, <3>2, <3>3
  <2>10. AtPlace(state, now, i, price, n) = next
    BY <1>3 DEF AtPlace, order, rest
  <2> HIDE DEF next
  <2> QED BY <2>4, <2>8, <2>9, <2>10
<1> QED BY <1>2, <1>3

LEMMA FillingIsSound ==
  ASSUME NEW state, IsSound(state), NEW i, NEW price \in Prices
  PROVE  IsSound(FillReached(state, i, price))
<1> DEFINE L == Len(state.orders)
           after == CHOOSE f : IsProgress(f, state, i, price, L)
           Good(n) == /\ IsSound(after[n])
                      /\ Len(after[n].orders) = L
                      /\ \A m \in n + 1..L : after[n].orders[m] = state.orders[m]
           C == {n \in 0..L : ~Good(n)}
<1>1. L \in Nat
  BY LenProperties DEF IsSound, PaperRecords
<1>2. IsProgress(after, state, i, price, L)
  <2>1. \E f : IsProgress(f, state, i, price, L)
    BY <1>1, ProgressExists
  <2> QED BY <2>1
<1>3. FillReached(state, i, price) = after[L]
  BY FillReachedIs
<1> HIDE DEF L, after
<1>4. ASSUME C # {} PROVE FALSE
  <2>1. PICK k \in C : \A m \in C : k <= m
    <3>1. C \in SUBSET (0..L)
      OBVIOUS
    <3> HIDE DEF C
    <3> QED BY <1>1, <1>4, <3>1, LeastOf
  <2>2. k \in 0..L /\ ~Good(k)
    BY <2>1
  <2>3. CASE k = 0
    <3>1. after[0] = state
      BY <1>1, <1>2 DEF IsProgress
    <3> QED BY <2>2, <2>3, <3>1 DEF L
  <2>4. CASE k # 0
    <3>1. k - 1 \in 0..L /\ k \in 1..L /\ Good(k - 1)
      <4>1. k - 1 \in 0..L /\ k \in 1..L /\ ~(k <= k - 1)
        BY <1>1, <2>2, <2>4
      <4>2. k - 1 \notin C
        BY <2>1, <4>1
      <4> QED BY <4>1, <4>2
    <3>2. after[k] = AtPlace(state, after[k-1], i, price, k)
      BY <1>1, <1>2, <3>1 DEF IsProgress
    <3>3. k \in 1..Len(after[k-1].orders) /\ after[k-1].orders[k] = state.orders[k]
      BY <1>1, <3>1
    <3>4. /\ IsSound(after[k])
          /\ Len(after[k].orders) = L
          /\ \A m \in k + 1..L : after[k].orders[m] = after[k-1].orders[m]
      <4> DEFINE now == after[k-1]
      <4>1. /\ IsSound(now) /\ k \in 1..Len(now.orders)
            /\ now.orders[k] = state.orders[k]
        BY <3>1, <3>3
      <4>2. Len(now.orders) = L /\ after[k] = AtPlace(state, now, i, price, k)
        BY <3>1, <3>2
      <4> HIDE DEF now, Good, C
      <4>3. /\ IsSound(AtPlace(state, now, i, price, k))
            /\ Len(AtPlace(state, now, i, price, k).orders) = Len(now.orders)
            /\ \A m \in k + 1..Len(now.orders) :
                 AtPlace(state, now, i, price, k).orders[m] = now.orders[m]
        BY <4>1, AtPlaceIsSound
      <4> QED BY <4>2, <4>3 DEF now
    <3>5. \A m \in k + 1..L : m \in (k - 1) + 1..L
      BY <1>1, <3>1
    <3> QED BY <2>2, <3>1, <3>4, <3>5
  <2> QED BY <2>3, <2>4
<1>5. Good(L)
  BY <1>1, <1>4
<1> QED BY <1>3, <1>5

-----------------------------------------------------------------------------
PaperIInv ==
  /\ paper \in [TradeWindows -> PaperRecords]
  /\ \A w \in TradeWindows : IsSound(paper[w])
  /\ IsSound(savedPaper)
  /\ selected \in [TradeWindows -> Coins]
  /\ quoted \in [TradeWindows -> Prices \cup {NoPrice}]

LEMMA InitialIsSound == IsSound(Initial)
<1>1. <<>> \in Seq(OrderRecords) /\ Len(<<>>) = 0 /\ DOMAIN <<>> = {}
  OBVIOUS
<1>2. Initial \in PaperRecords
  BY <1>1, PaperAssumption DEF Initial, PaperRecords
<1>3. \A W : Worth(W, <<>>, DOMAIN <<>>) = 0
  BY <1>1, SumEmpty DEF Worth
<1>4. ReservedCash(Initial) = 0 /\ \A i : ReservedHolding(Initial, i) = 0
  BY <1>2, <1>3, ReservedIs DEF Initial
<1> QED BY <1>1, <1>2, <1>4, PaperAssumption DEF IsSound, Initial

LEMMA KeepsSound ==
  ASSUME PaperIInv, NEW w \in TradeWindows, NEW state, IsSound(state), Keep(w, state),
         UNCHANGED selected, quoted' \in [TradeWindows -> Prices \cup {NoPrice}]
  PROVE  PaperIInv'
BY DEF Keep, PaperIInv, IsSound

LEMMA PaperStart == PaperInit => PaperIInv
BY InitialIsSound DEF PaperInit, PaperIInv, IsSound

LEMMA PlacingIsSound ==
  ASSUME PaperIInv, NEW w \in TradeWindows, PlaceOrder(w)
  PROVE  PaperIInv'
<1>1. PICK side \in {"buy", "sell"}, quantity \in Quantities, price \in Prices :
        LET order == OpenOrder(selected[w], side, quantity, price)
        IN  /\ quoted[w] # NoPrice
            /\ Covers(paper[w], order)
            /\ Keep(w, IF Reached(order, quoted[w])
                       THEN FillOrder(paper[w], order, quoted[w], paper[w].orders)
                       ELSE [paper[w] EXCEPT !.orders = KeptOrders(<<order>> \o @)])
            /\ UNCHANGED <<selected, quoted>>
  BY DEF PlaceOrder
<1> DEFINE order == OpenOrder(selected[w], side, quantity, price)
           state == paper[w]
<1>2. IsSound(state) /\ state \in PaperRecords /\ state.orders \in Seq(OrderRecords)
  BY DEF PaperIInv, IsSound, PaperRecords
<1>3. IsOpen(order) /\ order \in OrderRecords
  BY DEF PaperIInv, IsOpen, OpenOrder, OrderRecords
<1>4. Affords(state, order, state.orders)
  <2>1. Covers(state, order)
    BY <1>1
  <2> HIDE DEF state, order
  <2> QED BY <1>2, <1>3, <2>1, CoveredAffords
<1>5. quoted' \in [TradeWindows -> Prices \cup {NoPrice}] /\ UNCHANGED selected
  BY <1>1 DEF PaperIInv
<1>6. CASE Reached(order, quoted[w])
  <2> DEFINE next == FillOrder(state, order, quoted[w], state.orders)
  <2>1. quoted[w] \in Prices
    BY <1>1 DEF PaperIInv
  <2>2. Keep(w, next)
    BY <1>1, <1>6
  <2> HIDE DEF state, order
  <2>3. IsSound(next)
    BY <1>2, <1>3, <1>4, <1>6, <2>1, FilledIsSound
  <2> HIDE DEF next
  <2> QED BY <1>5, <2>2, <2>3, KeepsSound
<1>7. CASE ~Reached(order, quoted[w])
  <2> DEFINE next == [state EXCEPT !.orders = InFront(order, state.orders)]
  <2>1. Keep(w, next)
    BY <1>1, <1>7 DEF InFront
  <2> HIDE DEF state, order
  <2>2. InFront(order, state.orders) \in Seq(OrderRecords)
    BY <1>2, <1>3, InFrontIs
  <2>3. /\ next \in PaperRecords /\ next.orders = InFront(order, state.orders)
        /\ next.cash = state.cash /\ next.holdings = state.holdings
    BY <1>2, <2>2 DEF PaperRecords
  <2> HIDE DEF next
  <2>4. Affords(next, order, state.orders)
    BY <1>4, <2>3 DEF Affords
  <2>5. IsSound(next)
    BY <1>2, <1>3, <2>3, <2>4, WithInFront
  <2> QED BY <1>5, <2>1, <2>5, KeepsSound
<1> QED BY <1>6, <1>7

LEMMA CancellingIsSound ==
  ASSUME PaperIInv, NEW w \in TradeWindows, CancelOrder(w)
  PROVE  PaperIInv'
<1> DEFINE state == paper[w]
<1>1. IsSound(state) /\ state \in PaperRecords /\ state.orders \in Seq(OrderRecords)
  BY DEF PaperIInv, IsSound, PaperRecords
<1>2. PICK n \in OpenOrders(state) :
        Keep(w, [state EXCEPT !.orders = RemoveAt(state.orders, n)])
  BY DEF CancelOrder
<1> DEFINE next == [state EXCEPT !.orders = RemoveAt(state.orders, n)]
<1>3. n \in 1..Len(state.orders)
  <2>1. n \in DOMAIN state.orders
    BY DEF OpenOrders
  <2> QED BY <1>1, <2>1, LenProperties
<1> HIDE DEF state
<1>4. RemoveAt(state.orders, n) \in Seq(OrderRecords)
      /\ Len(RemoveAt(state.orders, n)) = Len(state.orders) - 1
  BY <1>1, <1>3, RemovedIs
<1>5. /\ next \in PaperRecords /\ next.orders = RemoveAt(state.orders, n)
      /\ next.cash = state.cash /\ next.holdings = state.holdings
  BY <1>1, <1>4 DEF PaperRecords
<1>6. Keep(w, next)
  BY <1>2
<1> HIDE DEF next
<1>7. Affords(state, state.orders[n], next.orders)
  BY <1>1, <1>3, <1>5, RemovedAffords
<1>8. ASSUME NEW W, IsWorth(W)
      PROVE  /\ W[state.orders[n]] \in Nat
             /\ Worth(W, next.orders, DOMAIN next.orders) \in Nat
  <2>1. n \in DOMAIN state.orders
    BY <1>1, <1>3, LenProperties
  <2> QED BY <1>1, <1>4, <1>5, <1>8, <2>1, WorthTakeOut, WorthNat
<1>9. ReservedCash(next) <= next.cash
  <2>1. /\ InCash[state.orders[n]] \in Nat
        /\ Worth(InCash, next.orders, DOMAIN next.orders) \in Nat
    BY <1>8, WorthsAre
  <2>2. state.cash \in Int
    BY <1>1 DEF PaperRecords
  <2>3. Worth(InCash, next.orders, DOMAIN next.orders) <= state.cash
    BY <1>7, <2>1, <2>2 DEF Affords
  <2> QED BY <1>5, <2>3, ReservedIs
<1>10. ASSUME NEW i \in Coins PROVE ReservedHolding(next, i) <= next.holdings[i]
  <2>1. /\ InCoins(i)[state.orders[n]] \in Nat
        /\ Worth(InCoins(i), next.orders, DOMAIN next.orders) \in Nat
    BY <1>8, WorthsAre
  <2>2. state.holdings[i] \in Int
    BY <1>1 DEF PaperRecords
  <2>3. Worth(InCoins(i), next.orders, DOMAIN next.orders) <= state.holdings[i]
    BY <1>7, <2>1, <2>2 DEF Affords
  <2> QED BY <1>5, <2>3, ReservedIs
<1>11. Len(next.orders) <= OrdersKept
  <2>1. Len(state.orders) \in Nat /\ OrdersKept \in Nat /\ Len(state.orders) <= OrdersKept
    BY <1>1, LenProperties, PaperAssumption DEF IsSound
  <2> QED BY <1>4, <1>5, <2>1
<1>12. IsSound(next)
  BY <1>5, <1>9, <1>10, <1>11 DEF IsSound
<1>13. UNCHANGED selected /\ quoted' \in [TradeWindows -> Prices \cup {NoPrice}]
  BY DEF CancelOrder, PaperIInv
<1> QED BY <1>6, <1>12, <1>13, KeepsSound

LEMMA PaperGoesOn == PaperIInv /\ [PaperNext]_paperVars => PaperIInv'
<1> SUFFICES ASSUME PaperIInv, [PaperNext]_paperVars PROVE PaperIInv'
  OBVIOUS
<1>1. CASE UNCHANGED paperVars
  BY <1>1 DEF paperVars, PaperIInv, IsSound
<1>2. ASSUME NEW w \in TradeWindows, PriceOnScreen(w) PROVE PaperIInv'
  <2>1. PICK price \in Prices : /\ quoted' = [quoted EXCEPT ![w] = price]
                               /\ Keep(w, FillReached(paper[w], selected[w], price))
    BY <1>2 DEF PriceOnScreen
  <2>2. IsSound(FillReached(paper[w], selected[w], price))
    BY <1>2, FillingIsSound DEF PaperIInv
  <2>3. UNCHANGED selected /\ quoted' \in [TradeWindows -> Prices \cup {NoPrice}]
    BY <1>2, <2>1 DEF PriceOnScreen, PaperIInv
  <2> QED BY <1>2, <2>1, <2>2, <2>3, KeepsSound
<1>3. ASSUME NEW w \in TradeWindows, Select(w) PROVE PaperIInv'
  BY <1>3 DEF Select, PaperIInv, IsSound
<1>4. ASSUME NEW w \in TradeWindows, ResetDemo(w) PROVE PaperIInv'
  <2>1. UNCHANGED selected /\ quoted' \in [TradeWindows -> Prices \cup {NoPrice}]
    BY <1>4 DEF ResetDemo, PaperIInv
  <2> QED BY <1>4, <2>1, InitialIsSound, KeepsSound DEF ResetDemo
<1>5. ASSUME NEW w \in TradeWindows, Reload(w) PROVE PaperIInv'
  BY <1>5 DEF Reload, PaperIInv, IsSound
<1> QED BY <1>1, <1>2, <1>3, <1>4, <1>5, PlacingIsSound, CancellingIsSound DEF PaperNext

(* The practice account of the web page: the cash and the holdings cover   *)
(* all that the open orders may still take, whatever is placed, filled,    *)
(* cancelled, cut off or loaded from another window's storage, for any     *)
(* number of windows, coins, orders, prices and quantities.                *)
THEOREM OpenOrdersCovered == PaperSpec => []OrdersCovered
<1>1. PaperIInv => OrdersCovered
  BY DEF PaperIInv, OrdersCovered, IsSound
<1> QED BY <1>1, PaperStart, PaperGoesOn, PTL DEF PaperSpec
=============================================================================

------------------------------ MODULE Funding -------------------------------
(***************************************************************************)
(* Manual deposits and withdrawals (funding/funding.service.ts) and the    *)
(* evidence files behind them (funding/evidence.service.ts).  Every        *)
(* handler is one SERIALIZABLE transaction that locks the request's row    *)
(* first, so a handler is one step; a call that only replays an earlier    *)
(* answer changes nothing and is no step at all.  What is refused before   *)
(* the transaction (feature flags, readiness, a wrong verification code, a *)
(* rate the customer did not expect) is a step that is not taken.          *)
(* The event each handler enqueues is an account event like those of       *)
(* Transactions.tla; audit rows are left out.                              *)
(*                                                                         *)
(* Requests are unique on (userId, idempotencyKey), which names them here. *)
(* Evidence is stored and deleted outside any transaction: its object and  *)
(* its row change in separate steps, between which the process may die.    *)
(***************************************************************************)
EXTENDS Ledger

CONSTANTS
  Admins, Methods,
  DepositKeys, WithdrawalKeys,  \* idempotency keys: bound the requests
  References,                   \* provider transaction ids
  Files,                        \* evidence object keys
  BdtAmounts,                   \* deposits, in hundredths of a taka
  UsdAmounts,                   \* withdrawals, in cents
  Rates,                        \* BDT per USD, in units of 1/RateScale
  RateScale,
  Minimum, Maximum,             \* a payment method's limits
  Nobody, NoFile

ASSUME FundingAssumption ==
  /\ IsFiniteSet(DepositKeys) /\ IsFiniteSet(WithdrawalKeys)
  /\ BdtAmounts \subseteq Nat \ {0} /\ UsdAmounts \subseteq Nat \ {0}
  /\ RateScale \in Nat \ {0}
  /\ Rates \subseteq {rate \in Nat : rate >= RateScale}
  /\ Minimum \in Nat /\ Maximum \in Nat
  /\ Nobody \notin Admins /\ NoFile \notin Files

Deposits    == Users \X DepositKeys
Withdrawals == Users \X WithdrawalKeys
RealAccount(u) == <<u, "REAL">>

VARIABLES
  deposit,     \* deposit_requests
  withdrawal,  \* withdrawal_requests
  file,        \* evidence_files rows
  object,      \* evidence objects present in storage
  expired,     \* files older than seven days
  open,        \* users' switches, approved identities, enabled payment methods
  rates,       \* system_config: the two conversion rates
  isVirtual    \* COMPLIANCE_MODE = SANDBOX, for as long as the server runs

fundingVars == <<deposit, withdrawal, file, object, expired, open, rates, isVirtual>>
vars == <<ledgerVars, fundingVars>>

UserControls == {"DEPOSIT", "WITHDRAWAL"}
Gates == ((UserControls \cup {"KYC"}) \X Users) \cup ({"METHOD"} \X Methods)

NoRequest == [status |-> "NONE"]
NoRow     == [status |-> "NONE"]
NoClaim   == <<>>

OpenWithdrawal == {"REQUESTED", "UNDER_REVIEW", "APPROVED", "PROCESSING"}

-----------------------------------------------------------------------------
(* usdFromDeposit and bdtFromWithdrawal: half up, to hundredths.           *)
UsdFromDeposit(bdt, rate)    == (2 * bdt * RateScale + rate) \div (2 * rate)
BdtFromWithdrawal(usd, rate) == (2 * usd * rate + RateScale) \div (2 * RateScale)

WithinLimits(bdt) == bdt >= Minimum /\ (isVirtual \/ bdt <= Maximum)

Owned(f, owner, purpose) ==
  /\ file[f].status = "CLEAN"
  /\ file[f].owner = owner /\ file[f].purpose = purpose
  /\ file[f].claimedBy = NoClaim

(* Evidence must remain clean and linked before credit, or be gone.        *)
EvidenceHolds(d) ==
  LET f == deposit[d].file
  IN  f # NoFile /\ file[f].status # "DELETED" =>
        file[f].status = "CLEAN" /\ file[f].claimedBy = <<"deposit", d>>

(* The evidence_claim_once trigger refuses a second claim on a file.       *)
ClaimFile(f, claim) ==
  IF f = NoFile THEN UNCHANGED file
  ELSE /\ file[f] # NoRow /\ file[f].claimedBy = NoClaim
       /\ file' = [file EXCEPT ![f].claimedBy = claim]

CreditJournal(d) ==
  Debit(Control("REAL"), deposit[d].usd)
    ++ Credit(Available(RealAccount(d[1])), deposit[d].usd)
LockJournal(w, usd) ==
  Debit(Available(RealAccount(w[1])), usd) ++ Credit(Locked(RealAccount(w[1])), usd)
SettleJournal(w) ==
  Debit(Locked(RealAccount(w[1])), withdrawal[w].usd)
    ++ Credit(Control("REAL"), withdrawal[w].usd)
ReleaseJournal(w) ==
  LET lock == LockJournal(w, withdrawal[w].usd)
  IN  [l \in DOMAIN lock |-> -lock[l]]

-----------------------------------------------------------------------------
Init ==
  /\ LedgerInit
  /\ deposit = [d \in Deposits |-> NoRequest]
  /\ withdrawal = [w \in Withdrawals |-> NoRequest]
  /\ file = [f \in Files |-> NoRow]
  /\ object = {}
  /\ expired = {}
  /\ open = (UserControls \X Users) \cup ({"METHOD"} \X Methods)
  /\ rates \in [deposit : Rates, withdrawal : Rates]
  /\ isVirtual \in BOOLEAN

CreateDeposit(d, method, bdt, reference, f) ==
  LET usd == UsdFromDeposit(bdt, rates.deposit)
  IN  /\ deposit[d] = NoRequest
      /\ <<"DEPOSIT", d[1]>> \in open /\ <<"METHOD", method>> \in open
      /\ WithinLimits(bdt)
      /\ usd > 0
      /\ f # NoFile => Owned(f, d[1], "DEPOSIT")
      /\ \A e \in Deposits : deposit[e] # NoRequest =>
           <<deposit[e].method, deposit[e].reference>> # <<method, reference>>
      /\ deposit' = [deposit EXCEPT ![d] =
           [status |-> "PENDING_REVIEW", method |-> method, bdt |-> bdt, usd |-> usd,
            rate |-> rates.deposit, reference |-> reference, file |-> f,
            verifiedBy |-> Nobody, reviewedBy |-> Nobody]]
      /\ ClaimFile(f, <<"deposit", d>>)
      /\ UNCHANGED <<ledgerVars, withdrawal, object, expired, open, rates>>

VerifyDeposit(d, admin) ==
  /\ deposit[d].status = "PENDING_REVIEW"
  /\ EvidenceHolds(d)
  /\ deposit[d].verifiedBy = Nobody
  /\ deposit' = [deposit EXCEPT ![d].verifiedBy = admin]
  /\ UNCHANGED <<ledgerVars, withdrawal, file, object, expired, open, rates>>

(* CHECK deposit_independent_review, in every compliance mode.             *)
IndependentReview(d, admin) == deposit[d].verifiedBy # admin

Decide(d, admin, status) ==
  deposit' = [deposit EXCEPT ![d].status = status, ![d].reviewedBy = admin]

CreditDeposit(d, admin) ==
  /\ deposit[d].status = "PENDING_REVIEW"
  /\ ~isVirtual => deposit[d].verifiedBy \notin {Nobody, admin}
  /\ EvidenceHolds(d)
  /\ IndependentReview(d, admin)
  /\ Post(<<"deposit-credit", d>>, CreditJournal(d))
  /\ MoveWallet(RealAccount(d[1]), deposit[d].usd, 0)
  /\ Decide(d, admin, "CREDITED")
  /\ UNCHANGED <<withdrawal, file, object, expired, open, rates>>

RejectDeposit(d, admin) ==
  /\ deposit[d].status = "PENDING_REVIEW"
  /\ IndependentReview(d, admin)
  /\ Decide(d, admin, "REJECTED")
  /\ UNCHANGED <<ledgerVars, withdrawal, file, object, expired, open, rates>>

-----------------------------------------------------------------------------
(* Everything createWithdrawal checks before it locks the funds.           *)
MayWithdraw(w, method, usd) ==
  /\ withdrawal[w] = NoRequest
  /\ <<"WITHDRAWAL", w[1]>> \in open /\ <<"METHOD", method>> \in open
  /\ isVirtual \/ <<"KYC", w[1]>> \in open
  /\ WithinLimits(BdtFromWithdrawal(usd, rates.withdrawal))
  /\ wallet[RealAccount(w[1])].available >= usd

CreateWithdrawal(w, method, usd) ==
  /\ MayWithdraw(w, method, usd)
  /\ Post(<<"withdrawal-lock", w>>, LockJournal(w, usd))
  /\ MoveWallet(RealAccount(w[1]), -usd, usd)
  /\ withdrawal' = [withdrawal EXCEPT ![w] =
       [status |-> "REQUESTED", method |-> method, usd |-> usd, reviewStartedBy |-> Nobody,
        approvedBy |-> Nobody, reviewedBy |-> Nobody, reference |-> Nobody, file |-> NoFile]]
  /\ UNCHANGED <<deposit, file, object, expired, open, rates>>

(* transitionWithdrawal, one action per WithdrawalAction.                  *)
StartReview(w, admin) ==
  /\ withdrawal[w].status = "REQUESTED"
  /\ withdrawal' = [withdrawal EXCEPT ![w].status = "UNDER_REVIEW",
                      ![w].reviewedBy = admin, ![w].reviewStartedBy = admin]
  /\ UNCHANGED <<ledgerVars, deposit, file, object, expired, open, rates>>

(* The service asks for a second operator unless funding is virtual; CHECK *)
(* withdrawal_independent_review asks in every mode.                       *)
Approve(w, admin) ==
  /\ withdrawal[w].status = "UNDER_REVIEW"
  /\ withdrawal[w].reviewStartedBy # admin
  /\ withdrawal' = [withdrawal EXCEPT ![w].status = "APPROVED",
                      ![w].reviewedBy = admin, ![w].approvedBy = admin]
  /\ UNCHANGED <<ledgerVars, deposit, file, object, expired, open, rates>>

StartProcessing(w, admin) ==
  /\ withdrawal[w].status = "APPROVED"
  /\ withdrawal' = [withdrawal EXCEPT ![w].status = "PROCESSING", ![w].reviewedBy = admin]
  /\ UNCHANGED <<ledgerVars, deposit, file, object, expired, open, rates>>

(* The money leaves: settlement journal, locked projection, final status.  *)
Settle(w, admin, reference, f) ==
  /\ withdrawal[w].usd <= wallet[RealAccount(w[1])].locked
  /\ \A v \in Withdrawals : withdrawal[v] # NoRequest =>
       <<withdrawal[v].method, withdrawal[v].reference>> # <<withdrawal[w].method, reference>>
  /\ Post(<<"withdrawal-settle", w>>, SettleJournal(w))
  /\ MoveWallet(RealAccount(w[1]), 0, -withdrawal[w].usd)
  /\ withdrawal' = [withdrawal EXCEPT ![w].status = "PAID", ![w].reviewedBy = admin,
                      ![w].reference = reference, ![w].file = f]
  /\ ClaimFile(f, <<"withdrawal", w>>)
  /\ UNCHANGED <<deposit, object, expired, open, rates>>

(* Faulty: asks who handled the withdrawal last, not who approved it.      *)
MayPayAfterAnother(w, admin, f) ==
  ~isVirtual => /\ withdrawal[w].reviewedBy \notin {Nobody, admin}
                /\ f # NoFile /\ Owned(f, admin, "WITHDRAWAL")

(* In virtual mode any unclaimed file will do, or none, and so will a key  *)
(* that names no file, which is as good as none.                           *)
MayPay(w, admin, f) ==
  ~isVirtual => /\ withdrawal[w].approvedBy \notin {Nobody, admin}
                /\ f # NoFile /\ Owned(f, admin, "WITHDRAWAL")

MarkWithdrawalPaid(w, admin, reference, f) ==
  /\ withdrawal[w].status = "PROCESSING"
  /\ MayPay(w, admin, f)
  /\ Settle(w, admin, reference, f)

CompleteVirtualWithdrawal(w, admin) ==
  /\ isVirtual
  /\ withdrawal[w].status \in OpenWithdrawal
  /\ Settle(w, admin, <<"VIRTUAL", w>>, NoFile)

(* Faulty: gives the money back and keeps it locked.                       *)
ReleaseStillLocked(w, status, admin) ==
  /\ withdrawal[w].usd <= wallet[RealAccount(w[1])].locked
  /\ Post(<<"withdrawal-release", w>>, ReleaseJournal(w))
  /\ MoveWallet(RealAccount(w[1]), withdrawal[w].usd, 0)
  /\ withdrawal' = [withdrawal EXCEPT ![w].status = status, ![w].reviewedBy = admin]
  /\ UNCHANGED <<deposit, file, object, expired, open, rates>>

Release(w, status, admin) ==
  /\ withdrawal[w].usd <= wallet[RealAccount(w[1])].locked
  /\ Post(<<"withdrawal-release", w>>, ReleaseJournal(w))
  /\ MoveWallet(RealAccount(w[1]), withdrawal[w].usd, -withdrawal[w].usd)
  /\ withdrawal' = [withdrawal EXCEPT ![w].status = status, ![w].reviewedBy = admin]
  /\ UNCHANGED <<deposit, file, object, expired, open, rates>>

(* Faulty: whatever has become of the withdrawal.                          *)
RejectAnyWithdrawal(w, admin) ==
  withdrawal[w] # NoRequest /\ Release(w, "REJECTED", admin)

RejectWithdrawal(w, admin) ==
  withdrawal[w].status \in OpenWithdrawal \ {"PROCESSING"} /\ Release(w, "REJECTED", admin)

CancelWithdrawal(w) ==
  withdrawal[w].status = "REQUESTED" /\ Release(w, "CANCELLED", Nobody)

-----------------------------------------------------------------------------
(* upload puts the object first and creates its row when that worked.      *)
StoreObject(f) ==
  /\ file[f] = NoRow /\ f \notin object
  /\ object' = object \cup {f}
  /\ UNCHANGED <<ledgerVars, deposit, withdrawal, file, expired, open, rates>>

(* Faulty: creates the row whether or not the object was stored.           *)
RecordFileFirst(f, owner, purpose) ==
  /\ file[f] = NoRow
  /\ owner \in Users => purpose = "DEPOSIT"
  /\ file' = [file EXCEPT ![f] = [status |-> "CLEAN", owner |-> owner, purpose |-> purpose,
                                  claimedBy |-> NoClaim]]
  /\ UNCHANGED <<ledgerVars, deposit, withdrawal, object, expired, open, rates>>

RecordFile(f, owner, purpose) ==
  /\ file[f] = NoRow /\ f \in object
  /\ owner \in Users => purpose = "DEPOSIT"
  /\ file' = [file EXCEPT ![f] = [status |-> "CLEAN", owner |-> owner, purpose |-> purpose,
                                  claimedBy |-> NoClaim]]
  /\ UNCHANGED <<ledgerVars, deposit, withdrawal, object, expired, open, rates>>

SevenDaysPass(f) ==
  /\ file[f] # NoRow /\ f \notin expired
  /\ expired' = expired \cup {f}
  /\ UNCHANGED <<ledgerVars, deposit, withdrawal, file, object, open, rates>>

(* deleteExpiredDeposits, whatever requests the file serves by now.        *)
RemoveObject(f) ==
  /\ f \in expired \cap object
  /\ file[f].purpose = "DEPOSIT" /\ file[f].status # "DELETED"
  /\ object' = object \ {f}
  /\ UNCHANGED <<ledgerVars, deposit, withdrawal, file, expired, open, rates>>

MarkDeleted(f) ==
  /\ f \in expired \ object
  /\ file[f].status # "DELETED"
  /\ file' = [file EXCEPT ![f].status = "DELETED"]
  /\ UNCHANGED <<ledgerVars, deposit, withdrawal, object, expired, open, rates>>

(* An approved USER_CONTROLS change sets a user's switches together; one   *)
(* that leaves any of them on needs an approved identity.                  *)
SwitchUserControls(u, on) ==
  /\ on # {} => <<"KYC", u>> \in open
  /\ open' = (open \ (UserControls \X {u})) \cup (on \X {u})
  /\ UNCHANGED <<ledgerVars, deposit, withdrawal, file, object, expired, rates>>

(* An approved KYC_REVIEW change; only cases not yet decided take one.     *)
ApproveIdentity(u) ==
  /\ <<"KYC", u>> \notin open
  /\ open' = open \cup {<<"KYC", u>>}
  /\ UNCHANGED <<ledgerVars, deposit, withdrawal, file, object, expired, rates>>

(* updatePaymentMethod; the limits it may change too are constants here.   *)
UpdatePaymentMethod(method, on) ==
  /\ open' = IF on THEN open \cup {<<"METHOD", method>>} ELSE open \ {<<"METHOD", method>>}
  /\ UNCHANGED <<ledgerVars, deposit, withdrawal, file, object, expired, rates>>

(* Faulty: prices the pending deposits again.                              *)
UpdateConversionRatesRepricing(new) ==
  /\ rates' = new
  /\ deposit' = [d \in Deposits |->
       IF deposit[d].status # "PENDING_REVIEW" THEN deposit[d]
       ELSE [deposit[d] EXCEPT !.usd = UsdFromDeposit(deposit[d].bdt, new.deposit)]]
  /\ UNCHANGED <<ledgerVars, withdrawal, file, object, expired, open>>

UpdateConversionRates(new) ==
  /\ rates' = new
  /\ UNCHANGED <<ledgerVars, deposit, withdrawal, file, object, expired, open>>

FundingStep ==
  \/ \E d \in Deposits :
       \/ \E method \in Methods, bdt \in BdtAmounts, reference \in References,
             f \in Files \cup {NoFile} : CreateDeposit(d, method, bdt, reference, f)
       \/ \E admin \in Admins :
            \/ VerifyDeposit(d, admin)
            \/ CreditDeposit(d, admin)
            \/ RejectDeposit(d, admin)
  \/ \E w \in Withdrawals :
       \/ \E method \in Methods, usd \in UsdAmounts : CreateWithdrawal(w, method, usd)
       \/ CancelWithdrawal(w)
       \/ \E admin \in Admins :
            \/ StartReview(w, admin)
            \/ Approve(w, admin)
            \/ StartProcessing(w, admin)
            \/ \E reference \in References, f \in Files \cup {NoFile} :
                 MarkWithdrawalPaid(w, admin, reference, f)
            \/ CompleteVirtualWithdrawal(w, admin)
            \/ RejectWithdrawal(w, admin)
  \/ \E f \in Files :
       \/ StoreObject(f)
       \/ \E owner \in Users \cup Admins, purpose \in {"DEPOSIT", "WITHDRAWAL"} :
            RecordFile(f, owner, purpose)
       \/ SevenDaysPass(f)
       \/ RemoveObject(f)
       \/ MarkDeleted(f)
  \/ \E u \in Users :
       \/ ApproveIdentity(u)
       \/ \E on \in SUBSET UserControls : SwitchUserControls(u, on)
  \/ \E method \in Methods, on \in BOOLEAN : UpdatePaymentMethod(method, on)
  \/ \E new \in [deposit : Rates, withdrawal : Rates] : UpdateConversionRates(new)

Next == FundingStep /\ UNCHANGED isVirtual

Spec == Init /\ [][Next]_vars

-----------------------------------------------------------------------------
DepositRecords ==
  [status : {"PENDING_REVIEW", "CREDITED", "REJECTED"}, method : Methods, bdt : BdtAmounts,
   usd : Nat \ {0}, rate : Rates, reference : References, file : Files \cup {NoFile},
   verifiedBy : Admins \cup {Nobody}, reviewedBy : Admins \cup {Nobody}]

WithdrawalRecords ==
  [status : OpenWithdrawal \cup {"PAID", "REJECTED", "CANCELLED"}, method : Methods,
   usd : UsdAmounts, reviewStartedBy : Admins \cup {Nobody},
   approvedBy : Admins \cup {Nobody}, reviewedBy : Admins \cup {Nobody},
   reference : References \cup {Nobody} \cup ({"VIRTUAL"} \X Withdrawals),
   file : Files \cup {NoFile}]

FileRecords ==
  [status : {"CLEAN", "DELETED"}, owner : Users \cup Admins,
   purpose : {"DEPOSIT", "WITHDRAWAL"},
   claimedBy : {NoClaim} \cup ({"deposit"} \X Deposits) \cup ({"withdrawal"} \X Withdrawals)]

FundingTypeOK ==
  /\ LedgerTypeOK
  /\ deposit \in [Deposits -> DepositRecords \cup {NoRequest}]
  /\ withdrawal \in [Withdrawals -> WithdrawalRecords \cup {NoRequest}]
  /\ file \in [Files -> FileRecords \cup {NoRow}]
  /\ rates \in [deposit : Rates, withdrawal : Rates]
  /\ object \subseteq Files /\ expired \subseteq Files
  /\ open \subseteq Gates
  /\ isVirtual \in BOOLEAN

(* Money that has left the available balance but not the company.          *)
Outstanding(w) == IF withdrawal[w].status \in OpenWithdrawal THEN withdrawal[w].usd ELSE 0
WithdrawalsOf(u) == {u} \X WithdrawalKeys

(* docs/PAYMENTS.md: a withdrawal locks its funds at the request, releases *)
(* them on rejection or cancellation and settles them when paid, so what   *)
(* is locked is what is still to be decided, however operators interleave. *)
LockedBacksWithdrawals ==
  \A u \in Users :
    wallet[RealAccount(u)].locked =
      SumFunctionOnSet([w \in Withdrawals |-> Outstanding(w)], WithdrawalsOf(u))

(* Every wallet is what the journals say, the mode sums to zero, and what  *)
(* a customer cannot spend is what operators still have to decide.         *)
CustomerFundsInOrder == BooksInOrder /\ LockedBacksWithdrawals

(* The cash account owes the credited deposits and has paid the paid       *)
(* withdrawals: each once, and nothing else.                               *)
Credited(d) == IF deposit[d].status = "CREDITED" THEN deposit[d].usd ELSE 0
Paid(w)     == IF withdrawal[w].status = "PAID" THEN withdrawal[w].usd ELSE 0
CashMatchesRequests ==
  balance[Control("REAL")] =
    SumFunctionOnSet([w \in Withdrawals |-> Paid(w)], Withdrawals)
      - SumFunctionOnSet([d \in Deposits |-> Credited(d)], Deposits)

(* A request's journals say what its status says; a withdrawal is settled  *)
(* or released, never both.                                                *)
JournalsMatchRequests ==
  /\ \A d \in Deposits :
       <<"deposit-credit", d>> \in posted <=> deposit[d].status = "CREDITED"
  /\ \A w \in Withdrawals :
       /\ <<"withdrawal-lock", w>> \in posted <=> withdrawal[w] # NoRequest
       /\ <<"withdrawal-settle", w>> \in posted <=> withdrawal[w].status = "PAID"
       /\ <<"withdrawal-release", w>> \in posted <=>
            withdrawal[w].status \in {"REJECTED", "CANCELLED"}

(* The books, the company's cash and the requests tell the same story,     *)
(* whichever operators, cancellations and repeats met on a request.        *)
RequestsMatchBooks == CashMatchesRequests /\ JournalsMatchRequests

(* docs/funding-admin-operations.md: "A different operator approves the    *)
(* credit"; "Operator A starts review, operator B approves, and a paying   *)
(* operator distinct from B records the actual completed payout".          *)
IndependentOperators ==
  ~isVirtual =>
    /\ \A d \in Deposits : deposit[d].status = "CREDITED" =>
         deposit[d].verifiedBy \notin {Nobody, deposit[d].reviewedBy}
    /\ \A w \in Withdrawals : withdrawal[w].status \in {"APPROVED", "PROCESSING", "PAID"} =>
         /\ withdrawal[w].reviewStartedBy # Nobody
         /\ withdrawal[w].approvedBy \notin {Nobody, withdrawal[w].reviewStartedBy}
         /\ withdrawal[w].status = "PAID" =>
              withdrawal[w].approvedBy # withdrawal[w].reviewedBy

(* No file is evidence for two requests, and (with real money) the receipt *)
(* of a payout is its payer's own.                                         *)
EvidenceServesOneRequest ==
  /\ \A d \in Deposits : deposit[d] # NoRequest /\ deposit[d].file # NoFile =>
       file[deposit[d].file].claimedBy = <<"deposit", d>>
  /\ \A w \in Withdrawals : withdrawal[w] # NoRequest /\ withdrawal[w].file # NoFile =>
       file[withdrawal[w].file].claimedBy = <<"withdrawal", w>>
  /\ ~isVirtual => \A w \in Withdrawals : withdrawal[w].status = "PAID" =>
       withdrawal[w].file # NoFile /\ file[withdrawal[w].file].owner = withdrawal[w].reviewedBy

(* Evidence that read still serves is in storage, wherever an upload or a  *)
(* cleanup stopped.                                                        *)
Readable(f) == /\ file[f].status = "CLEAN"
               /\ file[f].purpose = "DEPOSIT" => f \notin expired
ReadableEvidenceStored == \A f \in Files : Readable(f) => f \in object

(* Evidence a decision rests on belongs to it alone and can be looked at.  *)
EvidenceInOrder == EvidenceServesOneRequest /\ ReadableEvidenceStored

(* A deposit credits what its recorded rate makes of the taka sent,        *)
(* whatever the rate has become since.                                     *)
CreditsWhatWasQuoted ==
  [][\A d \in Deposits :
       deposit[d].status = "PENDING_REVIEW" /\ deposit'[d].status = "CREDITED" =>
         wallet'[RealAccount(d[1])].available - wallet[RealAccount(d[1])].available
           = UsdFromDeposit(deposit[d].bdt, deposit[d].rate)]_vars
=============================================================================

--------------------------- MODULE Funding_proofs ---------------------------
(***************************************************************************)
(* Funding's invariants, for any users, operators, amounts, rates and      *)
(* files, in both modes.  Money, reviews and evidence lean on each other   *)
(* in few places only, and the inductive invariant is in these parts: the  *)
(* money part needs the types of the requests; the reviews need that a     *)
(* review under way was started by somebody; the evidence needs that files *)
(* which serve a request or have expired have a row.                       *)
(***************************************************************************)
EXTENDS Funding, Ledger_proofs

USE FundingAssumption

-----------------------------------------------------------------------------
(* A review under way has been started by an operator.                     *)
ReviewsStarted ==
  \A w \in Withdrawals :
    withdrawal[w].status = "UNDER_REVIEW" => withdrawal[w].reviewStartedBy # Nobody

(* Rows of files in use, and of expired ones, exist.                       *)
EvidenceRecorded ==
  /\ \A d \in Deposits : deposit[d] # NoRequest /\ deposit[d].file # NoFile =>
       file[deposit[d].file] # NoRow
  /\ \A w \in Withdrawals : withdrawal[w] # NoRequest /\ withdrawal[w].file # NoFile =>
       file[withdrawal[w].file] # NoRow
  /\ \A f \in expired : file[f] # NoRow

(* A deposit's dollars are its taka at its recorded rate.                  *)
QuotesRecorded ==
  \A d \in Deposits : deposit[d] # NoRequest =>
    deposit[d].usd = UsdFromDeposit(deposit[d].bdt, deposit[d].rate)

MoneyInv == CustomerFundsInOrder /\ RequestsMatchBooks
ReviewInv == IndependentOperators /\ ReviewsStarted
EvidenceInv == EvidenceInOrder /\ EvidenceRecorded

IInv == FundingTypeOK /\ MoneyInv /\ ReviewInv /\ EvidenceInv /\ QuotesRecorded

-----------------------------------------------------------------------------
(* The requests of a customer, and of all, are finitely many.              *)
LEMMA RequestsFinite ==
  /\ IsFiniteSet(Deposits) /\ IsFiniteSet(Withdrawals)
  /\ \A u \in Users : IsFiniteSet(WithdrawalsOf(u)) /\ WithdrawalsOf(u) \subseteq Withdrawals
<1>1. IsFiniteSet(Deposits) /\ IsFiniteSet(Withdrawals)
  BY UsersAssumption, FS_Product DEF Deposits, Withdrawals
<1>2. ASSUME NEW u \in Users PROVE IsFiniteSet(WithdrawalsOf(u))
  BY FS_Singleton, FS_Product DEF WithdrawalsOf
<1> QED BY <1>1, <1>2 DEF WithdrawalsOf, Withdrawals

(* A request is a record of its table or there is none.                    *)
LEMMA DepositRow ==
  ASSUME FundingTypeOK, NEW d \in Deposits
  PROVE  /\ deposit[d] \in DepositRecords \cup {NoRequest}
         /\ deposit[d] # NoRequest <=> deposit[d] \in DepositRecords
         /\ deposit[d].status # "NONE" => deposit[d] \in DepositRecords
         /\ Credited(d) \in Nat
<1>1. deposit[d] \in DepositRecords \cup {NoRequest}
  BY DEF FundingTypeOK
<1>2. NoRequest.status = "NONE" /\ \A r \in DepositRecords : r.status # "NONE"
  BY DEF NoRequest, DepositRecords
<1>3. Credited(d) \in Nat
  <2>1. CASE deposit[d] \in DepositRecords
    BY <2>1 DEF Credited, DepositRecords
  <2>2. CASE deposit[d] = NoRequest
    BY <2>2, <1>2 DEF Credited
  <2> QED BY <1>1, <2>1, <2>2
<1> QED BY <1>1, <1>2, <1>3

LEMMA WithdrawalRow ==
  ASSUME FundingTypeOK, NEW w \in Withdrawals
  PROVE  /\ withdrawal[w] \in WithdrawalRecords \cup {NoRequest}
         /\ withdrawal[w] # NoRequest <=> withdrawal[w] \in WithdrawalRecords
         /\ withdrawal[w].status # "NONE" => withdrawal[w] \in WithdrawalRecords
         /\ withdrawal[w] \in WithdrawalRecords =>
              withdrawal[w].usd \in Nat /\ withdrawal[w].usd > 0
         /\ Outstanding(w) \in Nat /\ Paid(w) \in Nat
<1>1. withdrawal[w] \in WithdrawalRecords \cup {NoRequest}
  BY DEF FundingTypeOK
<1>2. NoRequest.status = "NONE" /\ \A r \in WithdrawalRecords : r.status # "NONE"
  BY DEF NoRequest, WithdrawalRecords, OpenWithdrawal
<1>3. withdrawal[w] \in WithdrawalRecords =>
        withdrawal[w].usd \in Nat /\ withdrawal[w].usd > 0
  <2>1. withdrawal[w] \in WithdrawalRecords => withdrawal[w].usd \in UsdAmounts
    BY DEF WithdrawalRecords
  <2>2. \A usd \in UsdAmounts : usd \in Nat /\ usd > 0
    OBVIOUS
  <2> QED BY <2>1, <2>2
<1>4. Outstanding(w) \in Nat /\ Paid(w) \in Nat
  <2>1. CASE withdrawal[w] \in WithdrawalRecords
    BY <1>3, <2>1 DEF Outstanding, Paid
  <2>2. CASE withdrawal[w] = NoRequest
    BY <2>2, <1>2 DEF Outstanding, Paid, OpenWithdrawal
  <2> QED BY <1>1, <2>1, <2>2
<1> QED BY <1>1, <1>2, <1>3, <1>4

(* The cash account is in the chart, and a customer's real account is one  *)
(* of the accounts.                                                        *)
LEMMA RealMoney ==
  /\ Control("REAL") \in LedgerAccounts
  /\ \A u \in Users : RealAccount(u) \in Accounts /\ ModeOf(RealAccount(u)) = "REAL"
<1>1. Control("REAL") \in ChartOf("REAL") /\ "REAL" \in Modes
  BY DEF ChartOf, PlatformAccounts, Modes
<1>2. Control("REAL") \in LedgerAccounts
  BY <1>1, Charts
<1> QED BY <1>2 DEF RealAccount, Accounts, Modes, ModeOf

-----------------------------------------------------------------------------
(* A step that changes one withdrawal, and its owner's locked funds by as  *)
(* much, keeps locked funds backing withdrawals.                           *)
LEMMA BackingMoves ==
  ASSUME FundingTypeOK, FundingTypeOK', LockedBacksWithdrawals, NEW w \in Withdrawals,
         \A v \in Withdrawals \ {w} : withdrawal'[v] = withdrawal[v],
         \A u \in Users \ {w[1]} : wallet'[RealAccount(u)].locked = wallet[RealAccount(u)].locked,
         wallet'[RealAccount(w[1])].locked =
           wallet[RealAccount(w[1])].locked + (Outstanding(w)' - Outstanding(w))
  PROVE  LockedBacksWithdrawals'
<1> DEFINE f == [v \in Withdrawals |-> Outstanding(v)]
           e == [v \in Withdrawals |-> Outstanding(v)']
<1>1. \A v \in Withdrawals : f[v] \in Int /\ e[v] \in Int
  <2>1. ASSUME NEW v \in Withdrawals PROVE Outstanding(v)' \in Nat
    <3>1. withdrawal'[v] \in WithdrawalRecords \cup {NoRequest}
      BY DEF FundingTypeOK
    <3>2. \A r \in WithdrawalRecords : r.usd \in UsdAmounts
      BY DEF WithdrawalRecords
    <3>3. \A usd \in UsdAmounts : usd \in Nat
      OBVIOUS
    <3>4. CASE withdrawal'[v] \in WithdrawalRecords
      BY <3>2, <3>3, <3>4 DEF Outstanding
    <3>5. CASE withdrawal'[v] = NoRequest
      BY <3>5 DEF Outstanding, NoRequest, OpenWithdrawal
    <3> QED BY <3>1, <3>4, <3>5
  <2>2. \A v \in Withdrawals : Outstanding(v) \in Nat
    BY WithdrawalRow
  <2> QED BY <2>1, <2>2
<1>2. \A v \in Withdrawals \ {w} : e[v] = f[v]
  BY DEF Outstanding
<1>3. \A u \in Users : wallet[RealAccount(u)].locked = SumFunctionOnSet(f, WithdrawalsOf(u))
  BY DEF LockedBacksWithdrawals
<1>4. w[1] \in Users /\ w \in WithdrawalsOf(w[1])
  BY DEF Withdrawals, WithdrawalsOf
<1>5. e[w] = Outstanding(w)' /\ f[w] = Outstanding(w)
  OBVIOUS
<1>6. ASSUME NEW u \in Users
      PROVE  wallet'[RealAccount(u)].locked = SumFunctionOnSet(e, WithdrawalsOf(u))
  <2> HIDE DEF e, f
  <2>1. IsFiniteSet(WithdrawalsOf(u)) /\ \A v \in WithdrawalsOf(u) : v \in Withdrawals
    BY RequestsFinite
  <2>2. CASE u = w[1]
    <3>1. SumFunctionOnSet(e, WithdrawalsOf(u))
            = SumFunctionOnSet(f, WithdrawalsOf(u)) + (e[w] - f[w])
      BY <1>1, <1>2, <1>4, <2>1, <2>2, SumChangeOne
    <3> QED BY <1>3, <1>5, <2>2, <3>1
  <2>3. CASE u # w[1]
    <3>1. w \notin WithdrawalsOf(u)
      BY <2>3 DEF WithdrawalsOf
    <3>2. SumFunctionOnSet(e, WithdrawalsOf(u)) = SumFunctionOnSet(f, WithdrawalsOf(u))
      BY <1>1, <1>2, <2>1, <3>1, SumSame
    <3> QED BY <1>3, <2>3, <3>2
  <2> QED BY <2>2, <2>3
<1> QED BY <1>6 DEF LockedBacksWithdrawals, WithdrawalsOf, Withdrawals, RealAccount

(* A step that changes one deposit, and the cash by what it credits.       *)
LEMMA DepositCash ==
  ASSUME FundingTypeOK, CashMatchesRequests, NEW d \in Deposits, withdrawal' = withdrawal,
         \A e \in Deposits \ {d} : deposit'[e] = deposit[e], Credited(d)' \in Int,
         balance'[Control("REAL")] = balance[Control("REAL")] - (Credited(d)' - Credited(d))
  PROVE  CashMatchesRequests'
<1> DEFINE f == [x \in Deposits |-> Credited(x)]
           e == [x \in Deposits |-> Credited(x)']
           p == [w \in Withdrawals |-> Paid(w)]
<1>1. \A x \in Deposits \ {d} : e[x] = f[x]
  BY DEF Credited
<1>2. \A x \in Deposits : f[x] \in Int
  BY DepositRow
<1>3. \A x \in Deposits : e[x] \in Int
  <2>1. e[d] = Credited(d)'
    OBVIOUS
  <2> QED BY <1>1, <1>2, <2>1
<1>4. IsFiniteSet(Deposits)
  BY RequestsFinite
<1>5. SumFunctionOnSet(e, Deposits) = SumFunctionOnSet(f, Deposits) + (e[d] - f[d])
  <2> HIDE DEF e, f
  <2> QED BY <1>1, <1>2, <1>3, <1>4, SumChangeOne
<1>6. e[d] = Credited(d)' /\ f[d] = Credited(d)
  OBVIOUS
<1>7. SumFunctionOnSet(f, Deposits) \in Int /\ SumFunctionOnSet(p, Withdrawals) \in Int
  <2>1. \A w \in Withdrawals : p[w] \in Int
    BY WithdrawalRow
  <2>2. IsFiniteSet(Withdrawals)
    BY RequestsFinite
  <2> HIDE DEF f, p
  <2> QED BY <1>2, <1>4, <2>1, <2>2, SumInt
<1>8. balance[Control("REAL")] = SumFunctionOnSet(p, Withdrawals) - SumFunctionOnSet(f, Deposits)
  BY DEF CashMatchesRequests
<1>9. balance'[Control("REAL")] = SumFunctionOnSet(p, Withdrawals) - SumFunctionOnSet(e, Deposits)
  <2>1. e[d] \in Int /\ f[d] \in Int
    BY <1>2, <1>3
  <2> HIDE DEF e, f, p
  <2> QED BY <1>5, <1>6, <1>7, <1>8, <2>1
<1>10. p = [w \in Withdrawals |-> Paid(w)']
  BY DEF Paid
<1> QED BY <1>9, <1>10 DEF CashMatchesRequests, Control, Deposits, Withdrawals

(* A step that changes one withdrawal, and the cash by what it pays.       *)
LEMMA WithdrawalCash ==
  ASSUME FundingTypeOK, CashMatchesRequests, NEW w \in Withdrawals, deposit' = deposit,
         \A v \in Withdrawals \ {w} : withdrawal'[v] = withdrawal[v], Paid(w)' \in Int,
         balance'[Control("REAL")] = balance[Control("REAL")] + (Paid(w)' - Paid(w))
  PROVE  CashMatchesRequests'
<1> DEFINE f == [v \in Withdrawals |-> Paid(v)]
           e == [v \in Withdrawals |-> Paid(v)']
           c == [d \in Deposits |-> Credited(d)]
<1>1. \A v \in Withdrawals \ {w} : e[v] = f[v]
  BY DEF Paid
<1>2. \A v \in Withdrawals : f[v] \in Int
  BY WithdrawalRow
<1>3. \A v \in Withdrawals : e[v] \in Int
  <2>1. e[w] = Paid(w)'
    OBVIOUS
  <2> QED BY <1>1, <1>2, <2>1
<1>4. IsFiniteSet(Withdrawals)
  BY RequestsFinite
<1>5. SumFunctionOnSet(e, Withdrawals) = SumFunctionOnSet(f, Withdrawals) + (e[w] - f[w])
  <2> HIDE DEF e, f
  <2> QED BY <1>1, <1>2, <1>3, <1>4, SumChangeOne
<1>6. e[w] = Paid(w)' /\ f[w] = Paid(w)
  OBVIOUS
<1>7. SumFunctionOnSet(f, Withdrawals) \in Int /\ SumFunctionOnSet(c, Deposits) \in Int
  <2>1. \A d \in Deposits : c[d] \in Int
    BY DepositRow
  <2>2. IsFiniteSet(Deposits)
    BY RequestsFinite
  <2> HIDE DEF f, c
  <2> QED BY <1>2, <1>4, <2>1, <2>2, SumInt
<1>8. balance[Control("REAL")] = SumFunctionOnSet(f, Withdrawals) - SumFunctionOnSet(c, Deposits)
  BY DEF CashMatchesRequests
<1>9. balance'[Control("REAL")] = SumFunctionOnSet(e, Withdrawals) - SumFunctionOnSet(c, Deposits)
  <2>1. e[w] \in Int /\ f[w] \in Int
    BY <1>2, <1>3
  <2> HIDE DEF e, f, c
  <2> QED BY <1>5, <1>6, <1>7, <1>8, <2>1
<1>10. c = [d \in Deposits |-> Credited(d)']
  BY DEF Credited
<1> QED BY <1>9, <1>10 DEF CashMatchesRequests, Control, Deposits, Withdrawals

(* What the money part tells apart of a request.                           *)
SameMoneyDeposit(d) ==
  /\ deposit'[d].status = "CREDITED" <=> deposit[d].status = "CREDITED"
  /\ deposit[d].status = "CREDITED" => deposit'[d].usd = deposit[d].usd

SameMoneyWithdrawal(w) ==
  /\ withdrawal'[w] = NoRequest <=> withdrawal[w] = NoRequest
  /\ withdrawal'[w].status \in OpenWithdrawal <=> withdrawal[w].status \in OpenWithdrawal
  /\ withdrawal'[w].status = "PAID" <=> withdrawal[w].status = "PAID"
  /\ withdrawal'[w].status \in {"REJECTED", "CANCELLED"}
       <=> withdrawal[w].status \in {"REJECTED", "CANCELLED"}
  /\ withdrawal[w].status \in OpenWithdrawal \cup {"PAID"} =>
       withdrawal'[w].usd = withdrawal[w].usd

(* A step that moves no money and leaves every request where it was with   *)
(* regard to it keeps the money part.                                      *)
LEMMA MoneyStays ==
  ASSUME MoneyInv, UNCHANGED <<wallet, balance, posted>>,
         \A d \in Deposits : SameMoneyDeposit(d),
         \A w \in Withdrawals : SameMoneyWithdrawal(w)
  PROVE  MoneyInv'
<1>1. BooksInOrder'
  BY DEF MoneyInv, CustomerFundsInOrder, BooksInOrder, ProjectionsReconcile, ModesConserve,
         NoOverdraft
<1>2. /\ \A w \in Withdrawals : Outstanding(w)' = Outstanding(w) /\ Paid(w)' = Paid(w)
      /\ \A d \in Deposits : Credited(d)' = Credited(d)
  BY DEF SameMoneyDeposit, SameMoneyWithdrawal, Outstanding, Paid, Credited
<1>3. LockedBacksWithdrawals'
  <2>1. [w \in Withdrawals |-> Outstanding(w)]' = [w \in Withdrawals |-> Outstanding(w)]
    BY <1>2 DEF Withdrawals
  <2> QED BY <2>1 DEF MoneyInv, CustomerFundsInOrder, LockedBacksWithdrawals, WithdrawalsOf,
                      RealAccount
<1>4. CashMatchesRequests'
  <2>1. [w \in Withdrawals |-> Paid(w)]' = [w \in Withdrawals |-> Paid(w)]
    BY <1>2 DEF Withdrawals
  <2>2. [d \in Deposits |-> Credited(d)]' = [d \in Deposits |-> Credited(d)]
    BY <1>2 DEF Deposits
  <2> QED BY <2>1, <2>2 DEF MoneyInv, RequestsMatchBooks, CashMatchesRequests, Control,
                            Deposits, Withdrawals
<1>5. JournalsMatchRequests'
  BY DEF MoneyInv, RequestsMatchBooks, JournalsMatchRequests, SameMoneyDeposit,
         SameMoneyWithdrawal
<1> QED BY <1>1, <1>3, <1>4, <1>5 DEF MoneyInv, CustomerFundsInOrder, RequestsMatchBooks

-----------------------------------------------------------------------------
(* A file's row is a record of its table or there is none.                 *)
LEMMA FileRow ==
  ASSUME FundingTypeOK, NEW f \in Files
  PROVE  /\ file[f] \in FileRecords \cup {NoRow}
         /\ file[f] # NoRow <=> file[f] \in FileRecords
         /\ file[f].status # "NONE" <=> file[f] \in FileRecords
<1>1. file[f] \in FileRecords \cup {NoRow}
  BY DEF FundingTypeOK
<1>2. NoRow.status = "NONE" /\ \A r \in FileRecords : r.status # "NONE"
  BY DEF NoRow, FileRecords
<1> QED BY <1>1, <1>2

(* The files requests refer to are files.                                  *)
LEMMA ReferredFiles ==
  ASSUME FundingTypeOK
  PROVE  /\ \A d \in Deposits : deposit[d] # NoRequest /\ deposit[d].file # NoFile =>
              deposit[d].file \in Files
         /\ \A w \in Withdrawals : withdrawal[w] # NoRequest /\ withdrawal[w].file # NoFile =>
              withdrawal[w].file \in Files
<1>1. ASSUME NEW d \in Deposits, deposit[d] # NoRequest, deposit[d].file # NoFile
      PROVE  deposit[d].file \in Files
  BY <1>1, DepositRow DEF DepositRecords
<1>2. ASSUME NEW w \in Withdrawals, withdrawal[w] # NoRequest, withdrawal[w].file # NoFile
      PROVE  withdrawal[w].file \in Files
  BY <1>2, WithdrawalRow DEF WithdrawalRecords
<1> QED BY <1>1, <1>2

(* A claim is written on a row that exists and has none; nothing else of   *)
(* any file changes.                                                       *)
Claims == ({"deposit"} \X Deposits) \cup ({"withdrawal"} \X Withdrawals)

LEMMA Claimed ==
  ASSUME FundingTypeOK, NEW f \in Files \cup {NoFile}, NEW claim \in Claims,
         ClaimFile(f, claim)
  PROVE  /\ file' \in [Files -> FileRecords \cup {NoRow}]
         /\ \A g \in Files :
              /\ file'[g] = NoRow <=> file[g] = NoRow
              /\ file'[g].status = file[g].status
              /\ file[g] # NoRow => /\ file'[g].owner = file[g].owner
                                    /\ file'[g].purpose = file[g].purpose
              /\ file[g] # NoRow /\ file[g].claimedBy # NoClaim =>
                   file'[g].claimedBy = file[g].claimedBy
         /\ f # NoFile => f \in Files /\ file[f] # NoRow /\ file'[f].claimedBy = claim
<1>1. CASE f = NoFile
  <2>1. file' = file
    BY <1>1 DEF ClaimFile
  <2> QED BY <1>1, <2>1 DEF FundingTypeOK
<1>2. CASE f # NoFile
  <2>1. /\ file[f] # NoRow /\ file[f].claimedBy = NoClaim
        /\ file' = [file EXCEPT ![f].claimedBy = claim]
    BY <1>2 DEF ClaimFile
  <2>2. file[f] \in FileRecords /\ f \in Files
    BY <1>2, <2>1, FileRow
  <2>3. file \in [Files -> FileRecords \cup {NoRow}]
    BY DEF FundingTypeOK
  <2> DEFINE r == [file[f] EXCEPT !.claimedBy = claim]
  <2>4. /\ r \in FileRecords /\ r.claimedBy = claim
        /\ r.status = file[f].status /\ r.owner = file[f].owner /\ r.purpose = file[f].purpose
    BY <2>2 DEF FileRecords, Claims
  <2>5. file' = [file EXCEPT ![f] = r]
    BY <2>1
  <2> HIDE DEF r
  <2>6. r # NoRow
    BY <2>4 DEF FileRecords, NoRow
  <2>7. file'[f] = r /\ \A g \in Files \ {f} : file'[g] = file[g]
    BY <2>2, <2>3, <2>5
  <2>8. file' \in [Files -> FileRecords \cup {NoRow}]
    BY <2>3, <2>4, <2>5
  <2> QED BY <2>1, <2>2, <2>4, <2>6, <2>7, <2>8
<1> QED BY <1>1, <1>2

(* A step of the files alone that forgets no row, claim or owner and       *)
(* leaves what is readable stored keeps the evidence part.                 *)
LEMMA FilesKept ==
  ASSUME FundingTypeOK, EvidenceInv, UNCHANGED <<deposit, withdrawal, isVirtual>>,
         \A f \in Files : file[f] # NoRow =>
           /\ file'[f] # NoRow
           /\ file'[f].claimedBy = file[f].claimedBy
           /\ file'[f].owner = file[f].owner,
         ReadableEvidenceStored',
         \A f \in expired' : file'[f] # NoRow
  PROVE  EvidenceInv'
<1> USE DEF EvidenceInv, EvidenceInOrder, EvidenceRecorded
<1>1. EvidenceRecorded'
  BY ReferredFiles DEF Deposits, Withdrawals
<1>2. ASSUME NEW d \in Deposits, deposit'[d] # NoRequest, deposit'[d].file # NoFile
      PROVE  file'[deposit'[d].file].claimedBy = <<"deposit", d>>
  BY <1>2, ReferredFiles DEF EvidenceServesOneRequest
<1>3. ASSUME NEW w \in Withdrawals, withdrawal'[w] # NoRequest, withdrawal'[w].file # NoFile
      PROVE  file'[withdrawal'[w].file].claimedBy = <<"withdrawal", w>>
  BY <1>3, ReferredFiles DEF EvidenceServesOneRequest
<1>4. ASSUME ~isVirtual', NEW w \in Withdrawals, withdrawal'[w].status = "PAID"
      PROVE  /\ withdrawal'[w].file # NoFile
             /\ file'[withdrawal'[w].file].owner = withdrawal'[w].reviewedBy
  <2>1. withdrawal[w] # NoRequest
    BY <1>4 DEF NoRequest
  <2> QED BY <1>4, <2>1, ReferredFiles DEF EvidenceServesOneRequest
<1>5. EvidenceServesOneRequest'
  BY <1>2, <1>3, <1>4 DEF EvidenceServesOneRequest, Deposits, Withdrawals
<1> QED BY <1>1, <1>5

(* What the evidence part tells apart of a request.                        *)
SameFiles ==
  /\ \A d \in Deposits : /\ deposit'[d] = NoRequest <=> deposit[d] = NoRequest
                         /\ deposit[d] # NoRequest => deposit'[d].file = deposit[d].file
  /\ \A w \in Withdrawals :
       /\ withdrawal'[w] = NoRequest <=> withdrawal[w] = NoRequest
       /\ withdrawal[w] # NoRequest => withdrawal'[w].file = withdrawal[w].file
       /\ withdrawal'[w].status = "PAID" =>
            /\ withdrawal[w].status = "PAID"
            /\ withdrawal'[w].reviewedBy = withdrawal[w].reviewedBy

(* A step that leaves the files alone, and every request with its own.     *)
LEMMA EvidenceStays ==
  ASSUME EvidenceInv, UNCHANGED <<file, object, expired, isVirtual>>, SameFiles
  PROVE  EvidenceInv'
<1> USE DEF EvidenceInv, EvidenceInOrder, EvidenceRecorded, SameFiles
<1>1. EvidenceRecorded'
  BY DEF Deposits, Withdrawals
<1>2. ReadableEvidenceStored'
  BY DEF ReadableEvidenceStored, Readable
<1>3. ASSUME NEW d \in Deposits, deposit'[d] # NoRequest, deposit'[d].file # NoFile
      PROVE  file'[deposit'[d].file].claimedBy = <<"deposit", d>>
  BY <1>3 DEF EvidenceServesOneRequest
<1>4. ASSUME NEW w \in Withdrawals, withdrawal'[w] # NoRequest, withdrawal'[w].file # NoFile
      PROVE  file'[withdrawal'[w].file].claimedBy = <<"withdrawal", w>>
  BY <1>4 DEF EvidenceServesOneRequest
<1>5. ASSUME ~isVirtual', NEW w \in Withdrawals, withdrawal'[w].status = "PAID"
      PROVE  /\ withdrawal'[w].file # NoFile
             /\ file'[withdrawal'[w].file].owner = withdrawal'[w].reviewedBy
  <2>1. withdrawal[w] # NoRequest
    BY <1>5 DEF NoRequest
  <2> QED BY <1>5, <2>1 DEF EvidenceServesOneRequest
<1>6. EvidenceServesOneRequest'
  BY <1>3, <1>4, <1>5 DEF EvidenceServesOneRequest, Deposits, Withdrawals
<1> QED BY <1>1, <1>2, <1>6

-----------------------------------------------------------------------------
(* What an operator does to a deposit, apart from the money.               *)
LEMMA DepositDecided ==
  ASSUME IInv, NEW d \in Deposits, NEW r \in DepositRecords,
         deposit[d].status = "PENDING_REVIEW",
         r.file = deposit[d].file, r.usd = deposit[d].usd,
         r.bdt = deposit[d].bdt, r.rate = deposit[d].rate,
         ~isVirtual /\ r.status = "CREDITED" => r.verifiedBy \notin {Nobody, r.reviewedBy},
         deposit' = [deposit EXCEPT ![d] = r],
         UNCHANGED <<withdrawal, file, object, expired, open, rates, isVirtual>>,
         LedgerTypeOK'
  PROVE  /\ FundingTypeOK' /\ ReviewInv' /\ EvidenceInv' /\ QuotesRecorded'
         /\ deposit'[d] = r /\ \A e \in Deposits \ {d} : deposit'[e] = deposit[e]
<1>1. FundingTypeOK
  BY DEF IInv
<1>2. deposit \in [Deposits -> DepositRecords \cup {NoRequest}]
  BY <1>1 DEF FundingTypeOK
<1>3. deposit'[d] = r /\ \A e \in Deposits \ {d} : deposit'[e] = deposit[e]
  BY <1>2
<1>4. deposit[d] # NoRequest /\ r # NoRequest
  BY DEF NoRequest, DepositRecords
<1>5. FundingTypeOK'
  <2>1. deposit' \in [Deposits -> DepositRecords \cup {NoRequest}]
    BY <1>2
  <2> QED BY <1>1, <2>1 DEF FundingTypeOK
<1>6. ReviewInv'
  BY <1>3 DEF IInv, ReviewInv, IndependentOperators, ReviewsStarted, Deposits, Withdrawals
<1>7. SameFiles
  BY <1>3, <1>4 DEF SameFiles
<1>8. EvidenceInv'
  BY <1>7, EvidenceStays DEF IInv
<1>9. QuotesRecorded'
  BY <1>3, <1>4 DEF IInv, QuotesRecorded, UsdFromDeposit, Deposits
<1> QED BY <1>3, <1>5, <1>6, <1>8, <1>9

LEMMA VerifyDepositInv ==
  ASSUME IInv, UNCHANGED isVirtual, NEW d \in Deposits, NEW admin \in Admins,
         VerifyDeposit(d, admin)
  PROVE  IInv'
<1> DEFINE r == [deposit[d] EXCEPT !.verifiedBy = admin]
<1>1. /\ deposit[d].status = "PENDING_REVIEW"
      /\ deposit' = [deposit EXCEPT ![d] = r]
      /\ UNCHANGED <<wallet, balance, posted, withdrawal, file, object, expired, open, rates>>
  BY DEF VerifyDeposit, ledgerVars
<1>2. deposit[d] \in DepositRecords
  BY <1>1, DepositRow DEF IInv
<1>3. /\ r \in DepositRecords /\ r.status = "PENDING_REVIEW"
      /\ r.file = deposit[d].file /\ r.usd = deposit[d].usd
      /\ r.bdt = deposit[d].bdt /\ r.rate = deposit[d].rate
  BY <1>1, <1>2 DEF DepositRecords
<1> HIDE DEF r
<1>4. LedgerTypeOK'
  BY <1>1 DEF IInv, FundingTypeOK, LedgerTypeOK
<1>5. /\ FundingTypeOK' /\ ReviewInv' /\ EvidenceInv' /\ QuotesRecorded'
      /\ deposit'[d] = r /\ \A e \in Deposits \ {d} : deposit'[e] = deposit[e]
  BY <1>1, <1>3, <1>4, DepositDecided
<1>6. MoneyInv'
  <2>1. \A e \in Deposits : SameMoneyDeposit(e)
    BY <1>1, <1>3, <1>5 DEF SameMoneyDeposit
  <2>2. \A w \in Withdrawals : SameMoneyWithdrawal(w)
    BY <1>1 DEF SameMoneyWithdrawal
  <2> QED BY <1>1, <2>1, <2>2, MoneyStays DEF IInv
<1> QED BY <1>5, <1>6 DEF IInv

LEMMA RejectDepositInv ==
  ASSUME IInv, UNCHANGED isVirtual, NEW d \in Deposits, NEW admin \in Admins,
         RejectDeposit(d, admin)
  PROVE  IInv'
<1> DEFINE r == [deposit[d] EXCEPT !.status = "REJECTED", !.reviewedBy = admin]
<1>1. /\ deposit[d].status = "PENDING_REVIEW"
      /\ deposit' = [deposit EXCEPT ![d] = r]
      /\ UNCHANGED <<wallet, balance, posted, withdrawal, file, object, expired, open, rates>>
  BY DEF RejectDeposit, Decide, ledgerVars
<1>2. deposit[d] \in DepositRecords
  BY <1>1, DepositRow DEF IInv
<1>3. /\ r \in DepositRecords /\ r.status = "REJECTED"
      /\ r.file = deposit[d].file /\ r.usd = deposit[d].usd
      /\ r.bdt = deposit[d].bdt /\ r.rate = deposit[d].rate
  BY <1>1, <1>2 DEF DepositRecords
<1> HIDE DEF r
<1>4. LedgerTypeOK'
  BY <1>1 DEF IInv, FundingTypeOK, LedgerTypeOK
<1>5. /\ FundingTypeOK' /\ ReviewInv' /\ EvidenceInv' /\ QuotesRecorded'
      /\ deposit'[d] = r /\ \A e \in Deposits \ {d} : deposit'[e] = deposit[e]
  BY <1>1, <1>3, <1>4, DepositDecided
<1>6. MoneyInv'
  <2>1. \A e \in Deposits : SameMoneyDeposit(e)
    BY <1>1, <1>3, <1>5 DEF SameMoneyDeposit
  <2>2. \A w \in Withdrawals : SameMoneyWithdrawal(w)
    BY <1>1 DEF SameMoneyWithdrawal
  <2> QED BY <1>1, <2>1, <2>2, MoneyStays DEF IInv
<1> QED BY <1>5, <1>6 DEF IInv

(* The credit: the one step that brings money in.                          *)
LEMMA CreditDepositInv ==
  ASSUME IInv, UNCHANGED isVirtual, NEW d \in Deposits, NEW admin \in Admins,
         CreditDeposit(d, admin)
  PROVE  IInv'
<1> DEFINE r == [deposit[d] EXCEPT !.status = "CREDITED", !.reviewedBy = admin]
           a == RealAccount(d[1])
           usd == deposit[d].usd
           journal == CreditJournal(d)
<1>1. /\ deposit[d].status = "PENDING_REVIEW"
      /\ ~isVirtual => deposit[d].verifiedBy \notin {Nobody, admin}
      /\ Post(<<"deposit-credit", d>>, journal)
      /\ MoveWallet(a, usd, 0)
      /\ deposit' = [deposit EXCEPT ![d] = r]
      /\ UNCHANGED <<withdrawal, file, object, expired, open, rates>>
  BY DEF CreditDeposit, Decide
<1>2. FundingTypeOK /\ LedgerTypeOK
  BY DEF IInv, FundingTypeOK
<1>3. deposit[d] \in DepositRecords /\ usd \in Nat /\ usd > 0
  BY <1>1, <1>2, DepositRow DEF DepositRecords
<1>4. /\ r \in DepositRecords /\ r.status = "CREDITED"
      /\ r.file = deposit[d].file /\ r.usd = deposit[d].usd
      /\ r.bdt = deposit[d].bdt /\ r.rate = deposit[d].rate
      /\ r.verifiedBy = deposit[d].verifiedBy /\ r.reviewedBy = admin
  BY <1>1, <1>3 DEF DepositRecords
<1>5. a \in Accounts /\ ModeOf(a) = "REAL" /\ d[1] \in Users
  BY RealMoney DEF Deposits
<1>6. /\ DOMAIN journal = {Control("REAL"), Available(a)}
      /\ journal[Control("REAL")] = -usd
      /\ journal[Available(a)] = usd
  <2>1. Available(a) # Control("REAL")
    BY <1>5, DistinctLines
  <2> HIDE DEF a
  <2>2. journal = Debit(Control("REAL"), usd) ++ Credit(Available(a), usd)
    BY DEF CreditJournal, a
  <2> HIDE DEF journal, usd
  <2> QED BY <2>1, <2>2 DEF Debit, Credit, ++
<1> HIDE DEF r, a, usd, journal
<1>7. usd \in Int /\ -usd \in Int
  BY <1>3
<1>8. LedgerTypeOK' /\ ProjectionsReconcile' /\ ModesConserve'
  <2>1. \A l \in DOMAIN journal : journal[l] \in Int
    BY <1>6, <1>7
  <2>2. /\ Locked(a) \notin DOMAIN journal
        /\ DOMAIN journal \subseteq {Available(a), Locked(a)} \cup PlatformAccounts(ModeOf(a))
    BY <1>5, <1>6, DistinctLines
  <2>3. ProjectionsReconcile /\ ModesConserve
    BY DEF IInv, MoneyInv, CustomerFundsInOrder, BooksInOrder
  <2> QED BY <1>1, <1>2, <1>5, <1>6, <1>7, <2>1, <2>2, <2>3, BooksKept
<1>9. /\ FundingTypeOK' /\ ReviewInv' /\ EvidenceInv' /\ QuotesRecorded'
      /\ deposit'[d] = r /\ \A e \in Deposits \ {d} : deposit'[e] = deposit[e]
  BY <1>1, <1>4, <1>8, DepositDecided
<1>10. /\ wallet'[a].available = wallet[a].available + usd
       /\ wallet'[a].locked = wallet[a].locked
       /\ \A b \in Accounts \ {a} : wallet'[b] = wallet[b]
       /\ \A b \in Accounts : wallet[b].available \in Int /\ wallet[b].locked \in Int
  BY <1>1, <1>2, <1>5, <1>7, MovedWallet
<1>11. NoOverdraft'
  BY <1>3, <1>10 DEF IInv, MoneyInv, CustomerFundsInOrder, BooksInOrder, NoOverdraft
<1>12. LockedBacksWithdrawals'
  <2>1. \A u \in Users : wallet'[RealAccount(u)].locked = wallet[RealAccount(u)].locked
    BY <1>5, <1>10, RealMoney
  <2>2. [w \in Withdrawals |-> Outstanding(w)]' = [w \in Withdrawals |-> Outstanding(w)]
    BY <1>1 DEF Withdrawals, Outstanding
  <2> QED BY <2>1, <2>2 DEF IInv, MoneyInv, CustomerFundsInOrder, LockedBacksWithdrawals,
                            WithdrawalsOf, RealAccount
<1>13. CashMatchesRequests'
  <2>1. Credited(d)' = usd /\ Credited(d) = 0
    BY <1>1, <1>4, <1>9 DEF Credited, usd
  <2>2. balance'[Control("REAL")] = balance[Control("REAL")] + (-usd)
    BY <1>1, <1>6, RealMoney DEF Post
  <2>3. balance[Control("REAL")] \in Int
    BY <1>2, RealMoney DEF LedgerTypeOK
  <2>4. balance'[Control("REAL")] = balance[Control("REAL")] - (Credited(d)' - Credited(d))
    BY <1>7, <2>1, <2>2, <2>3
  <2> QED BY <1>1, <1>2, <1>7, <1>9, <2>1, <2>4, DepositCash
             DEF IInv, MoneyInv, RequestsMatchBooks
<1>14. JournalsMatchRequests'
  <2>1. posted' = posted \cup {<<"deposit-credit", d>>}
    BY <1>1 DEF Post
  <2> QED BY <1>1, <1>4, <1>9, <2>1 DEF IInv, MoneyInv, RequestsMatchBooks,
                                      JournalsMatchRequests, Deposits, Withdrawals
<1> QED BY <1>8, <1>9, <1>11, <1>12, <1>13, <1>14
        DEF IInv, MoneyInv, CustomerFundsInOrder, RequestsMatchBooks, BooksInOrder

-----------------------------------------------------------------------------
(* A claim takes no file from a request that has it.                       *)
LEMMA OldClaimsHold ==
  ASSUME FundingTypeOK, EvidenceInv, NEW f \in Files \cup {NoFile}, NEW claim \in Claims,
         ClaimFile(f, claim), UNCHANGED <<object, expired>>
  PROVE  /\ \A d \in Deposits : deposit[d] # NoRequest /\ deposit[d].file # NoFile =>
              /\ file'[deposit[d].file] # NoRow
              /\ file'[deposit[d].file].claimedBy = <<"deposit", d>>
         /\ \A w \in Withdrawals : withdrawal[w] # NoRequest /\ withdrawal[w].file # NoFile =>
              /\ file'[withdrawal[w].file] # NoRow
              /\ file'[withdrawal[w].file].claimedBy = <<"withdrawal", w>>
         /\ \A w \in Withdrawals : ~isVirtual /\ withdrawal[w].status = "PAID" =>
              /\ withdrawal[w].file # NoFile
              /\ file'[withdrawal[w].file].owner = withdrawal[w].reviewedBy
         /\ ReadableEvidenceStored'
         /\ \A g \in expired' : file'[g] # NoRow
<1> USE DEF EvidenceInv, EvidenceInOrder, EvidenceRecorded
<1>1. \A g \in Files :
        /\ file'[g] = NoRow <=> file[g] = NoRow
        /\ file'[g].status = file[g].status
        /\ file[g] # NoRow => /\ file'[g].owner = file[g].owner
                              /\ file'[g].purpose = file[g].purpose
        /\ file[g] # NoRow /\ file[g].claimedBy # NoClaim =>
             file'[g].claimedBy = file[g].claimedBy
  BY Claimed
<1>2. ASSUME NEW d \in Deposits, deposit[d] # NoRequest, deposit[d].file # NoFile
      PROVE  /\ file'[deposit[d].file] # NoRow
             /\ file'[deposit[d].file].claimedBy = <<"deposit", d>>
  <2>1. deposit[d].file \in Files /\ file[deposit[d].file] # NoRow
    BY <1>2, ReferredFiles
  <2>2. file[deposit[d].file].claimedBy = <<"deposit", d>>
    BY <1>2 DEF EvidenceServesOneRequest
  <2>3. <<"deposit", d>> # NoClaim
    BY DEF NoClaim
  <2> QED BY <1>1, <2>1, <2>2, <2>3
<1>3. ASSUME NEW w \in Withdrawals, withdrawal[w] # NoRequest, withdrawal[w].file # NoFile
      PROVE  /\ file'[withdrawal[w].file] # NoRow
             /\ file'[withdrawal[w].file].claimedBy = <<"withdrawal", w>>
  <2>1. withdrawal[w].file \in Files /\ file[withdrawal[w].file] # NoRow
    BY <1>3, ReferredFiles
  <2>2. file[withdrawal[w].file].claimedBy = <<"withdrawal", w>>
    BY <1>3 DEF EvidenceServesOneRequest
  <2>3. <<"withdrawal", w>> # NoClaim
    BY DEF NoClaim
  <2> QED BY <1>1, <2>1, <2>2, <2>3
<1>4. ASSUME NEW w \in Withdrawals, ~isVirtual, withdrawal[w].status = "PAID"
      PROVE  /\ withdrawal[w].file # NoFile
             /\ file'[withdrawal[w].file].owner = withdrawal[w].reviewedBy
  <2>1. withdrawal[w] # NoRequest
    BY <1>4 DEF NoRequest
  <2>2. /\ withdrawal[w].file # NoFile
        /\ file[withdrawal[w].file].owner = withdrawal[w].reviewedBy
    BY <1>4 DEF EvidenceServesOneRequest
  <2>3. withdrawal[w].file \in Files /\ file[withdrawal[w].file] # NoRow
    BY <2>1, <2>2, ReferredFiles
  <2> QED BY <1>1, <2>2, <2>3
<1>5. ReadableEvidenceStored'
  <2>1. ASSUME NEW g \in Files, Readable(g)' PROVE g \in object
    <3>1. file[g].status = "CLEAN"
      BY <1>1, <2>1 DEF Readable
    <3>2. file[g] # NoRow
      BY <3>1 DEF NoRow
    <3> QED BY <1>1, <2>1, <3>1, <3>2 DEF Readable, ReadableEvidenceStored
  <2> QED BY <2>1 DEF ReadableEvidenceStored
<1>6. \A g \in expired' : file'[g] # NoRow
  BY <1>1 DEF FundingTypeOK
<1> QED BY <1>2, <1>3, <1>4, <1>5, <1>6

(* A new deposit request, with the file it claims, if any.                 *)
LEMMA CreateDepositInv ==
  ASSUME IInv, UNCHANGED isVirtual, NEW d \in Deposits, NEW method \in Methods,
         NEW bdt \in BdtAmounts, NEW reference \in References, NEW f \in Files \cup {NoFile},
         CreateDeposit(d, method, bdt, reference, f)
  PROVE  IInv'
<1> DEFINE usd == UsdFromDeposit(bdt, rates.deposit)
           claim == <<"deposit", d>>
           r == [status |-> "PENDING_REVIEW", method |-> method, bdt |-> bdt, usd |-> usd,
                 rate |-> rates.deposit, reference |-> reference, file |-> f,
                 verifiedBy |-> Nobody, reviewedBy |-> Nobody]
<1>1. /\ deposit[d] = NoRequest /\ usd > 0
      /\ deposit' = [deposit EXCEPT ![d] = r]
      /\ ClaimFile(f, claim)
      /\ UNCHANGED <<wallet, balance, posted, withdrawal, object, expired, open, rates>>
  BY DEF CreateDeposit, ledgerVars
<1>2. FundingTypeOK /\ EvidenceInv /\ rates.deposit \in Rates
  BY DEF IInv, FundingTypeOK
<1>3. usd \in Nat \ {0}
  <2>1. /\ bdt \in Nat /\ RateScale \in Nat
        /\ rates.deposit \in Nat /\ rates.deposit >= RateScale /\ RateScale > 0
    <3> HIDE DEF usd, r
    <3>1. \A rate \in Rates : rate \in Nat /\ rate >= RateScale
      OBVIOUS
    <3>2. \A b \in BdtAmounts : b \in Nat
      OBVIOUS
    <3>3. RateScale \in Nat /\ RateScale > 0
      OBVIOUS
    <3> QED BY <1>2, <3>1, <3>2, <3>3
  <2>2. 2 * rates.deposit \in Nat /\ 2 * rates.deposit > 0
    BY <2>1
  <2>3. 2 * bdt * RateScale + rates.deposit \in Nat
    <3>1. \A i, j \in Nat : i * j \in Nat /\ i + j \in Nat
      OBVIOUS
    <3> QED BY <2>1, <3>1
  <2>4. \A n, m \in Nat : m > 0 => n \div m \in Nat
    OBVIOUS
  <2>5. usd \in Nat
    BY <2>2, <2>3, <2>4 DEF UsdFromDeposit
  <2> HIDE DEF usd
  <2> QED BY <1>1, <2>5
<1>4. /\ r \in DepositRecords /\ r # NoRequest
      /\ r.status = "PENDING_REVIEW" /\ r.file = f
      /\ r.usd = UsdFromDeposit(r.bdt, r.rate)
  <2> HIDE DEF usd
  <2>1. r \in DepositRecords /\ r.status = "PENDING_REVIEW" /\ r.file = f
    BY <1>2, <1>3 DEF DepositRecords
  <2>2. r # NoRequest
    BY DEF NoRequest
  <2>3. r.usd = UsdFromDeposit(r.bdt, r.rate)
    BY DEF usd
  <2> QED BY <2>1, <2>2, <2>3
<1> HIDE DEF usd, r
<1>5. claim \in Claims
  BY DEF Claims
<1> HIDE DEF claim
<1>6. /\ deposit'[d] = r /\ \A e \in Deposits \ {d} : deposit'[e] = deposit[e]
      /\ deposit' \in [Deposits -> DepositRecords \cup {NoRequest}]
  BY <1>1, <1>2, <1>4 DEF FundingTypeOK
<1>7. FundingTypeOK'
  <2>1. file' \in [Files -> FileRecords \cup {NoRow}]
    BY <1>1, <1>2, <1>5, Claimed
  <2> QED BY <1>1, <1>2, <1>6, <2>1 DEF FundingTypeOK, LedgerTypeOK
<1>8. MoneyInv'
  <2>1. \A e \in Deposits : SameMoneyDeposit(e)
    BY <1>1, <1>4, <1>6 DEF SameMoneyDeposit, NoRequest
  <2>2. \A w \in Withdrawals : SameMoneyWithdrawal(w)
    BY <1>1 DEF SameMoneyWithdrawal
  <2> QED BY <1>1, <2>1, <2>2, MoneyStays DEF IInv
<1>9. ReviewInv'
  BY <1>1, <1>4, <1>6 DEF IInv, ReviewInv, IndependentOperators, ReviewsStarted, Deposits,
                          Withdrawals
<1>10. EvidenceInv'
  <2>1. /\ \A e \in Deposits : deposit[e] # NoRequest /\ deposit[e].file # NoFile =>
             /\ file'[deposit[e].file] # NoRow
             /\ file'[deposit[e].file].claimedBy = <<"deposit", e>>
        /\ \A w \in Withdrawals : withdrawal[w] # NoRequest /\ withdrawal[w].file # NoFile =>
             /\ file'[withdrawal[w].file] # NoRow
             /\ file'[withdrawal[w].file].claimedBy = <<"withdrawal", w>>
        /\ \A w \in Withdrawals : ~isVirtual /\ withdrawal[w].status = "PAID" =>
             /\ withdrawal[w].file # NoFile
             /\ file'[withdrawal[w].file].owner = withdrawal[w].reviewedBy
        /\ ReadableEvidenceStored'
        /\ \A g \in expired' : file'[g] # NoRow
    BY <1>1, <1>2, <1>5, OldClaimsHold
  <2>2. f # NoFile => file'[f].claimedBy = claim /\ file'[f] # NoRow
    BY <1>1, <1>2, <1>5, Claimed
  <2>3. EvidenceServesOneRequest'
    BY <1>1, <1>4, <1>6, <2>1, <2>2 DEF EvidenceServesOneRequest, claim, Deposits, Withdrawals
  <2>4. EvidenceRecorded'
    BY <1>1, <1>4, <1>6, <2>1, <2>2 DEF EvidenceRecorded, Deposits, Withdrawals
  <2> QED BY <2>1, <2>3, <2>4 DEF EvidenceInv, EvidenceInOrder
<1>11. QuotesRecorded'
  BY <1>4, <1>6 DEF IInv, QuotesRecorded, UsdFromDeposit, Deposits
<1> QED BY <1>7, <1>8, <1>9, <1>10, <1>11 DEF IInv

-----------------------------------------------------------------------------
(* Any step of a withdrawal but its payment, apart from the money.         *)
LEMMA WithdrawalDecided ==
  ASSUME IInv, NEW w \in Withdrawals, NEW r \in WithdrawalRecords,
         withdrawal[w] # NoRequest => r.file = withdrawal[w].file,
         withdrawal[w] = NoRequest => r.file = NoFile,
         withdrawal[w].status # "PAID", r.status # "PAID",
         r.status = "UNDER_REVIEW" => r.reviewStartedBy # Nobody,
         ~isVirtual /\ r.status \in {"APPROVED", "PROCESSING"} =>
           /\ r.reviewStartedBy # Nobody
           /\ r.approvedBy \notin {Nobody, r.reviewStartedBy},
         withdrawal' = [withdrawal EXCEPT ![w] = r],
         UNCHANGED <<deposit, file, object, expired, open, rates, isVirtual>>,
         LedgerTypeOK'
  PROVE  /\ FundingTypeOK' /\ ReviewInv' /\ EvidenceInv' /\ QuotesRecorded'
         /\ withdrawal'[w] = r /\ \A v \in Withdrawals \ {w} : withdrawal'[v] = withdrawal[v]
<1>1. FundingTypeOK
  BY DEF IInv
<1>2. withdrawal \in [Withdrawals -> WithdrawalRecords \cup {NoRequest}]
  BY <1>1 DEF FundingTypeOK
<1>3. withdrawal'[w] = r /\ \A v \in Withdrawals \ {w} : withdrawal'[v] = withdrawal[v]
  BY <1>2
<1>4. r # NoRequest
  BY DEF NoRequest, WithdrawalRecords
<1>5. FundingTypeOK'
  <2>1. withdrawal' \in [Withdrawals -> WithdrawalRecords \cup {NoRequest}]
    BY <1>2
  <2> QED BY <1>1, <2>1 DEF FundingTypeOK
<1>6. ReviewInv'
  <2>1. IndependentOperators /\ ReviewsStarted
    BY DEF IInv, ReviewInv
  <2>2. ReviewsStarted'
    BY <1>3, <2>1 DEF ReviewsStarted, Withdrawals
  <2>3. ASSUME ~isVirtual, NEW v \in Withdrawals,
               withdrawal'[v].status \in {"APPROVED", "PROCESSING", "PAID"}
        PROVE  /\ withdrawal'[v].reviewStartedBy # Nobody
               /\ withdrawal'[v].approvedBy \notin {Nobody, withdrawal'[v].reviewStartedBy}
               /\ withdrawal'[v].status = "PAID" =>
                    withdrawal'[v].approvedBy # withdrawal'[v].reviewedBy
    <3>1. CASE v = w
      BY <1>3, <2>3, <3>1
    <3>2. CASE v # w
      <4>1. withdrawal'[v] = withdrawal[v] /\ ~isVirtual
        BY <1>3, <2>3, <3>2
      <4> QED BY <2>1, <2>3, <4>1 DEF IndependentOperators
    <3> QED BY <3>1, <3>2
  <2>4. IndependentOperators'
    BY <2>1, <2>3 DEF IndependentOperators, Deposits, Withdrawals
  <2> QED BY <2>2, <2>4 DEF ReviewInv
<1>7. EvidenceInv'
  <2>1. CASE withdrawal[w] # NoRequest
    <3>1. SameFiles
      BY <1>3, <1>4, <2>1 DEF SameFiles
    <3> QED BY <3>1, EvidenceStays DEF IInv
  <2>2. CASE withdrawal[w] = NoRequest
    <3> USE DEF IInv, EvidenceInv, EvidenceInOrder
    <3>1. EvidenceServesOneRequest'
      <4>1. withdrawal'[w].file = NoFile /\ withdrawal'[w].status # "PAID"
        BY <1>3, <2>2
      <4>2. EvidenceServesOneRequest
        OBVIOUS
      <4>3. ASSUME NEW v \in Withdrawals, withdrawal'[v] # NoRequest, withdrawal'[v].file # NoFile
            PROVE  file'[withdrawal'[v].file].claimedBy = <<"withdrawal", v>>
        BY <1>3, <4>1, <4>2, <4>3 DEF EvidenceServesOneRequest
      <4>4. ASSUME ~isVirtual, NEW v \in Withdrawals, withdrawal'[v].status = "PAID"
            PROVE  /\ withdrawal'[v].file # NoFile
                   /\ file'[withdrawal'[v].file].owner = withdrawal'[v].reviewedBy
        BY <1>3, <4>1, <4>2, <4>4 DEF EvidenceServesOneRequest
      <4> QED BY <4>2, <4>3, <4>4 DEF EvidenceServesOneRequest, Deposits, Withdrawals
    <3>2. EvidenceRecorded'
      BY <1>3, <2>2 DEF EvidenceRecorded, Deposits, Withdrawals
    <3>3. ReadableEvidenceStored'
      BY DEF ReadableEvidenceStored, Readable
    <3> QED BY <3>1, <3>2, <3>3
  <2> QED BY <2>1, <2>2
<1>8. QuotesRecorded'
  BY DEF IInv, QuotesRecorded, UsdFromDeposit, Deposits
<1> QED BY <1>3, <1>5, <1>6, <1>7, <1>8

(* A review moves no money.                                                *)
LEMMA ReviewStepInv ==
  ASSUME IInv, NEW w \in Withdrawals, NEW r \in WithdrawalRecords,
         withdrawal[w].status \in OpenWithdrawal, r.status \in OpenWithdrawal,
         r.file = withdrawal[w].file, r.usd = withdrawal[w].usd,
         r.status = "UNDER_REVIEW" => r.reviewStartedBy # Nobody,
         ~isVirtual /\ r.status \in {"APPROVED", "PROCESSING"} =>
           /\ r.reviewStartedBy # Nobody
           /\ r.approvedBy \notin {Nobody, r.reviewStartedBy},
         withdrawal' = [withdrawal EXCEPT ![w] = r],
         UNCHANGED <<wallet, balance, posted, deposit, file, object, expired, open, rates,
                     isVirtual>>
  PROVE  IInv'
<1>1. withdrawal[w] # NoRequest /\ r # NoRequest
  BY DEF NoRequest, OpenWithdrawal
<1>2. withdrawal[w].status # "PAID" /\ r.status # "PAID"
  BY DEF OpenWithdrawal
<1>3. LedgerTypeOK'
  BY DEF IInv, FundingTypeOK, LedgerTypeOK
<1>4. /\ FundingTypeOK' /\ ReviewInv' /\ EvidenceInv' /\ QuotesRecorded'
      /\ withdrawal'[w] = r /\ \A v \in Withdrawals \ {w} : withdrawal'[v] = withdrawal[v]
  BY <1>1, <1>2, <1>3, WithdrawalDecided
<1>5. MoneyInv'
  <2>1. \A v \in Withdrawals : SameMoneyWithdrawal(v)
    BY <1>1, <1>4 DEF SameMoneyWithdrawal, OpenWithdrawal
  <2>2. \A d \in Deposits : SameMoneyDeposit(d)
    BY DEF SameMoneyDeposit
  <2> QED BY <2>1, <2>2, MoneyStays DEF IInv
<1> QED BY <1>4, <1>5 DEF IInv

LEMMA StartReviewInv ==
  ASSUME IInv, UNCHANGED isVirtual, NEW w \in Withdrawals, NEW admin \in Admins,
         StartReview(w, admin)
  PROVE  IInv'
<1> DEFINE r == [withdrawal[w] EXCEPT !.status = "UNDER_REVIEW", !.reviewedBy = admin,
                   !.reviewStartedBy = admin]
<1>1. /\ withdrawal[w].status = "REQUESTED"
      /\ withdrawal' = [withdrawal EXCEPT ![w] = r]
      /\ UNCHANGED <<wallet, balance, posted, deposit, file, object, expired, open, rates>>
  BY DEF StartReview, ledgerVars
<1>2. withdrawal[w] \in WithdrawalRecords
  BY <1>1, WithdrawalRow DEF IInv
<1>3. /\ r \in WithdrawalRecords /\ r.status = "UNDER_REVIEW" /\ r.reviewStartedBy # Nobody
      /\ r.file = withdrawal[w].file /\ r.usd = withdrawal[w].usd
  BY <1>1, <1>2 DEF WithdrawalRecords, OpenWithdrawal
<1> HIDE DEF r
<1> QED BY <1>1, <1>3, ReviewStepInv DEF OpenWithdrawal

LEMMA ApproveInv ==
  ASSUME IInv, UNCHANGED isVirtual, NEW w \in Withdrawals, NEW admin \in Admins,
         Approve(w, admin)
  PROVE  IInv'
<1> DEFINE r == [withdrawal[w] EXCEPT !.status = "APPROVED", !.reviewedBy = admin,
                   !.approvedBy = admin]
<1>1. /\ withdrawal[w].status = "UNDER_REVIEW" /\ withdrawal[w].reviewStartedBy # admin
      /\ withdrawal' = [withdrawal EXCEPT ![w] = r]
      /\ UNCHANGED <<wallet, balance, posted, deposit, file, object, expired, open, rates>>
  BY DEF Approve, ledgerVars
<1>2. withdrawal[w] \in WithdrawalRecords
  BY <1>1, WithdrawalRow DEF IInv
<1>3. /\ r \in WithdrawalRecords /\ r.status = "APPROVED" /\ r.approvedBy = admin
      /\ r.reviewStartedBy = withdrawal[w].reviewStartedBy
      /\ r.file = withdrawal[w].file /\ r.usd = withdrawal[w].usd
  BY <1>1, <1>2 DEF WithdrawalRecords, OpenWithdrawal
<1>4. withdrawal[w].reviewStartedBy # Nobody
  BY <1>1 DEF IInv, ReviewInv, ReviewsStarted
<1> HIDE DEF r
<1> QED BY <1>1, <1>3, <1>4, ReviewStepInv DEF OpenWithdrawal

LEMMA StartProcessingInv ==
  ASSUME IInv, UNCHANGED isVirtual, NEW w \in Withdrawals, NEW admin \in Admins,
         StartProcessing(w, admin)
  PROVE  IInv'
<1> DEFINE r == [withdrawal[w] EXCEPT !.status = "PROCESSING", !.reviewedBy = admin]
<1>1. /\ withdrawal[w].status = "APPROVED"
      /\ withdrawal' = [withdrawal EXCEPT ![w] = r]
      /\ UNCHANGED <<wallet, balance, posted, deposit, file, object, expired, open, rates>>
  BY DEF StartProcessing, ledgerVars
<1>2. withdrawal[w] \in WithdrawalRecords
  BY <1>1, WithdrawalRow DEF IInv
<1>3. /\ r \in WithdrawalRecords /\ r.status = "PROCESSING"
      /\ r.approvedBy = withdrawal[w].approvedBy
      /\ r.reviewStartedBy = withdrawal[w].reviewStartedBy
      /\ r.file = withdrawal[w].file /\ r.usd = withdrawal[w].usd
  BY <1>1, <1>2 DEF WithdrawalRecords, OpenWithdrawal
<1>4. ~isVirtual => /\ withdrawal[w].reviewStartedBy # Nobody
                    /\ withdrawal[w].approvedBy \notin {Nobody, withdrawal[w].reviewStartedBy}
  BY <1>1 DEF IInv, ReviewInv, IndependentOperators
<1> HIDE DEF r
<1> QED BY <1>1, <1>3, <1>4, ReviewStepInv DEF OpenWithdrawal

-----------------------------------------------------------------------------
(* What moving a withdrawal's money does to the books: lock, settlement    *)
(* and release all post on the customer's lines and the cash account.      *)
LEMMA WithdrawalBooks ==
  ASSUME IInv, NEW w \in Withdrawals, NEW key, NEW journal,
         NEW toAvailable \in Int, NEW toLocked \in Int, NEW toCash \in Int,
         \A l \in DOMAIN journal : journal[l] \in Int,
         DOMAIN journal \subseteq {Available(RealAccount(w[1])), Locked(RealAccount(w[1])),
                                   Control("REAL")},
         (IF Available(RealAccount(w[1])) \in DOMAIN journal
            THEN journal[Available(RealAccount(w[1]))] ELSE 0) = toAvailable,
         (IF Locked(RealAccount(w[1])) \in DOMAIN journal
            THEN journal[Locked(RealAccount(w[1]))] ELSE 0) = toLocked,
         (IF Control("REAL") \in DOMAIN journal THEN journal[Control("REAL")] ELSE 0) = toCash,
         wallet[RealAccount(w[1])].available + toAvailable >= 0,
         wallet[RealAccount(w[1])].locked + toLocked >= 0,
         Post(key, journal),
         MoveWallet(RealAccount(w[1]), toAvailable, toLocked)
  PROVE  /\ LedgerTypeOK' /\ BooksInOrder'
         /\ balance'[Control("REAL")] = balance[Control("REAL")] + toCash
         /\ wallet'[RealAccount(w[1])].locked = wallet[RealAccount(w[1])].locked + toLocked
         /\ \A u \in Users \ {w[1]} :
              wallet'[RealAccount(u)].locked = wallet[RealAccount(u)].locked
         /\ posted' = posted \cup {key}
<1> DEFINE a == RealAccount(w[1])
<1>1. a \in Accounts /\ ModeOf(a) = "REAL" /\ w[1] \in Users
  BY RealMoney DEF Withdrawals
<1>2. LedgerTypeOK /\ BooksInOrder
  BY DEF IInv, FundingTypeOK, MoneyInv, CustomerFundsInOrder
<1>3. LedgerTypeOK' /\ ProjectionsReconcile' /\ ModesConserve'
  <2>1. DOMAIN journal \subseteq {Available(a), Locked(a)} \cup PlatformAccounts(ModeOf(a))
    BY <1>1, DistinctLines
  <2>2. ProjectionsReconcile /\ ModesConserve
    BY <1>2 DEF BooksInOrder
  <2> QED BY <1>1, <1>2, <2>1, <2>2, BooksKept
<1>4. /\ wallet'[a].available = wallet[a].available + toAvailable
      /\ wallet'[a].locked = wallet[a].locked + toLocked
      /\ \A b \in Accounts \ {a} : wallet'[b] = wallet[b]
  BY <1>1, <1>2, MovedWallet
<1>5. NoOverdraft'
  BY <1>2, <1>4 DEF BooksInOrder, NoOverdraft
<1>6. balance'[Control("REAL")] = balance[Control("REAL")] + toCash
  <2>1. balance[Control("REAL")] \in Int
    BY <1>2, RealMoney DEF LedgerTypeOK
  <2> QED BY <2>1, RealMoney DEF Post
<1>7. ASSUME NEW u \in Users \ {w[1]}
      PROVE  wallet'[RealAccount(u)].locked = wallet[RealAccount(u)].locked
  <2>1. RealAccount(u) \in Accounts \ {a}
    BY RealMoney DEF RealAccount
  <2> QED BY <1>4, <2>1
<1>8. posted' = posted \cup {key}
  BY DEF Post
<1> QED BY <1>3, <1>4, <1>5, <1>6, <1>7, <1>8 DEF BooksInOrder

(* What the books and the requests agree on after a withdrawal's money has *)
(* moved, once its row is known.                                           *)
LEMMA WithdrawalMoney ==
  ASSUME IInv, FundingTypeOK', BooksInOrder', NEW w \in Withdrawals, deposit' = deposit,
         \A v \in Withdrawals \ {w} : withdrawal'[v] = withdrawal[v],
         balance'[Control("REAL")] = balance[Control("REAL")] + (Paid(w)' - Paid(w)),
         wallet'[RealAccount(w[1])].locked =
           wallet[RealAccount(w[1])].locked + (Outstanding(w)' - Outstanding(w)),
         \A u \in Users \ {w[1]} : wallet'[RealAccount(u)].locked = wallet[RealAccount(u)].locked,
         Paid(w)' \in Int, JournalsMatchRequests'
  PROVE  MoneyInv'
<1>1. FundingTypeOK /\ LockedBacksWithdrawals /\ CashMatchesRequests
  BY DEF IInv, MoneyInv, CustomerFundsInOrder, RequestsMatchBooks
<1>2. LockedBacksWithdrawals'
  BY <1>1, BackingMoves
<1>3. CashMatchesRequests'
  BY <1>1, WithdrawalCash
<1> QED BY <1>2, <1>3 DEF MoneyInv, CustomerFundsInOrder, RequestsMatchBooks

(* The request locks the funds.                                            *)
LEMMA CreateWithdrawalInv ==
  ASSUME IInv, UNCHANGED isVirtual, NEW w \in Withdrawals, NEW method \in Methods,
         NEW usd \in UsdAmounts, CreateWithdrawal(w, method, usd)
  PROVE  IInv'
<1> DEFINE a == RealAccount(w[1])
           journal == LockJournal(w, usd)
           r == [status |-> "REQUESTED", method |-> method, usd |-> usd,
                 reviewStartedBy |-> Nobody, approvedBy |-> Nobody, reviewedBy |-> Nobody,
                 reference |-> Nobody, file |-> NoFile]
<1>1. /\ withdrawal[w] = NoRequest /\ wallet[a].available >= usd
      /\ Post(<<"withdrawal-lock", w>>, journal)
      /\ MoveWallet(a, -usd, usd)
      /\ withdrawal' = [withdrawal EXCEPT ![w] = r]
      /\ UNCHANGED <<deposit, file, object, expired, open, rates>>
  BY DEF CreateWithdrawal, MayWithdraw
<1>2. FundingTypeOK /\ LedgerTypeOK /\ NoOverdraft
  BY DEF IInv, FundingTypeOK, MoneyInv, CustomerFundsInOrder, BooksInOrder
<1>3. usd \in Nat /\ usd > 0 /\ usd \in Int /\ -usd \in Int
  <2>1. \A x \in UsdAmounts : x \in Nat /\ x > 0
    OBVIOUS
  <2> QED BY <2>1
<1>4. a \in Accounts /\ w[1] \in Users
  BY RealMoney DEF Withdrawals
<1>5. /\ DOMAIN journal = {Available(a), Locked(a)}
      /\ journal[Available(a)] = -usd
      /\ journal[Locked(a)] = usd
  <2>1. Available(a) # Locked(a)
    BY <1>4, DistinctLines
  <2>2. journal = Debit(Available(a), usd) ++ Credit(Locked(a), usd)
    BY DEF LockJournal
  <2> HIDE DEF a, journal
  <2> QED BY <2>1, <2>2 DEF Debit, Credit, ++
<1>6. /\ r \in WithdrawalRecords /\ r.status = "REQUESTED" /\ r.usd = usd
      /\ r.file = NoFile /\ r # NoRequest
  BY DEF WithdrawalRecords, OpenWithdrawal, NoRequest
<1> HIDE DEF r, journal
<1>7. /\ wallet[a].available \in Int /\ wallet[a].locked \in Int
      /\ wallet[a].locked >= 0
  BY <1>2, <1>4 DEF LedgerTypeOK, NoOverdraft
<1>8. /\ LedgerTypeOK' /\ BooksInOrder'
      /\ balance'[Control("REAL")] = balance[Control("REAL")] + 0
      /\ wallet'[a].locked = wallet[a].locked + usd
      /\ \A u \in Users \ {w[1]} :
           wallet'[RealAccount(u)].locked = wallet[RealAccount(u)].locked
      /\ posted' = posted \cup {<<"withdrawal-lock", w>>}
  <2>1. \A l \in DOMAIN journal : journal[l] \in Int
    BY <1>3, <1>5
  <2>2. Control("REAL") \notin DOMAIN journal
    BY <1>4, <1>5, DistinctLines
  <2>3. wallet[a].available + (-usd) >= 0 /\ wallet[a].locked + usd >= 0
    BY <1>1, <1>3, <1>7
  <2>4. DOMAIN journal \subseteq {Available(a), Locked(a), Control("REAL")}
    BY <1>5
  <2>5. 0 \in Int
    OBVIOUS
  <2> QED BY <1>1, <1>3, <1>5, <2>1, <2>2, <2>3, <2>4, <2>5, WithdrawalBooks
<1>9. /\ FundingTypeOK' /\ ReviewInv' /\ EvidenceInv' /\ QuotesRecorded'
      /\ withdrawal'[w] = r /\ \A v \in Withdrawals \ {w} : withdrawal'[v] = withdrawal[v]
  <2>1. withdrawal[w].status # "PAID"
    BY <1>1 DEF NoRequest
  <2> QED BY <1>1, <1>6, <1>8, <2>1, WithdrawalDecided
<1>10. JournalsMatchRequests'
  BY <1>1, <1>6, <1>8, <1>9 DEF IInv, MoneyInv, RequestsMatchBooks, JournalsMatchRequests,
                               NoRequest, Deposits, Withdrawals
<1>11. /\ Outstanding(w) = 0 /\ Outstanding(w)' = usd
       /\ Paid(w) = 0 /\ Paid(w)' = 0
  BY <1>1, <1>6, <1>9 DEF Outstanding, Paid, NoRequest, OpenWithdrawal
<1>12. MoneyInv'
  <2>1. wallet'[a].locked = wallet[a].locked + (Outstanding(w)' - Outstanding(w))
    BY <1>3, <1>7, <1>8, <1>11
  <2>2. balance'[Control("REAL")] = balance[Control("REAL")] + (Paid(w)' - Paid(w))
    BY <1>8, <1>11
  <2>3. Paid(w)' \in Int
    BY <1>11
  <2> QED BY <1>1, <1>8, <1>9, <1>10, <2>1, <2>2, <2>3, WithdrawalMoney
<1> QED BY <1>9, <1>12 DEF IInv

(* Rejection and cancellation give them back.                              *)
LEMMA ReleaseInv ==
  ASSUME IInv, UNCHANGED isVirtual, NEW w \in Withdrawals,
         NEW status \in {"REJECTED", "CANCELLED"}, NEW admin \in Admins \cup {Nobody},
         withdrawal[w].status \in OpenWithdrawal, Release(w, status, admin)
  PROVE  IInv'
<1> DEFINE a == RealAccount(w[1])
           usd == withdrawal[w].usd
           journal == ReleaseJournal(w)
           r == [withdrawal[w] EXCEPT !.status = status, !.reviewedBy = admin]
<1>1. /\ usd <= wallet[a].locked
      /\ Post(<<"withdrawal-release", w>>, journal)
      /\ MoveWallet(a, usd, -usd)
      /\ withdrawal' = [withdrawal EXCEPT ![w] = r]
      /\ UNCHANGED <<deposit, file, object, expired, open, rates>>
  BY DEF Release
<1>2. FundingTypeOK /\ LedgerTypeOK /\ NoOverdraft
  BY DEF IInv, FundingTypeOK, MoneyInv, CustomerFundsInOrder, BooksInOrder
<1>3. withdrawal[w] \in WithdrawalRecords /\ withdrawal[w] # NoRequest
  BY <1>2, WithdrawalRow DEF OpenWithdrawal
<1>4. usd \in Nat /\ usd > 0 /\ usd \in Int /\ -usd \in Int
  BY <1>2, <1>3, WithdrawalRow
<1>5. a \in Accounts /\ w[1] \in Users
  BY RealMoney DEF Withdrawals
<1>6. /\ DOMAIN journal = {Available(a), Locked(a)}
      /\ journal[Available(a)] = usd
      /\ journal[Locked(a)] = -usd
  <2>1. Available(a) # Locked(a)
    BY <1>5, DistinctLines
  <2> DEFINE lock == Debit(Available(a), usd) ++ Credit(Locked(a), usd)
  <2>2. journal = [l \in DOMAIN lock |-> -lock[l]]
    BY DEF ReleaseJournal, LockJournal
  <2> HIDE DEF a, journal, usd
  <2>3. /\ DOMAIN lock = {Available(a), Locked(a)}
        /\ lock[Available(a)] = -usd
        /\ lock[Locked(a)] = usd
    BY <2>1 DEF Debit, Credit, ++
  <2> HIDE DEF lock
  <2> QED BY <1>4, <2>2, <2>3
<1>7. /\ r \in WithdrawalRecords /\ r.status = status /\ r.usd = usd
      /\ r.file = withdrawal[w].file /\ r # NoRequest
  BY <1>3 DEF WithdrawalRecords, OpenWithdrawal, NoRequest
<1>8. withdrawal[w].status # "PAID" /\ withdrawal[w].status \notin {"REJECTED", "CANCELLED"}
  BY DEF OpenWithdrawal
<1> HIDE DEF r, journal, usd
<1>9. /\ wallet[a].available \in Int /\ wallet[a].locked \in Int
      /\ wallet[a].available >= 0
  BY <1>2, <1>5 DEF LedgerTypeOK, NoOverdraft
<1>10. /\ LedgerTypeOK' /\ BooksInOrder'
       /\ balance'[Control("REAL")] = balance[Control("REAL")] + 0
       /\ wallet'[a].locked = wallet[a].locked + (-usd)
       /\ \A u \in Users \ {w[1]} :
            wallet'[RealAccount(u)].locked = wallet[RealAccount(u)].locked
       /\ posted' = posted \cup {<<"withdrawal-release", w>>}
  <2>1. \A l \in DOMAIN journal : journal[l] \in Int
    BY <1>4, <1>6
  <2>2. Control("REAL") \notin DOMAIN journal
    BY <1>5, <1>6, DistinctLines
  <2>3. wallet[a].available + usd >= 0 /\ wallet[a].locked + (-usd) >= 0
    BY <1>1, <1>4, <1>9
  <2>4. DOMAIN journal \subseteq {Available(a), Locked(a), Control("REAL")}
    BY <1>6
  <2>5. 0 \in Int
    OBVIOUS
  <2> QED BY <1>1, <1>4, <1>6, <2>1, <2>2, <2>3, <2>4, <2>5, WithdrawalBooks
<1>11. /\ FundingTypeOK' /\ ReviewInv' /\ EvidenceInv' /\ QuotesRecorded'
       /\ withdrawal'[w] = r /\ \A v \in Withdrawals \ {w} : withdrawal'[v] = withdrawal[v]
  BY <1>1, <1>3, <1>7, <1>8, <1>10, WithdrawalDecided
<1>12. JournalsMatchRequests'
  <2>1. JournalsMatchRequests
    BY DEF IInv, MoneyInv, RequestsMatchBooks
  <2>2. posted' = posted \cup {<<"withdrawal-release", w>>}
    BY <1>10
  <2>3. ASSUME NEW d \in Deposits
        PROVE  <<"deposit-credit", d>> \in posted' <=> deposit'[d].status = "CREDITED"
    BY <1>1, <2>1, <2>2 DEF JournalsMatchRequests
  <2>4. ASSUME NEW v \in Withdrawals
        PROVE  /\ <<"withdrawal-lock", v>> \in posted' <=> withdrawal'[v] # NoRequest
               /\ <<"withdrawal-settle", v>> \in posted' <=> withdrawal'[v].status = "PAID"
               /\ <<"withdrawal-release", v>> \in posted' <=>
                    withdrawal'[v].status \in {"REJECTED", "CANCELLED"}
    <3>1. CASE v = w
      BY <1>3, <1>7, <1>8, <1>11, <2>1, <2>2, <3>1 DEF JournalsMatchRequests
    <3>2. CASE v # w
      BY <1>11, <2>1, <2>2, <3>2 DEF JournalsMatchRequests
    <3> QED BY <3>1, <3>2
  <2> QED BY <2>3, <2>4 DEF JournalsMatchRequests, Deposits, Withdrawals
<1>13. /\ Outstanding(w) = usd /\ Outstanding(w)' = 0
       /\ Paid(w) = 0 /\ Paid(w)' = 0
  BY <1>7, <1>8, <1>11 DEF Outstanding, Paid, OpenWithdrawal, usd
<1>14. MoneyInv'
  <2>1. wallet'[a].locked = wallet[a].locked + (Outstanding(w)' - Outstanding(w))
    BY <1>4, <1>9, <1>10, <1>13
  <2>2. balance'[Control("REAL")] = balance[Control("REAL")] + (Paid(w)' - Paid(w))
    BY <1>10, <1>13
  <2>3. Paid(w)' \in Int
    BY <1>13
  <2> QED BY <1>1, <1>10, <1>11, <1>12, <2>1, <2>2, <2>3, WithdrawalMoney
<1> QED BY <1>11, <1>14 DEF IInv

(* A payment settles them, on evidence of its own.                         *)
LEMMA SettleInv ==
  ASSUME IInv, UNCHANGED isVirtual, NEW w \in Withdrawals, NEW admin \in Admins,
         NEW reference \in References \cup ({"VIRTUAL"} \X Withdrawals),
         NEW f \in Files \cup {NoFile},
         withdrawal[w].status \in OpenWithdrawal,
         ~isVirtual => /\ withdrawal[w].status = "PROCESSING"
                       /\ withdrawal[w].approvedBy \notin {Nobody, admin}
                       /\ f # NoFile /\ file[f].owner = admin,
         Settle(w, admin, reference, f)
  PROVE  IInv'
<1> DEFINE a == RealAccount(w[1])
           usd == withdrawal[w].usd
           journal == SettleJournal(w)
           claim == <<"withdrawal", w>>
           r == [withdrawal[w] EXCEPT !.status = "PAID", !.reviewedBy = admin,
                   !.reference = reference, !.file = f]
<1>1. /\ usd <= wallet[a].locked
      /\ Post(<<"withdrawal-settle", w>>, journal)
      /\ MoveWallet(a, 0, -usd)
      /\ withdrawal' = [withdrawal EXCEPT ![w] = r]
      /\ ClaimFile(f, claim)
      /\ UNCHANGED <<deposit, object, expired, open, rates>>
  BY DEF Settle
<1>2. FundingTypeOK /\ LedgerTypeOK /\ NoOverdraft /\ EvidenceInv
  BY DEF IInv, FundingTypeOK, MoneyInv, CustomerFundsInOrder, BooksInOrder
<1>3. withdrawal[w] \in WithdrawalRecords /\ withdrawal[w] # NoRequest
  BY <1>2, WithdrawalRow DEF OpenWithdrawal
<1>4. usd \in Nat /\ usd > 0 /\ usd \in Int /\ -usd \in Int
  BY <1>2, <1>3, WithdrawalRow
<1>5. a \in Accounts /\ w[1] \in Users
  BY RealMoney DEF Withdrawals
<1>6. /\ DOMAIN journal = {Locked(a), Control("REAL")}
      /\ journal[Locked(a)] = -usd
      /\ journal[Control("REAL")] = usd
  <2>1. Locked(a) # Control("REAL")
    BY <1>5, DistinctLines
  <2>2. journal = Debit(Locked(a), usd) ++ Credit(Control("REAL"), usd)
    BY DEF SettleJournal
  <2> HIDE DEF a, journal, usd
  <2> QED BY <2>1, <2>2 DEF Debit, Credit, ++
<1>7. /\ r \in WithdrawalRecords /\ r.status = "PAID" /\ r.usd = usd
      /\ r.file = f /\ r.reviewedBy = admin /\ r # NoRequest
      /\ r.approvedBy = withdrawal[w].approvedBy
      /\ r.reviewStartedBy = withdrawal[w].reviewStartedBy
  BY <1>3 DEF WithdrawalRecords, OpenWithdrawal, NoRequest
<1>8. withdrawal[w].status # "PAID" /\ withdrawal[w].status \notin {"REJECTED", "CANCELLED"}
  BY DEF OpenWithdrawal
<1>9. claim \in Claims
  BY DEF Claims
<1> HIDE DEF r, journal, usd, claim
<1>10. /\ wallet[a].available \in Int /\ wallet[a].locked \in Int
       /\ wallet[a].available >= 0
  BY <1>2, <1>5 DEF LedgerTypeOK, NoOverdraft
<1>11. /\ LedgerTypeOK' /\ BooksInOrder'
       /\ balance'[Control("REAL")] = balance[Control("REAL")] + usd
       /\ wallet'[a].locked = wallet[a].locked + (-usd)
       /\ \A u \in Users \ {w[1]} :
            wallet'[RealAccount(u)].locked = wallet[RealAccount(u)].locked
       /\ posted' = posted \cup {<<"withdrawal-settle", w>>}
  <2>1. \A l \in DOMAIN journal : journal[l] \in Int
    BY <1>4, <1>6
  <2>2. Available(a) \notin DOMAIN journal
    BY <1>5, <1>6, DistinctLines
  <2>3. wallet[a].available + 0 >= 0 /\ wallet[a].locked + (-usd) >= 0
    BY <1>1, <1>4, <1>10
  <2>4. DOMAIN journal \subseteq {Available(a), Locked(a), Control("REAL")}
    BY <1>6
  <2>5. 0 \in Int
    OBVIOUS
  <2> QED BY <1>1, <1>4, <1>6, <2>1, <2>2, <2>3, <2>4, <2>5, WithdrawalBooks
<1>12. /\ withdrawal'[w] = r /\ \A v \in Withdrawals \ {w} : withdrawal'[v] = withdrawal[v]
       /\ withdrawal' \in [Withdrawals -> WithdrawalRecords \cup {NoRequest}]
  BY <1>1, <1>2, <1>7 DEF FundingTypeOK
<1>13. FundingTypeOK'
  <2>1. file' \in [Files -> FileRecords \cup {NoRow}]
    BY <1>1, <1>2, <1>9, Claimed
  <2> QED BY <1>1, <1>2, <1>11, <1>12, <2>1 DEF FundingTypeOK
<1>14. ReviewInv'
  <2> USE DEF IInv, ReviewInv
  <2>1. ReviewsStarted'
    BY <1>7, <1>12 DEF ReviewsStarted, Withdrawals
  <2>2. ASSUME ~isVirtual', NEW v \in Withdrawals,
               withdrawal'[v].status \in {"APPROVED", "PROCESSING", "PAID"}
        PROVE  /\ withdrawal'[v].reviewStartedBy # Nobody
               /\ withdrawal'[v].approvedBy \notin {Nobody, withdrawal'[v].reviewStartedBy}
               /\ withdrawal'[v].status = "PAID" =>
                    withdrawal'[v].approvedBy # withdrawal'[v].reviewedBy
    BY <1>7, <1>12, <2>2 DEF IndependentOperators
  <2>3. IndependentOperators'
    BY <1>1, <2>2 DEF IndependentOperators, Deposits, Withdrawals
  <2> QED BY <2>1, <2>3
<1>15. EvidenceInv'
  <2>1. /\ \A e \in Deposits : deposit[e] # NoRequest /\ deposit[e].file # NoFile =>
             /\ file'[deposit[e].file] # NoRow
             /\ file'[deposit[e].file].claimedBy = <<"deposit", e>>
        /\ \A v \in Withdrawals : withdrawal[v] # NoRequest /\ withdrawal[v].file # NoFile =>
             /\ file'[withdrawal[v].file] # NoRow
             /\ file'[withdrawal[v].file].claimedBy = <<"withdrawal", v>>
        /\ \A v \in Withdrawals : ~isVirtual /\ withdrawal[v].status = "PAID" =>
             /\ withdrawal[v].file # NoFile
             /\ file'[withdrawal[v].file].owner = withdrawal[v].reviewedBy
        /\ ReadableEvidenceStored'
        /\ \A g \in expired' : file'[g] # NoRow
    BY <1>1, <1>2, <1>9, OldClaimsHold
  <2>2. f # NoFile => /\ file'[f].claimedBy = claim /\ file'[f] # NoRow
                      /\ file'[f].owner = file[f].owner
    BY <1>1, <1>2, <1>9, Claimed
  <2>3. EvidenceServesOneRequest'
    BY <1>1, <1>7, <1>12, <2>1, <2>2 DEF EvidenceServesOneRequest, claim, Deposits, Withdrawals
  <2>4. EvidenceRecorded'
    BY <1>1, <1>7, <1>12, <2>1, <2>2 DEF EvidenceRecorded, Deposits, Withdrawals
  <2> QED BY <2>1, <2>3, <2>4 DEF EvidenceInv, EvidenceInOrder
<1>16. JournalsMatchRequests'
  <2>1. JournalsMatchRequests
    BY DEF IInv, MoneyInv, RequestsMatchBooks
  <2>2. posted' = posted \cup {<<"withdrawal-settle", w>>}
    BY <1>11
  <2>3. ASSUME NEW d \in Deposits
        PROVE  <<"deposit-credit", d>> \in posted' <=> deposit'[d].status = "CREDITED"
    BY <1>1, <2>1, <2>2 DEF JournalsMatchRequests
  <2>4. ASSUME NEW v \in Withdrawals
        PROVE  /\ <<"withdrawal-lock", v>> \in posted' <=> withdrawal'[v] # NoRequest
               /\ <<"withdrawal-settle", v>> \in posted' <=> withdrawal'[v].status = "PAID"
               /\ <<"withdrawal-release", v>> \in posted' <=>
                    withdrawal'[v].status \in {"REJECTED", "CANCELLED"}
    <3>1. CASE v = w
      BY <1>3, <1>7, <1>8, <1>12, <2>1, <2>2, <3>1 DEF JournalsMatchRequests
    <3>2. CASE v # w
      BY <1>12, <2>1, <2>2, <3>2 DEF JournalsMatchRequests
    <3> QED BY <3>1, <3>2
  <2> QED BY <2>3, <2>4 DEF JournalsMatchRequests, Deposits, Withdrawals
<1>17. /\ Outstanding(w) = usd /\ Outstanding(w)' = 0
       /\ Paid(w) = 0 /\ Paid(w)' = usd
  BY <1>7, <1>8, <1>12 DEF Outstanding, Paid, OpenWithdrawal, usd
<1>18. MoneyInv'
  <2>1. wallet'[a].locked = wallet[a].locked + (Outstanding(w)' - Outstanding(w))
    BY <1>4, <1>10, <1>11, <1>17
  <2>2. balance'[Control("REAL")] = balance[Control("REAL")] + (Paid(w)' - Paid(w))
    BY <1>4, <1>11, <1>17
  <2>3. Paid(w)' \in Int
    BY <1>4, <1>17
  <2> QED BY <1>1, <1>11, <1>12, <1>13, <1>16, <2>1, <2>2, <2>3, WithdrawalMoney
<1>19. QuotesRecorded'
  BY <1>1 DEF IInv, QuotesRecorded, UsdFromDeposit, Deposits
<1> QED BY <1>13, <1>14, <1>15, <1>18, <1>19 DEF IInv

-----------------------------------------------------------------------------
(* A step of files, switches or rates alone leaves money and reviews as    *)
(* they are.                                                               *)
LEMMA RequestsUntouched ==
  ASSUME IInv, UNCHANGED <<wallet, balance, posted, deposit, withdrawal, isVirtual>>
  PROVE  LedgerTypeOK' /\ MoneyInv' /\ ReviewInv' /\ QuotesRecorded'
<1>1. LedgerTypeOK'
  BY DEF IInv, FundingTypeOK, LedgerTypeOK
<1>2. MoneyInv'
  <2>1. \A v \in Withdrawals : SameMoneyWithdrawal(v)
    BY DEF SameMoneyWithdrawal
  <2>2. \A d \in Deposits : SameMoneyDeposit(d)
    BY DEF SameMoneyDeposit
  <2> QED BY <2>1, <2>2, MoneyStays DEF IInv
<1>3. ReviewInv'
  BY DEF IInv, ReviewInv, IndependentOperators, ReviewsStarted, Deposits, Withdrawals
<1>4. QuotesRecorded'
  BY DEF IInv, QuotesRecorded, UsdFromDeposit, Deposits
<1> QED BY <1>1, <1>2, <1>3, <1>4

LEMMA SettingsInv ==
  ASSUME IInv, UNCHANGED <<wallet, balance, posted, deposit, withdrawal, file, object, expired,
                           isVirtual>>,
         open' \subseteq Gates, rates' \in [deposit : Rates, withdrawal : Rates]
  PROVE  IInv'
<1>1. LedgerTypeOK' /\ MoneyInv' /\ ReviewInv' /\ QuotesRecorded'
  BY RequestsUntouched
<1>2. FundingTypeOK'
  BY <1>1 DEF IInv, FundingTypeOK
<1>3. SameFiles
  BY DEF SameFiles
<1>4. EvidenceInv'
  BY <1>3, EvidenceStays DEF IInv
<1> QED BY <1>1, <1>2, <1>4 DEF IInv

(* Files: stored, recorded, expired, removed and marked deleted.           *)
LEMMA FilesInv ==
  ASSUME IInv, UNCHANGED isVirtual, NEW f \in Files,
         \/ StoreObject(f)
         \/ \E owner \in Users \cup Admins, purpose \in {"DEPOSIT", "WITHDRAWAL"} :
              RecordFile(f, owner, purpose)
         \/ SevenDaysPass(f) \/ RemoveObject(f) \/ MarkDeleted(f)
  PROVE  IInv'
<1>1. UNCHANGED <<wallet, balance, posted, deposit, withdrawal, open, rates>>
  BY DEF StoreObject, RecordFile, SevenDaysPass, RemoveObject, MarkDeleted, ledgerVars
<1>2. LedgerTypeOK' /\ MoneyInv' /\ ReviewInv' /\ QuotesRecorded'
  BY <1>1, RequestsUntouched
<1>3. FundingTypeOK /\ EvidenceInv
  BY DEF IInv
<1>4. /\ file \in [Files -> FileRecords \cup {NoRow}]
      /\ object \subseteq Files /\ expired \subseteq Files
      /\ \A g \in Files : Readable(g) => g \in object
      /\ \A g \in expired : file[g] # NoRow
  BY <1>3 DEF FundingTypeOK, EvidenceInv, EvidenceInOrder, EvidenceRecorded,
              ReadableEvidenceStored
<1> DEFINE Files1 == /\ file' \in [Files -> FileRecords \cup {NoRow}]
                     /\ object' \subseteq Files /\ expired' \subseteq Files
           Rows1 == \A g \in Files : file[g] # NoRow =>
                      /\ file'[g] # NoRow
                      /\ file'[g].claimedBy = file[g].claimedBy
                      /\ file'[g].owner = file[g].owner
           Stored1 == \A g \in Files : Readable(g)' => g \in object'
           Expired1 == \A g \in expired' : file'[g] # NoRow
<1>5. ASSUME StoreObject(f)
      PROVE  Files1 /\ Rows1 /\ Stored1 /\ Expired1
  <2>1. object' = object \cup {f} /\ UNCHANGED <<file, expired>>
    BY <1>5 DEF StoreObject
  <2>2. \A g \in Files : Readable(g)' => Readable(g)
    BY <2>1 DEF Readable
  <2> QED BY <1>4, <2>1, <2>2
<1>6. ASSUME NEW owner \in Users \cup Admins, NEW purpose \in {"DEPOSIT", "WITHDRAWAL"},
             RecordFile(f, owner, purpose)
      PROVE  Files1 /\ Rows1 /\ Stored1 /\ Expired1
  <2> DEFINE r == [status |-> "CLEAN", owner |-> owner, purpose |-> purpose,
                   claimedBy |-> NoClaim]
  <2>1. /\ file[f] = NoRow /\ f \in object
        /\ file' = [file EXCEPT ![f] = r]
        /\ UNCHANGED <<object, expired>>
    BY <1>6 DEF RecordFile
  <2>2. r \in FileRecords /\ r # NoRow
    BY DEF FileRecords, NoRow
  <2> HIDE DEF r
  <2>3. file'[f] = r /\ \A g \in Files \ {f} : file'[g] = file[g]
    BY <1>4, <2>1
  <2>4. Files1
    BY <1>4, <2>1, <2>2
  <2>5. Rows1 /\ Expired1
    BY <1>4, <2>1, <2>2, <2>3
  <2>6. Stored1
    BY <1>4, <2>1, <2>3 DEF Readable
  <2> QED BY <2>4, <2>5, <2>6
<1>7. ASSUME SevenDaysPass(f)
      PROVE  Files1 /\ Rows1 /\ Stored1 /\ Expired1
  <2>1. /\ file[f] # NoRow /\ expired' = expired \cup {f}
        /\ UNCHANGED <<file, object>>
    BY <1>7 DEF SevenDaysPass
  <2>2. \A g \in Files : Readable(g)' => Readable(g)
    BY <2>1 DEF Readable
  <2> QED BY <1>4, <2>1, <2>2
<1>8. ASSUME RemoveObject(f)
      PROVE  Files1 /\ Rows1 /\ Stored1 /\ Expired1
  <2>1. /\ f \in expired /\ file[f].purpose = "DEPOSIT"
        /\ object' = object \ {f} /\ UNCHANGED <<file, expired>>
    BY <1>8 DEF RemoveObject
  <2>2. \A g \in Files : Readable(g)' => Readable(g) /\ g # f
    BY <2>1 DEF Readable
  <2> QED BY <1>4, <2>1, <2>2
<1>9. ASSUME MarkDeleted(f)
      PROVE  Files1 /\ Rows1 /\ Stored1 /\ Expired1
  <2> DEFINE r == [file[f] EXCEPT !.status = "DELETED"]
  <2>1. /\ f \in expired
        /\ file' = [file EXCEPT ![f] = r]
        /\ UNCHANGED <<object, expired>>
    BY <1>9 DEF MarkDeleted
  <2>2. file[f] \in FileRecords
    BY <1>3, <1>4, <2>1, FileRow
  <2>3. /\ r \in FileRecords /\ r # NoRow /\ r.status = "DELETED"
        /\ r.claimedBy = file[f].claimedBy /\ r.owner = file[f].owner
    BY <2>2 DEF FileRecords, NoRow
  <2> HIDE DEF r
  <2>4. file'[f] = r /\ \A g \in Files \ {f} : file'[g] = file[g]
    BY <1>4, <2>1
  <2>5. Files1
    BY <1>4, <2>1, <2>3
  <2>6. Rows1 /\ Expired1
    BY <1>4, <2>1, <2>3, <2>4
  <2>7. \A g \in Files : Readable(g)' => Readable(g)
    BY <2>1, <2>3, <2>4 DEF Readable
  <2>8. Stored1
    BY <1>4, <2>1, <2>7
  <2> QED BY <2>5, <2>6, <2>8
<1>10. Files1 /\ Rows1 /\ Stored1 /\ Expired1
  BY <1>5, <1>6, <1>7, <1>8, <1>9
<1>11. FundingTypeOK'
  BY <1>1, <1>2, <1>10 DEF IInv, FundingTypeOK
<1>12. ReadableEvidenceStored'
  BY <1>10 DEF ReadableEvidenceStored
<1>13. EvidenceInv'
  BY <1>1, <1>3, <1>10, <1>12, FilesKept
<1> QED BY <1>2, <1>11, <1>13 DEF IInv

-----------------------------------------------------------------------------
(* Nothing has been requested, posted or stored at the start.              *)
LEMMA InitInv == Init => IInv
<1> SUFFICES ASSUME Init PROVE IInv
  OBVIOUS
<1>1. /\ LedgerInit
      /\ deposit = [d \in Deposits |-> NoRequest] /\ withdrawal = [w \in Withdrawals |-> NoRequest]
      /\ file = [f \in Files |-> NoRow] /\ object = {} /\ expired = {}
      /\ open = (UserControls \X Users) \cup ({"METHOD"} \X Methods)
      /\ rates \in [deposit : Rates, withdrawal : Rates] /\ isVirtual \in BOOLEAN
  BY DEF Init
<1>2. /\ \A d \in Deposits : deposit[d] = NoRequest /\ deposit[d].status = "NONE"
      /\ \A w \in Withdrawals : withdrawal[w] = NoRequest /\ withdrawal[w].status = "NONE"
      /\ \A f \in Files : file[f] = NoRow /\ file[f].status = "NONE"
  BY <1>1 DEF NoRequest, NoRow
<1>3. FundingTypeOK
  <2>1. LedgerTypeOK
    BY <1>1 DEF LedgerInit, LedgerTypeOK
  <2>2. open \subseteq Gates
    BY <1>1 DEF Gates
  <2> QED BY <1>1, <2>1, <2>2 DEF FundingTypeOK
<1>4. BooksInOrder
  <2>1. ProjectionsReconcile
    BY <1>1, AccountChart, Charts DEF LedgerInit, ProjectionsReconcile
  <2>2. ASSUME NEW m \in Modes PROVE SumFunctionOnSet(balance, ChartOf(m)) = 0
    <3>1. IsFiniteSet(ChartOf(m)) /\ \A l \in ChartOf(m) : balance[l] = 0
      BY <1>1, Charts DEF LedgerInit
    <3> QED BY <3>1, SumOfZeros
  <2>3. NoOverdraft
    BY <1>1 DEF LedgerInit, NoOverdraft
  <2> QED BY <2>1, <2>2, <2>3 DEF BooksInOrder, ModesConserve
<1>5. LockedBacksWithdrawals
  <2>1. ASSUME NEW u \in Users
        PROVE  wallet[RealAccount(u)].locked =
                 SumFunctionOnSet([w \in Withdrawals |-> Outstanding(w)], WithdrawalsOf(u))
    <3> DEFINE f == [w \in Withdrawals |-> Outstanding(w)]
    <3>1. IsFiniteSet(WithdrawalsOf(u)) /\ \A w \in WithdrawalsOf(u) : w \in Withdrawals
      BY RequestsFinite
    <3>2. \A w \in WithdrawalsOf(u) : f[w] = 0
      BY <1>2, <3>1 DEF Outstanding, OpenWithdrawal
    <3>3. wallet[RealAccount(u)].locked = 0
      BY <1>1, RealMoney DEF LedgerInit
    <3> HIDE DEF f
    <3>4. SumFunctionOnSet(f, WithdrawalsOf(u)) = 0
      BY <3>1, <3>2, SumOfZeros
    <3> QED BY <3>3, <3>4 DEF f
  <2> QED BY <2>1 DEF LockedBacksWithdrawals
<1>6. CashMatchesRequests
  <2> DEFINE p == [w \in Withdrawals |-> Paid(w)]
             c == [d \in Deposits |-> Credited(d)]
  <2>1. (\A w \in Withdrawals : p[w] = 0) /\ (\A d \in Deposits : c[d] = 0)
    BY <1>2 DEF Paid, Credited
  <2>2. balance[Control("REAL")] = 0
    BY <1>1, RealMoney DEF LedgerInit
  <2> HIDE DEF p, c
  <2>3. SumFunctionOnSet(p, Withdrawals) = 0 /\ SumFunctionOnSet(c, Deposits) = 0
    BY <2>1, RequestsFinite, SumOfZeros
  <2> QED BY <2>2, <2>3 DEF p, c, CashMatchesRequests
<1>7. JournalsMatchRequests
  <2>1. posted = {}
    BY <1>1 DEF LedgerInit
  <2> QED BY <1>2, <2>1 DEF JournalsMatchRequests
<1>8. ReviewInv
  BY <1>2 DEF ReviewInv, IndependentOperators, ReviewsStarted
<1>9. EvidenceInv
  BY <1>1, <1>2 DEF EvidenceInv, EvidenceInOrder, EvidenceServesOneRequest,
                    ReadableEvidenceStored, Readable, EvidenceRecorded
<1>10. QuotesRecorded
  BY <1>2 DEF QuotesRecorded
<1> QED BY <1>3, <1>4, <1>5, <1>6, <1>7, <1>8, <1>9, <1>10
        DEF IInv, MoneyInv, CustomerFundsInOrder, RequestsMatchBooks

LEMMA NextInv == IInv /\ [Next]_vars => IInv'
<1> SUFFICES ASSUME IInv, [Next]_vars PROVE IInv'
  OBVIOUS
<1>1. CASE UNCHANGED vars
  <2>1. UNCHANGED <<wallet, balance, posted, deposit, withdrawal, file, object, expired,
                    isVirtual, open, rates>>
    BY <1>1 DEF vars, ledgerVars, fundingVars
  <2>2. open' \subseteq Gates /\ rates' \in [deposit : Rates, withdrawal : Rates]
    BY <2>1 DEF IInv, FundingTypeOK
  <2> QED BY <2>1, <2>2, SettingsInv
<1>2. CASE Next
  <2>1. UNCHANGED isVirtual
    BY <1>2 DEF Next
  <2>2. ASSUME NEW d \in Deposits, NEW method \in Methods, NEW bdt \in BdtAmounts,
               NEW reference \in References, NEW f \in Files \cup {NoFile},
               CreateDeposit(d, method, bdt, reference, f)
        PROVE  IInv'
    BY <2>1, <2>2, CreateDepositInv
  <2>3. ASSUME NEW d \in Deposits, NEW admin \in Admins,
               \/ VerifyDeposit(d, admin)
               \/ CreditDeposit(d, admin)
               \/ RejectDeposit(d, admin)
        PROVE  IInv'
    BY <2>1, <2>3, VerifyDepositInv, CreditDepositInv, RejectDepositInv
  <2>4. ASSUME NEW w \in Withdrawals, NEW method \in Methods, NEW usd \in UsdAmounts,
               CreateWithdrawal(w, method, usd)
        PROVE  IInv'
    BY <2>1, <2>4, CreateWithdrawalInv
  <2>5. ASSUME NEW w \in Withdrawals, NEW admin \in Admins,
               \/ StartReview(w, admin)
               \/ Approve(w, admin)
               \/ StartProcessing(w, admin)
        PROVE  IInv'
    BY <2>1, <2>5, StartReviewInv, ApproveInv, StartProcessingInv
  <2>6. ASSUME NEW w \in Withdrawals, CancelWithdrawal(w)
        PROVE  IInv'
    <3>1. withdrawal[w].status \in OpenWithdrawal /\ Release(w, "CANCELLED", Nobody)
      BY <2>6 DEF CancelWithdrawal, OpenWithdrawal
    <3> QED BY <2>1, <3>1, ReleaseInv
  <2>7. ASSUME NEW w \in Withdrawals, NEW admin \in Admins, RejectWithdrawal(w, admin)
        PROVE  IInv'
    <3>1. withdrawal[w].status \in OpenWithdrawal /\ Release(w, "REJECTED", admin)
      BY <2>7 DEF RejectWithdrawal
    <3> QED BY <2>1, <3>1, ReleaseInv
  <2>8. ASSUME NEW w \in Withdrawals, NEW admin \in Admins, NEW reference \in References,
               NEW f \in Files \cup {NoFile}, MarkWithdrawalPaid(w, admin, reference, f)
        PROVE  IInv'
    <3>1. /\ withdrawal[w].status = "PROCESSING" /\ Settle(w, admin, reference, f)
          /\ ~isVirtual => /\ withdrawal[w].approvedBy \notin {Nobody, admin}
                           /\ f # NoFile /\ file[f].owner = admin
      BY <2>8 DEF MarkWithdrawalPaid, MayPay, Owned
    <3>2. withdrawal[w].status \in OpenWithdrawal
      BY <3>1 DEF OpenWithdrawal
    <3> QED BY <2>1, <3>1, <3>2, SettleInv
  <2>9. ASSUME NEW w \in Withdrawals, NEW admin \in Admins, CompleteVirtualWithdrawal(w, admin)
        PROVE  IInv'
    <3>1. /\ isVirtual /\ withdrawal[w].status \in OpenWithdrawal
          /\ Settle(w, admin, <<"VIRTUAL", w>>, NoFile)
      BY <2>9 DEF CompleteVirtualWithdrawal
    <3>2. <<"VIRTUAL", w>> \in {"VIRTUAL"} \X Withdrawals
      OBVIOUS
    <3> QED BY <2>1, <3>1, <3>2, SettleInv
  <2>10. ASSUME NEW f \in Files,
                \/ StoreObject(f)
                \/ \E owner \in Users \cup Admins, purpose \in {"DEPOSIT", "WITHDRAWAL"} :
                     RecordFile(f, owner, purpose)
                \/ SevenDaysPass(f) \/ RemoveObject(f) \/ MarkDeleted(f)
         PROVE  IInv'
    BY <2>1, <2>10, FilesInv
  <2>11. ASSUME UNCHANGED <<ledgerVars, deposit, withdrawal, file, object, expired>>,
                open' \subseteq Gates, rates' \in [deposit : Rates, withdrawal : Rates]
         PROVE  IInv'
    <3>1. UNCHANGED <<wallet, balance, posted>>
      BY <2>11 DEF ledgerVars
    <3> QED BY <2>1, <2>11, <3>1, SettingsInv
  <2>12. open \subseteq Gates /\ rates \in [deposit : Rates, withdrawal : Rates]
    BY DEF IInv, FundingTypeOK
  <2>13. ASSUME NEW u \in Users, ApproveIdentity(u) PROVE IInv'
    BY <2>11, <2>12, <2>13 DEF ApproveIdentity, Gates
  <2>14. ASSUME NEW u \in Users, NEW on \in SUBSET UserControls, SwitchUserControls(u, on)
         PROVE  IInv'
    BY <2>11, <2>12, <2>14 DEF SwitchUserControls, Gates
  <2>15. ASSUME NEW method \in Methods, NEW on \in BOOLEAN, UpdatePaymentMethod(method, on)
         PROVE  IInv'
    BY <2>11, <2>12, <2>15 DEF UpdatePaymentMethod, Gates
  <2>16. ASSUME NEW new \in [deposit : Rates, withdrawal : Rates], UpdateConversionRates(new)
         PROVE  IInv'
    BY <2>11, <2>12, <2>16 DEF UpdateConversionRates
  <2> QED BY <1>2, <2>2, <2>3, <2>4, <2>5, <2>6, <2>7, <2>8, <2>9, <2>10, <2>13, <2>14, <2>15,
             <2>16 DEF Next, FundingStep
<1> QED BY <1>1, <1>2

(* The inductive invariant holds in every reachable state, whatever the    *)
(* interleaving of customers, operators and the evidence cleanup.          *)
THEOREM Invariance == Spec => []IInv
<1> QED BY InitInv, NextInv, PTL DEF Spec

(* Every row, file, rate and switch has its type.                          *)
THEOREM TypesHold == Spec => []FundingTypeOK
<1>1. IInv => FundingTypeOK
  BY DEF IInv
<1> QED BY Invariance, <1>1, PTL

(* Wallets are what the journals say, the modes sum to zero, and locked    *)
(* funds are exactly the withdrawals that are still to be decided.         *)
THEOREM FundsInOrder == Spec => []CustomerFundsInOrder
<1>1. IInv => CustomerFundsInOrder
  BY DEF IInv, MoneyInv
<1> QED BY Invariance, <1>1, PTL

(* The cash account and the journals tell of each request what its status  *)
(* tells: credited once, settled once or released once, never both.        *)
THEOREM BooksMatchRequests == Spec => []RequestsMatchBooks
<1>1. IInv => RequestsMatchBooks
  BY DEF IInv, MoneyInv
<1> QED BY Invariance, <1>1, PTL

(* With real money no operator both prepares and decides a payment.        *)
THEOREM OperatorsIndependent == Spec => []IndependentOperators
<1>1. IInv => IndependentOperators
  BY DEF IInv, ReviewInv
<1> QED BY Invariance, <1>1, PTL

(* A file is evidence for one request, and readable evidence is stored.    *)
THEOREM EvidenceHeld == Spec => []EvidenceInOrder
<1>1. IInv => EvidenceInOrder
  BY DEF IInv, EvidenceInv
<1> QED BY Invariance, <1>1, PTL

(* A credit pays the customer what the deposit's recorded rate makes of    *)
(* the taka sent, whatever the rate is by then.                            *)
THEOREM QuotesHonoured == Spec => CreditsWhatWasQuoted
<1> DEFINE Honours ==
      \A d \in Deposits :
        deposit[d].status = "PENDING_REVIEW" /\ deposit'[d].status = "CREDITED" =>
          wallet'[RealAccount(d[1])].available - wallet[RealAccount(d[1])].available
            = UsdFromDeposit(deposit[d].bdt, deposit[d].rate)
<1>1. ASSUME IInv, [Next]_vars PROVE [Honours]_vars
  <2> SUFFICES ASSUME NEW d \in Deposits,
                      deposit[d].status = "PENDING_REVIEW", deposit'[d].status = "CREDITED"
               PROVE  wallet'[RealAccount(d[1])].available - wallet[RealAccount(d[1])].available
                        = UsdFromDeposit(deposit[d].bdt, deposit[d].rate)
    OBVIOUS
  <2>1. FundingTypeOK /\ QuotesRecorded
    BY <1>1 DEF IInv
  <2>2. deposit \in [Deposits -> DepositRecords \cup {NoRequest}]
    BY <2>1 DEF FundingTypeOK
  <2>3. deposit[d] \in DepositRecords /\ deposit[d] # NoRequest
    BY <2>1, DepositRow
  <2>4. deposit' # deposit
    OBVIOUS
  <2>5. ASSUME NEW e \in Deposits, NEW method \in Methods, NEW bdt \in BdtAmounts,
               NEW reference \in References, NEW f \in Files \cup {NoFile},
               CreateDeposit(e, method, bdt, reference, f)
        PROVE  FALSE
    <3>1. deposit[e] = NoRequest /\ \A x \in Deposits \ {e} : deposit'[x] = deposit[x]
      BY <2>2, <2>5 DEF CreateDeposit
    <3> QED BY <2>3, <3>1
  <2>6. ASSUME NEW e \in Deposits, NEW admin \in Admins, VerifyDeposit(e, admin)
        PROVE  FALSE
    <3> DEFINE r == [deposit[e] EXCEPT !.verifiedBy = admin]
    <3>1. deposit[e].status = "PENDING_REVIEW" /\ deposit' = [deposit EXCEPT ![e] = r]
      BY <2>6 DEF VerifyDeposit
    <3>2. deposit[e] \in DepositRecords
      BY <2>1, <3>1, DepositRow
    <3>3. r.status = "PENDING_REVIEW"
      BY <3>1, <3>2 DEF DepositRecords
    <3> QED BY <2>2, <3>1, <3>3
  <2>7. ASSUME NEW e \in Deposits, NEW admin \in Admins, RejectDeposit(e, admin)
        PROVE  FALSE
    <3> DEFINE r == [deposit[e] EXCEPT !.status = "REJECTED", !.reviewedBy = admin]
    <3>1. deposit[e].status = "PENDING_REVIEW" /\ deposit' = [deposit EXCEPT ![e] = r]
      BY <2>7 DEF RejectDeposit, Decide
    <3>2. deposit[e] \in DepositRecords
      BY <2>1, <3>1, DepositRow
    <3>3. r.status = "REJECTED"
      BY <3>2 DEF DepositRecords
    <3> QED BY <2>2, <3>1, <3>3
  <2>8. PICK e \in Deposits, admin \in Admins : CreditDeposit(e, admin)
    <3>1. FundingStep
      BY <1>1, <2>4 DEF vars, fundingVars, Next
    <3>2. ASSUME NEW w \in Withdrawals
          PROVE  /\ ~CancelWithdrawal(w)
                 /\ \A method \in Methods, usd \in UsdAmounts : ~CreateWithdrawal(w, method, usd)
                 /\ \A admin \in Admins :
                      /\ ~StartReview(w, admin) /\ ~Approve(w, admin)
                      /\ ~StartProcessing(w, admin) /\ ~RejectWithdrawal(w, admin)
                 /\ \A admin \in Admins : ~CompleteVirtualWithdrawal(w, admin)
                 /\ \A admin \in Admins, reference \in References, f \in Files \cup {NoFile} :
                      ~MarkWithdrawalPaid(w, admin, reference, f)
      <4>1. \A status, admin : ~Release(w, status, admin)
        BY <2>4 DEF Release
      <4>2. \A admin, reference, f : ~Settle(w, admin, reference, f)
        BY <2>4 DEF Settle
      <4>3. \A method, usd : ~CreateWithdrawal(w, method, usd)
        BY <2>4 DEF CreateWithdrawal
      <4>4. \A admin : ~StartReview(w, admin) /\ ~Approve(w, admin) /\ ~StartProcessing(w, admin)
        BY <2>4 DEF StartReview, Approve, StartProcessing
      <4>5. ~CancelWithdrawal(w) /\ \A admin : ~RejectWithdrawal(w, admin)
        BY <4>1 DEF CancelWithdrawal, RejectWithdrawal
      <4>6. /\ \A admin : ~CompleteVirtualWithdrawal(w, admin)
            /\ \A admin, reference, f : ~MarkWithdrawalPaid(w, admin, reference, f)
        BY <4>2 DEF CompleteVirtualWithdrawal, MarkWithdrawalPaid
      <4> QED BY <4>3, <4>4, <4>5, <4>6
    <3>3. ASSUME NEW w \in Withdrawals,
                 \/ \E method \in Methods, usd \in UsdAmounts : CreateWithdrawal(w, method, usd)
                 \/ CancelWithdrawal(w)
                 \/ \E admin \in Admins :
                      \/ StartReview(w, admin)
                      \/ Approve(w, admin)
                      \/ StartProcessing(w, admin)
                      \/ \E reference \in References, f \in Files \cup {NoFile} :
                           MarkWithdrawalPaid(w, admin, reference, f)
                      \/ CompleteVirtualWithdrawal(w, admin)
                      \/ RejectWithdrawal(w, admin)
          PROVE  FALSE
      BY <3>2, <3>3
    <3>4. ASSUME NEW f \in Files,
                 \/ StoreObject(f)
                 \/ \E owner \in Users \cup Admins, purpose \in {"DEPOSIT", "WITHDRAWAL"} :
                      RecordFile(f, owner, purpose)
                 \/ SevenDaysPass(f) \/ RemoveObject(f) \/ MarkDeleted(f)
          PROVE  FALSE
      BY <2>4, <3>4 DEF StoreObject, RecordFile, SevenDaysPass, RemoveObject, MarkDeleted
    <3>5. \/ \E u \in Users : \/ ApproveIdentity(u)
                              \/ \E on \in SUBSET UserControls : SwitchUserControls(u, on)
          \/ \E method \in Methods, on \in BOOLEAN : UpdatePaymentMethod(method, on)
          \/ \E new \in [deposit : Rates, withdrawal : Rates] : UpdateConversionRates(new)
          => FALSE
      BY <2>4 DEF ApproveIdentity, SwitchUserControls, UpdatePaymentMethod, UpdateConversionRates
    <3> QED BY <2>5, <2>6, <2>7, <3>1, <3>3, <3>4, <3>5 DEF FundingStep
  <2>9. e = d
    BY <2>2, <2>8 DEF CreditDeposit, Decide
  <2> DEFINE a == RealAccount(d[1])
             usd == deposit[d].usd
  <2>10. MoveWallet(a, usd, 0)
    BY <2>8, <2>9 DEF CreditDeposit
  <2>11. usd \in Int /\ a \in Accounts /\ usd = UsdFromDeposit(deposit[d].bdt, deposit[d].rate)
    BY <2>1, <2>3, RealMoney DEF DepositRecords, Deposits, QuotesRecorded
  <2>12. LedgerTypeOK
    BY <2>1 DEF FundingTypeOK
  <2> HIDE DEF a, usd
  <2>13. wallet'[a].available = wallet[a].available + usd /\ wallet[a].available \in Int
    BY <2>10, <2>11, <2>12, MovedWallet
  <2>14. wallet'[a].available - wallet[a].available = usd
    BY <2>11, <2>13
  <2> QED BY <2>11, <2>14 DEF a
<1>2. CreditsWhatWasQuoted <=> [][Honours]_vars
  BY DEF CreditsWhatWasQuoted
<1> QED BY Invariance, <1>1, <1>2, PTL DEF Spec
=============================================================================

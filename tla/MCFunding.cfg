SPECIFICATION Spec
CONSTANTS
  u1 = u1
  a1 = a1
  a2 = a2
  m1 = m1
  d1 = d1
  d2 = d2
  w1 = w1
  w2 = w2
  ref1 = ref1
  ref2 = ref2
  f1 = f1
  f2 = f2
  Nobody = Nobody
  NoFile = NoFile
  Users = {u1}
  Admins = {a1, a2}
  Methods = {m1}
  DepositKeys = {d1}
  WithdrawalKeys = {w1, w2}
  References = {ref1, ref2}
  Files = {f1}
  BdtAmounts = {50}
  UsdAmounts = {2, 3}
  Rates = {10, 12}
  RateScale = 1
  Minimum = 15
  Maximum = 60
SYMMETRY MCSymmetry
INVARIANTS
  CustomerFundsInOrder
  RequestsMatchBooks
  IndependentOperators
  EvidenceInOrder
PROPERTIES
  CreditsWhatWasQuoted
CONSTRAINT SandboxBound

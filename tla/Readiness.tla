----------------------------- MODULE Readiness ------------------------------
(***************************************************************************)
(* ControlService and OperationsController: release gates signed by        *)
(* authorised administrators and treasury statements, which together say   *)
(* whether real money may move.  Both come with evidence, which is claimed *)
(* by the row it is attached to.  A request looks whether its file is free *)
(* and what the account was before, and writes in later statements: by     *)
(* then another request may have looked as well.                           *)
(*                                                                         *)
(* Modelled is which signatures and statements count.  What readiness then *)
(* adds up, every gate, five signers, the balances, is left out; the       *)
(* books' reconciliation is the ledger's (BooksInOrder).                   *)
(***************************************************************************)
EXTENDS Integers, FiniteSets

CONSTANTS
  Signers,       \* administrators
  Gates,         \* RELEASE_GATES
  OfficeGates,   \* those an office record may be given for: LEGAL, COMPLIANCE
  RowIds,        \* ids of approvals and statements, in the order of their rows
  Banks,         \* account references
  Files,         \* evidence files
  Posts,         \* requests under way at a time
  LastDay,       \* bound on the clock
  GoodFor        \* longest validity of a signature: 90 days

OfficeRecord == "office record"

ASSUME ReadinessAssumption ==
  /\ IsFiniteSet(Signers) /\ IsFiniteSet(RowIds) /\ RowIds \subseteq Nat \ {0}
  /\ OfficeGates \subseteq Gates /\ OfficeRecord \notin Files
  /\ LastDay \in Nat /\ GoodFor \in Nat \ {0}

VARIABLES
  day,        \* the clock
  authority,  \* the gates each active administrator may sign
  file,       \* evidence_files
  record,     \* release_approvals of this version and treasury_statements
  attaching   \* each request between its look and its writes

readinessVars == <<day, authority, file, record, attaching>>

Categories == {"CUSTOMER", "RESERVE"}
NoRecord == [kind |-> "NONE"]
Unclaimed == 0
NoFile == [owner |-> "NONE", claimedBy |-> Unclaimed]
NotAttaching == [kind |-> "NONE"]

ReadinessInit ==
  /\ day = 0
  /\ authority \in [Signers -> {Gates, {}}]
  /\ file = [f \in Files |-> NoFile]
  /\ record = [id \in RowIds |-> NoRecord]
  /\ attaching = [p \in Posts |-> NotAttaching]

NextDay ==
  /\ day < LastDay
  /\ day' = day + 1
  /\ UNCHANGED <<authority, file, record, attaching>>

(* An approved ADMIN_ROLE change (Changes has its protocol).               *)
GiveOrTakeGate(o, gate) ==
  /\ authority' = [authority EXCEPT ![o] =
       IF gate \in @ THEN @ \ {gate} ELSE @ \cup {gate}]
  /\ UNCHANGED <<day, file, record, attaching>>

(* A file that is not clean is refused, and no code marks one later on.    *)
UploadEvidence(o, f, purpose) ==
  /\ file[f] = NoFile
  /\ file' = [file EXCEPT ![f] = [owner |-> o, purpose |-> purpose,
                                  claimedBy |-> Unclaimed]]
  /\ UNCHANGED <<day, authority, record, attaching>>

-----------------------------------------------------------------------------
Attachable(o, f, purpose) ==
  /\ file[f].owner = o
  /\ file[f].purpose = purpose
  /\ file[f].claimedBy = Unclaimed

(* approveRelease, up to its writes: with an own file, or with a reference *)
(* to an office record where the gate allows one.                          *)
BeginSignature(p, o, gate, f, expires) ==
  /\ attaching[p] = NotAttaching
  /\ gate \in authority[o]
  /\ IF f = OfficeRecord THEN gate \in OfficeGates ELSE Attachable(o, f, "RELEASE")
  /\ expires > day /\ expires <= day + GoodFor
  /\ attaching' = [attaching EXCEPT ![p] =
       [kind |-> "SIGNATURE", gate |-> gate, file |-> f, by |-> o, expires |-> expires,
        revoked |-> FALSE]]
  /\ UNCHANGED <<day, authority, file, record>>

StatementsOf(bank) == {id \in RowIds : record[id].kind = "STATEMENT" /\ record[id].bank = bank}
Newest(S) == {id \in S : \A other \in S : other <= id}

(* submitTreasury, up to its writes: a statement of the last day, for an   *)
(* account that does not change its category.                              *)
BeginStatement(p, o, bank, category, f, asOf) ==
  /\ attaching[p] = NotAttaching
  /\ day - asOf \in {0, 1}
  /\ Attachable(o, f, "TREASURY")
  /\ \A old \in Newest(StatementsOf(bank)) : record[old].category = category
  /\ attaching' = [attaching EXCEPT ![p] =
       [kind |-> "STATEMENT", bank |-> bank, category |-> category, file |-> f,
        by |-> o, asOf |-> asOf, status |-> "PENDING"]]
  /\ UNCHANGED <<day, authority, file, record>>

(* Faulty: without the trigger.                                            *)
MayClaimAgain(f) == f \in Files \cup {OfficeRecord}

(* Trigger evidence_claim_once: a claim is never changed.                  *)
MayClaim(f) == f \in {OfficeRecord} \cup {g \in Files : file[g].claimedBy = Unclaimed}

(* The row is created and claims its file.                                 *)
Attach(p, id) ==
  LET new == attaching[p]
  IN  /\ new # NotAttaching
      /\ MayClaim(new.file)
      /\ record[id] = NoRecord
      /\ \A before \in RowIds : before < id => record[before] # NoRecord
      /\ record' = [record EXCEPT ![id] = new]
      /\ file' = IF new.file = OfficeRecord THEN file
                 ELSE [file EXCEPT ![new.file].claimedBy = id]
      /\ attaching' = [attaching EXCEPT ![p] = NotAttaching]
      /\ UNCHANGED <<day, authority>>

(* Another row claimed the file since: the transaction is rolled back.     *)
AttachRefused(p) ==
  /\ attaching[p] # NotAttaching
  /\ ~MayClaim(attaching[p].file)
  /\ attaching' = [attaching EXCEPT ![p] = NotAttaching]
  /\ UNCHANGED <<day, authority, file, record>>

(* A row is revoked once: trigger protect_release_approval.                *)
RevokeSignature(o, id) ==
  /\ record[id].kind = "SIGNATURE"
  /\ ~record[id].revoked
  /\ record[id].gate \in authority[o]
  /\ record' = [record EXCEPT ![id].revoked = TRUE]
  /\ UNCHANGED <<day, authority, file, attaching>>

(* reviewTreasury.                                                         *)
ReviewStatement(o, id, decision) ==
  /\ record[id].kind = "STATEMENT"
  /\ record[id].status = "PENDING"
  /\ record[id].by # o
  /\ record' = [record EXCEPT ![id].status = decision]
  /\ UNCHANGED <<day, authority, file, attaching>>

SignerStep(o) ==
  \/ \E gate \in Gates : GiveOrTakeGate(o, gate)
  \/ \E f \in Files, purpose \in {"RELEASE", "TREASURY"} : UploadEvidence(o, f, purpose)
  \/ \E p \in Posts, gate \in Gates, f \in Files \cup {OfficeRecord}, d \in 1..GoodFor :
       BeginSignature(p, o, gate, f, day + d)
  \/ \E p \in Posts, f \in Files, bank \in Banks, category \in Categories, asOf \in 0..LastDay :
       BeginStatement(p, o, bank, category, f, asOf)
  \/ \E id \in RowIds : RevokeSignature(o, id)
  \/ \E id \in RowIds, decision \in {"APPROVED", "REJECTED"} : ReviewStatement(o, id, decision)

ReadinessNext ==
  \/ NextDay
  \/ \E o \in Signers : SignerStep(o)
  \/ \E p \in Posts, id \in RowIds : Attach(p, id)
  \/ \E p \in Posts : AttachRefused(p)

ReadinessSpec == ReadinessInit /\ [][ReadinessNext]_readinessVars

-----------------------------------------------------------------------------
(* readiness and treasury: the file is this row's.                         *)
Backed(id) == file[record[id].file].claimedBy = id

(* readiness: a signature in force, of one who may still give it.          *)
Standing == {id \in RowIds :
  /\ record[id].kind = "SIGNATURE"
  /\ ~record[id].revoked
  /\ record[id].expires > day
  /\ record[id].gate \in authority[record[id].by]}

(* readiness: the approvals that count.                                    *)
Signatures == {id \in Standing :
  IF record[id].file = OfficeRecord THEN record[id].gate \in OfficeGates ELSE Backed(id)}

(* treasury: the latest approved statement of each account, if it is of    *)
(* the last day.                                                           *)
LatestOf(bank) ==
  LET approved == {id \in StatementsOf(bank) : record[id].status = "APPROVED"}
  IN  Newest({id \in approved : \A other \in approved : record[other].asOf <= record[id].asOf})

Fresh == {id \in UNION {LatestOf(bank) : bank \in Banks} : day - record[id].asOf <= 1}

(* treasury: the balances that count.                                      *)
Counted == {id \in Fresh : Backed(id)}

(* docs/funding-admin-operations.md: evidence is single-use.  Although two *)
(* requests may have found one file free, no two signatures or statements  *)
(* rest on it, and none that is in force ceases to count because another   *)
(* row took its evidence.                                                  *)
EvidenceIsSingleUse ==
  /\ \A a, b \in {id \in RowIds : record[id] # NoRecord} :
       record[a].file = record[b].file /\ record[a].file # OfficeRecord => a = b
  /\ Signatures = Standing
  /\ Counted = Fresh

(* docs/funding-admin-operations.md: customer funds and reserve capital    *)
(* cannot share one account.  They can: two first statements of an account *)
(* under way together both find none before them.                          *)
AccountsKeepTheirCategory ==
  \A bank \in Banks : \A a, b \in StatementsOf(bank) : record[a].category = record[b].category
=============================================================================

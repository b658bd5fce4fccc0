---------------------------- MODULE PriceArchive ----------------------------
(***************************************************************************)
(* ContractPriceService: the one-second prices that contracts and          *)
(* predictions are opened and resolved at, archived the first time one is  *)
(* needed.  Time is counted in seconds and one market is modelled: each    *)
(* symbol has an archive of its own.                                       *)
(*                                                                         *)
(* The provider is external.  It may be unavailable and may answer one     *)
(* question differently twice.  Callers of one process share a request in  *)
(* flight; here each asks alone, which has every outcome sharing has.      *)
(***************************************************************************)
EXTENDS Integers

CONSTANTS
  Askers,     \* who can be waiting for a price: client requests and workers
  Prices,     \* prices the provider may answer
  MaxTime     \* bounds the clock

ASSUME PriceAssumption == Prices \subseteq Nat \ {0} /\ MaxTime \in Nat \ {0}

VARIABLES
  now,      \* the clock
  archive,  \* contract_price_observations: the price kept for each second
  asking    \* each caller of ContractPriceService.at and how far it came

priceVars == <<now, archive, asking>>

Times == 1..MaxTime
Unknown == 0
Idle == [step |-> "IDLE", second |-> 0, price |-> Unknown]

(* The last second that is over at time t, by its first moment.            *)
Boundary(t) == t - 1

PriceInit ==
  /\ now = 1
  /\ archive = [t \in 0..MaxTime - 1 |-> Unknown]
  /\ asking = [p \in Askers |-> Idle]

Tick ==
  /\ now < MaxTime
  /\ now' = now + 1
  /\ UNCHANGED <<archive, asking>>

Becomes(p, step, second, price) ==
  asking' = [asking EXCEPT ![p] = [step |-> step, second |-> second, price |-> price]]

(* at(instrument, t), up to its first await.                               *)
AskFor(p, t) ==
  /\ asking[p] = Idle
  /\ Becomes(p, "ASKED", Boundary(t), Unknown)
  /\ UNCHANGED <<now, archive>>

(* The caller has its answer, or its call threw.                           *)
Done(p) ==
  /\ asking' = [asking EXCEPT ![p] = Idle]
  /\ UNCHANGED <<now, archive>>

(* load finds the second archived.                                         *)
Lookup(p) ==
  LET second == asking[p].second
  IN  /\ asking[p].step = "ASKED"
      /\ archive[second] # Unknown
      /\ Becomes(p, "QUOTED", second, archive[second])
      /\ UNCHANGED <<now, archive>>

(* It does not, and the provider answers.                                  *)
Fetch(p, price) ==
  LET second == asking[p].second
  IN  /\ asking[p].step = "ASKED"
      /\ archive[second] = Unknown
      /\ Becomes(p, "FETCHED", second, price)
      /\ UNCHANGED <<now, archive>>

(* Faulty: answers with what it fetched, whatever was archived meanwhile.  *)
SaveOwnPrice(p) ==
  LET second == asking[p].second
  IN  /\ asking[p].step = "FETCHED"
      /\ archive' = IF archive[second] = Unknown
                      THEN [archive EXCEPT ![second] = asking[p].price] ELSE archive
      /\ Becomes(p, "QUOTED", second, asking[p].price)
      /\ UNCHANGED now

(* createMany with skipDuplicates, then findUniqueOrThrow: the answer is   *)
(* the row that is there, its own or another caller's.                     *)
Save(p) ==
  LET second == asking[p].second
  IN  /\ asking[p].step = "FETCHED"
      /\ archive' = IF archive[second] = Unknown
                      THEN [archive EXCEPT ![second] = asking[p].price] ELSE archive
      /\ Becomes(p, "QUOTED", second, archive'[second])
      /\ UNCHANGED now

Load(p) == Lookup(p) \/ (\E price \in Prices : Fetch(p, price)) \/ Save(p)

Quoted(p) == asking[p].step = "QUOTED"

PriceTypeOK ==
  /\ now \in Times
  /\ archive \in [0..MaxTime - 1 -> Prices \cup {Unknown}]
  /\ asking \in [Askers -> [step : {"IDLE", "ASKED", "FETCHED", "QUOTED"},
                            second : 0..MaxTime - 1, price : Prices \cup {Unknown}]]
=============================================================================

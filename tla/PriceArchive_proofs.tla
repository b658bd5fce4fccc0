------------------------ MODULE PriceArchive_proofs -------------------------
(***************************************************************************)
(* What every caller of the price archive may rely on: a second has one    *)
(* price from the moment it is archived, only seconds that are over are    *)
(* ever asked for, and a quote is what the archive keeps.                  *)
(***************************************************************************)
EXTENDS PriceArchive, TLAPS

USE PriceAssumption

Seconds == 0..MaxTime - 1

-----------------------------------------------------------------------------
(* What is archived, asked for or quoted is of a second that is over, and  *)
(* a quote is what the archive keeps for its second.                       *)
PricesInv ==
  /\ \A t \in Seconds : archive[t] # Unknown => t < now
  /\ \A p \in Askers :
       /\ asking[p].step = "IDLE" => asking[p] = Idle
       /\ asking[p] # Idle => asking[p].second < now
       /\ asking[p].step = "FETCHED" => asking[p].price # Unknown
       /\ Quoted(p) => /\ asking[p].price # Unknown
                       /\ asking[p].price = archive[asking[p].second]

-----------------------------------------------------------------------------
(* Prices.  What is archived stays.                                        *)
ArchiveGrows == \A t \in Seconds : archive[t] # Unknown => archive'[t] = archive[t]

LEMMA TickPrices ==
  ASSUME PriceTypeOK, PricesInv, Tick
  PROVE  PriceTypeOK' /\ PricesInv' /\ ArchiveGrows /\ UNCHANGED asking
<1>1. now < MaxTime /\ now' = now + 1 /\ UNCHANGED <<archive, asking>>
  BY DEF Tick
<1>2. PriceTypeOK'
  BY <1>1 DEF PriceTypeOK, Times
<1>3. now \in Int /\ \A t \in Seconds : t \in Int
  BY DEF PriceTypeOK, Times, Seconds
<1>4. \A p \in Askers : asking[p].second \in Seconds
  BY DEF PriceTypeOK, Seconds
<1>5. PricesInv'
  BY <1>1, <1>3, <1>4 DEF PricesInv, Quoted
<1> QED BY <1>1, <1>2, <1>5 DEF ArchiveGrows

LEMMA AskPrices ==
  ASSUME PriceTypeOK, PricesInv, NEW p \in Askers, NEW t \in Times, t <= now, AskFor(p, t)
  PROVE  /\ PriceTypeOK' /\ PricesInv' /\ ArchiveGrows /\ now' = now
         /\ asking'[p].second = Boundary(t)
         /\ \A q \in Askers \ {p} : asking'[q] = asking[q]
<1> DEFINE r == [step |-> "ASKED", second |-> Boundary(t), price |-> Unknown]
<1>1. asking' = [asking EXCEPT ![p] = r] /\ UNCHANGED <<now, archive>>
  BY DEF AskFor, Becomes
<1>2. Boundary(t) \in Seconds /\ Boundary(t) < now /\ now \in Nat
  BY DEF Boundary, Seconds, Times, PriceTypeOK
<1>3. asking'[p] = r /\ \A q \in Askers \ {p} : asking'[q] = asking[q]
  BY <1>1 DEF PriceTypeOK
<1>4. PriceTypeOK'
  BY <1>1, <1>2 DEF PriceTypeOK, Seconds
<1>5. PricesInv'
  BY <1>1, <1>2, <1>3 DEF PricesInv, Quoted
<1> QED BY <1>1, <1>3, <1>4, <1>5 DEF ArchiveGrows

LEMMA DonePrices ==
  ASSUME PriceTypeOK, PricesInv, NEW p \in Askers, Done(p)
  PROVE  /\ PriceTypeOK' /\ PricesInv' /\ ArchiveGrows /\ UNCHANGED <<now, archive>>
         /\ asking'[p] = Idle
         /\ \A q \in Askers \ {p} : asking'[q] = asking[q]
<1>1. asking' = [asking EXCEPT ![p] = Idle] /\ UNCHANGED <<now, archive>>
  BY DEF Done
<1>2. asking'[p] = Idle /\ \A q \in Askers \ {p} : asking'[q] = asking[q]
  BY <1>1 DEF PriceTypeOK
<1>3. PriceTypeOK'
  BY <1>1 DEF PriceTypeOK, Idle
<1>4. Idle.step = "IDLE"
  BY DEF Idle
<1>5. PricesInv'
  BY <1>1, <1>2, <1>4 DEF PricesInv, Quoted
<1> QED BY <1>1, <1>2, <1>3, <1>5 DEF ArchiveGrows

LEMMA LoadPrices ==
  ASSUME PriceTypeOK, PricesInv, NEW p \in Askers, Load(p)
  PROVE  /\ PriceTypeOK' /\ PricesInv' /\ ArchiveGrows /\ now' = now
         /\ asking[p] # Idle /\ asking'[p].second = asking[p].second
         /\ \A q \in Askers \ {p} : asking'[q] = asking[q]
<1> DEFINE second == asking[p].second
<1>1. /\ asking \in [Askers -> [step : {"IDLE", "ASKED", "FETCHED", "QUOTED"},
                                second : Seconds, price : Prices \cup {Unknown}]]
      /\ archive \in [Seconds -> Prices \cup {Unknown}]
      /\ second \in Seconds
  BY DEF PriceTypeOK, Seconds
<1>2. now' = now /\ asking[p].step \in {"ASKED", "FETCHED"}
  BY DEF Load, Lookup, Fetch, Save
<1>3. asking[p] # Idle /\ second < now
  BY <1>2 DEF PricesInv, Idle
<1>4. PICK step \in {"FETCHED", "QUOTED"}, price \in Prices :
        /\ asking' = [asking EXCEPT ![p] = [step |-> step, second |-> second, price |-> price]]
        /\ step = "QUOTED" => price = archive'[second]
        /\ \/ archive' = archive
           \/ archive[second] = Unknown /\ archive' = [archive EXCEPT ![second] = price]
  <2>1. CASE Lookup(p)
    <3>1. /\ archive[second] \in Prices /\ archive' = archive
          /\ asking' = [asking EXCEPT ![p] =
               [step |-> "QUOTED", second |-> second, price |-> archive[second]]]
      BY <1>1, <2>1 DEF Lookup, Becomes
    <3> QED BY <3>1
  <2>2. CASE \E price \in Prices : Fetch(p, price)
    BY <2>2 DEF Fetch, Becomes
  <2>3. CASE Save(p)
    <3>1. asking[p].price \in Prices
      BY <1>1, <2>3 DEF Save, PricesInv
    <3>2. CASE archive[second] = Unknown
      <4>1. archive' = [archive EXCEPT ![second] = asking[p].price]
        BY <2>3, <3>2 DEF Save
      <4>2. archive'[second] = asking[p].price
        BY <1>1, <4>1
      <4>3. asking' = [asking EXCEPT ![p] =
               [step |-> "QUOTED", second |-> second, price |-> asking[p].price]]
        BY <2>3, <4>2 DEF Save, Becomes
      <4> QED BY <3>1, <3>2, <4>1, <4>2, <4>3
    <3>3. CASE archive[second] # Unknown
      <4>1. archive' = archive /\ archive[second] \in Prices
        BY <1>1, <2>3, <3>3 DEF Save
      <4>2. asking' = [asking EXCEPT ![p] =
               [step |-> "QUOTED", second |-> second, price |-> archive[second]]]
        BY <2>3, <4>1 DEF Save, Becomes
      <4> QED BY <4>1, <4>2
    <3> QED BY <3>2, <3>3
  <2> QED BY <2>1, <2>2, <2>3 DEF Load
<1> DEFINE r == [step |-> step, second |-> second, price |-> price]
<1>5. asking'[p] = r /\ \A q \in Askers \ {p} : asking'[q] = asking[q]
  BY <1>1, <1>4
<1>6. archive' \in [Seconds -> Prices \cup {Unknown}]
  BY <1>1, <1>4
<1>7. \A t \in Seconds : /\ archive[t] # Unknown => archive'[t] = archive[t]
                         /\ archive'[t] # Unknown => archive[t] # Unknown \/ t = second
  BY <1>1, <1>4
<1>8. PriceTypeOK'
  <2>1. asking' \in [Askers -> [step : {"IDLE", "ASKED", "FETCHED", "QUOTED"},
                                second : Seconds, price : Prices \cup {Unknown}]]
    BY <1>1, <1>4
  <2> QED BY <1>2, <1>6, <2>1 DEF PriceTypeOK, Seconds
<1>9. Unknown \notin Prices
  BY DEF Unknown
<1>10. PricesInv'
  <2>1. \A t \in Seconds : archive'[t] # Unknown => t < now'
    BY <1>2, <1>3, <1>7 DEF PricesInv
  <2>2. ASSUME NEW q \in Askers \ {p}
        PROVE  /\ asking'[q].step = "IDLE" => asking'[q] = Idle
               /\ asking'[q] # Idle => asking'[q].second < now'
               /\ asking'[q].step = "FETCHED" => asking'[q].price # Unknown
               /\ asking'[q].step = "QUOTED" =>
                    /\ asking'[q].price # Unknown
                    /\ asking'[q].price = archive'[asking'[q].second]
    <3>1. asking'[q] = asking[q] /\ asking[q].second \in Seconds
      BY <1>1, <1>5
    <3> QED BY <1>2, <1>7, <3>1 DEF PricesInv, Quoted
  <2>3. /\ r.step \in {"FETCHED", "QUOTED"} /\ r.second < now' /\ r.price # Unknown
        /\ r.step = "QUOTED" => r.price = archive'[r.second]
    BY <1>2, <1>3, <1>4, <1>9
  <2> QED BY <1>5, <2>1, <2>2, <2>3 DEF PricesInv, Quoted, Seconds
<1> QED BY <1>2, <1>3, <1>5, <1>7, <1>8, <1>10 DEF ArchiveGrows

(* A step that leaves the archive and its callers alone.                   *)
LEMMA SamePrices ==
  ASSUME PriceTypeOK, PricesInv, UNCHANGED <<now, archive, asking>>
  PROVE  PriceTypeOK' /\ PricesInv' /\ ArchiveGrows
BY DEF PriceTypeOK, PricesInv, Quoted, ArchiveGrows
=============================================================================

-------------------------- MODULE TicketSaleProofs --------------------------
(***************************************************************************)
(* Conservation of the places of an event, for any number of events,       *)
(* reservations and places.                                                *)
(***************************************************************************)
EXTENDS TicketSale, TLAPS, FiniteSetTheorems

\* The check of Event.reserve keeps the stock a natural number.
LEMMA SaleTypesStay ==
  ASSUME SaleTypeOK, [SaleNext]_saleVars
  PROVE  SaleTypeOK'
<1> USE SaleAssumption DEF SaleTypeOK, ReservationStatus
<1>1. ASSUME NEW r \in Reservations, Reserve(r) \/ Issue(r) \/ GiveBack(r)
      PROVE  SaleTypeOK'
  BY <1>1 DEF Reserve, Issue, GiveBack
<1>2. CASE UNCHANGED saleVars
  BY <1>2 DEF saleVars
<1>3. QED
  BY <1>1, <1>2 DEF SaleNext

\* The type invariant of the abstract sale: in particular the number of free places
\* never goes below zero (the check of Event.reserve).
THEOREM SaleTypeCorrect == SaleSpec => []SaleTypeOK
<1>1. SaleInit => SaleTypeOK
  BY SaleAssumption DEF SaleInit, SaleTypeOK
<1>2. QED
  BY <1>1, SaleTypesStay, PTL DEF SaleSpec

\* The places of one reservation.
PlacesOf(r) == {r} \X (1..Quantity[r])

\* A reservation for n places has n of them.
LEMMA PlacesOfCount ==
  ASSUME NEW r \in Reservations
  PROVE  IsFiniteSet(PlacesOf(r)) /\ Cardinality(PlacesOf(r)) = Quantity[r]
<1>1. Quantity[r] \in Nat \ {0}
  BY SaleAssumption
<1>2. IsFiniteSet({r}) /\ Cardinality({r}) = 1
  BY FS_Singleton
<1>3. IsFiniteSet(1..Quantity[r]) /\ Cardinality(1..Quantity[r]) = Quantity[r]
  BY <1>1, FS_Interval
<1>4. /\ IsFiniteSet({r} \X (1..Quantity[r]))
      /\ Cardinality({r} \X (1..Quantity[r])) = 1 * Cardinality(1..Quantity[r])
  BY <1>2, <1>3, FS_Product, Zenon
<1>5. QED
  BY <1>1, <1>3, <1>4 DEF PlacesOf

\* Which pairs they are, among those HeldSeats is made of.
LEMMA PlacesOfMembers ==
  ASSUME NEW r \in Reservations
  PROVE  /\ PlacesOf(r) \subseteq Reservations \X (1..MaxQuantity)
         /\ \A p \in Reservations \X (1..MaxQuantity) :
               p \in PlacesOf(r) <=> p[1] = r /\ p[2] <= Quantity[r]
<1>1. Quantity[r] \in 1..MaxQuantity /\ MaxQuantity \in Nat
  BY SaleAssumption
<1>2. QED
  BY <1>1 DEF PlacesOf

\* Finitely many reservations hold finitely many places.
LEMMA HeldSeatsFinite ==
  ASSUME NEW e
  PROVE  IsFiniteSet(HeldSeats(e))
<1>1. IsFiniteSet(1..MaxQuantity)
  BY SaleAssumption, FS_Interval
<1>2. IsFiniteSet(Reservations \X (1..MaxQuantity))
  BY <1>1, SaleAssumption, FS_Product
<1>3. QED
  BY <1>2, FS_Subset DEF HeldSeats

\* Selling places to a reservation and taking them back move the number of places
\* held by exactly its quantity.
LEMMA HeldSeatsMove ==
  ASSUME NEW H, NEW G, IsFiniteSet(H), NEW r \in Reservations,
         G = H \cup PlacesOf(r), H \cap PlacesOf(r) = {}
  PROVE  IsFiniteSet(G) /\ Cardinality(G) = Cardinality(H) + Quantity[r]
<1>1. Cardinality(H \cap PlacesOf(r)) = 0
  BY FS_EmptySet
<1>2. Cardinality(H) \in Nat
  BY FS_CardinalityType
<1>3. IsFiniteSet(PlacesOf(r)) /\ Cardinality(PlacesOf(r)) = Quantity[r] /\ Quantity[r] \in Nat
  BY PlacesOfCount, SaleAssumption
<1>4. Cardinality(H \cup PlacesOf(r))
        = Cardinality(H) + Cardinality(PlacesOf(r)) - Cardinality(H \cap PlacesOf(r))
  BY <1>3, FS_Union
<1>5. IsFiniteSet(H \cup PlacesOf(r))
  BY <1>3, FS_Union, Zenon
<1>6. QED
  BY <1>1, <1>2, <1>3, <1>4, <1>5

\* Conservation holds for ever: Event.reserve and Event.release, called once per
\* change of status, keep free and held places equal to the capacity.
THEOREM SaleConserves == SaleSpec => []SeatsConserved
<1>1. SaleInit => SeatsConserved
  <2> SUFFICES ASSUME SaleInit, NEW e \in Events
               PROVE  availableSeats[e] + Cardinality(HeldSeats(e)) = TotalSeats[e]
    BY DEF SeatsConserved
  <2>1. HeldSeats(e) = {}
    BY DEF SaleInit, HeldSeats, Holding
  <2>2. Cardinality(HeldSeats(e)) = 0
    BY <2>1, FS_EmptySet
  <2>3. QED
    BY <2>2, SaleAssumption DEF SaleInit
<1>2. SaleTypeOK /\ SeatsConserved /\ [SaleNext]_saleVars => SeatsConserved'
  <2> SUFFICES ASSUME SaleTypeOK, SeatsConserved, [SaleNext]_saleVars, NEW e \in Events
               PROVE  availableSeats'[e] + Cardinality(HeldSeats(e)') = TotalSeats[e]
    BY DEF SeatsConserved
  <2>1. /\ availableSeats[e] \in Nat /\ TotalSeats[e] \in Nat
        /\ Cardinality(HeldSeats(e)) \in Nat
        /\ availableSeats[e] + Cardinality(HeldSeats(e)) = TotalSeats[e]
    BY HeldSeatsFinite, FS_CardinalityType, SaleAssumption DEF SaleTypeOK, SeatsConserved
  <2>2. ASSUME NEW r \in Reservations, Reserve(r)
        PROVE  availableSeats'[e] + Cardinality(HeldSeats(e)') = TotalSeats[e]
    <3>a. /\ status[r] = "NONE" /\ status'[r] = "PENDING"
          /\ \A q \in Reservations \ {r} : status'[q] = status[q]
          /\ availableSeats' =
                [availableSeats EXCEPT ![EventOf[r]] = @ - Quantity[r]]
      BY <2>2 DEF Reserve, SaleTypeOK
    <3>1. CASE EventOf[r] = e
      <4>1. HeldSeats(e)' = HeldSeats(e) \cup PlacesOf(r)
        BY <3>a, <3>1, PlacesOfMembers DEF HeldSeats, Holding
      <4>2. HeldSeats(e) \cap PlacesOf(r) = {}
        BY <3>a, PlacesOfMembers DEF HeldSeats, Holding
      <4>3. Cardinality(HeldSeats(e)') = Cardinality(HeldSeats(e)) + Quantity[r]
        BY <4>1, <4>2, HeldSeatsFinite, HeldSeatsMove
      <4>4. availableSeats'[e] = availableSeats[e] - Quantity[r] /\ Quantity[r] \in Nat
        BY <3>a, <3>1, SaleAssumption DEF SaleTypeOK
      <4>5. QED
        BY <2>1, <4>3, <4>4
    <3>2. CASE EventOf[r] # e
      <4>1. HeldSeats(e)' = HeldSeats(e)
        BY <3>a, <3>2 DEF HeldSeats
      <4>2. QED
        BY <2>1, <3>a, <3>2, <4>1 DEF SaleTypeOK
    <3>3. QED
      BY <3>1, <3>2
  <2>3. ASSUME NEW r \in Reservations, Issue(r)
        PROVE  availableSeats'[e] + Cardinality(HeldSeats(e)') = TotalSeats[e]
    <3>1. HeldSeats(e)' = HeldSeats(e)
      BY <2>3 DEF Issue, HeldSeats, Holding, SaleTypeOK
    <3>2. QED
      BY <2>1, <2>3, <3>1 DEF Issue
  <2>4. ASSUME NEW r \in Reservations, GiveBack(r)
        PROVE  availableSeats'[e] + Cardinality(HeldSeats(e)') = TotalSeats[e]
    <3>a. /\ status[r] = "PENDING" /\ status'[r] \in {"EXPIRED", "CANCELLED"}
          /\ \A q \in Reservations \ {r} : status'[q] = status[q]
          /\ availableSeats' =
                [availableSeats EXCEPT ![EventOf[r]] = @ + Quantity[r]]
      BY <2>4 DEF GiveBack, SaleTypeOK
    <3>1. CASE EventOf[r] = e
      <4>1. HeldSeats(e) = HeldSeats(e)' \cup PlacesOf(r)
        BY <3>a, <3>1, PlacesOfMembers DEF HeldSeats, Holding
      <4>2. HeldSeats(e)' \cap PlacesOf(r) = {}
        BY <3>a, PlacesOfMembers DEF HeldSeats, Holding
      <4>3. IsFiniteSet(HeldSeats(e)')
        BY <4>1, HeldSeatsFinite, FS_Subset
      <4>4. Cardinality(HeldSeats(e)) = Cardinality(HeldSeats(e)') + Quantity[r]
        BY <4>1, <4>2, <4>3, HeldSeatsMove
      <4>5. availableSeats'[e] = availableSeats[e] + Quantity[r] /\ Quantity[r] \in Nat
        BY <3>a, <3>1, SaleAssumption DEF SaleTypeOK
      <4>6. Cardinality(HeldSeats(e)') \in Nat
        BY <4>3, FS_CardinalityType
      <4>7. QED
        BY <2>1, <4>4, <4>5, <4>6
    <3>2. CASE EventOf[r] # e
      <4>1. HeldSeats(e)' = HeldSeats(e)
        BY <3>a, <3>2 DEF HeldSeats, Holding
      <4>2. QED
        BY <2>1, <3>a, <3>2, <4>1 DEF SaleTypeOK
    <3>3. QED
      BY <3>1, <3>2
  <2>5. CASE UNCHANGED saleVars
    BY <2>1, <2>5 DEF saleVars, HeldSeats
  <2>6. QED
    BY <2>2, <2>3, <2>4, <2>5 DEF SaleNext
<1>3. QED
  BY <1>1, <1>2, SaleTypeCorrect, PTL DEF SaleSpec

\* What a live reservation holds always fits back into the stock: the check of
\* Event.release against the capacity cannot fail.
LEMMA PlacesFitBack ==
  SaleTypeOK /\ SeatsConserved =>
      \A r \in Reservations : status[r] \in Holding =>
          availableSeats[EventOf[r]] + Quantity[r] <= TotalSeats[EventOf[r]]
<1> SUFFICES ASSUME SaleTypeOK, SeatsConserved, NEW r \in Reservations, status[r] \in Holding
             PROVE  availableSeats[EventOf[r]] + Quantity[r] <= TotalSeats[EventOf[r]]
  OBVIOUS
<1> DEFINE e == EventOf[r]
<1>1. PlacesOf(r) \subseteq HeldSeats(e)
  BY PlacesOfMembers DEF HeldSeats
<1>2. Cardinality(PlacesOf(r)) <= Cardinality(HeldSeats(e))
  BY <1>1, HeldSeatsFinite, FS_Subset
<1>3. Cardinality(PlacesOf(r)) = Quantity[r] /\ Quantity[r] \in Nat
  BY PlacesOfCount, SaleAssumption
<1>4. /\ availableSeats[e] \in Nat /\ TotalSeats[e] \in Nat
      /\ Cardinality(HeldSeats(e)) \in Nat
      /\ availableSeats[e] + Cardinality(HeldSeats(e)) = TotalSeats[e]
  BY HeldSeatsFinite, FS_CardinalityType, SaleAssumption DEF SaleTypeOK, SeatsConserved
<1>5. QED
  BY <1>2, <1>3, <1>4
=============================================================================

------------------------------ MODULE Adapters ------------------------------
(***************************************************************************)
(* From a provider's payload to the canonical order (providers/), and      *)
(* whether the order fits its row.                                         *)
(*                                                                         *)
(* A number n of a payload or of an order stands for n/1000 of its unit:   *)
(* pesos in Rappi's payloads, cents everywhere else.  A field that is      *)
(* missing or has the wrong type is None.  Quantities are whole numbers.   *)
(* Names of customers and items, which nothing depends on, are left out.   *)
(***************************************************************************)
EXTENDS Integers, Sequences, Functions

CONSTANTS
    None,
    MaxInt       \* bound: the largest value of an INTEGER column, in cents

ASSUME ColumnWidth == MaxInt \in Nat

Provider == {"RAPPI", "UBEREATS", "DIDI"}
Milli    == 1000

\* Payload p has items, each with these fields.
HasItems(p, fields) ==
    p.items # <<>> /\ \A i \in DOMAIN p.items, field \in fields : p.items[i][field] # None

isRappiOrderPayload(p) ==
    /\ p.externalId # None
    /\ p.placedAt # None
    /\ p.total # None
    /\ HasItems(p, {"quantity", "price"})

isUberEatsOrderPayload(p) ==
    /\ p.externalId # None
    /\ p.placedAt # None
    /\ HasItems(p, {"quantity", "price", "currency"})

\* The outer object has an orderDetail, which parses, and has what it should.
isDidiOrderDetail(p) ==
    /\ p.detail = "json"
    /\ p.externalId # None
    /\ p.currency # None
    /\ p.total # None
    /\ p.placedAt # None
    /\ HasItems(p, {"quantity", "price"})

WellFormed(provider, p) ==
    \/ provider = "RAPPI" /\ isRappiOrderPayload(p)
    \/ provider = "UBEREATS" /\ isUberEatsOrderPayload(p)
    \/ provider = "DIDI" /\ isDidiOrderDetail(p)

\* Mutant of pesosToCents: Math.floor.
pesosToCents_Floor(pesos) == Milli * ((pesos * 100) \div Milli)

\* Math.round(pesos * 100).  The product is taken to be exact: halves of a cent,
\* where the double may fall on either side, are not among the inputs.
pesosToCents(pesos) == Milli * ((pesos * 100 + Milli \div 2) \div Milli)

\* Rappi's products with their prices in cents.
InCents(products) ==
    [i \in DOMAIN products |-> [products[i] EXCEPT !.price = pesosToCents(@)]]

CanonicalItems(items) ==
    [i \in DOMAIN items |-> [quantity |-> items[i].quantity, unitPriceCents |-> items[i].price]]

\* items.reduce((sum, item) => sum + item.quantity * item.unitPriceCents, 0)
SumOfItems(items) ==
    SumFunction([i \in DOMAIN items |-> items[i].quantity * items[i].unitPriceCents])

RappiOrder(p) ==
    [externalId |-> p.externalId, items |-> CanonicalItems(InCents(p.items)),
     totalCents |-> pesosToCents(p.total), currency |-> "COP"]

\* Mutant of UberEatsOrder: the quantities are forgotten.
UberEatsOrder_NoQuantity(p) ==
    [externalId |-> p.externalId, items |-> CanonicalItems(p.items),
     totalCents |-> SumFunction([i \in DOMAIN p.items |-> p.items[i].price]),
     currency |-> p.items[1].currency]

\* The total is derived from the cart, the currency from its first item.
UberEatsOrder(p) ==
    [externalId |-> p.externalId, items |-> CanonicalItems(p.items),
     totalCents |-> SumOfItems(CanonicalItems(p.items)),
     currency |-> p.items[1].currency]

\* Everything is taken as it comes.
DidiOrder(p) ==
    [externalId |-> p.externalId, items |-> CanonicalItems(p.items),
     totalCents |-> p.total, currency |-> p.currency]

toCanonicalOrder(provider, p) ==
    CASE provider = "RAPPI"    -> RappiOrder(p)
      [] provider = "UBEREATS" -> UberEatsOrder(p)
      [] provider = "DIDI"     -> DidiOrder(p)

\* Mutant of FitsRow: the column is wide enough for everything.
FitsRow_Wide(order) == order.totalCents % Milli = 0

\* totalCents is an Int column; the items are JSON and take any number.
FitsRow(order) ==
    /\ order.totalCents % Milli = 0
    /\ order.totalCents \div Milli \in -(MaxInt + 1) .. MaxInt
=============================================================================

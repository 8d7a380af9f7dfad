---------------------------- MODULE AmountProofs ----------------------------
(***************************************************************************)
(* Proofs about Ingress, for every menu, cart, fraction and column: what   *)
(* the adapters make of the amounts.                                       *)
(*                                                                         *)
(* Whoever sends it, a payload has a list of lines with natural numbers    *)
(* (Shaped), and so has the order (OrderIsTyped).  Sums over lists of any  *)
(* length are handled by the lemmas of Sums.                               *)
(***************************************************************************)
EXTENDS IngressProofs, Sums

Line == [quantity : Nat, price : Nat \cup {None}, currency : {None, "MXN"}]
Item == [quantity : Nat, unitPriceCents : Nat]

\* The numbers that a payload can have.
Shaped(b) ==
    /\ b.total \in Nat \cup {None}
    /\ \E n \in 0 .. MaxLines : b.items \in [1 .. n -> Line]

BodyIsShaped == body # None => Shaped(body)

\* An order is what the adapter made of a payload that it accepted.
Translated ==
    /\ order # None => stage \in {"adapted", "refused", "stored"}
    /\ stage \in {"adapted", "refused", "stored"} =>
         /\ body # None
         /\ WellFormed(endpoint, body)
         /\ order = toCanonicalOrder(endpoint, body)
    /\ stage = "stored" => FitsRow(order)

\* The way of a cart that the simulator drew.
Drawn ==
    cart # None =>
        /\ stage \in {"sent", "queued", "adapted", "stored"}
        /\ endpoint \in Provider
        /\ cart \in Carts(endpoint)
        /\ body = buildWebhookPayload(endpoint, cart)
        /\ headers = signWebhook(endpoint, body, Secret[endpoint])

StagesAreKnown == stage \in Stages /\ endpoint \in Provider \cup {None}

AmountInv ==
    /\ InFlight
    /\ TakenIffSigned
    /\ StagesAreKnown
    /\ BodyIsShaped
    /\ Translated
    /\ Drawn

-----------------------------------------------------------------------------
(* Sums of items.                                                          *)

\* The terms of a sum of items, and that it is a natural number.
Terms(items) == [i \in DOMAIN items |-> items[i].quantity * items[i].unitPriceCents]

LEMMA TermsAreNat ==
  ASSUME NEW n \in Nat, NEW items \in [1 .. n -> Item]
  PROVE  /\ DOMAIN items = 1 .. n
         /\ IsFiniteSet(1 .. n)
         /\ Terms(items) \in [1 .. n -> Nat]
         /\ \A i \in 1 .. n : Terms(items)[i] = items[i].quantity * items[i].unitPriceCents
<1>1. DOMAIN items = 1 .. n /\ IsFiniteSet(1 .. n)
  BY FS_Interval
<1>2. ASSUME NEW i \in 1 .. n
      PROVE  items[i].quantity * items[i].unitPriceCents \in Nat
  <2>1. items[i].quantity \in Nat /\ items[i].unitPriceCents \in Nat
    BY DEF Item
  <2>2. \A a, b \in Nat : a * b \in Nat
    OBVIOUS
  <2>3. QED
    BY <2>1, <2>2
<1>3. QED
  BY <1>1, <1>2 DEF Terms

LEMMA SumOfItemsIsNat ==
  ASSUME NEW n \in Nat, NEW items \in [1 .. n -> Item]
  PROVE  SumOfItems(items) \in Nat
<1>1. SumOfItems(items) = SumFunction(Terms(items))
  BY DEF SumOfItems, Terms
<1>2. QED
  BY <1>1, TermsAreNat, SumIsNat

\* Sums of items whose prices are k times the prices of others.
LEMMA SumOfScaledItems ==
  ASSUME NEW n \in Nat, NEW k \in Nat,
         NEW items \in [1 .. n -> Item], NEW others \in [1 .. n -> Item],
         \A i \in 1 .. n : /\ others[i].quantity = items[i].quantity
                           /\ others[i].unitPriceCents = k * items[i].unitPriceCents
  PROVE  SumOfItems(others) = k * SumOfItems(items)
<1> DEFINE v == Terms(items)
           w == Terms(others)
<1>1. IsFiniteSet(1 .. n) /\ v \in [1 .. n -> Int] /\ w \in [1 .. n -> Int]
  BY TermsAreNat
<1>2. ASSUME NEW i \in 1 .. n
      PROVE  w[i] = k * v[i]
  <2>1. items[i].quantity \in Nat /\ items[i].unitPriceCents \in Nat
    BY DEF Item
  <2>2. \A q, u \in Nat : q * (k * u) = k * (q * u)
    OBVIOUS
  <2>3. w[i] = items[i].quantity * (k * items[i].unitPriceCents)
    BY TermsAreNat
  <2>4. v[i] = items[i].quantity * items[i].unitPriceCents
    BY TermsAreNat
  <2>5. QED
    BY <2>1, <2>2, <2>3, <2>4
<1>3. SumOfItems(items) = SumFunction(v) /\ SumOfItems(others) = SumFunction(w)
  BY DEF SumOfItems, Terms
<1> HIDE DEF v, w
<1>4. SumFunction(w) = k * SumFunction(v)
  <2>1. k \in Int /\ \A i \in 1 .. n : w[i] = k * v[i]
    BY <1>2
  <2>2. QED
    BY <1>1, <2>1, SumScaled, ZenonT(60)
<1>5. QED
  BY <1>3, <1>4

-----------------------------------------------------------------------------
(* What can be in a payload.                                               *)

\* A line whose price is there.
Priced == [quantity : Nat, price : Nat, currency : {None, "MXN"}]

LEMMA CartShape ==
  ASSUME NEW p \in Provider, NEW c \in Carts(p)
  PROVE  /\ Menu(p) \subseteq Nat
         /\ \E n \in 1 .. MaxLines : c \in [1 .. n -> [quantity : 1 .. MaxUnits, price : Menu(p)]]
  BY MenusFit DEF Carts, Menu

LEMMA LinesArePriced ==
  ASSUME NEW n \in Nat, NEW c \in [1 .. n -> [quantity : Nat, price : Nat]],
         NEW factor \in Nat, NEW currency \in {None, "MXN"}
  PROVE  /\ DOMAIN Lines(c, factor, currency) = 1 .. n
         /\ Lines(c, factor, currency) \in [1 .. n -> Priced]
<1>1. ASSUME NEW i \in 1 .. n
      PROVE  Milli * factor * c[i].price \in Nat
  <2>1. Milli \in Nat /\ c[i].price \in Nat
    BY DEF Milli
  <2>2. \A a, b \in Nat : a * b \in Nat
    OBVIOUS
  <2>3. QED
    BY <2>1, <2>2
<1>2. QED
  BY <1>1 DEF Lines, Priced

LEMMA CanonicalItemsAreItems ==
  ASSUME NEW n \in Nat, NEW items \in [1 .. n -> Line],
         \A i \in 1 .. n : items[i].price # None
  PROVE  CanonicalItems(items) \in [1 .. n -> Item]
  BY DEF CanonicalItems, Line, Item

LEMMA SumSentIsNat ==
  ASSUME NEW n \in Nat, NEW items \in [1 .. n -> Priced]
  PROVE  SumSent(items) \in Nat
<1>1. CanonicalItems(items) \in [1 .. n -> Item]
  BY DEF CanonicalItems, Priced, Item
<1>2. QED
  BY <1>1, SumOfItemsIsNat DEF SumSent

\* A payload with prices, as the factories build it.
Whole(b) ==
    /\ b = [externalId |-> b.externalId, placedAt |-> b.placedAt, total |-> b.total,
            currency |-> b.currency, items |-> b.items, detail |-> b.detail]
    /\ b.total \in Nat \cup {None}
    /\ \E n \in 1 .. MaxLines : b.items \in [1 .. n -> Priced]

LEMMA BuiltIsWhole ==
  ASSUME NEW p \in Provider, NEW c \in Carts(p)
  PROVE  Whole(buildWebhookPayload(p, c))
<1>1. PICK n \in 1 .. MaxLines : c \in [1 .. n -> [quantity : Nat, price : Nat]]
  BY CartShape, IngressBounds
<1>2. n \in Nat
  BY IngressBounds
<1>3. CASE p = "RAPPI"
  <2> DEFINE items == Lines(c, 1, None)
  <2>1. items \in [1 .. n -> Priced]
    BY <1>1, <1>2, LinesArePriced
  <2>2. SumSent(items) \in Nat
    BY <1>2, <2>1, SumSentIsNat
  <2>3. QED
    BY <1>3, <2>1, <2>2 DEF buildWebhookPayload, buildRappiPayload, Whole
<1>4. CASE p = "UBEREATS"
  <2> DEFINE items == Lines(c, 1, "MXN")
  <2>1. items \in [1 .. n -> Priced]
    BY <1>1, <1>2, LinesArePriced
  <2>2. QED
    BY <1>4, <2>1 DEF buildWebhookPayload, buildUberEatsPayload, Whole
<1>5. CASE p = "DIDI"
  <2> DEFINE items == Lines(c, 100, None)
  <2>1. items \in [1 .. n -> Priced]
    BY <1>1, <1>2, LinesArePriced
  <2>2. SumSent(items) \in Nat
    BY <1>2, <2>1, SumSentIsNat
  <2>3. QED
    BY <1>5, <2>1, <2>2 DEF buildWebhookPayload, buildDidiPayload, Whole
<1>6. QED
  BY <1>3, <1>4, <1>5 DEF Provider

LEMMA WholeIsShaped ==
  ASSUME NEW b, Whole(b)
  PROVE  Shaped(b)
<1>1. PICK n \in 1 .. MaxLines : b.items \in [1 .. n -> Priced]
  BY DEF Whole
<1>2. b.items \in [1 .. n -> Line] /\ n \in 0 .. MaxLines
  BY <1>1, IngressBounds DEF Priced, Line
<1>3. QED
  BY <1>2 DEF Whole, Shaped

LEMMA FractionIsShaped ==
  ASSUME NEW b, Whole(b), NEW f \in Fractions
  PROVE  Shaped(WithFraction(b, f))
<1>1. PICK n \in 1 .. MaxLines : b.items \in [1 .. n -> Priced]
  BY DEF Whole
<1>2. n \in Nat /\ f \in Nat
  BY IngressBounds
<1> DEFINE items == [i \in DOMAIN b.items |-> [b.items[i] EXCEPT !.price = @ + f]]
<1>3. items \in [1 .. n -> Priced]
  BY <1>1, <1>2 DEF Priced
<1>4. SumSent(items) \in Nat
  BY <1>2, <1>3, SumSentIsNat
<1>5. /\ WithFraction(b, f).items = items
      /\ WithFraction(b, f).total \in {None, SumSent(items)}
  <2> HIDE DEF items
  <2>1. WithFraction(b, f) =
          [b EXCEPT !.items = items, !.total = IF b.total = None THEN None ELSE SumSent(items)]
    BY DEF WithFraction, items
  <2>2. QED
    BY <2>1 DEF Whole
<1>6. items \in [1 .. n -> Line] /\ n \in 0 .. MaxLines
  BY <1>3, IngressBounds DEF Priced, Line
<1> HIDE DEF items
<1>7. QED
  BY <1>4, <1>5, <1>6 DEF Shaped

\* A deviation takes a field away, empties the list, or changes numbers to numbers.
LEMMA DeviationIsShaped ==
  ASSUME NEW b, Whole(b), NEW d \in Deviations(b)
  PROVE  Shaped(d)
<1>1. PICK n \in 1 .. MaxLines : b.items \in [1 .. n -> Priced]
  BY DEF Whole
<1>2. n \in 0 .. MaxLines /\ 0 \in 0 .. MaxLines /\ b.items \in [1 .. n -> Line]
  BY <1>1, IngressBounds DEF Priced, Line
<1>3. Milli * (MaxInt + 1) \in Nat
  BY ColumnWidth DEF Milli
<1>4. CASE \E f \in Fractions : d = WithFraction(b, f)
  BY <1>4, FractionIsShaped
<1>5. CASE \/ d = [b EXCEPT !.externalId = None] \/ d = [b EXCEPT !.placedAt = None]
           \/ d = [b EXCEPT !.placedAt = "invalid"] \/ d = [b EXCEPT !.currency = None]
           \/ d = [b EXCEPT !.detail = "garbled"]
  <2>1. d.items = b.items /\ d.total = b.total
    BY <1>5 DEF Whole
  <2>2. QED
    BY <1>2, <2>1 DEF Whole, Shaped
<1>6. CASE d = [b EXCEPT !.total = None] \/ d = [b EXCEPT !.total = Milli * (MaxInt + 1)]
  <2>1. d.items = b.items /\ d.total \in {None, Milli * (MaxInt + 1)}
    BY <1>6 DEF Whole
  <2>2. QED
    BY <1>2, <1>3, <2>1 DEF Shaped
<1>7. CASE d = [b EXCEPT !.items = <<>>]
  <2>1. d.items = <<>> /\ d.total = b.total
    BY <1>7 DEF Whole
  <2>2. d.items \in [1 .. 0 -> Line]
    BY <2>1
  <2>3. QED
    BY <1>2, <2>1, <2>2 DEF Whole, Shaped
<1>8. CASE d = [b EXCEPT !.items[1].price = None] \/ d = [b EXCEPT !.items[1].currency = None]
  <2>1. /\ d.total = b.total
        /\ \/ d.items = [b.items EXCEPT ![1].price = None]
           \/ d.items = [b.items EXCEPT ![1].currency = None]
    BY <1>8 DEF Whole
  <2>2. ASSUME NEW l \in Line
        PROVE  [l EXCEPT !.price = None] \in Line /\ [l EXCEPT !.currency = None] \in Line
    BY DEF Line
  <2> DEFINE changed == {[b.items[1] EXCEPT !.price = None], [b.items[1] EXCEPT !.currency = None]}
  <2>3. 1 \in 1 .. n /\ changed \subseteq Line
    BY <1>1, <1>2, <2>2
  <2>4. PICK line \in changed : d.items = [i \in 1 .. n |-> IF i = 1 THEN line ELSE b.items[i]]
    BY <1>1, <2>1, <2>3
  <2> HIDE DEF changed
  <2>5. d.items \in [1 .. n -> Line]
    BY <1>2, <2>3, <2>4
  <2>6. QED
    BY <1>2, <2>1, <2>5 DEF Whole, Shaped
<1>9. QED
  BY <1>4, <1>5, <1>6, <1>7, <1>8 DEF Deviations

-----------------------------------------------------------------------------
(* What the adapters make of it.                                           *)

LEMMA AcceptedIsPriced ==
  ASSUME NEW p, NEW b, Shaped(b), WellFormed(p, b)
  PROVE  /\ p \in Provider
         /\ \E n \in 1 .. MaxLines : b.items \in [1 .. n -> Priced]
         /\ p # "UBEREATS" => b.total \in Nat
<1>1. PICK n \in 0 .. MaxLines : b.items \in [1 .. n -> Line]
  BY DEF Shaped
<1>2. /\ p \in Provider
      /\ b.items # <<>>
      /\ \A i \in DOMAIN b.items : b.items[i].price # None
      /\ p # "UBEREATS" => b.total # None
  BY DEF WellFormed, isRappiOrderPayload, isUberEatsOrderPayload, isDidiOrderDetail, HasItems,
     Provider
<1>3. n # 0
  <2>1. ASSUME n = 0
        PROVE  b.items = <<>>
    BY <1>1, <2>1
  <2>2. QED
    BY <1>2, <2>1
<1>4. b.items \in [1 .. n -> Priced]
  BY <1>1, <1>2 DEF Line, Priced
<1>5. QED
  BY <1>2, <1>3, <1>4, IngressBounds DEF Shaped

\* Items as they are sent, and Rappi's items, which are rounded.
LEMMA SentItems ==
  ASSUME NEW n \in Nat, NEW items \in [1 .. n -> Priced]
  PROVE  /\ CanonicalItems(items) \in [1 .. n -> Item]
         /\ \A i \in 1 .. n :
              /\ CanonicalItems(items)[i].quantity = items[i].quantity
              /\ CanonicalItems(items)[i].unitPriceCents = items[i].price
  BY DEF CanonicalItems, Priced, Item

LEMMA CentsAreNat ==
  ASSUME NEW pesos \in Nat
  PROVE  pesosToCents(pesos) \in Nat
  BY DEF pesosToCents, Milli

LEMMA RoundedItems ==
  ASSUME NEW n \in Nat, NEW items \in [1 .. n -> Priced]
  PROVE  /\ CanonicalItems(InCents(items)) \in [1 .. n -> Item]
         /\ \A i \in 1 .. n :
              /\ CanonicalItems(InCents(items))[i].quantity = items[i].quantity
              /\ CanonicalItems(InCents(items))[i].unitPriceCents = pesosToCents(items[i].price)
<1>1. InCents(items) \in [1 .. n -> Priced]
  BY CentsAreNat DEF InCents, Priced
<1>2. \A i \in 1 .. n : /\ InCents(items)[i].quantity = items[i].quantity
                        /\ InCents(items)[i].price = pesosToCents(items[i].price)
  BY DEF InCents, Priced
<1>3. QED
  BY <1>1, <1>2, SentItems

\* An order has items, natural numbers in them, and a natural total.
LEMMA OrderIsTyped ==
  ASSUME NEW p, NEW b, Shaped(b), WellFormed(p, b)
  PROVE  LET o == toCanonicalOrder(p, b) IN
         /\ o.totalCents \in Nat
         /\ \E n \in 1 .. MaxLines : o.items \in [1 .. n -> Item]
<1>1. PICK n \in 1 .. MaxLines : b.items \in [1 .. n -> Priced]
  BY AcceptedIsPriced
<1>2. n \in Nat
  BY IngressBounds
<1>3. CASE p = "RAPPI"
  <2>1. toCanonicalOrder(p, b) = RappiOrder(b)
    BY <1>3 DEF toCanonicalOrder
  <2>2. pesosToCents(b.total) \in Nat
    BY <1>3, AcceptedIsPriced, CentsAreNat
  <2>3. QED
    BY <1>1, <1>2, <2>1, <2>2, RoundedItems DEF RappiOrder
<1>4. CASE p = "UBEREATS"
  <2>1. toCanonicalOrder(p, b) = UberEatsOrder(b)
    BY <1>4 DEF toCanonicalOrder
  <2>2. CanonicalItems(b.items) \in [1 .. n -> Item]
    BY <1>1, <1>2, SentItems
  <2>3. QED
    BY <1>2, <2>1, <2>2, SumOfItemsIsNat DEF UberEatsOrder
<1>5. CASE p = "DIDI"
  <2>1. toCanonicalOrder(p, b) = DidiOrder(b)
    BY <1>5 DEF toCanonicalOrder
  <2>2. b.total \in Nat
    BY <1>5, AcceptedIsPriced
  <2>3. QED
    BY <1>1, <1>2, <2>1, <2>2, SentItems DEF DidiOrder
<1>6. QED
  BY <1>3, <1>4, <1>5, AcceptedIsPriced DEF Provider

-----------------------------------------------------------------------------
(* Rounding.                                                               *)

LEMMA CentDrift ==
  ASSUME NEW pesos \in Nat
  PROVE  /\ 2 * pesosToCents(pesos) <= 200 * pesos + Milli
         /\ 200 * pesos <= 2 * pesosToCents(pesos) + Milli
  BY DEF pesosToCents, Milli

\* Half a cent for each unit, however many lines there are.
LEMMA ItemsDrift ==
  ASSUME NEW n \in Nat, NEW items \in [1 .. n -> Priced]
  PROVE  LET rounded == CanonicalItems(InCents(items)) IN
         /\ Units(rounded) \in Nat
         /\ 2 * SumOfItems(rounded) <= 200 * SumSent(items) + Milli * Units(rounded)
         /\ 200 * SumSent(items) <= 2 * SumOfItems(rounded) + Milli * Units(rounded)
<1> DEFINE sent    == CanonicalItems(items)
           rounded == CanonicalItems(InCents(items))
           single  == [i \in DOMAIN rounded |-> [quantity |-> rounded[i].quantity,
                                                 unitPriceCents |-> 1]]
           u == Terms(sent)
           w == Terms(rounded)
           m == Terms(single)
<1>1. sent \in [1 .. n -> Item] /\ rounded \in [1 .. n -> Item] /\ single \in [1 .. n -> Item]
  <2>1. sent \in [1 .. n -> Item] /\ rounded \in [1 .. n -> Item]
    BY SentItems, RoundedItems
  <2> HIDE DEF rounded
  <2>2. single \in [1 .. n -> Item]
    BY <2>1 DEF Item
  <2>3. QED
    BY <2>1, <2>2
<1>2. /\ SumSent(items) = SumFunction(u)
      /\ SumOfItems(rounded) = SumFunction(w)
      /\ Units(rounded) = SumFunction(m)
      /\ Units(rounded) \in Nat
  BY <1>1, SumOfItemsIsNat DEF SumSent, SumOfItems, Units, Terms
<1>3. IsFiniteSet(1 .. n) /\ u \in [1 .. n -> Int] /\ w \in [1 .. n -> Int] /\ m \in [1 .. n -> Int]
  <2> HIDE DEF sent, rounded, single
  <2>1. QED
    BY <1>1, TermsAreNat
<1>4. ASSUME NEW i \in 1 .. n
      PROVE  /\ 2 * w[i] <= 200 * u[i] + Milli * m[i]
             /\ 200 * u[i] <= 2 * w[i] + Milli * m[i]
  <2> DEFINE q == items[i].quantity
             x == items[i].price
             c == pesosToCents(x)
  <2>1. q \in Nat /\ x \in Nat /\ c \in Nat
    BY CentsAreNat DEF Priced
  <2>2. u[i] = q * x /\ w[i] = q * c /\ m[i] = q * 1
    <3>1. sent[i].quantity = q /\ sent[i].unitPriceCents = x
      BY SentItems
    <3>2. rounded[i].quantity = q /\ rounded[i].unitPriceCents = c
      BY RoundedItems
    <3>3. single[i].quantity = q /\ single[i].unitPriceCents = 1
      BY <1>1, <3>2
    <3> HIDE DEF sent, rounded, single, q, x, c
    <3>4. QED
      BY <1>1, <3>1, <3>2, <3>3, TermsAreNat
  <2>3. 2 * c <= 200 * x + Milli /\ 200 * x <= 2 * c + Milli
    BY <2>1, CentDrift
  <2>4. \A a, b, d \in Nat : a <= b => d * a <= d * b
    OBVIOUS
  <2> HIDE DEF q, x, c, u, w, m
  <2>5. /\ q * (2 * c) <= q * (200 * x + Milli)
        /\ q * (200 * x) <= q * (2 * c + Milli)
    BY <2>1, <2>3, <2>4 DEF Milli
  <2>6. /\ q * (2 * c) = 2 * (q * c)
        /\ q * (200 * x) = 200 * (q * x)
        /\ q * (200 * x + Milli) = 200 * (q * x) + Milli * (q * 1)
        /\ q * (2 * c + Milli) = 2 * (q * c) + Milli * (q * 1)
    BY <2>1 DEF Milli
  <2>7. QED
    BY <2>2, <2>5, <2>6
<1> HIDE DEF u, w, m
<1> DEFINE two        == 2
           twoHundred == 200
<1>5. two \in Int /\ twoHundred \in Int /\ Milli \in Int
  BY DEF Milli
<1>6. \A i \in 1 .. n : /\ two * w[i] <= twoHundred * u[i] + Milli * m[i]
                        /\ twoHundred * u[i] <= two * w[i] + Milli * m[i]
  BY <1>4
<1> HIDE DEF two, twoHundred
<1>7. /\ two * SumFunction(w) <= twoHundred * SumFunction(u) + Milli * SumFunction(m)
      /\ twoHundred * SumFunction(u) <= two * SumFunction(w) + Milli * SumFunction(m)
  BY <1>3, <1>5, <1>6, SumLinear
<1>8. QED
  BY <1>2, <1>7 DEF two, twoHundred

\* Whole cents stay what they are.
LEMMA CentsAreExact ==
  ASSUME NEW pesos \in Nat, pesos % 10 = 0
  PROVE  pesosToCents(pesos) = 100 * pesos
  BY DEF pesosToCents, Milli

\* And so do their sums: with prices in whole cents, rounding the total is adding up
\* the rounded prices.
LEMMA WholeCentsAddUp ==
  ASSUME NEW n \in Nat, NEW items \in [1 .. n -> Priced],
         \A i \in 1 .. n : items[i].price % 10 = 0
  PROVE  pesosToCents(SumSent(items)) = SumOfItems(CanonicalItems(InCents(items)))
<1> DEFINE sent    == CanonicalItems(items)
           rounded == CanonicalItems(InCents(items))
           tenths  == [i \in 1 .. n |-> [quantity |-> items[i].quantity,
                                        unitPriceCents |-> items[i].price \div 10]]
<1>1. /\ sent \in [1 .. n -> Item]
      /\ \A i \in 1 .. n : /\ sent[i].quantity = items[i].quantity
                            /\ sent[i].unitPriceCents = items[i].price
  BY SentItems
<1>2. /\ rounded \in [1 .. n -> Item]
      /\ \A i \in 1 .. n : /\ rounded[i].quantity = items[i].quantity
                            /\ rounded[i].unitPriceCents = pesosToCents(items[i].price)
  BY RoundedItems
<1>3. \A i \in 1 .. n : /\ items[i].price \in Nat
                        /\ items[i].quantity \in Nat
                        /\ items[i].price \div 10 \in Nat
                        /\ items[i].price = 10 * (items[i].price \div 10)
  BY DEF Priced
<1>4. /\ tenths \in [1 .. n -> Item]
      /\ \A i \in 1 .. n : /\ tenths[i].quantity = items[i].quantity
                            /\ tenths[i].unitPriceCents = items[i].price \div 10
  BY <1>3 DEF Item
<1>5. \A i \in 1 .. n : /\ sent[i].quantity = tenths[i].quantity
                        /\ sent[i].unitPriceCents = 10 * tenths[i].unitPriceCents
  BY <1>1, <1>3, <1>4
<1>6. \A i \in 1 .. n : /\ rounded[i].quantity = sent[i].quantity
                        /\ rounded[i].unitPriceCents = 100 * sent[i].unitPriceCents
  BY <1>1, <1>2, <1>3, CentsAreExact
<1> HIDE DEF sent, rounded, tenths
<1>7. SumOfItems(tenths) \in Nat /\ SumOfItems(sent) = 10 * SumOfItems(tenths)
  BY <1>1, <1>4, <1>5, SumOfItemsIsNat, SumOfScaledItems
<1>8. SumOfItems(rounded) = 100 * SumOfItems(sent)
  BY <1>1, <1>2, <1>6, SumOfScaledItems
<1>9. pesosToCents(SumOfItems(sent)) = 100 * SumOfItems(sent)
  <2> DEFINE t == SumOfItems(tenths)
  <2> HIDE DEF t
  <2>1. t \in Nat /\ SumOfItems(sent) = 10 * t
    BY <1>7 DEF t
  <2>2. 10 * t \in Nat /\ (10 * t) % 10 = 0
    BY <2>1
  <2>3. QED
    BY <2>1, <2>2, CentsAreExact
<1>10. QED
  BY <1>8, <1>9 DEF SumSent, sent, rounded

\* The bound of RoundingIsBounded.
LEMMA TotalDrift ==
  ASSUME NEW p, NEW b, Shaped(b), WellFormed(p, b), b.total \in {None, SumSent(b.items)}
  PROVE  LET o     == toCanonicalOrder(p, b)
             drift == o.totalCents - SumOfItems(o.items)
             bound == Milli * (Units(o.items) + 1)
         IN /\ 2 * drift <= bound /\ -2 * drift <= bound
            /\ InWholeCents(p, b) => drift = 0
<1>1. PICK n \in 1 .. MaxLines : b.items \in [1 .. n -> Priced]
  BY AcceptedIsPriced
<1>2. n \in Nat
  BY IngressBounds
<1>3. p \in Provider /\ (p # "UBEREATS" => b.total = SumSent(b.items))
  BY AcceptedIsPriced, NoneIsNoValue
<1> DEFINE sent    == CanonicalItems(b.items)
           rounded == CanonicalItems(InCents(b.items))
<1>4. CASE p = "RAPPI"
  <2>1. /\ toCanonicalOrder(p, b).items = rounded
        /\ toCanonicalOrder(p, b).totalCents = pesosToCents(SumSent(b.items))
    BY <1>3, <1>4 DEF toCanonicalOrder, RappiOrder
  <2> DEFINE T == SumSent(b.items)
             W == SumOfItems(rounded)
             U == Units(rounded)
             c == pesosToCents(T)
  <2>2. T \in Nat /\ W \in Nat /\ U \in Nat
    BY <1>1, <1>2, SumSentIsNat, RoundedItems, SumOfItemsIsNat, ItemsDrift
  <2>3. 2 * W <= 200 * T + Milli * U /\ 200 * T <= 2 * W + Milli * U
    BY <1>1, <1>2, ItemsDrift
  <2>4. c \in Nat /\ 2 * c <= 200 * T + Milli /\ 200 * T <= 2 * c + Milli
    BY <2>2, CentDrift, CentsAreNat
  <2>5. InWholeCents(p, b) => c = W
    <3>1. InWholeCents(p, b) => \A i \in 1 .. n : b.items[i].price % 10 = 0
      BY <1>1, <1>4 DEF InWholeCents
    <3>2. QED
      BY <1>1, <1>2, <3>1, WholeCentsAddUp
  <2> HIDE DEF T, W, U, c
  <2>6. 2 * (c - W) <= Milli * (U + 1) /\ -2 * (c - W) <= Milli * (U + 1)
    BY <2>2, <2>3, <2>4 DEF Milli
  <2>7. InWholeCents(p, b) => c - W = 0
    BY <2>2, <2>4, <2>5
  <2>8. QED
    BY <2>1, <2>6, <2>7 DEF T, W, U, c
<1>5. CASE p \in {"UBEREATS", "DIDI"}
  <2>1. /\ toCanonicalOrder(p, b).items = sent
        /\ toCanonicalOrder(p, b).totalCents = SumOfItems(sent)
    BY <1>3, <1>5 DEF toCanonicalOrder, UberEatsOrder, DidiOrder, SumSent
  <2>2. sent \in [1 .. n -> Item]
    BY <1>1, <1>2, SentItems
  <2> DEFINE single == [i \in DOMAIN sent |-> [quantity |-> sent[i].quantity, unitPriceCents |-> 1]]
  <2> HIDE DEF sent
  <2>3. single \in [1 .. n -> Item]
    BY <2>2 DEF Item
  <2>4. SumOfItems(sent) \in Nat /\ Units(sent) \in Nat
    <3>1. Units(sent) = SumOfItems(single)
      BY DEF Units
    <3> HIDE DEF single
    <3>2. QED
      BY <1>2, <2>2, <2>3, <3>1, SumOfItemsIsNat
  <2>5. QED
    BY <2>1, <2>4 DEF Milli
<1>6. QED
  BY <1>3, <1>4, <1>5 DEF Provider

-----------------------------------------------------------------------------
(* The simulator's orders.                                                 *)

\* A cart's items at the prices of its menu; its total is what everything else is a
\* multiple of.
Plain(c) == [i \in DOMAIN c |-> [quantity |-> c[i].quantity, unitPriceCents |-> c[i].price]]

Cents(p) == IF p = "UBEREATS" THEN 1 ELSE 100

LEMMA PlainItems ==
  ASSUME NEW p \in Provider, NEW n \in Nat,
         NEW c \in [1 .. n -> [quantity : 1 .. MaxUnits, price : Menu(p)]]
  PROVE  /\ Plain(c) \in [1 .. n -> Item]
         /\ \A i \in 1 .. n : Plain(c)[i].quantity = c[i].quantity /\ Plain(c)[i].unitPriceCents = c[i].price
         /\ SumOfItems(Plain(c)) \in Nat
<1>1. Menu(p) \subseteq Nat /\ 1 .. MaxUnits \subseteq Nat
  BY MenusFit, IngressBounds DEF Menu
<1>2. c \in [1 .. n -> [quantity : Nat, price : Nat]]
  BY <1>1
<1>3. /\ Plain(c) \in [1 .. n -> Item]
      /\ \A i \in 1 .. n : Plain(c)[i].quantity = c[i].quantity /\ Plain(c)[i].unitPriceCents = c[i].price
  BY <1>2 DEF Plain, Item
<1>4. QED
  BY <1>3, SumOfItemsIsNat

\* The dearest cart fits, and so does every other.
LEMMA PlainTotalFits ==
  ASSUME NEW p \in Provider, NEW n \in 1 .. MaxLines,
         NEW c \in [1 .. n -> [quantity : 1 .. MaxUnits, price : Menu(p)]]
  PROVE  Cents(p) * SumOfItems(Plain(c)) <= MaxInt
<1> DEFINE v == Terms(Plain(c))
<1>1. n \in Nat /\ MaxLines \in Nat \ {0} /\ MaxUnits \in Nat /\ Cents(p) \in Nat /\ MaxInt \in Nat
  BY IngressBounds, ColumnWidth DEF Cents
<1>2. /\ IsFiniteSet(1 .. n)
      /\ v \in [1 .. n -> Nat]
      /\ \A i \in 1 .. n : v[i] = c[i].quantity * c[i].price
  <2>1. /\ Plain(c) \in [1 .. n -> Item]
        /\ \A i \in 1 .. n : Plain(c)[i].quantity = c[i].quantity /\ Plain(c)[i].unitPriceCents = c[i].price
    BY <1>1, PlainItems
  <2>2. QED
    BY <1>1, <2>1, TermsAreNat
<1> HIDE DEF v
<1>3. ASSUME NEW i \in 1 .. n
      PROVE  MaxLines * (Cents(p) * v[i]) <= MaxInt
  <2> DEFINE q == c[i].quantity
             x == c[i].price
             e == Cents(p)
  <2>1. q \in 1 .. MaxUnits /\ x \in Menu(p)
    OBVIOUS
  <2>2. x \in Nat /\ MaxLines * (MaxUnits * (e * x)) <= MaxInt
    <3> HIDE DEF x
    <3>1. CASE p = "UBEREATS"
      <4>1. x \in MenuMxnCents /\ e = 1
        BY <2>1, <3>1 DEF Menu, Cents
      <4>2. x \in Nat /\ e * x = x
        BY <4>1, MenusFit
      <4>3. QED
        BY <4>1, <4>2, MenusFit
    <3>2. CASE p # "UBEREATS"
      <4>1. x \in MenuCop /\ e = 100
        BY <2>1, <3>2 DEF Menu, Cents
      <4>2. QED
        BY <4>1, MenusFit
    <3>3. QED
      BY <3>1, <3>2
  <2>3. q \in Nat /\ q <= MaxUnits /\ e \in Nat
    BY <1>1, <2>1
  <2>4. v[i] = q * x
    BY <1>2
  <2> DEFINE y == e * x
  <2> HIDE DEF q, x, e
  <2>5. y \in Nat /\ e * (q * x) = q * y
    BY <2>2, <2>3
  <2>6. MaxLines * (q * y) <= MaxLines * (MaxUnits * y)
    <3>1. \A a, u, m \in Nat : a <= u => a * m <= u * m
      OBVIOUS
    <3>2. \A a, u, m \in Nat : a <= u => m * a <= m * u
      OBVIOUS
    <3>3. \A a, u \in Nat : a * u \in Nat
      OBVIOUS
    <3> HIDE DEF y
    <3>4. q * y <= MaxUnits * y
      BY <1>1, <2>3, <2>5, <3>1
    <3>5. QED
      BY <1>1, <2>3, <2>5, <3>2, <3>3, <3>4
  <2>7. MaxLines * (MaxUnits * y) <= MaxInt
    BY <2>2
  <2>8. MaxLines * (e * v[i]) = MaxLines * (q * y)
    BY <2>4, <2>5
  <2> DEFINE a == MaxLines * (q * y)
             b == MaxLines * (MaxUnits * y)
  <2>9. a \in Int /\ b \in Int
    BY <1>1, <2>3, <2>5
  <2> HIDE DEF y
  <2>10. a <= b /\ b <= MaxInt
    BY <2>6, <2>7
  <2> HIDE DEF a, b
  <2>11. a <= MaxInt
    BY <1>1, <2>9, <2>10
  <2>12. QED
    BY <2>8, <2>11 DEF a, e
<1>4. SumOfItems(Plain(c)) = SumFunction(v)
  BY DEF SumOfItems, Terms, v
<1>5. Cardinality(1 .. n) <= MaxLines /\ v \in [1 .. n -> Int]
  <2>1. Cardinality(1 .. n) = n
    BY <1>1, FS_Interval
  <2>2. QED
    BY <1>1, <1>2, <2>1
<1>6. Cents(p) * SumFunction(v) <= MaxInt
  BY <1>1, <1>2, <1>3, <1>5, SumFits
<1>7. QED
  BY <1>4, <1>6

\* A right amount of pesos is a whole number of cents.
LEMMA WholePesos ==
  ASSUME NEW pesos \in Nat
  PROVE  pesosToCents(Milli * pesos) = (Milli * 100) * pesos
  BY DEF pesosToCents, Milli

\* What the simulator sends is accepted, becomes the order that it means, and fits.
LEMMA SimulatedOrder ==
  ASSUME NEW p \in Provider, NEW c \in Carts(p)
  PROVE  LET b == buildWebhookPayload(p, c)
             o == toCanonicalOrder(p, b)
         IN /\ b.placedAt = "valid"
            /\ WellFormed(p, b)
            /\ o.items = Meant(p, c).items
            /\ o.totalCents = Meant(p, c).totalCents
            /\ o.currency = Meant(p, c).currency
            /\ FitsRow(o)
<1>1. PICK n \in 1 .. MaxLines : c \in [1 .. n -> [quantity : 1 .. MaxUnits, price : Menu(p)]]
  BY CartShape
<1>2. n \in Nat /\ n # 0 /\ c \in [1 .. n -> [quantity : Nat, price : Nat]]
  BY <1>1, CartShape, IngressBounds
<1> DEFINE N     == SumOfItems(Plain(c))
           items == [i \in DOMAIN c |-> [quantity |-> c[i].quantity,
                                         unitPriceCents |-> Milli * Cents(p) * c[i].price]]
<1>3. /\ Plain(c) \in [1 .. n -> Item]
      /\ \A i \in 1 .. n : Plain(c)[i].quantity = c[i].quantity /\ Plain(c)[i].unitPriceCents = c[i].price
      /\ N \in Nat
  BY <1>1, <1>2, PlainItems
<1>4. Cents(p) * N <= MaxInt /\ Cents(p) \in Nat /\ Cents(p) * N \in Nat
  BY <1>1, <1>3, PlainTotalFits DEF Cents
<1>5. /\ Meant(p, c).items = items
      /\ Meant(p, c).totalCents = SumOfItems(items)
      /\ Meant(p, c).currency = IF p = "UBEREATS" THEN "MXN" ELSE "COP"
  BY DEF Meant, Cents
\* Lines with whole prices sum to a multiple of the plain sum.
<1>6. ASSUME NEW factor \in Nat, NEW currency \in {None, "MXN"}
      PROVE  LET lines == Lines(c, factor, currency) IN
             /\ lines \in [1 .. n -> Priced]
             /\ \A i \in 1 .. n : /\ lines[i].quantity = c[i].quantity
                                  /\ lines[i].price = Milli * factor * c[i].price
                                  /\ lines[i].currency = currency
             /\ SumSent(lines) = (Milli * factor) * N
  <2> DEFINE lines == Lines(c, factor, currency)
             k     == Milli * factor
  <2>1. lines \in [1 .. n -> Priced] /\ k \in Nat
    <3>1. lines \in [1 .. n -> Priced]
      BY <1>2, LinesArePriced
    <3>2. k \in Nat
      BY DEF Milli
    <3>3. QED
      BY <3>1, <3>2
  <2>2. \A i \in 1 .. n : /\ lines[i].quantity = c[i].quantity
                          /\ lines[i].price = k * c[i].price
                          /\ lines[i].currency = currency
    BY <1>2 DEF Lines
  <2> HIDE DEF lines, k
  <2>3. /\ CanonicalItems(lines) \in [1 .. n -> Item]
        /\ \A i \in 1 .. n : /\ CanonicalItems(lines)[i].quantity = Plain(c)[i].quantity
                              /\ CanonicalItems(lines)[i].unitPriceCents = k * Plain(c)[i].unitPriceCents
    BY <1>2, <1>3, <2>1, <2>2, SentItems
  <2>4. SumOfItems(CanonicalItems(lines)) = k * N
    BY <1>2, <1>3, <2>1, <2>3, SumOfScaledItems
  <2>5. QED
    BY <2>1, <2>2, <2>4 DEF SumSent, lines, k
<1>7. /\ items \in [1 .. n -> Item]
      /\ SumOfItems(items) = (Milli * Cents(p)) * N
  <2> DEFINE k == Milli * Cents(p)
  <2>1. k \in Nat
    BY DEF Milli, Cents
  <2>2. items = [i \in 1 .. n |-> [quantity |-> c[i].quantity, unitPriceCents |-> k * c[i].price]]
    BY <1>2
  <2>3. \A a \in Nat : k * a \in Nat
    BY <2>1
  <2> HIDE DEF k, items
  <2>4. items \in [1 .. n -> Item]
    BY <1>2, <2>2, <2>3 DEF Item
  <2>5. \A i \in 1 .. n : /\ items[i].quantity = Plain(c)[i].quantity
                          /\ items[i].unitPriceCents = k * Plain(c)[i].unitPriceCents
    BY <1>3, <2>2
  <2>6. SumOfItems(items) = k * N
    BY <1>2, <1>3, <2>1, <2>4, <2>5, SumOfScaledItems
  <2>7. QED
    BY <2>4, <2>6 DEF k
<1> DEFINE b == buildWebhookPayload(p, c)
           o == toCanonicalOrder(p, b)
<1>8. /\ b.placedAt = "valid"
      /\ WellFormed(p, b)
      /\ o.items = items
      /\ o.totalCents = SumOfItems(items)
      /\ o.currency = IF p = "UBEREATS" THEN "MXN" ELSE "COP"
  <2> DEFINE factor   == IF p = "DIDI" THEN 100 ELSE 1
             currency == IF p = "UBEREATS" THEN "MXN" ELSE None
             lines    == Lines(c, factor, currency)
  <2>1. factor \in Nat /\ currency \in {None, "MXN"}
    OBVIOUS
  <2>2. /\ lines \in [1 .. n -> Priced]
        /\ \A i \in 1 .. n : /\ lines[i].quantity = c[i].quantity
                             /\ lines[i].price = Milli * factor * c[i].price
                             /\ lines[i].currency = currency
        /\ SumSent(lines) = (Milli * factor) * N
    BY <1>6
  <2>3. lines # <<>>
    BY <1>2, <2>2
  <2>4. \A i \in DOMAIN lines : /\ lines[i].quantity # None
                               /\ lines[i].price # None
                               /\ lines[i].currency = currency
    BY <1>2, <2>2, NoneIsNoValue DEF Priced
  <2>5. (Milli * factor) * N # None /\ SumSent(lines) # None
    BY <1>3, <2>2, NoneIsNoValue DEF Milli
  <2>6. p # "RAPPI" => CanonicalItems(lines) = items
    <3>1. p # "RAPPI" => factor = Cents(p)
      BY DEF Cents, Provider
    <3>2. QED
      BY <1>2, <2>2, <3>1 DEF CanonicalItems
  <2> HIDE DEF lines, items
  <2>7. CASE p = "RAPPI"
    <3>1. b = [externalId |-> "RAP", placedAt |-> "valid", total |-> SumSent(lines),
               currency |-> None, items |-> lines, detail |-> None]
      BY <2>7 DEF buildWebhookPayload, buildRappiPayload, lines
    <3>2. WellFormed(p, b)
      BY <2>3, <2>4, <2>5, <2>7, <3>1, NoneIsNoValue DEF WellFormed, isRappiOrderPayload, HasItems
    <3>3. /\ o.items = CanonicalItems(InCents(lines))
          /\ o.totalCents = pesosToCents(SumSent(lines))
          /\ o.currency = "COP"
      BY <2>7, <3>1 DEF toCanonicalOrder, RappiOrder
    <3>4. CanonicalItems(InCents(lines)) = items
      <4>1. \A i \in 1 .. n : pesosToCents(lines[i].price) = Milli * Cents(p) * c[i].price
        BY <1>2, <2>2, <2>7, WholePesos DEF Cents, Milli
      <4>2. /\ DOMAIN CanonicalItems(InCents(lines)) = 1 .. n
            /\ CanonicalItems(InCents(lines)) =
                 [i \in 1 .. n |-> [quantity |-> c[i].quantity,
                                    unitPriceCents |-> pesosToCents(lines[i].price)]]
        BY <2>2 DEF CanonicalItems, InCents, Priced
      <4>3. QED
        BY <1>2, <4>1, <4>2 DEF items
    <3>5. pesosToCents(SumSent(lines)) = SumOfItems(items)
      <4>1. SumSent(lines) = Milli * N
        BY <1>3, <2>2, <2>7 DEF Milli
      <4>2. SumOfItems(items) = (Milli * 100) * N
        BY <1>7, <2>7 DEF Cents
      <4>3. QED
        BY <1>3, <4>1, <4>2, WholePesos
    <3>6. QED
      BY <2>7, <3>1, <3>2, <3>3, <3>4, <3>5
  <2>8. CASE p = "UBEREATS"
    <3>1. b = [externalId |-> "UE", placedAt |-> "valid", total |-> None,
               currency |-> None, items |-> lines, detail |-> None]
      BY <2>8 DEF buildWebhookPayload, buildUberEatsPayload, lines
    <3>2. WellFormed(p, b)
      BY <2>3, <2>4, <2>8, <3>1, NoneIsNoValue DEF WellFormed, isUberEatsOrderPayload, HasItems
    <3>3. /\ o.items = CanonicalItems(lines)
          /\ o.totalCents = SumOfItems(CanonicalItems(lines))
          /\ o.currency = lines[1].currency
      BY <2>8, <3>1 DEF toCanonicalOrder, UberEatsOrder
    <3>4. lines[1].currency = "MXN"
      BY <1>2, <2>2, <2>8
    <3>5. QED
      BY <2>6, <2>8, <3>1, <3>2, <3>3, <3>4
  <2>9. CASE p = "DIDI"
    <3>1. b = [externalId |-> "DD", placedAt |-> "valid", total |-> SumSent(lines),
               currency |-> "COP", items |-> lines, detail |-> "json"]
      BY <2>9 DEF buildWebhookPayload, buildDidiPayload, lines
    <3>2. WellFormed(p, b)
      BY <2>3, <2>4, <2>5, <2>9, <3>1, NoneIsNoValue DEF WellFormed, isDidiOrderDetail, HasItems
    <3>3. /\ o.items = CanonicalItems(lines)
          /\ o.totalCents = SumSent(lines)
          /\ o.currency = "COP"
      BY <2>9, <3>1 DEF toCanonicalOrder, DidiOrder
    <3>4. QED
      BY <2>6, <2>9, <3>1, <3>2, <3>3 DEF SumSent
  <2>10. QED
    BY <2>7, <2>8, <2>9 DEF Provider
<1>9. FitsRow(o)
  <2> DEFINE M == Cents(p) * N
  <2>1. o.totalCents = Milli * M /\ M \in Nat /\ M <= MaxInt
    BY <1>3, <1>4, <1>7, <1>8 DEF Milli
  <2> HIDE DEF M, o
  <2>2. o.totalCents % Milli = 0 /\ o.totalCents \div Milli = M
    BY <2>1 DEF Milli
  <2>3. QED
    BY <2>1, <2>2, ColumnWidth DEF FitsRow
<1>10. QED
  BY <1>5, <1>8, <1>9

-----------------------------------------------------------------------------
(* The steps.                                                              *)

Sends(p, c) ==
    sendWebhook(p, c) \/ SendDeviating(p, c) \/ SendMisdirected(p, c) \/ SendMangled(p, c)

LEMMA SendsFromIdle ==
  ASSUME NEW p \in Provider, NEW c \in Carts(p), Sends(p, c)
  PROVE  /\ stage = "idle" /\ stage' = "sent"
         /\ endpoint' \in Provider
         /\ UNCHANGED order
         /\ \/ sendWebhook(p, c)
            \/ UNCHANGED cart
  BY DEF Sends, sendWebhook, SendDeviating, SendMisdirected, SendMangled

LEMMA StagesStep ==
  ASSUME StagesAreKnown, [Next]_vars
  PROVE  StagesAreKnown'
<1>1. ASSUME NEW p \in Provider, NEW c \in Carts(p), Sends(p, c)
      PROVE  StagesAreKnown'
  BY <1>1, SendsFromIdle DEF StagesAreKnown, Stages
<1>2. CASE bootstrap \/ Repair
  BY <1>2 DEF bootstrap, Repair, StagesAreKnown, Stages
<1>3. CASE canActivate \/ RejectsPayload \/ RejectsDate \/ Translate \/ Insert
  BY <1>3 DEF canActivate, RejectsPayload, RejectsDate, Translate, Insert, StagesAreKnown, Stages
<1>4. CASE UNCHANGED vars
  BY <1>4 DEF vars, StagesAreKnown
<1>5. QED
  BY <1>1, <1>2, <1>3, <1>4 DEF Next, Sends

\* A body is built, or deviates from one that is.
LEMMA ShapedStep ==
  ASSUME BodyIsShaped, [Next]_vars
  PROVE  BodyIsShaped'
<1>1. ASSUME NEW p \in Provider, NEW c \in Carts(p), Sends(p, c)
      PROVE  BodyIsShaped'
  <2> DEFINE b == buildWebhookPayload(p, c)
  <2>1. body' \in {b, None} \/ body' \in Deviations(b)
    BY <1>1 DEF Sends, sendWebhook, SendDeviating, SendMisdirected, SendMangled
  <2>2. Whole(b)
    BY BuiltIsWhole
  <2> HIDE DEF b
  <2>3. QED
    BY <2>1, <2>2, WholeIsShaped, DeviationIsShaped DEF BodyIsShaped
<1>2. CASE UNCHANGED body
  BY <1>2 DEF BodyIsShaped
<1>3. QED
  BY <1>1, <1>2 DEF Next, Sends, vars, bootstrap, Repair, canActivate, RejectsPayload, RejectsDate,
     Translate, Insert

LEMMA TranslatedStep ==
  ASSUME TakenIffSigned, Translated, [Next]_vars
  PROVE  Translated'
<1>1. ASSUME NEW p \in Provider, NEW c \in Carts(p), Sends(p, c)
      PROVE  Translated'
  BY <1>1, SendsFromIdle DEF Translated
<1>2. CASE bootstrap \/ Repair
  BY <1>2 DEF bootstrap, Repair, Translated
<1>3. CASE canActivate \/ RejectsPayload \/ RejectsDate
  <2>1. /\ stage \in {"sent", "queued"}
        /\ stage' \in {"queued", "unauthorized", "error", "malformed", "threw"}
        /\ UNCHANGED order
    BY <1>3 DEF canActivate, RejectsPayload, RejectsDate
  <2>2. QED
    BY <2>1 DEF Translated
<1>4. CASE Translate
  <2>1. body # None
    BY <1>4 DEF Translate, TakenIffSigned
  <2>2. QED
    BY <1>4, <2>1 DEF Translate, Translated
<1>5. CASE Insert
  BY <1>5 DEF Insert, Translated
<1>6. CASE UNCHANGED vars
  BY <1>6 DEF vars, Translated
<1>7. QED
  BY <1>1, <1>2, <1>3, <1>4, <1>5, <1>6 DEF Next, Sends

\* What the simulator sends is verified, accepted, translated and stored.
LEMMA DrawnStep ==
  ASSUME AmountInv, [Next]_vars
  PROVE  Drawn'
<1>1. ASSUME NEW p \in Provider, NEW c \in Carts(p), Sends(p, c)
      PROVE  Drawn'
  <2>1. CASE sendWebhook(p, c)
    BY <2>1 DEF sendWebhook, Drawn
  <2>2. CASE UNCHANGED cart
    BY <1>1, <2>2, SendsFromIdle DEF AmountInv, Drawn
  <2>3. QED
    BY <1>1, <2>1, <2>2, SendsFromIdle
<1>2. CASE bootstrap \/ Repair
  BY <1>2 DEF bootstrap, Repair, AmountInv, Drawn
<1>3. ASSUME canActivate \/ RejectsPayload \/ RejectsDate \/ Translate \/ Insert, cart # None
      PROVE  stage' \in {"sent", "queued", "adapted", "stored"}
  <2>1. /\ endpoint \in Provider
        /\ cart \in Carts(endpoint)
        /\ body = buildWebhookPayload(endpoint, cart)
        /\ headers = signWebhook(endpoint, body, Secret[endpoint])
    BY <1>3 DEF AmountInv, Drawn
  <2>2. /\ body.placedAt = "valid"
        /\ WellFormed(endpoint, body)
        /\ FitsRow(toCanonicalOrder(endpoint, body))
    BY <2>1, SimulatedOrder
  <2>3. body \in Payload /\ body # None
    BY <2>1, PayloadsAreSent, NoneIsNoValue
  <2>4. CASE canActivate
    <3>1. Verify(endpoint, body, headers) = "equal"
      BY <2>1, <2>3, VerifyDecides
    <3>2. QED
      BY <2>3, <2>4, <3>1 DEF canActivate
  <2>5. CASE RejectsPayload \/ RejectsDate
    BY <2>2, <2>5 DEF RejectsPayload, RejectsDate
  <2>6. CASE Translate
    BY <2>6 DEF Translate
  <2>7. CASE Insert
    BY <2>2, <2>7 DEF Insert, AmountInv, Translated
  <2>8. QED
    BY <1>3, <2>4, <2>5, <2>6, <2>7
<1>4. CASE canActivate \/ RejectsPayload \/ RejectsDate \/ Translate \/ Insert
  <2>1. UNCHANGED <<endpoint, body, headers, cart>>
    BY <1>4 DEF canActivate, RejectsPayload, RejectsDate, Translate, Insert
  <2>2. QED
    BY <1>3, <1>4, <2>1 DEF AmountInv, Drawn
<1>5. CASE UNCHANGED vars
  BY <1>5 DEF vars, AmountInv, Drawn
<1>6. QED
  BY <1>1, <1>2, <1>4, <1>5 DEF Next, Sends

-----------------------------------------------------------------------------
(* The theorems.                                                           *)

\* The invariant behind the theorems below.
THEOREM AmountInvariance == Spec => []AmountInv
<1>1. Init => AmountInv
  BY DEF Init, AmountInv, InFlight, TakenIffSigned, StagesAreKnown, Stages, BodyIsShaped,
     Translated, Drawn
<1>2. AmountInv /\ [Next]_vars => AmountInv'
  BY InFlightStep, GuardStep, StagesStep, ShapedStep, TranslatedStep, DrawnStep DEF AmountInv
<1>3. QED
  BY <1>1, <1>2, PTL DEF Spec

\* Every order has items, and a row that was stored has a whole total that is not
\* negative and that its INTEGER column holds (toCanonicalOrder, tx.order.create),
\* whoever sent the payload.
THEOREM TypeCorrect == Spec => []TypeOK
<1>1. AmountInv => TypeOK
  <2> SUFFICES ASSUME AmountInv
               PROVE  TypeOK
    OBVIOUS
  <2>1. stage \in Stages /\ endpoint \in Provider \cup {None}
    BY DEF AmountInv, StagesAreKnown
  <2>2. ASSUME stage \in {"adapted", "refused", "stored"}
        PROVE  order.items # <<>> /\ order.totalCents \in Nat
    <3>1. order.totalCents \in Nat /\ \E n \in 1 .. MaxLines : order.items \in [1 .. n -> Item]
      BY <2>2, OrderIsTyped DEF AmountInv, BodyIsShaped, Translated
    <3>2. PICK n \in 1 .. MaxLines : order.items \in [1 .. n -> Item]
      BY <3>1
    <3>3. 1 \in DOMAIN order.items
      BY <3>2, IngressBounds
    <3>4. QED
      BY <3>1, <3>3
  <2>3. ASSUME stage = "stored"
        PROVE  order.totalCents \in {Milli * n : n \in 0 .. MaxInt}
    <3> DEFINE t == order.totalCents
    <3>1. t \in Nat /\ t % Milli = 0 /\ t \div Milli \in -(MaxInt + 1) .. MaxInt
      BY <2>2, <2>3 DEF AmountInv, Translated, FitsRow
    <3> HIDE DEF t
    <3>2. t = Milli * (t \div Milli) /\ t \div Milli \in 0 .. MaxInt
      BY <3>1, ColumnWidth DEF Milli
    <3>3. QED
      BY <3>2 DEF t
  <2>4. order # None => order.items # <<>>
    BY <2>2 DEF AmountInv, Translated
  <2>5. QED
    BY <2>1, <2>3, <2>4 DEF TypeOK
<1>2. QED
  BY <1>1, AmountInvariance, PTL

\* "everything the simulator emits must pass the same verifier and adapter the real
\* pipeline uses": it is stored, and the row is the order that was drawn, in every
\* dialect, for every menu and every cart that its column can hold.
THEOREM SimulatorAgreesWithHub == Spec => []SimulatedIsStored
<1>1. AmountInv => SimulatedIsStored
  <2> SUFFICES ASSUME AmountInv, cart # None
               PROVE  /\ stage \in {"sent", "queued", "adapted", "stored"}
                      /\ stage \in {"adapted", "stored"} =>
                           LET meant == Meant(endpoint, cart) IN
                           /\ order.items = meant.items
                           /\ order.totalCents = meant.totalCents
                           /\ order.currency = meant.currency
    BY DEF SimulatedIsStored
  <2>1. /\ stage \in {"sent", "queued", "adapted", "stored"}
        /\ endpoint \in Provider
        /\ cart \in Carts(endpoint)
        /\ body = buildWebhookPayload(endpoint, cart)
    BY DEF AmountInv, Drawn
  <2>2. stage \in {"adapted", "stored"} => order = toCanonicalOrder(endpoint, body)
    BY DEF AmountInv, Translated
  <2>3. QED
    BY <2>1, <2>2, SimulatedOrder
<1>2. QED
  BY <1>1, AmountInvariance, PTL

\* Of an order whose payload's total is the sum of the payload's items, the total is off
\* the sum of the order's own, rounded items by at most half a cent per unit and half a
\* cent more, and by nothing unless Rappi's prices are in fractions of a cent
\* (pesosToCents): for any number of lines and units, any prices and any fractions.
THEOREM DriftIsBounded == Spec => []RoundingIsBounded
<1>1. AmountInv => RoundingIsBounded
  <2>1. ASSUME AmountInv, stage = "stored", body.total \in {None, SumSent(body.items)}
        PROVE  LET drift == order.totalCents - SumOfItems(order.items)
                   bound == Milli * (Units(order.items) + 1)
               IN /\ 2 * drift <= bound /\ -2 * drift <= bound
                  /\ InWholeCents(endpoint, body) => drift = 0
    BY <2>1, TotalDrift DEF AmountInv, BodyIsShaped, Translated
  <2>2. QED
    BY <2>1 DEF RoundingIsBounded
<1>2. QED
  BY <1>1, AmountInvariance, PTL
=============================================================================

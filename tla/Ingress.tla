------------------------------ MODULE Ingress -------------------------------
(***************************************************************************)
(* The hub boots, and the way of one webhook: built and signed by its      *)
(* sender, verified by the guard, translated by the adapter of its         *)
(* endpoint, inserted.  Storage, queue and retries between the guard and   *)
(* the adapter are IngestPipeline; here is what makes a body good,         *)
(* malformed or poison there.                                              *)
(*                                                                         *)
(* Senders are the simulator, whose factories and signing mirror the       *)
(* providers, and providers whose payloads, headers or keys differ from    *)
(* what the hub expects in one respect.                                    *)
(***************************************************************************)
EXTENDS Adapters

CONSTANTS
    MenuCop, MenuMxnCents,  \* bound: prices, in whole pesos and in whole centavos
    MaxLines, MaxUnits,     \* bounds: items of an order, quantity of an item
    Fractions               \* bound: thousandths that a deviating price has

ASSUME IngressBounds == MaxLines \in Nat /\ MaxUnits \in Nat /\ Fractions \subseteq Nat

\* The dearest cart fits its row, by far: 4 lines of 3 units of 28 900 pesos are
\* 34 680 000 cents, against 2^31 - 1.
ASSUME MenusFit ==
    /\ MenuCop \subseteq Nat /\ MenuMxnCents \subseteq Nat
    /\ \A price \in MenuCop : MaxLines * (MaxUnits * (100 * price)) <= MaxInt
    /\ \A price \in MenuMxnCents : MaxLines * (MaxUnits * price) <= MaxInt

VARIABLES
    stage,
    env,         \* the environment of the hub's processes
    listed,      \* the variables that the last boot complained of
    endpoint,    \* the provider whose path is called
    body,        \* the payload, None if no parser took it and kept the raw body
    headers,     \* header name -> its value
    cart,        \* history: what the simulator drew, None of other senders
    order        \* the canonical order

process == <<env, listed>>
vars == <<stage, process, endpoint, body, headers, cart, order>>

Stages == {"down", "failed", "idle", "sent", "unauthorized", "error", "queued", "malformed",
           "threw", "adapted", "refused", "stored"}
Secret == [RAPPI |-> "RAPPI_WEBHOOK_SECRET", UBEREATS |-> "UBEREATS_WEBHOOK_SECRET",
           DIDI |-> "DIDI_WEBHOOK_SECRET"]

REQUIRED == {"DATABASE_URL", "REDIS_URL"} \cup {Secret[p] : p \in Provider}

Init ==
    /\ stage = "down"
    /\ env \in [REQUIRED -> {"set", "empty", "unset"}]
    /\ listed = {}
    /\ endpoint = None
    /\ body = None
    /\ headers = None
    /\ cart = None
    /\ order = None

-----------------------------------------------------------------------------
(* The start.                                                              *)

\* Mutant of validateEnv: REQUIRED.find, the first that is missing.
validateEnv_First(config) ==
    LET missing == {key \in REQUIRED : config[key] # "set"} IN
    IF missing = {} THEN {} ELSE {CHOOSE key \in missing : TRUE}

\* The keys that the error of validateEnv lists; none if the environment is good.
validateEnv(config) == {key \in REQUIRED : config[key] # "set"}

\* AppModule and WorkerModule: the application context is created, or it throws.
bootstrap ==
    /\ stage \in {"down", "failed"}
    /\ \A key \in listed : env[key] = "set"
    /\ listed' = validateEnv(env)
    /\ stage' = IF listed' = {} THEN "idle" ELSE "failed"
    /\ UNCHANGED <<env, endpoint, body, headers, cart, order>>

\* Whoever starts the hub sets what the error lists, and nothing else.
Repair ==
    /\ stage = "failed"
    /\ env' = [key \in REQUIRED |-> IF key \in listed THEN "set" ELSE env[key]]
    /\ env' # env
    /\ UNCHANGED <<stage, listed, endpoint, body, headers, cart, order>>

-----------------------------------------------------------------------------
(* The simulator.                                                          *)

Menu(provider) == IF provider = "UBEREATS" THEN MenuMxnCents ELSE MenuCop

Carts(provider) ==
    UNION {[1 .. n -> [quantity : 1 .. MaxUnits, price : Menu(provider)]] : n \in 1 .. MaxLines}

Lines(c, factor, currency) ==
    [i \in DOMAIN c |-> [quantity |-> c[i].quantity, price |-> Milli * factor * c[i].price,
                         currency |-> currency]]

\* What a payload's own items add up to.
SumSent(items) == SumOfItems(CanonicalItems(items))

buildRappiPayload(c) ==
    LET products == Lines(c, 1, None) IN
    [externalId |-> "RAP", placedAt |-> "valid", total |-> SumSent(products),
     currency |-> None, items |-> products, detail |-> None]

buildUberEatsPayload(c) ==
    [externalId |-> "UE", placedAt |-> "valid", total |-> None,
     currency |-> None, items |-> Lines(c, 1, "MXN"), detail |-> None]

buildDidiPayload(c) ==
    LET items == Lines(c, 100, None) IN
    [externalId |-> "DD", placedAt |-> "valid", total |-> SumSent(items),
     currency |-> "COP", items |-> items, detail |-> "json"]

buildWebhookPayload(provider, c) ==
    CASE provider = "RAPPI"    -> buildRappiPayload(c)
      [] provider = "UBEREATS" -> buildUberEatsPayload(c)
      [] provider = "DIDI"     -> buildDidiPayload(c)

\* createHmac('sha256', secret).update(...).digest(encoding): equal only for the same
\* key and the same message, which for DiDi has the timestamp in front.
Hmac(secret, timestamp, b, encoding) ==
    [key |-> secret, timestamp |-> timestamp, body |-> b, encoding |-> encoding]

signWebhook(provider, b, secret) ==
    CASE provider = "RAPPI" ->
           [name \in {"x-rappi-signature"} |-> Hmac(secret, None, b, "hex")]
      [] provider = "UBEREATS" ->
           [name \in {"x-uber-signature"} |-> Hmac(secret, None, b, "hex")]
      [] provider = "DIDI" ->
           [name \in {"x-didi-signature", "x-didi-timestamp"} |->
              IF name = "x-didi-timestamp" THEN "now" ELSE Hmac(secret, "now", b, "base64")]

sendWebhook(provider, c) ==
    /\ stage = "idle"
    /\ stage' = "sent"
    /\ endpoint' = provider
    /\ cart' = c
    /\ body' = buildWebhookPayload(provider, c)
    /\ headers' = signWebhook(provider, body', Secret[provider])
    /\ UNCHANGED <<process, order>>

-----------------------------------------------------------------------------
(* Other senders.                                                          *)

\* b with prices that are not whole, and with the total that belongs to them.
WithFraction(b, f) ==
    LET items == [i \in DOMAIN b.items |-> [b.items[i] EXCEPT !.price = @ + f]] IN
    [b EXCEPT !.items = items, !.total = IF b.total = None THEN None ELSE SumSent(items)]

Deviations(b) ==
    {[b EXCEPT !.externalId = None], [b EXCEPT !.placedAt = None],
     [b EXCEPT !.placedAt = "invalid"], [b EXCEPT !.total = None], [b EXCEPT !.items = <<>>],
     [b EXCEPT !.items[1].price = None], [b EXCEPT !.currency = None],
     [b EXCEPT !.items[1].currency = None], [b EXCEPT !.detail = "garbled"],
     [b EXCEPT !.total = Milli * (MaxInt + 1)]} \cup {WithFraction(b, f) : f \in Fractions}

\* A payload that the simulator would not build, with a right signature.
SendDeviating(provider, c) ==
    /\ stage = "idle"
    /\ stage' = "sent"
    /\ endpoint' = provider
    /\ body' \in Deviations(buildWebhookPayload(provider, c))
    /\ headers' = signWebhook(provider, body', Secret[provider])
    /\ UNCHANGED <<process, cart, order>>

\* A payload that it would build, to another endpoint or with another key.
SendMisdirected(provider, c) ==
    /\ stage = "idle"
    /\ stage' = "sent"
    /\ \E other \in Provider \ {provider} :
         /\ body' = buildWebhookPayload(provider, c)
         /\ \/ endpoint' = other /\ headers' = signWebhook(provider, body', Secret[provider])
            \/ endpoint' = provider /\ headers' = signWebhook(provider, body', Secret[other])
    /\ UNCHANGED <<process, cart, order>>

\* A payload that it would build, with a header that is missing or empty, or a
\* digest that is cut short or in another encoding; or without a raw body.
SendMangled(provider, c) ==
    LET b       == buildWebhookPayload(provider, c)
        correct == signWebhook(provider, b, Secret[provider])
    IN
    /\ stage = "idle"
    /\ stage' = "sent"
    /\ endpoint' = provider
    /\ \/ /\ body' = b
          /\ \E name \in DOMAIN correct :
               \E value \in {None} \cup IF name = "x-didi-timestamp" THEN {"later"}
                                       ELSE {Hmac(Secret[provider], None, b, encoding) :
                                               encoding \in {"hex", "base64", "cut"}} :
                 headers' = [correct EXCEPT ![name] = value]
       \/ body' = None /\ headers' = correct
    /\ UNCHANGED <<process, cart, order>>

\* What is sent, and what is sent with it.
Payload ==
    UNION {UNION {{buildWebhookPayload(p, c)} \cup Deviations(buildWebhookPayload(p, c)) :
                    c \in Carts(p)} : p \in Provider}
Digest ==
    [key : {Secret[p] : p \in Provider}, timestamp : {None, "now"}, body : Payload,
     encoding : {"hex", "base64", "cut"}]

\* Nothing that is there is None.
ASSUME NoneIsNoValue ==
    /\ None \notin Digest
    /\ None \notin Payload
    /\ None \notin {"now", "later", "valid", "invalid", "json", "RAP", "UE", "DD", "COP", "MXN"}
    /\ None \notin Int

-----------------------------------------------------------------------------
(* The hub.                                                                *)

\* undefined, or the empty string, is None.
headerValue(h, name) == IF name \in DOMAIN h THEN h[name] ELSE None

\* How long a SHA-256 digest is as text; one that was cut is shorter than either.
Bytes(digest) ==
    CASE digest.encoding = "hex" -> 64
      [] digest.encoding = "base64" -> 44
      [] OTHER -> 43

\* node:crypto: it raises a RangeError on buffers of unequal length.
timingSafeEqual(a, b) ==
    IF Bytes(a) # Bytes(b) THEN "RangeError" ELSE IF a = b THEN "equal" ELSE "different"

\* Mutant of timingSafeCompare: no length check.
timingSafeCompare_NoLength(a, b) == timingSafeEqual(a, b)

timingSafeCompare(a, b) ==
    IF Bytes(a) # Bytes(b) THEN "different" ELSE timingSafeEqual(a, b)

RappiVerify(b, h) ==
    LET signature == headerValue(h, "x-rappi-signature") IN
    IF signature = None THEN "different"
    ELSE timingSafeCompare(signature, Hmac(Secret["RAPPI"], None, b, "hex"))

UberEatsVerify(b, h) ==
    LET signature == headerValue(h, "x-uber-signature") IN
    IF signature = None THEN "different"
    ELSE timingSafeCompare(signature, Hmac(Secret["UBEREATS"], None, b, "hex"))

DidiVerify(b, h) ==
    LET signature == headerValue(h, "x-didi-signature")
        timestamp == headerValue(h, "x-didi-timestamp")
    IN
    IF None \in {signature, timestamp} THEN "different"
    ELSE timingSafeCompare(signature, Hmac(Secret["DIDI"], timestamp, b, "base64"))

\* The verifier that is registered for the provider, with the provider's secret.
Verify(provider, b, h) ==
    CASE provider = "RAPPI"    -> RappiVerify(b, h)
      [] provider = "UBEREATS" -> UberEatsVerify(b, h)
      [] provider = "DIDI"     -> DidiVerify(b, h)

\* SignatureGuard, then receive: 401, stored and queued, or a 500.
canActivate ==
    /\ stage = "sent"
    /\ LET verdict == IF body = None THEN "different" ELSE Verify(endpoint, body, headers) IN
       stage' = CASE verdict = "equal"     -> "queued"
                  [] verdict = "different" -> "unauthorized"
                  [] OTHER                 -> "error"
    /\ UNCHANGED <<process, endpoint, body, headers, cart, order>>

\* The adapter raises InvalidProviderPayloadError.
RejectsPayload ==
    /\ stage = "queued"
    /\ ~WellFormed(endpoint, body)
    /\ stage' = "malformed"
    /\ UNCHANGED <<process, endpoint, body, headers, cart, order>>

\* new Date(...).toISOString() raises a RangeError.
RejectsDate ==
    /\ stage = "queued"
    /\ WellFormed(endpoint, body)
    /\ body.placedAt = "invalid"
    /\ stage' = "threw"
    /\ UNCHANGED <<process, endpoint, body, headers, cart, order>>

Translate ==
    /\ stage = "queued"
    /\ WellFormed(endpoint, body)
    /\ body.placedAt = "valid"
    /\ stage' = "adapted"
    /\ order' = toCanonicalOrder(endpoint, body)
    /\ UNCHANGED <<process, endpoint, body, headers, cart>>

\* tx.order.create: Prisma refuses a number that is not an Int of the column.
Insert ==
    /\ stage = "adapted"
    /\ stage' = IF FitsRow(order) THEN "stored" ELSE "refused"
    /\ UNCHANGED <<process, endpoint, body, headers, cart, order>>

Next ==
    \/ bootstrap \/ Repair
    \/ \E provider \in Provider : \E c \in Carts(provider) :
         \/ sendWebhook(provider, c) \/ SendDeviating(provider, c)
         \/ SendMisdirected(provider, c) \/ SendMangled(provider, c)
    \/ canActivate
    \/ RejectsPayload \/ RejectsDate \/ Translate
    \/ Insert

Spec == Init /\ [][Next]_vars

-----------------------------------------------------------------------------
\* Stages and addresses have their types; a row that was stored has a whole total
\* that an INTEGER column holds.
TypeOK ==
    /\ stage \in Stages
    /\ endpoint \in Provider \cup {None}
    /\ order # None => order.items # <<>>
    /\ stage = "stored" => order.totalCents \in {Milli * n : n \in 0 .. MaxInt}

\* "Fail fast at boot with every missing variable listed, not one at a time"
\* (env.validation.ts, 18): once what the first failed boot lists has been set, no
\* boot fails again.
RepairedInOneGo ==
    [][stage = "failed" => stage' = "idle" \/ UNCHANGED <<stage, listed>>]_vars

\* "the simulator must sign exactly the way the verifiers expect, headers included"
\* (sign.ts, 6): of whatever reaches the guard, what carries exactly the headers that
\* its provider's signing gives its raw body is taken, and everything else, digests
\* of any length and form included, is answered 401 and never 500.  What Express's
\* body parser refuses before the guard (400, 413) is left out.
TakenIffSigned ==
    stage \notin {"down", "failed", "idle", "sent"} =>
        IF body # None /\ headers = signWebhook(endpoint, body, Secret[endpoint])
          THEN stage \notin {"unauthorized", "error"}
          ELSE stage = "unauthorized"

\* The order that the simulator means: cart c in cents, in the dialect's currency.
Meant(provider, c) ==
    LET cents == IF provider = "UBEREATS" THEN 1 ELSE 100
        items == [i \in DOMAIN c |-> [quantity |-> c[i].quantity,
                                      unitPriceCents |-> Milli * cents * c[i].price]]
    IN [items |-> items, totalCents |-> SumOfItems(items),
        currency |-> IF provider = "UBEREATS" THEN "MXN" ELSE "COP"]

\* "everything the simulator emits must pass the same verifier and adapter the real
\* pipeline uses" (simulator.spec.ts), and more: the row is the order it drew,
\* whichever dialect carried it.  Factory, signature, verifier and adapter agree.
SimulatedIsStored ==
    cart # None =>
        /\ stage \in {"sent", "queued", "adapted", "stored"}
        /\ stage \in {"adapted", "stored"} =>
             LET meant == Meant(endpoint, cart) IN
             /\ order.items = meant.items
             /\ order.totalCents = meant.totalCents
             /\ order.currency = meant.currency

Units(items) == SumOfItems([i \in DOMAIN items |-> [quantity |-> items[i].quantity,
                                                    unitPriceCents |-> 1]])

\* Nothing of the payload is rounded: only Rappi's amounts are pesos, and here they are
\* whole cents.
InWholeCents(p, b) == p = "RAPPI" => \A i \in DOMAIN b.items : b.items[i].price % 10 = 0

\* A payload whose total is the sum of its items gives an order whose total is the sum
\* of its own items, unless it is in fractions of a cent: unit prices and total are then
\* rounded one by one (pesosToCents), and the two sides of the order are apart by at
\* most half a cent per unit and half a cent more.
RoundingIsBounded ==
    stage = "stored" /\ body.total \in {None, SumSent(body.items)} =>
        LET drift == order.totalCents - SumOfItems(order.items)
            bound == Milli * (Units(order.items) + 1)
        IN /\ 2 * drift <= bound /\ -2 * drift <= bound
           /\ InWholeCents(endpoint, body) => drift = 0

-----------------------------------------------------------------------------
(* What a test says of every order, and the code does not do.              *)

\* "The canonical total must equal the sum of its items - no provider quirk is allowed
\* to leak through as an inconsistent order" (adapter.contract.spec.ts, 42-43; ADR 0002).
TotalIsSumOfItems == stage = "stored" => order.totalCents = SumOfItems(order.items)
=============================================================================

--------------------------- MODULE IngressProofs ---------------------------
(***************************************************************************)
(* Proofs about Ingress, for every menu and cart: the guard takes exactly  *)
(* what is signed right, one repair is enough to boot, and the rounding of *)
(* one amount.                                                             *)
(*                                                                         *)
(* What the guard decides depends on what can be in flight (InFlight): the *)
(* headers of a right signature, of one that is right for another          *)
(* endpoint or key, or of a right one with a header changed.               *)
(***************************************************************************)
EXTENDS Ingress, TLAPS

\* Headers h are those of a right signature with one of them changed.
Mangled(p, b, h) ==
    LET correct == signWebhook(p, b, Secret[p]) IN
    \E name \in DOMAIN correct :
        \/ h = [correct EXCEPT ![name] = None]
        \/ /\ name = "x-didi-timestamp"
           /\ h = [correct EXCEPT ![name] = "later"]
        \/ /\ name # "x-didi-timestamp"
           /\ \E encoding \in {"hex", "base64", "cut"} :
                h = [correct EXCEPT ![name] = Hmac(Secret[p], None, b, encoding)]

\* The headers that a raw body can have on its way to an endpoint.
InFlight ==
    stage = "sent" =>
        /\ endpoint \in Provider
        /\ body # None =>
             /\ body \in Payload
             /\ \/ \E p, q \in Provider : headers = signWebhook(p, body, Secret[q])
                \/ Mangled(endpoint, body, headers)

\* What a failed boot listed is all that was missing.
ListedAll == stage = "failed" => \A key \in REQUIRED : env[key] # "set" => key \in listed

-----------------------------------------------------------------------------
(* The guard.                                                              *)

\* A digest is never taken for a missing header.
LEMMA DigestIsThere ==
  ASSUME NEW b \in Payload, NEW p \in Provider, NEW t \in {None, "now"},
         NEW encoding \in {"hex", "base64", "cut"}
  PROVE  Hmac(Secret[p], t, b, encoding) # None
<1>1. Hmac(Secret[p], t, b, encoding) \in Digest
  BY DEF Hmac, Digest
<1>2. QED
  BY <1>1, NoneIsNoValue

\* The length check makes the comparison one of equality, whatever the lengths.
LEMMA CompareIsEquality ==
  ASSUME NEW a, NEW b
  PROVE  timingSafeCompare(a, b) = IF a = b THEN "equal" ELSE "different"
  BY DEF timingSafeCompare, timingSafeEqual

\* Which headers a dialect's signing sets.
LEMMA SignedHeaders ==
  ASSUME NEW b, NEW s
  PROVE  /\ signWebhook("RAPPI", b, s) =
              [name \in {"x-rappi-signature"} |-> Hmac(s, None, b, "hex")]
         /\ signWebhook("UBEREATS", b, s) =
              [name \in {"x-uber-signature"} |-> Hmac(s, None, b, "hex")]
         /\ signWebhook("DIDI", b, s) =
              [name \in {"x-didi-signature", "x-didi-timestamp"} |->
                 IF name = "x-didi-timestamp" THEN "now" ELSE Hmac(s, "now", b, "base64")]
  BY DEF signWebhook
\* The headers of one dialect that can reach the endpoint of another lack what its
\* verifier reads, and those of a dialect are compared as a whole.
LEMMA RappiDecides ==
  ASSUME NEW b \in Payload, NEW h,
         \/ \E p, q \in Provider : h = signWebhook(p, b, Secret[q])
         \/ Mangled("RAPPI", b, h)
  PROVE  RappiVerify(b, h) =
           IF h = signWebhook("RAPPI", b, Secret["RAPPI"]) THEN "equal" ELSE "different"
<1> DEFINE correct == Hmac(Secret["RAPPI"], None, b, "hex")
           signed(d) == [name \in {"x-rappi-signature"} |-> d]
<1>1. correct # None
  BY DigestIsThere DEF Provider
<1>2. signWebhook("RAPPI", b, Secret["RAPPI"]) = signed(correct)
  BY SignedHeaders
<1>3. ASSUME NEW d, h = signed(d)
      PROVE  RappiVerify(b, h) = IF h = signed(correct) THEN "equal" ELSE "different"
  <2>1. headerValue(h, "x-rappi-signature") = d
    BY <1>3 DEF headerValue
  <2>2. h = signed(correct) <=> d = correct
    BY <1>3
  <2>3. QED
    BY <1>1, <2>1, <2>2, CompareIsEquality DEF RappiVerify
<1>4. ASSUME "x-rappi-signature" \notin DOMAIN h
      PROVE  RappiVerify(b, h) = "different" /\ h # signed(correct)
  BY <1>4 DEF RappiVerify, headerValue
<1>5. ASSUME NEW p \in Provider, NEW q \in Provider, h = signWebhook(p, b, Secret[q])
      PROVE  \/ "x-rappi-signature" \notin DOMAIN h
             \/ \E d : h = signed(d)
  <2>1. CASE p = "RAPPI"
    <3>1. h = signed(Hmac(Secret[q], None, b, "hex"))
      BY <1>5, <2>1, SignedHeaders
    <3>2. QED
      BY <3>1
  <2>2. CASE p = "UBEREATS"
    <3>1. DOMAIN h = {"x-uber-signature"}
      BY <1>5, <2>2, SignedHeaders
    <3>2. QED
      BY <3>1
  <2>3. CASE p = "DIDI"
    <3>1. DOMAIN h = {"x-didi-signature", "x-didi-timestamp"}
      BY <1>5, <2>3, SignedHeaders
    <3>2. QED
      BY <3>1
  <2>4. QED
    BY <2>1, <2>2, <2>3 DEF Provider
<1>6. ASSUME Mangled("RAPPI", b, h)
      PROVE  \E d : h = signed(d)
  BY <1>2, <1>6 DEF Mangled
<1>7. QED
  BY <1>2, <1>3, <1>4, <1>5, <1>6

LEMMA UberEatsDecides ==
  ASSUME NEW b \in Payload, NEW h,
         \/ \E p, q \in Provider : h = signWebhook(p, b, Secret[q])
         \/ Mangled("UBEREATS", b, h)
  PROVE  UberEatsVerify(b, h) =
           IF h = signWebhook("UBEREATS", b, Secret["UBEREATS"]) THEN "equal" ELSE "different"
<1> DEFINE correct == Hmac(Secret["UBEREATS"], None, b, "hex")
           signed(d) == [name \in {"x-uber-signature"} |-> d]
<1>1. correct # None
  BY DigestIsThere DEF Provider
<1>2. signWebhook("UBEREATS", b, Secret["UBEREATS"]) = signed(correct)
  BY SignedHeaders
<1>3. ASSUME NEW d, h = signed(d)
      PROVE  UberEatsVerify(b, h) = IF h = signed(correct) THEN "equal" ELSE "different"
  <2>1. headerValue(h, "x-uber-signature") = d
    BY <1>3 DEF headerValue
  <2>2. h = signed(correct) <=> d = correct
    BY <1>3
  <2>3. QED
    BY <1>1, <2>1, <2>2, CompareIsEquality DEF UberEatsVerify
<1>4. ASSUME "x-uber-signature" \notin DOMAIN h
      PROVE  UberEatsVerify(b, h) = "different" /\ h # signed(correct)
  BY <1>4 DEF UberEatsVerify, headerValue
<1>5. ASSUME NEW p \in Provider, NEW q \in Provider, h = signWebhook(p, b, Secret[q])
      PROVE  \/ "x-uber-signature" \notin DOMAIN h
             \/ \E d : h = signed(d)
  <2>1. CASE p = "UBEREATS"
    <3>1. h = signed(Hmac(Secret[q], None, b, "hex"))
      BY <1>5, <2>1, SignedHeaders
    <3>2. QED
      BY <3>1
  <2>2. CASE p = "RAPPI"
    <3>1. DOMAIN h = {"x-rappi-signature"}
      BY <1>5, <2>2, SignedHeaders
    <3>2. QED
      BY <3>1
  <2>3. CASE p = "DIDI"
    <3>1. DOMAIN h = {"x-didi-signature", "x-didi-timestamp"}
      BY <1>5, <2>3, SignedHeaders
    <3>2. QED
      BY <3>1
  <2>4. QED
    BY <2>1, <2>2, <2>3 DEF Provider
<1>6. ASSUME Mangled("UBEREATS", b, h)
      PROVE  \E d : h = signed(d)
  BY <1>2, <1>6 DEF Mangled
<1>7. QED
  BY <1>2, <1>3, <1>4, <1>5, <1>6

\* DiDi's digest covers the timestamp, so that with a later one nothing fits.
LEMMA DidiDecides ==
  ASSUME NEW b \in Payload, NEW h,
         \/ \E p, q \in Provider : h = signWebhook(p, b, Secret[q])
         \/ Mangled("DIDI", b, h)
  PROVE  DidiVerify(b, h) =
           IF h = signWebhook("DIDI", b, Secret["DIDI"]) THEN "equal" ELSE "different"
<1> DEFINE correct == Hmac(Secret["DIDI"], "now", b, "base64")
           signed(d, t) == [name \in {"x-didi-signature", "x-didi-timestamp"} |->
                              IF name = "x-didi-timestamp" THEN t ELSE d]
<1>1. correct # None
  BY DigestIsThere DEF Provider
<1>2. signWebhook("DIDI", b, Secret["DIDI"]) = signed(correct, "now")
  BY SignedHeaders
<1>3. ASSUME NEW d, NEW t, h = signed(d, t), t # "now" => t = None \/ d = correct
      PROVE  DidiVerify(b, h) = IF h = signed(correct, "now") THEN "equal" ELSE "different"
  <2>1. /\ headerValue(h, "x-didi-signature") = d
        /\ headerValue(h, "x-didi-timestamp") = t
    BY <1>3 DEF headerValue
  <2>2. h = signed(correct, "now") <=> d = correct /\ t = "now"
    BY <1>3, <2>1 DEF headerValue
  <2>3. t # "now" /\ d = correct => Hmac(Secret["DIDI"], t, b, "base64") # d
    BY DEF Hmac
  <2>4. "now" # None
    BY NoneIsNoValue
  <2>5. QED
    BY <1>1, <1>3, <2>1, <2>2, <2>3, <2>4, CompareIsEquality DEF DidiVerify
<1>4. ASSUME "x-didi-signature" \notin DOMAIN h
      PROVE  DidiVerify(b, h) = "different" /\ h # signed(correct, "now")
  BY <1>4 DEF DidiVerify, headerValue
<1>5. ASSUME NEW p \in Provider, NEW q \in Provider, h = signWebhook(p, b, Secret[q])
      PROVE  \/ "x-didi-signature" \notin DOMAIN h
             \/ \E d : h = signed(d, "now")
  <2>1. CASE p = "DIDI"
    <3>1. h = signed(Hmac(Secret[q], "now", b, "base64"), "now")
      BY <1>5, <2>1, SignedHeaders
    <3>2. QED
      BY <3>1
  <2>2. CASE p = "RAPPI"
    <3>1. DOMAIN h = {"x-rappi-signature"}
      BY <1>5, <2>2, SignedHeaders
    <3>2. QED
      BY <3>1
  <2>3. CASE p = "UBEREATS"
    <3>1. DOMAIN h = {"x-uber-signature"}
      BY <1>5, <2>3, SignedHeaders
    <3>2. QED
      BY <3>1
  <2>4. QED
    BY <2>1, <2>2, <2>3 DEF Provider
<1>6. ASSUME Mangled("DIDI", b, h)
      PROVE  \/ \E d : h = signed(d, "now")
             \/ \E t \in {None, "later"} : h = signed(correct, t)
  BY <1>2, <1>6 DEF Mangled
<1>7. QED
  BY <1>2, <1>3, <1>4, <1>5, <1>6
LEMMA VerifyDecides ==
  ASSUME NEW p \in Provider, NEW b \in Payload, NEW h,
         \/ \E q, r \in Provider : h = signWebhook(q, b, Secret[r])
         \/ Mangled(p, b, h)
  PROVE  Verify(p, b, h) = IF h = signWebhook(p, b, Secret[p]) THEN "equal" ELSE "different"
<1>1. CASE p = "RAPPI"
  BY <1>1, RappiDecides DEF Verify
<1>2. CASE p = "UBEREATS"
  BY <1>2, UberEatsDecides DEF Verify
<1>3. CASE p = "DIDI"
  BY <1>3, DidiDecides DEF Verify
<1>4. QED
  BY <1>1, <1>2, <1>3 DEF Provider

-----------------------------------------------------------------------------
(* What is in flight.                                                      *)

LEMMA PayloadsAreSent ==
  ASSUME NEW p \in Provider, NEW c \in Carts(p)
  PROVE  /\ buildWebhookPayload(p, c) \in Payload
         /\ Deviations(buildWebhookPayload(p, c)) \subseteq Payload
  BY DEF Payload

\* A header of a right signature that SendMangled changes.
LEMMA ChangesAreMangled ==
  ASSUME NEW p \in Provider, NEW b, NEW name \in DOMAIN signWebhook(p, b, Secret[p]),
         NEW value \in {None} \cup IF name = "x-didi-timestamp" THEN {"later"}
                                   ELSE {Hmac(Secret[p], None, b, encoding) :
                                           encoding \in {"hex", "base64", "cut"}}
  PROVE  Mangled(p, b, [signWebhook(p, b, Secret[p]) EXCEPT ![name] = value])
<1>1. CASE value = None
  BY <1>1 DEF Mangled
<1>2. CASE value # None /\ name = "x-didi-timestamp"
  BY <1>2 DEF Mangled
<1>3. CASE value # None /\ name # "x-didi-timestamp"
  <2>1. PICK encoding \in {"hex", "base64", "cut"} :
          value = Hmac(Secret[p], None, b, encoding)
    BY <1>3
  <2>2. QED
    BY <1>3, <2>1 DEF Mangled
<1>4. QED
  BY <1>1, <1>2, <1>3

LEMMA InFlightStep ==
  ASSUME InFlight, [Next]_vars
  PROVE  InFlight'
<1>1. ASSUME NEW p \in Provider, NEW c \in Carts(p), sendWebhook(p, c)
      PROVE  InFlight'
  BY <1>1, PayloadsAreSent DEF sendWebhook, InFlight
<1>2. ASSUME NEW p \in Provider, NEW c \in Carts(p), SendDeviating(p, c)
      PROVE  InFlight'
  BY <1>2, PayloadsAreSent DEF SendDeviating, InFlight
<1>3. ASSUME NEW p \in Provider, NEW c \in Carts(p), SendMisdirected(p, c)
      PROVE  InFlight'
  BY <1>3, PayloadsAreSent DEF SendMisdirected, InFlight
<1>4. ASSUME NEW p \in Provider, NEW c \in Carts(p), SendMangled(p, c)
      PROVE  InFlight'
  <2> DEFINE b == buildWebhookPayload(p, c)
  <2>1. b \in Payload
    BY PayloadsAreSent
  <2>2. body' = None \/ (body' = b /\ Mangled(p, b, headers'))
    BY <1>4, ChangesAreMangled DEF SendMangled
  <2>3. endpoint' = p
    BY <1>4 DEF SendMangled
  <2>4. QED
    BY <2>1, <2>2, <2>3 DEF InFlight
<1>5. QED
  BY <1>1, <1>2, <1>3, <1>4 DEF Next, vars, process, InFlight, bootstrap, Repair, canActivate,
     RejectsPayload, RejectsDate, Translate, Insert

LEMMA GuardStep ==
  ASSUME InFlight, TakenIffSigned, [Next]_vars
  PROVE  TakenIffSigned'
<1>1. CASE canActivate
  <2>1. CASE body = None
    BY <1>1, <2>1 DEF canActivate, TakenIffSigned
  <2>2. CASE body # None
    <3>1. Verify(endpoint, body, headers) =
            IF headers = signWebhook(endpoint, body, Secret[endpoint]) THEN "equal" ELSE "different"
      BY <1>1, <2>2, VerifyDecides DEF canActivate, InFlight
    <3>2. /\ stage' = IF headers = signWebhook(endpoint, body, Secret[endpoint])
                        THEN "queued" ELSE "unauthorized"
          /\ UNCHANGED <<endpoint, body, headers>>
      BY <1>1, <2>2, <3>1 DEF canActivate
    <3>3. QED
      BY <2>2, <3>2 DEF TakenIffSigned
  <2>3. QED
    BY <2>1, <2>2
<1>2. CASE RejectsPayload \/ RejectsDate \/ Translate \/ Insert
  BY <1>2 DEF RejectsPayload, RejectsDate, Translate, Insert, TakenIffSigned
<1>3. CASE bootstrap \/ Repair
  BY <1>3 DEF bootstrap, Repair, TakenIffSigned
<1>4. ASSUME NEW p \in Provider, NEW c \in Carts(p),
             \/ sendWebhook(p, c) \/ SendDeviating(p, c)
             \/ SendMisdirected(p, c) \/ SendMangled(p, c)
      PROVE  TakenIffSigned'
  <2>1. stage' = "sent"
    BY <1>4 DEF sendWebhook, SendDeviating, SendMisdirected, SendMangled
  <2>2. QED
    BY <2>1 DEF TakenIffSigned
<1>5. CASE UNCHANGED vars
  BY <1>5 DEF vars, TakenIffSigned
<1>6. QED
  BY <1>1, <1>2, <1>3, <1>4, <1>5 DEF Next

\* What carries exactly the headers of its provider's signing is taken, and everything
\* else is answered 401 and never 500 (SignatureGuard and the verifiers), for every
\* menu, cart, deviation and limit.
THEOREM GuardIsExact == Spec => []TakenIffSigned
<1>1. Init => InFlight /\ TakenIffSigned
  BY DEF Init, InFlight, TakenIffSigned
<1>2. InFlight /\ TakenIffSigned /\ [Next]_vars => InFlight' /\ TakenIffSigned'
  BY InFlightStep, GuardStep
<1>3. QED
  BY <1>1, <1>2, PTL DEF Spec

-----------------------------------------------------------------------------
(* The boot.                                                               *)

LEMMA ListedAllStep ==
  ASSUME ListedAll, [Next]_vars
  PROVE  ListedAll'
<1>1. CASE bootstrap
  BY <1>1 DEF bootstrap, validateEnv, ListedAll
<1>2. CASE Repair
  BY <1>2 DEF Repair, ListedAll
<1>3. ASSUME NEW p \in Provider, NEW c \in Carts(p),
             \/ sendWebhook(p, c) \/ SendDeviating(p, c)
             \/ SendMisdirected(p, c) \/ SendMangled(p, c)
      PROVE  ListedAll'
  <2>1. stage' = "sent"
    BY <1>3 DEF sendWebhook, SendDeviating, SendMisdirected, SendMangled
  <2>2. QED
    BY <2>1 DEF ListedAll
<1>4. CASE canActivate \/ RejectsPayload \/ RejectsDate \/ Translate \/ Insert
  <2>1. stage' # "failed"
    BY <1>4 DEF canActivate, RejectsPayload, RejectsDate, Translate, Insert
  <2>2. QED
    BY <2>1 DEF ListedAll
<1>5. CASE UNCHANGED vars
  BY <1>5 DEF vars, process, ListedAll
<1>6. QED
  BY <1>1, <1>2, <1>3, <1>4, <1>5 DEF Next

\* Once what the first failed boot listed has been set, no boot fails (validateEnv),
\* whatever else is missing or empty.
THEOREM OneRepairIsEnough == Spec => RepairedInOneGo
<1>1. Init => ListedAll
  BY DEF Init, ListedAll
<1>2. ListedAll /\ [Next]_vars => ListedAll'
  BY ListedAllStep
<1>3. ListedAll /\ [Next]_vars =>
        [stage = "failed" => stage' = "idle" \/ UNCHANGED <<stage, listed>>]_vars
  <2> SUFFICES ASSUME ListedAll, Next, stage = "failed"
               PROVE  stage' = "idle" \/ UNCHANGED <<stage, listed>>
    OBVIOUS
  <2>1. CASE bootstrap
    <3>1. validateEnv(env) = {}
      BY <2>1 DEF bootstrap, ListedAll, validateEnv
    <3>2. QED
      BY <2>1, <3>1 DEF bootstrap
  <2>2. CASE Repair
    BY <2>2 DEF Repair
  <2>3. QED
    BY <2>1, <2>2 DEF Next, sendWebhook, SendDeviating, SendMisdirected, SendMangled,
       canActivate, RejectsPayload, RejectsDate, Translate, Insert
<1>4. QED
  BY <1>1, <1>2, <1>3, PTL DEF Spec, RepairedInOneGo

-----------------------------------------------------------------------------
(* Amounts.                                                                *)

\* pesosToCents gives whole cents, off the pesos by at most half a cent, and leaves
\* an amount of whole cents as it is.
THEOREM RoundsToTheCent ==
  ASSUME NEW pesos \in Int
  PROVE  LET drift == pesosToCents(pesos) - 100 * pesos IN
         /\ pesosToCents(pesos) % Milli = 0
         /\ 2 * drift <= Milli /\ -2 * drift <= Milli
         /\ (100 * pesos) % Milli = 0 => drift = 0
  BY DEF pesosToCents, Milli
=============================================================================

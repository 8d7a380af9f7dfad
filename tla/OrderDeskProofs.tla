-------------------------- MODULE OrderDeskProofs ---------------------------
(***************************************************************************)
(* Proofs about OrderDesk, for any orders, any operators and any number of *)
(* moves; and, for a desk with a single operator, that the table is kept.  *)
(*                                                                         *)
(* The inductive invariant says what a call that is under way still has to *)
(* stand on: the status it read is one that the order had (Grounded).  With*)
(* one operator it is the status that the order has (SoleReader).          *)
(***************************************************************************)
EXTENDS OrderDesk, TLAPS

\* The order had status s at some time; it got it with the row v of its trail.
Had(tr, o, s)       == \E i \in 1 .. Len(tr[o]) : tr[o][i].to = s
HasRow(tr, o, v, s) == v \in 1 .. Len(tr[o]) /\ tr[o][v].to = s

\* A call at the write has read a status that the order had, and the table allows
\* its move from there; a call at the publish holds the row that it has written.
Grounded ==
    \A p \in Operators :
        /\ patch[p].pc = "idle" => patch[p] = NoPatch
        /\ patch[p].pc \in {"apply", "publish"} =>
             LET o == patch[p].order IN
             /\ o \in Orders
             /\ status[o] # None
             /\ patch[p].seen \in OrderStatus
             /\ CanTransition(patch[p].seen, patch[p].to)
             /\ patch[p].pc = "apply" => Had(trail, o, patch[p].seen)
             /\ patch[p].pc = "publish" => HasRow(trail, o, patch[p].version, patch[p].to)

\* An order that is to be announced has been created.
AnnouncedExist == \A o \in unannounced : status[o] # None

IndInv ==
    /\ TypeOK
    /\ TrailEndsAtStatus
    /\ EntriesAreLegal
    /\ FeedIsCommitted
    /\ Grounded
    /\ AnnouncedExist

\* The table leads from a status to a status.
LEMMA TableType ==
  ASSUME NEW s \in OrderStatus, NEW t, CanTransition(s, t)
  PROVE  t \in OrderStatus
BY DEF CanTransition, ORDER_TRANSITIONS, OrderStatus

\* What one call writes: the status of its order, and a row at the end of that
\* order's trail; the rows that were there keep their places.
LEMMA ApplyEffect ==
  ASSUME IndInv, NEW p \in Operators, Apply(p), NEW o \in Orders, o = patch[p].order
  PROVE  /\ [from |-> patch[p].seen, to |-> patch[p].to] \in Entry
         /\ status[o] # None
         /\ status'[o] = patch[p].to
         /\ trail'[o] \in Seq(Entry)
         /\ Len(trail[o]) \in Nat
         /\ Len(trail'[o]) = Len(trail[o]) + 1
         /\ \A i \in 1 .. Len(trail[o]) : trail'[o][i] = trail[o][i]
         /\ trail'[o][Len(trail[o]) + 1].from = patch[p].seen
         /\ trail'[o][Len(trail[o]) + 1].to = patch[p].to
<1> DEFINE e == [from |-> patch[p].seen, to |-> patch[p].to]
<1>1. status[o] # None /\ e \in Entry
  <2>1. status[o] # None /\ patch[p].seen \in OrderStatus /\ CanTransition(patch[p].seen, patch[p].to)
    BY DEF Apply, IndInv, Grounded
  <2>2. QED
    BY <2>1, TableType DEF Entry
<1>2. status'[o] = patch[p].to /\ trail'[o] = Append(trail[o], e)
  BY DEF Apply, IndInv, TypeOK
<1>3. trail[o] \in Seq(Entry)
  BY DEF IndInv, TypeOK
<1>4. e.from = patch[p].seen /\ e.to = patch[p].to
  OBVIOUS
<1>5. QED
  <2> HIDE DEF e
  <2>1. /\ trail'[o] \in Seq(Entry)
        /\ Len(trail[o]) \in Nat
        /\ Len(trail'[o]) = Len(trail[o]) + 1
        /\ \A i \in 1 .. Len(trail[o]) : trail'[o][i] = trail[o][i]
        /\ trail'[o][Len(trail[o]) + 1] = e
    BY <1>1, <1>2, <1>3
  <2>2. QED
    BY <1>1, <1>2, <1>4, <2>1 DEF e

\* It writes no other order's.
LEMMA ApplyFrame ==
  ASSUME IndInv, NEW p \in Operators, Apply(p), NEW o \in Orders, o # patch[p].order
  PROVE  status'[o] = status[o] /\ trail'[o] = trail[o]
BY DEF Apply, IndInv, TypeOK

\* A row that is in a trail stays where it is.
LEMMA TrailsGrow ==
  ASSUME IndInv, [Next]_vars, NEW o \in Orders, NEW i \in 1 .. Len(trail[o])
  PROVE  i \in 1 .. Len(trail'[o]) /\ trail'[o][i] = trail[o][i]
<1>1. ASSUME NEW p \in Operators, Apply(p)
      PROVE  i \in 1 .. Len(trail'[o]) /\ trail'[o][i] = trail[o][i]
  <2>1. CASE o = patch[p].order
    <3>1. Len(trail[o]) \in Nat /\ Len(trail'[o]) = Len(trail[o]) + 1
      BY <1>1, <2>1, ApplyEffect
    <3>2. \A n \in 1 .. Len(trail[o]) : trail'[o][n] = trail[o][n]
      BY <1>1, <2>1, ApplyEffect, Zenon
    <3>3. QED
      BY <3>1, <3>2
  <2>2. CASE o # patch[p].order
    BY <1>1, <2>2, ApplyFrame
  <2>3. QED
    BY <2>1, <2>2
<1>2. ASSUME NEW x \in Orders, Create(x)
      PROVE  i \in 1 .. Len(trail'[o]) /\ trail'[o][i] = trail[o][i]
  BY <1>2 DEF Create, IndInv, TypeOK, TrailEndsAtStatus
<1>3. CASE UNCHANGED trail
  BY <1>3
<1>4. QED
  BY <1>1, <1>2, <1>3 DEF Next, Announce, AnnounceFails, Decide, Publish, PatchFails, vars

\* Every step keeps the types.
LEMMA TypeStep ==
  ASSUME IndInv, [Next]_vars
  PROVE  TypeOK'
<1>1. ASSUME NEW o \in Orders, Create(o)
      PROVE  TypeOK'
  <2>1. <<[from |-> None, to |-> "RECEIVED"]>> \in Seq(Entry)
    BY DEF Entry, OrderStatus
  <2>2. QED
    BY <1>1, <2>1 DEF Create, IndInv, TypeOK, OrderStatus
<1>2. ASSUME NEW p \in Operators, NEW o \in Orders, NEW to \in OrderStatus, Decide(p, o, to)
      PROVE  TypeOK'
  BY <1>2 DEF Decide, IndInv, TypeOK, Patch
<1>3. ASSUME NEW p \in Operators, Apply(p)
      PROVE  TypeOK'
  <2>1. \A o \in Orders : status'[o] \in OrderStatus \cup {None} /\ trail'[o] \in Seq(Entry)
    BY <1>3, ApplyEffect, ApplyFrame DEF IndInv, TypeOK, Entry
  <2>2. patch' \in [Operators -> Patch]
    <3>1. NoPatch \in Patch
      BY DEF NoPatch, Patch
    <3>2. patch[p].order \in Orders /\ Len(trail[patch[p].order]) + 1 \in Nat
      BY <1>3 DEF Apply, IndInv, TypeOK, Grounded
    <3>3. Written(p) \in Patch
      BY <3>2 DEF Written, IndInv, TypeOK, Patch
    <3>4. QED
      BY <1>3, <3>1, <3>3 DEF Apply, IndInv, TypeOK
  <2>3. QED
    BY <1>3, <2>1, <2>2 DEF Apply, IndInv, TypeOK
<1>4. ASSUME NEW p \in Operators, Publish(p)
      PROVE  TypeOK'
  <2>1. [order |-> patch[p].order, status |-> patch[p].to, version |-> patch[p].version]
            \in Message
    BY <1>4, TableType DEF Publish, IndInv, TypeOK, Patch, Grounded, Message
  <2>2. QED
    BY <1>4, <2>1 DEF Publish, IndInv, TypeOK, Patch, NoPatch
<1>5. ASSUME NEW p \in Operators, PatchFails(p)
      PROVE  TypeOK'
  BY <1>5 DEF PatchFails, IndInv, TypeOK, Patch, NoPatch
<1>6. CASE UNCHANGED vars
  BY <1>6 DEF vars, IndInv, TypeOK
<1>7. ASSUME NEW o \in Orders, Announce(o)
      PROVE  TypeOK'
  <2>1. [order |-> o, status |-> "RECEIVED", version |-> 1] \in Message
    BY DEF Message, OrderStatus
  <2>2. QED
    BY <1>7, <2>1 DEF Announce, IndInv, TypeOK
<1>8. ASSUME NEW o \in Orders, AnnounceFails(o)
      PROVE  TypeOK'
  BY <1>8 DEF AnnounceFails, IndInv, TypeOK
<1>9. QED
  BY <1>1, <1>2, <1>3, <1>4, <1>5, <1>6, <1>7, <1>8 DEF Next

\* The status and the last row are written together.
LEMMA TrailStep ==
  ASSUME IndInv, [Next]_vars
  PROVE  TrailEndsAtStatus'
<1>1. ASSUME NEW p \in Operators, Apply(p)
      PROVE  TrailEndsAtStatus'
  <2> SUFFICES ASSUME NEW o \in Orders
               PROVE  IF status'[o] = None THEN trail'[o] = <<>>
                      ELSE /\ Len(trail'[o]) > 0
                           /\ trail'[o][1] = [from |-> None, to |-> "RECEIVED"]
                           /\ trail'[o][Len(trail'[o])].to = status'[o]
    BY DEF TrailEndsAtStatus
  <2>1. CASE o = patch[p].order
    <3>1. Len(trail[o]) \in Nat /\ status[o] # None
      BY <1>1, <2>1, ApplyEffect
    <3>2. Len(trail[o]) > 0 /\ trail[o][1] = [from |-> None, to |-> "RECEIVED"]
      BY <3>1 DEF IndInv, TrailEndsAtStatus
    <3>3. trail'[o][1] = trail[o][1]
      BY <3>1, <3>2, TrailsGrow
    <3>4. /\ Len(trail'[o]) = Len(trail[o]) + 1
          /\ status'[o] = patch[p].to
          /\ trail'[o][Len(trail[o]) + 1].to = patch[p].to
      BY <1>1, <2>1, ApplyEffect, Zenon
    <3>5. status'[o] # None
      BY <1>1, <2>1, ApplyEffect, DeskNone DEF Entry
    <3>6. QED
      BY <3>1, <3>2, <3>3, <3>4, <3>5
  <2>2. CASE o # patch[p].order
    BY <1>1, <2>2, ApplyFrame DEF IndInv, TrailEndsAtStatus
  <2>3. QED
    BY <2>1, <2>2
<1>2. ASSUME NEW o \in Orders, Create(o)
      PROVE  TrailEndsAtStatus'
  BY <1>2, DeskNone DEF Create, IndInv, TypeOK, TrailEndsAtStatus, OrderStatus
<1>3. CASE UNCHANGED <<status, trail>>
  BY <1>3 DEF IndInv, TrailEndsAtStatus
<1>4. QED
  BY <1>1, <1>2, <1>3 DEF Next, Announce, AnnounceFails, Decide, Publish, PatchFails, vars

\* The new row starts from the status that the call read, which the order had.
LEMMA EntriesStep ==
  ASSUME IndInv, [Next]_vars
  PROVE  EntriesAreLegal'
<1>1. ASSUME NEW p \in Operators, Apply(p)
      PROVE  EntriesAreLegal'
  <2> DEFINE Legal(t, i) == /\ t[i].from \in OrderStatus
                            /\ CanTransition(t[i].from, t[i].to)
                            /\ \E j \in 1 .. i - 1 : t[j].to = t[i].from
  <2> SUFFICES ASSUME NEW o \in Orders, NEW i \in 2 .. Len(trail'[o])
               PROVE  Legal(trail'[o], i)
    BY DEF EntriesAreLegal
  <2>0. Len(trail[o]) \in Nat
    BY DEF IndInv, TypeOK
  <2>1. CASE o = patch[p].order
    <3>1. CASE i \in 2 .. Len(trail[o])
      <4>1. Legal(trail[o], i)
        BY <3>1 DEF IndInv, EntriesAreLegal
      <4>2. \A j \in 1 .. i : trail'[o][j] = trail[o][j]
        BY <2>0, <3>1, TrailsGrow
      <4>3. QED
        <5>1. trail'[o][i] = trail[o][i]
          BY <2>0, <3>1, <4>2
        <5>2. PICK j \in 1 .. i - 1 : trail[o][j].to = trail[o][i].from
          BY <4>1
        <5>3. trail'[o][j].to = trail'[o][i].from
          BY <2>0, <3>1, <4>2, <5>1, <5>2
        <5>4. QED
          BY <4>1, <5>1, <5>3
    <3>2. CASE i = Len(trail[o]) + 1
      <4>1. /\ trail'[o][i].from = patch[p].seen
            /\ trail'[o][i].to = patch[p].to
        BY <1>1, <2>1, <3>2, ApplyEffect
      <4>2. PICK j \in 1 .. Len(trail[o]) : trail[o][j].to = patch[p].seen
        BY <1>1, <2>1 DEF Apply, IndInv, Grounded, Had
      <4>3. trail'[o][j].to = patch[p].seen /\ j \in 1 .. i - 1
        BY <2>0, <3>2, <4>2, TrailsGrow
      <4>4. QED
        BY <1>1, <4>1, <4>3 DEF Apply, IndInv, Grounded
    <3>3. QED
      <4>1. Len(trail'[o]) = Len(trail[o]) + 1
        BY <1>1, <2>1, ApplyEffect
      <4>2. QED
        BY <2>0, <3>1, <3>2, <4>1
  <2>2. CASE o # patch[p].order
    BY <1>1, <2>2, ApplyFrame DEF IndInv, EntriesAreLegal
  <2>3. QED
    BY <2>1, <2>2
<1>2. ASSUME NEW o \in Orders, Create(o)
      PROVE  EntriesAreLegal'
  BY <1>2 DEF Create, IndInv, TypeOK, EntriesAreLegal
<1>3. CASE UNCHANGED trail
  BY <1>3 DEF IndInv, EntriesAreLegal
<1>4. QED
  BY <1>1, <1>2, <1>3 DEF Next, Announce, AnnounceFails, Decide, Publish, PatchFails, vars

\* What is published is the row that the publisher has written.
LEMMA FeedStep ==
  ASSUME IndInv, [Next]_vars
  PROVE  FeedIsCommitted'
<1> DEFINE Committed(m) == HasRow(trail, m.order, m.version, m.status)
<1>1. ASSUME NEW m \in Message, Committed(m)
      PROVE  Committed(m)'
  BY <1>1, TrailsGrow DEF Message, HasRow
<1>2. \A n \in 1 .. Len(feed) : feed[n] \in Message /\ Committed(feed[n])
  BY DEF IndInv, TypeOK, FeedIsCommitted, HasRow
<1>3. ASSUME NEW m \in Message, Committed(m), feed' = Append(feed, m), trail' = trail
      PROVE  FeedIsCommitted'
  <2>1. feed \in Seq(Message)
    BY DEF IndInv, TypeOK
  <2>2. \A n \in 1 .. Len(feed') : feed'[n] = m \/ (n \in 1 .. Len(feed) /\ feed'[n] = feed[n])
    BY <1>3, <2>1
  <2>3. \A n \in 1 .. Len(feed') : Committed(feed'[n])
    <3> HIDE DEF Committed
    <3> QED BY <1>2, <1>3, <2>2
  <2>4. QED
    BY <1>3, <2>3 DEF FeedIsCommitted, HasRow
<1>4. ASSUME NEW p \in Operators, Publish(p)
      PROVE  FeedIsCommitted'
  <2> DEFINE m == [order |-> patch[p].order, status |-> patch[p].to, version |-> patch[p].version]
  <2>1. m \in Message /\ Committed(m)
    BY <1>4, TableType DEF Publish, IndInv, TypeOK, Patch, Grounded, Message
  <2>2. feed' = Append(feed, m) /\ trail' = trail
    BY <1>4 DEF Publish
  <2>3. QED
    <3> HIDE DEF m, Committed
    <3> QED BY <1>3, <2>1, <2>2
<1>5. ASSUME NEW o \in Orders, Announce(o)
      PROVE  FeedIsCommitted'
  <2> DEFINE m == [order |-> o, status |-> "RECEIVED", version |-> 1]
  <2>1. m \in Message
    BY DEF Message, OrderStatus
  <2>2. trail[o] \in Seq(Entry) /\ Len(trail[o]) > 0
        /\ trail[o][1] = [from |-> None, to |-> "RECEIVED"]
    BY <1>5 DEF Announce, IndInv, TypeOK, AnnouncedExist, TrailEndsAtStatus
  <2>3. Committed(m)
    BY <2>2 DEF HasRow
  <2>4. feed' = Append(feed, m) /\ trail' = trail
    BY <1>5 DEF Announce
  <2>5. QED
    <3> HIDE DEF m, Committed
    <3> QED BY <1>3, <2>1, <2>3, <2>4
<1>6. CASE UNCHANGED feed
  BY <1>1, <1>2, <1>6 DEF FeedIsCommitted, HasRow
<1>7. QED
  BY <1>4, <1>5, <1>6 DEF Next, Create, AnnounceFails, Decide, Apply, PatchFails, vars

\* A call keeps what it stands on, since trails only grow.
LEMMA GroundedStep ==
  ASSUME IndInv, [Next]_vars
  PROVE  Grounded' /\ AnnouncedExist'
<1> DEFINE Stands(st, tr, c) == /\ c.order \in Orders
                                /\ st[c.order] # None
                                /\ c.seen \in OrderStatus
                                /\ CanTransition(c.seen, c.to)
                                /\ c.pc = "apply" => Had(tr, c.order, c.seen)
                                /\ c.pc = "publish" => HasRow(tr, c.order, c.version, c.to)
<1>1. ASSUME NEW o \in Orders, NEW s, NEW v
      PROVE  /\ Had(trail, o, s) => Had(trail', o, s)
             /\ HasRow(trail, o, v, s) => HasRow(trail', o, v, s)
  BY TrailsGrow DEF Had, HasRow
<1>2. ASSUME NEW o \in Orders, status[o] # None
      PROVE  status'[o] # None /\ Had(trail, o, status[o])
  <2>1. Had(trail, o, status[o])
    BY <1>2 DEF IndInv, TypeOK, TrailEndsAtStatus, Had
  <2>2. ASSUME NEW p \in Operators, Apply(p)
        PROVE  status'[o] # None
    <3>1. CASE o = patch[p].order
      BY <2>2, <3>1, ApplyEffect, DeskNone DEF Entry
    <3>2. CASE o # patch[p].order
      BY <1>2, <2>2, <3>2, ApplyFrame
    <3>3. QED
      BY <3>1, <3>2
  <2>3. QED
    <3>1. CASE UNCHANGED status
      BY <1>2, <2>1, <3>1
    <3>2. ASSUME NEW x \in Orders, Create(x)
          PROVE  status'[o] # None
      BY <1>2, <3>2, DeskNone DEF Create, IndInv, TypeOK, OrderStatus
    <3>3. QED
      BY <2>1, <2>2, <3>1, <3>2 DEF Next, Announce, AnnounceFails, Decide, Publish, PatchFails, vars
<1>3. ASSUME NEW c, Stands(status, trail, c)
      PROVE  Stands(status', trail', c)
  BY <1>1, <1>2, <1>3
<1>4. ASSUME NEW p \in Operators
      PROVE  \/ patch'[p] = NoPatch
             \/ patch'[p].pc \in {"apply", "publish"} /\ Stands(status', trail', patch'[p])
  <2>1. \/ patch[p] = NoPatch
        \/ patch[p].pc \in {"apply", "publish"} /\ Stands(status, trail, patch[p])
    BY DEF IndInv, Grounded, TypeOK, Patch
  <2>2. CASE patch'[p] = patch[p]
    <3> HIDE DEF Stands
    <3> QED BY <1>3, <2>1, <2>2
  <2>3. CASE patch'[p] = NoPatch
    BY <2>3
  <2>4. ASSUME NEW o \in Orders, NEW to \in OrderStatus, Decide(p, o, to)
        PROVE  patch'[p].pc = "apply" /\ Stands(status', trail', patch'[p])
    <3>1. patch'[p] = [pc |-> "apply", order |-> o, seen |-> status[o], to |-> to,
                      version |-> 0]
      BY <2>4 DEF Decide, IndInv, TypeOK
    <3>2. status[o] \in OrderStatus /\ status[o] # None /\ CanTransition(status[o], to)
      BY <2>4 DEF Decide, IndInv, TypeOK
    <3>3. Had(trail, o, status[o]) /\ status' = status /\ trail' = trail
      BY <1>2, <2>4, <3>2 DEF Decide
    <3>4. QED
      BY <3>1, <3>2, <3>3
  <2>5. ASSUME Apply(p), patch'[p] # NoPatch
        PROVE  patch'[p].pc = "publish" /\ Stands(status', trail', patch'[p])
    <3>1. /\ patch'[p].pc = "publish"
          /\ patch'[p].order = patch[p].order
          /\ patch'[p].seen = patch[p].seen
          /\ patch'[p].to = patch[p].to
          /\ patch'[p].version = Len(trail[patch[p].order]) + 1
      BY <2>5 DEF Apply, Written, IndInv, TypeOK
    <3>2. patch[p].pc = "apply" /\ Stands(status, trail, patch[p])
      BY <2>1, <2>5 DEF Apply, NoPatch
    <3>3. HasRow(trail', patch[p].order, patch'[p].version, patch[p].to)
      <4>1. patch[p].order \in Orders
        BY <3>2
      <4>2. /\ Len(trail[patch[p].order]) \in Nat
            /\ Len(trail'[patch[p].order]) = Len(trail[patch[p].order]) + 1
            /\ trail'[patch[p].order][Len(trail[patch[p].order]) + 1].to = patch[p].to
        BY <2>5, <4>1, ApplyEffect, Zenon
      <4>3. QED
        BY <3>1, <4>2 DEF HasRow
    <3>4. status'[patch[p].order] # None
      BY <1>2, <3>2
    <3>5. QED
      BY <3>1, <3>2, <3>3, <3>4
  <2>6. \/ patch'[p] = patch[p]
        \/ patch'[p] = NoPatch
        \/ \E o \in Orders, to \in OrderStatus : Decide(p, o, to)
        \/ Apply(p)
    BY DEF Next, Create, Announce, AnnounceFails, Decide, Apply, Publish, PatchFails, vars,
       IndInv, TypeOK
  <2>7. QED
    BY <2>2, <2>3, <2>4, <2>5, <2>6
<1>5. AnnouncedExist'
  BY <1>2, DeskNone DEF Next, Create, Announce, AnnounceFails, Decide, Apply, Publish, PatchFails,
     vars, AnnouncedExist, IndInv, TypeOK, OrderStatus
<1>6. QED
  BY <1>4, <1>5 DEF Grounded, NoPatch

\* IndInv is an invariant of the desk.
THEOREM Invariance == Spec => []IndInv
<1>1. Init => IndInv
  BY DeskNone DEF Init, IndInv, TypeOK, TrailEndsAtStatus, EntriesAreLegal, FeedIsCommitted,
     Grounded, AnnouncedExist, NoPatch, Patch
<1>2. IndInv /\ [Next]_vars => IndInv'
  BY TypeStep, TrailStep, EntriesStep, FeedStep, GroundedStep DEF IndInv
<1>3. QED
  BY <1>1, <1>2, PTL DEF Spec

\* Orders, audit rows, calls and messages keep their types (schema.prisma).
THEOREM TypeCorrect == Spec => []TypeOK
<1>1. IndInv => TypeOK
  BY DEF IndInv
<1>2. QED
  BY <1>1, Invariance, PTL

\* The audit trail ends at the order's status, however many operators there are:
\* the one thing that the transaction of applyTransition does secure.
THEOREM TrailMatchesStatus == Spec => []TrailEndsAtStatus
<1>1. IndInv => TrailEndsAtStatus
  BY DEF IndInv
<1>2. QED
  BY <1>1, Invariance, PTL

\* However many operators overlap, an audit row is a move of the table from a
\* status that the order has had (OrdersService.transition).
THEOREM AuditIsLegal == Spec => []EntriesAreLegal
<1>1. IndInv => EntriesAreLegal
  BY DEF IndInv
<1>2. QED
  BY <1>1, Invariance, PTL

\* Messages carry committed statuses only (transition, 30-31; ADR 0003).
THEOREM OnlyCommittedIsPublished == Spec => []FeedIsCommitted
<1>1. IndInv => FeedIsCommitted
  BY DEF IndInv
<1>2. QED
  BY <1>1, Invariance, PTL

-----------------------------------------------------------------------------
(* A desk with one operator.                                               *)

\* The status that a call is about to move from is the order's.
SoleReader == \A p \in Operators :
    patch[p].pc = "apply" => patch[p].seen = status[patch[p].order]

\* With one operator nobody writes between the read and the write.
LEMMA SoleReaderStep ==
  ASSUME NEW q, Operators = {q}, IndInv, SoleReader, [Next]_vars
  PROVE  SoleReader'
<1>1. ASSUME NEW o \in Orders, Create(o)
      PROVE  SoleReader'
  BY <1>1 DEF Create, SoleReader, IndInv, TypeOK, Grounded
<1>2. ASSUME NEW o \in Orders, NEW to \in OrderStatus, Decide(q, o, to)
      PROVE  SoleReader'
  BY <1>2 DEF Decide, SoleReader, IndInv, TypeOK
<1>3. CASE Apply(q) \/ Publish(q) \/ PatchFails(q)
  <2>1. patch'[q].pc # "apply"
    BY <1>3 DEF Apply, Written, Publish, PatchFails, NoPatch, IndInv, TypeOK
  <2>2. QED
    BY <2>1 DEF SoleReader
<1>4. CASE UNCHANGED <<status, patch>>
  BY <1>4 DEF SoleReader
<1>5. QED
  BY <1>1, <1>2, <1>3, <1>4 DEF Next, Announce, AnnounceFails, vars

\* So the table is kept, and the new row continues the trail.
LEMMA SoleStep ==
  ASSUME NEW q, Operators = {q}, IndInv, SoleReader, TrailIsPath, [Next]_vars
  PROVE  /\ TrailIsPath'
         /\ \A o \in Orders :
              status[o] \notin {None, status'[o]} => CanTransition(status[o], status'[o])
<1>1. CASE Apply(q)
  <2> DEFINE x == patch[q].order
  <2>1. x \in Orders /\ status[x] = patch[q].seen /\ CanTransition(patch[q].seen, patch[q].to)
    BY <1>1 DEF Apply, SoleReader, IndInv, Grounded
  <2>2. /\ Len(trail[x]) \in Nat
        /\ Len(trail'[x]) = Len(trail[x]) + 1
        /\ status'[x] = patch[q].to
        /\ trail'[x][Len(trail[x]) + 1].from = patch[q].seen
    BY <1>1, <2>1, ApplyEffect, Zenon
  <2>3. trail[x][Len(trail[x])].to = patch[q].seen /\ Len(trail[x]) > 0
    BY <1>1, <2>1 DEF Apply, IndInv, Grounded, TrailEndsAtStatus
  <2>4. ASSUME NEW i \in 2 .. Len(trail'[x])
        PROVE  trail'[x][i].from = trail'[x][i - 1].to
    <3>1. CASE i = Len(trail[x]) + 1
      <4>1. trail'[x][Len(trail[x])] = trail[x][Len(trail[x])]
        BY <2>1, <2>2, <2>3, TrailsGrow
      <4>2. QED
        BY <2>2, <2>3, <3>1, <4>1
    <3>2. CASE i \in 2 .. Len(trail[x])
      <4>1. i \in 1 .. Len(trail[x]) /\ i - 1 \in 1 .. Len(trail[x])
        BY <2>2, <3>2
      <4>2. trail'[x][i] = trail[x][i]
        BY <2>1, <4>1, TrailsGrow
      <4>3. trail'[x][i - 1] = trail[x][i - 1]
        BY <2>1, <4>1, TrailsGrow
      <4>4. QED
        BY <2>1, <3>2, <4>2, <4>3 DEF TrailIsPath
    <3>3. QED
      BY <2>2, <3>1, <3>2
  <2>5. ASSUME NEW o \in Orders, o # x
        PROVE  status'[o] = status[o] /\ trail'[o] = trail[o]
    BY <1>1, <2>5, ApplyFrame
  <2>6. TrailIsPath'
    BY <2>4, <2>5 DEF TrailIsPath
  <2>7. QED
    BY <2>1, <2>2, <2>5, <2>6
<1>2. ASSUME NEW o \in Orders, Create(o)
      PROVE  /\ TrailIsPath'
             /\ \A x \in Orders : status[x] = None \/ status'[x] = status[x]
  BY <1>2 DEF Create, TrailIsPath, IndInv, TypeOK
<1>3. CASE UNCHANGED <<status, trail>>
  BY <1>3 DEF TrailIsPath
<1>4. QED
  BY <1>1, <1>2, <1>3 DEF Next, Announce, AnnounceFails, Decide, Publish, PatchFails, vars

\* With a single operator the API does enforce the table ("the API enforces it",
\* README, 89), and the audit trail of an order is a path.
THEOREM SingleOperator ==
  ASSUME NEW q, Operators = {q}
  PROVE  Spec => StatusFollowsTable /\ []TrailIsPath
<1> DEFINE Moves == \A o \in Orders :
             status[o] \notin {None, status'[o]} => CanTransition(status[o], status'[o])
<1>1. Init => SoleReader /\ TrailIsPath
  BY DEF Init, SoleReader, TrailIsPath, NoPatch
<1>2. IndInv /\ SoleReader /\ TrailIsPath /\ [Next]_vars => SoleReader' /\ TrailIsPath' /\ Moves
  BY SoleReaderStep, SoleStep
<1>3. Spec => [](SoleReader /\ TrailIsPath)
  BY <1>1, <1>2, Invariance, PTL DEF Spec
<1>4. Spec => [][Moves]_vars
  BY <1>2, <1>3, Invariance, PTL DEF Spec
<1>5. QED
  BY <1>3, <1>4, PTL DEF StatusFollowsTable
=============================================================================

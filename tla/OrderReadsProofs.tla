-------------------------- MODULE OrderReadsProofs --------------------------
(***************************************************************************)
(* Proofs about OrderReads, for any finite set of orders, any operators    *)
(* and any number of moves: reads and nudges leave the desk a desk, the    *)
(* simulator is refused only by the race, and a summary's counts are of    *)
(* the time of its call, though an order may change its status between     *)
(* them: by status or by provider, they add up to the orders there are.    *)
(*                                                                         *)
(* A nudge that is on its way stands on the row that was listed: the row   *)
(* stays in the trail, and as long as it is the last one the table still   *)
(* allows the move (NudgeStands).                                          *)
(***************************************************************************)
EXTENDS OrderReads, OrderDeskProofs, Sums

\* What a nudge asks for is a move of the table from the row that was listed.
NudgeStands ==
    nudge.pc = "chosen" =>
        /\ nudge.order \in Orders
        /\ nudge.to \in OrderStatus
        /\ status[nudge.order] # None
        /\ nudge.version \in 1 .. Len(trail[nudge.order])
        /\ CanTransition(trail[nudge.order][nudge.version].to, nudge.to)

\* One that was refused was overtaken, and nothing takes that back.
NudgeRefused ==
    /\ nudge.pc \in {"idle", "chosen", "409"}
    /\ nudge.pc = "409" =>
         /\ nudge.order \in Orders
         /\ nudge.version \in Nat
         /\ Len(trail[nudge.order]) > nudge.version

NudgeInv == NudgeStands /\ NudgeRefused

-----------------------------------------------------------------------------
(* The desk.                                                               *)

\* Reads leave the desk alone, and a nudge that arrives is one of its PATCH calls.
LEMMA ReadsStepIsDeskStep ==
  ASSUME NudgeStands, [ReadsNext]_rvars
  PROVE  [Next]_vars
<1>1. DeskMoves => Next
  BY DEF DeskMoves, Next
<1>2. NudgeArrives => [Next]_vars
  BY SimulatorCalls DEF NudgeArrives, NudgeStands, Next
<1>3. QED
  BY <1>1, <1>2 DEF ReadsNext, rvars, AskSummary, CountByProvider, CountByStatus,
     AnswerSummary, SummaryFails, ListAndChoose, NudgeFails

\* A step of the desk keeps what is proved of the desk.
LEMMA DeskStepKeeps ==
  ASSUME IndInv, [Next]_vars
  PROVE  IndInv'
BY TypeStep, TrailStep, EntriesStep, FeedStep, GroundedStep DEF IndInv

\* An order that was created is there for good.
LEMMA OrdersStay ==
  ASSUME IndInv, [Next]_vars, NEW o \in Orders, status[o] # None
  PROVE  status'[o] # None
<1>1. ASSUME NEW p \in Operators, Apply(p)
      PROVE  status'[o] # None
  <2>1. CASE o = patch[p].order
    <3>1. patch[p].seen \in OrderStatus /\ CanTransition(patch[p].seen, patch[p].to)
      BY <1>1, <2>1 DEF IndInv, Grounded, Apply
    <3>2. patch[p].to \in OrderStatus
      BY <3>1, TableType
    <3>3. QED
      BY <1>1, <2>1, <3>2, ApplyEffect, DeskNone
  <2>2. QED
    BY <1>1, <2>1, ApplyFrame
<1>2. ASSUME NEW x \in Orders, Create(x)
      PROVE  status'[o] # None
  BY <1>2 DEF Create, IndInv, TypeOK
<1>3. QED
  BY <1>1, <1>2 DEF Next, Announce, AnnounceFails, Decide, Publish, PatchFails, vars

\* The last row of an order's trail has its status.
LEMMA LastRow ==
  ASSUME IndInv, NEW o \in Orders, status[o] # None
  PROVE  /\ Len(trail[o]) \in Nat \ {0}
         /\ trail[o][Len(trail[o])].to = status[o]
         /\ status[o] \in OrderStatus
BY DEF IndInv, TypeOK, TrailEndsAtStatus

-----------------------------------------------------------------------------
(* The nudge.                                                              *)

LEMMA NudgeStandsStep ==
  ASSUME IndInv, NudgeStands, [ReadsNext]_rvars
  PROVE  NudgeStands'
<1> SUFFICES ASSUME nudge'.pc = "chosen"
             PROVE  NudgeStands'
  BY DEF NudgeStands
<1>1. CASE ListAndChoose
  <2>1. PICK o \in movable : \E to \in Nudges(status[o]) :
               nudge' = [pc |-> "chosen", order |-> o, to |-> to, version |-> Len(trail[o])]
    BY <1>1 DEF ListAndChoose
  <2>2. o \in Orders /\ status[o] # None /\ ORDER_TRANSITIONS[status[o]] # {}
    BY DEF movable
  <2>3. PICK to \in ORDER_TRANSITIONS[status[o]] :
               nudge' = [pc |-> "chosen", order |-> o, to |-> to, version |-> Len(trail[o])]
    BY <2>1, <2>2 DEF Nudges
  <2>4. CanTransition(status[o], to) /\ to \in OrderStatus
    BY <2>2, <2>3, LastRow, TableType DEF CanTransition
  <2>5. status' = status /\ trail' = trail
    BY <1>1 DEF ListAndChoose, vars
  <2>6. QED
    BY <2>2, <2>3, <2>4, <2>5, LastRow DEF NudgeStands
<1>2. CASE nudge' = nudge
  <2>1. /\ nudge.order \in Orders
        /\ nudge.to \in OrderStatus
        /\ status[nudge.order] # None
        /\ nudge.version \in 1 .. Len(trail[nudge.order])
        /\ CanTransition(trail[nudge.order][nudge.version].to, nudge.to)
    BY <1>2 DEF NudgeStands
  <2>2. [Next]_vars
    BY ReadsStepIsDeskStep
  <2>3. QED
    BY <1>2, <2>1, <2>2, TrailsGrow, OrdersStay DEF NudgeStands
<1>3. CASE NudgeArrives
  <2>1. nudge'.pc \in {"idle", "400", "404", "409"}
    <3>1. CASE Verdict(nudge.order, nudge.to) = "legal"
      BY <1>3, <3>1 DEF NudgeArrives, NoNudge
    <3>2. CASE Verdict(nudge.order, nudge.to) # "legal"
      <4>1. nudge' = [nudge EXCEPT !.pc = Verdict(nudge.order, nudge.to)]
        BY <1>3, <3>2 DEF NudgeArrives
      <4>2. Verdict(nudge.order, nudge.to) \in {"400", "404", "409"}
        BY <3>2 DEF Verdict
      <4>3. QED
        BY <4>1, <4>2
    <3>3. QED
      BY <3>1, <3>2
  <2>2. QED
    BY <2>1
<1>4. CASE NudgeFails
  BY <1>4 DEF NudgeFails, NoNudge
<1>5. QED
  BY <1>1, <1>2, <1>3, <1>4 DEF ReadsNext, rvars, DeskMoves, AskSummary, CountByProvider,
     CountByStatus, AnswerSummary, SummaryFails

\* An order whose listed row is still its last one has the status that was listed, and
\* the nudge is legal; a trail that has grown beyond the row does not shrink.
LEMMA NudgeRefusedStep ==
  ASSUME IndInv, NudgeStands, NudgeRefused, [ReadsNext]_rvars
  PROVE  NudgeRefused'
<1>1. CASE NudgeArrives
  <2>1. /\ nudge.order \in Orders
        /\ nudge.to \in OrderStatus
        /\ status[nudge.order] # None
        /\ nudge.version \in 1 .. Len(trail[nudge.order])
        /\ CanTransition(trail[nudge.order][nudge.version].to, nudge.to)
    BY <1>1 DEF NudgeArrives, NudgeStands
  <2>2. CASE Verdict(nudge.order, nudge.to) = "legal"
    BY <1>1, <2>2 DEF NudgeArrives, NoNudge, NudgeRefused
  <2>3. CASE Verdict(nudge.order, nudge.to) # "legal"
    <3>1. Verdict(nudge.order, nudge.to) = "409" /\ ~CanTransition(status[nudge.order], nudge.to)
      BY <2>1, <2>3 DEF Verdict
    <3>2. nudge' = [nudge EXCEPT !.pc = "409"] /\ UNCHANGED vars
      BY <1>1, <3>1 DEF NudgeArrives
    <3>3. Len(trail[nudge.order]) > nudge.version
      BY <2>1, <3>1, LastRow
    <3>4. QED
      BY <2>1, <3>2, <3>3 DEF NudgeRefused, vars
  <2>4. QED
    BY <2>2, <2>3
<1>2. CASE nudge' = nudge
  <2>1. ASSUME nudge.pc = "409"
        PROVE  Len(trail'[nudge.order]) >= Len(trail[nudge.order])
    <3>1. [Next]_vars
      BY ReadsStepIsDeskStep
    <3>2. nudge.order \in Orders /\ nudge.version \in Nat /\ Len(trail[nudge.order]) > nudge.version
      BY <2>1 DEF NudgeRefused
    <3>3. trail[nudge.order] \in Seq(Entry) /\ trail'[nudge.order] \in Seq(Entry)
      BY <3>1, <3>2, DeskStepKeeps DEF IndInv, TypeOK
    <3>4. Len(trail[nudge.order]) \in 1 .. Len(trail[nudge.order])
      BY <3>2, <3>3
    <3>5. Len(trail[nudge.order]) \in 1 .. Len(trail'[nudge.order])
      BY <3>1, <3>2, <3>4, TrailsGrow
    <3>6. QED
      BY <3>3, <3>5
  <2>2. ASSUME nudge.pc = "409"
        PROVE  Len(trail'[nudge.order]) > nudge.version
    <3>1. /\ nudge.order \in Orders /\ nudge.version \in Nat
          /\ Len(trail[nudge.order]) > nudge.version
      BY <2>2 DEF NudgeRefused
    <3>2. trail[nudge.order] \in Seq(Entry) /\ trail'[nudge.order] \in Seq(Entry)
      BY <3>1, ReadsStepIsDeskStep, DeskStepKeeps DEF IndInv, TypeOK
    <3>3. Len(trail[nudge.order]) \in Nat /\ Len(trail'[nudge.order]) \in Nat
      BY <3>2
    <3>4. QED
      BY <2>1, <2>2, <3>1, <3>3
  <2>3. QED
    BY <1>2, <2>2 DEF NudgeRefused
<1>3. CASE ListAndChoose \/ NudgeFails
  BY <1>3 DEF ListAndChoose, NudgeFails, NoNudge, NudgeRefused
<1>4. QED
  BY <1>1, <1>2, <1>3 DEF ReadsNext, rvars, DeskMoves, AskSummary, CountByProvider,
     CountByStatus, AnswerSummary, SummaryFails

-----------------------------------------------------------------------------
(* The summary.                                                            *)

Providers == {ProviderOf[o] : o \in Orders}

\* Each count that the call has stands, and what there was when it came in.
SummaryStands ==
    summary.pc = "asked" =>
        /\ DOMAIN summary.since = Providers
        /\ \A p \in Providers :
             /\ summary.since[p] \in Nat
             /\ summary.since[p] <= countByProvider[p]
             /\ summary.byProvider # None =>
                  summary.byProvider[p] \in summary.since[p] .. countByProvider[p]

\* So do their sums.
TotalsStand ==
    summary.pc = "asked" =>
        /\ SumFunction(summary.since) \in Nat
        /\ SumFunction(summary.since) <= SumFunction(countByProvider)
        /\ summary.byStatus # None =>
             SumFunction(summary.byStatus) \in SumFunction(summary.since) .. SumFunction(countByProvider)

SummaryInv ==
    /\ SummaryStands
    /\ TotalsStand
    /\ summary.pc # "asked" => summary.byProvider = None /\ summary.byStatus = None

LEMMA StatusesAreFinite == IsFiniteSet(OrderStatus)
<1>1. IsFiniteSet({"RECEIVED", "ACCEPTED"})
  <2>1. IsFiniteSet({"RECEIVED"})
    BY FS_Singleton
  <2>2. QED
    BY <2>1, FS_AddElement
<1>2. IsFiniteSet({"RECEIVED", "ACCEPTED", "IN_PREPARATION"})
  BY <1>1, FS_AddElement
<1>3. IsFiniteSet({"RECEIVED", "ACCEPTED", "IN_PREPARATION", "READY"})
  BY <1>2, FS_AddElement
<1>4. IsFiniteSet({"RECEIVED", "ACCEPTED", "IN_PREPARATION", "READY", "DISPATCHED"})
  BY <1>3, FS_AddElement
<1>5. IsFiniteSet({"RECEIVED", "ACCEPTED", "IN_PREPARATION", "READY", "DISPATCHED", "DELIVERED"})
  BY <1>4, FS_AddElement
<1>6. IsFiniteSet(OrderStatus \ {"REJECTED"})
  BY <1>5, FS_AddElement DEF OrderStatus
<1>7. QED
  BY <1>6, FS_AddElement DEF OrderStatus

\* Each order that was created has one status and one provider, so both counts add up
\* to the number of these orders.
LEMMA CountsAddUp ==
  ASSUME NEW st \in [Orders -> OrderStatus \cup {None}]
  PROVE  /\ SumFunction([s \in OrderStatus |-> Cardinality({o \in Orders : st[o] = s})])
              = Cardinality({o \in Orders : st[o] # None})
         /\ SumFunction([p \in Providers |->
                           Cardinality({o \in Orders : st[o] # None /\ ProviderOf[o] = p})])
              = Cardinality({o \in Orders : st[o] # None})
<1> DEFINE E == {o \in Orders : st[o] # None}
<1>1. IsFiniteSet(E)
  BY DeskOrders, FS_Subset
<1>2. SumFunction([s \in OrderStatus |-> Cardinality({o \in Orders : st[o] = s})]) = Cardinality(E)
  <2> DEFINE class == [o \in E |-> st[o]]
  <2>1. class \in [E -> OrderStatus]
    OBVIOUS
  <2>2. IsFiniteSet(OrderStatus)
    BY StatusesAreFinite
  <2>3. SumFunction([s \in OrderStatus |-> Cardinality({e \in E : class[e] = s})]) = Cardinality(E)
    <3> HIDE DEF E, class
    <3>1. QED
      BY <1>1, <2>1, <2>2, SumOfClasses
  <2>4. ASSUME NEW s \in OrderStatus
        PROVE  {e \in E : class[e] = s} = {o \in Orders : st[o] = s}
    BY DeskNone
  <2>5. [s \in OrderStatus |-> Cardinality({e \in E : class[e] = s})]
          = [s \in OrderStatus |-> Cardinality({o \in Orders : st[o] = s})]
    BY <2>4
  <2>6. QED
    BY <2>3, <2>5
<1>3. SumFunction([p \in Providers |->
                     Cardinality({o \in Orders : st[o] # None /\ ProviderOf[o] = p})]) = Cardinality(E)
  <2> DEFINE class == [o \in E |-> ProviderOf[o]]
  <2>1. class \in [E -> Providers]
    BY DEF Providers
  <2>2. IsFiniteSet(Providers)
    <3> DEFINE f == [o \in Orders |-> ProviderOf[o]]
    <3>1. f \in Surjection(Orders, Providers)
      BY DEF Surjection, Providers
    <3>2. QED
      BY <3>1, DeskOrders, FS_Surjection
  <2>3. SumFunction([p \in Providers |-> Cardinality({e \in E : class[e] = p})]) = Cardinality(E)
    <3> HIDE DEF E, class
    <3>1. QED
      BY <1>1, <2>1, <2>2, SumOfClasses
  <2>4. ASSUME NEW p \in Providers
        PROVE  {e \in E : class[e] = p} = {o \in Orders : st[o] # None /\ ProviderOf[o] = p}
    OBVIOUS
  <2>5. [p \in Providers |-> Cardinality({e \in E : class[e] = p})]
          = [p \in Providers |-> Cardinality({o \in Orders : st[o] # None /\ ProviderOf[o] = p})]
    BY <2>4
  <2>6. QED
    BY <2>3, <2>5
<1>4. QED
  BY <1>2, <1>3

\* So the two sums are one number, which does not shrink.
LEMMA TotalsGrow ==
  ASSUME IndInv, [Next]_vars
  PROVE  /\ SumFunction(countByStatus) = SumFunction(countByProvider)
         /\ SumFunction(countByProvider) \in Nat
         /\ SumFunction(countByProvider') \in Nat
         /\ SumFunction(countByProvider) <= SumFunction(countByProvider')
<1> DEFINE Now  == {o \in Orders : status[o] # None}
           Then == {o \in Orders : status'[o] # None}
<1>1. Now \in SUBSET Then /\ Then \in SUBSET Orders
  BY OrdersStay
<1>2. IsFiniteSet(Then)
  BY <1>1, DeskOrders, FS_Subset
<1>3. IsFiniteSet(Now) /\ Cardinality(Now) <= Cardinality(Then)
  BY <1>1, <1>2, FS_Subset
<1>4. Cardinality(Now) \in Nat /\ Cardinality(Then) \in Nat
  BY <1>2, <1>3, FS_CardinalityType
<1>5. /\ SumFunction(countByStatus) = Cardinality(Now)
      /\ SumFunction(countByProvider) = Cardinality(Now)
  BY CountsAddUp DEF IndInv, TypeOK, countByStatus, countByProvider, Providers
<1>6. SumFunction(countByProvider') = Cardinality(Then)
  BY DeskStepKeeps, CountsAddUp DEF IndInv, TypeOK, countByProvider, Providers
<1>7. QED
  BY <1>3, <1>4, <1>5, <1>6

\* Orders of a provider are created, and never deleted.
LEMMA CountsGrow ==
  ASSUME IndInv, [Next]_vars, NEW p \in Providers
  PROVE  /\ countByProvider[p] \in Nat
         /\ countByProvider'[p] \in Nat
         /\ countByProvider[p] <= countByProvider'[p]
<1> DEFINE Now  == {o \in Orders : status[o] # None /\ ProviderOf[o] = p}
           Then == {o \in Orders : status'[o] # None /\ ProviderOf[o] = p}
<1>1. Now \in SUBSET Then /\ Then \in SUBSET Orders
  BY OrdersStay
<1>2. IsFiniteSet(Then)
  BY <1>1, DeskOrders, FS_Subset
<1>3. IsFiniteSet(Now) /\ Cardinality(Now) <= Cardinality(Then)
  BY <1>1, <1>2, FS_Subset
<1>4. Cardinality(Now) \in Nat /\ Cardinality(Then) \in Nat
  BY <1>2, <1>3, FS_CardinalityType
<1>5. countByProvider[p] = Cardinality(Now) /\ countByProvider'[p] = Cardinality(Then)
  BY DEF countByProvider, Providers
<1>6. QED
  BY <1>3, <1>4, <1>5

LEMMA SummaryStep ==
  ASSUME IndInv, NudgeStands, SummaryInv, [ReadsNext]_rvars
  PROVE  SummaryInv'
<1> DEFINE now  == SumFunction(countByProvider)
           then == SumFunction(countByProvider')
<1>1. \A p \in Providers : /\ countByProvider[p] \in Nat
                           /\ countByProvider'[p] \in Nat
                           /\ countByProvider[p] <= countByProvider'[p]
  BY CountsGrow, ReadsStepIsDeskStep
<1>2. DOMAIN countByProvider = Providers
  BY DEF countByProvider, Providers
<1>3. SumFunction(countByStatus) = now /\ now \in Nat /\ then \in Nat /\ now <= then
  BY TotalsGrow, ReadsStepIsDeskStep
<1>4. CASE AskSummary
  <2>1. countByProvider' = countByProvider
    BY <1>4 DEF AskSummary, vars, countByProvider
  <2>2. summary' = [pc |-> "asked", since |-> countByProvider, byProvider |-> None, byStatus |-> None]
    BY <1>4 DEF AskSummary, NoSummary
  <2>3. SummaryStands'
    BY <1>1, <1>2, <2>1, <2>2 DEF SummaryStands
  <2>4. TotalsStand'
    BY <1>3, <2>1, <2>2 DEF TotalsStand
  <2>5. QED
    BY <2>2, <2>3, <2>4 DEF SummaryInv
<1>5. CASE CountByProvider
  <2>1. countByProvider' = countByProvider
    BY <1>5 DEF CountByProvider, vars, countByProvider
  <2>2. summary.pc = "asked" /\ summary' = [summary EXCEPT !.byProvider = countByProvider]
    BY <1>5 DEF CountByProvider
  <2>3. SummaryStands'
    BY <1>1, <2>1, <2>2 DEF SummaryInv, SummaryStands
  <2>4. TotalsStand'
    BY <2>1, <2>2 DEF SummaryInv, TotalsStand
  <2>5. QED
    BY <2>2, <2>3, <2>4 DEF SummaryInv
<1>6. CASE CountByStatus
  <2>1. countByProvider' = countByProvider
    BY <1>6 DEF CountByStatus, vars, countByProvider
  <2>2. summary.pc = "asked" /\ summary' = [summary EXCEPT !.byStatus = countByStatus]
    BY <1>6 DEF CountByStatus
  <2>3. SummaryStands'
    BY <2>1, <2>2 DEF SummaryInv, SummaryStands
  <2>4. TotalsStand'
    BY <1>3, <2>1, <2>2 DEF SummaryInv, TotalsStand
  <2>5. QED
    BY <2>2, <2>3, <2>4 DEF SummaryInv
<1>7. CASE AnswerSummary \/ SummaryFails
  BY <1>7 DEF AnswerSummary, SummaryFails, NoSummary, SummaryInv, SummaryStands, TotalsStand
<1>8. CASE summary' = summary
  <2>1. SummaryStands'
    BY <1>1, <1>8 DEF SummaryInv, SummaryStands
  <2>2. ASSUME summary.pc = "asked", summary.byStatus # None
        PROVE  SumFunction(summary.byStatus) \in SumFunction(summary.since) .. then
    BY <1>3, <2>2 DEF SummaryInv, TotalsStand
  <2>3. TotalsStand'
    BY <1>3, <1>8, <2>2 DEF SummaryInv, TotalsStand
  <2>4. QED
    BY <1>8, <2>1, <2>3 DEF SummaryInv
<1>9. QED
  BY <1>4, <1>5, <1>6, <1>7, <1>8 DEF ReadsNext, rvars, DeskMoves, ListAndChoose, NudgeArrives,
     NudgeFails

-----------------------------------------------------------------------------
(* The theorems.                                                           *)

ReadsInv == IndInv /\ NudgeInv /\ SummaryInv

\* The desk's invariant holds together with those of the reads.
THEOREM ReadsInvariance == ReadsSpec => []ReadsInv
<1>1. ReadsInit => ReadsInv
  <2>1. Init => IndInv
    BY DeskNone DEF Init, IndInv, TypeOK, TrailEndsAtStatus, EntriesAreLegal, FeedIsCommitted,
       Grounded, AnnouncedExist, NoPatch, Patch
  <2>2. nudge = NoNudge => NudgeInv
    BY DEF NoNudge, NudgeInv, NudgeStands, NudgeRefused
  <2>3. summary = NoSummary => SummaryInv
    BY DEF NoSummary, SummaryInv, SummaryStands, TotalsStand
  <2>4. QED
    BY <2>1, <2>2, <2>3 DEF ReadsInit, ReadsInv
<1>2. ReadsInv /\ [ReadsNext]_rvars => ReadsInv'
  BY ReadsStepIsDeskStep, DeskStepKeeps, NudgeStandsStep, NudgeRefusedStep, SummaryStep
     DEF ReadsInv, NudgeInv
<1>3. QED
  BY <1>1, <1>2, PTL DEF ReadsSpec

\* What is proved of the desk holds beside summaries and a simulator, whose calls
\* are PATCH calls like any other (metricsSummary, nudgeRandomOrder).
THEOREM ReadsIsDesk == ReadsSpec => Spec
<1>1. ReadsInit => Init
  BY DEF ReadsInit
<1>2. ReadsInv /\ [ReadsNext]_rvars => [Next]_vars
  BY ReadsStepIsDeskStep DEF ReadsInv, NudgeInv
<1>3. QED
  BY <1>1, <1>2, ReadsInvariance, PTL DEF ReadsSpec, Spec

\* The simulator's PATCH is refused only if the order was moved after it was listed
\* (nudgeRandomOrder, 63-86; OrderStateMachine.assertTransition).
THEOREM OnlyTheRaceRefuses == ReadsSpec => []NudgeRefusedOnlyIfOvertaken
<1>1. ReadsInv => NudgeRefusedOnlyIfOvertaken
  BY DEF ReadsInv, NudgeInv, NudgeRefused, NudgeRefusedOnlyIfOvertaken
<1>2. QED
  BY <1>1, ReadsInvariance, PTL

\* The orders by provider and by status that a summary reports are of the time between
\* its call and its answer, and no order is in either count twice or left out of it
\* (metricsSummary, 39-42).
THEOREM CountsAreRecent == ReadsSpec => []SummaryIsRecent
<1>1. ReadsInv => ProvidersAreRecent
  BY DEF ReadsInv, SummaryInv, SummaryStands, ProvidersAreRecent
<1>2. ReadsInv => StatusesAreRecent
  BY DEF ReadsInv, SummaryInv, TotalsStand, StatusesAreRecent
<1>3. ReadsInv => SummaryIsRecent
  BY <1>1, <1>2 DEF SummaryIsRecent
<1>4. QED
  BY <1>3, ReadsInvariance, PTL
=============================================================================

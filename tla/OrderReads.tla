----------------------------- MODULE OrderReads -----------------------------
(***************************************************************************)
(* Reads of the orders API whose answers are used when they may be old,    *)
(* beside the operators of OrderDesk:                                      *)
(*                                                                         *)
(*   GET /metrics/summary   two counts, two statements, no transaction     *)
(*   nudgeRandomOrder       the simulator lists the orders and asks for a  *)
(*                          move of one of them, as it was listed          *)
(***************************************************************************)
EXTENDS OrderDesk, Functions

CONSTANT Simulator   \* the operator whose PATCH calls are the simulator's

ASSUME SimulatorCalls == Simulator \in Operators

VARIABLES
    summary,   \* a call of metricsSummary: what it has counted so far
    nudge      \* the simulator's move

rvars == <<vars, summary, nudge>>

\* `since' is history: what there was by provider when the call came in.
NoSummary == [pc |-> "idle", since |-> None, byProvider |-> None, byStatus |-> None]
NoNudge   == [pc |-> "idle", order |-> None, to |-> None, version |-> 0]

ReadsInit == Init /\ summary = NoSummary /\ nudge = NoNudge

-----------------------------------------------------------------------------
(* OrdersService.metricsSummary.                                           *)

AskSummary ==
    /\ summary = NoSummary
    /\ summary' = [NoSummary EXCEPT !.pc = "asked", !.since = countByProvider]
    /\ UNCHANGED <<vars, nudge>>

\* The statements of Promise.all run on two connections, in either order.
CountByProvider ==
    /\ summary.pc = "asked"
    /\ summary.byProvider = None
    /\ summary' = [summary EXCEPT !.byProvider = countByProvider]
    /\ UNCHANGED <<vars, nudge>>

\* Mutant of CountByStatus: the order's trail is counted, not its row.
CountByStatus_Trail ==
    /\ summary.pc = "asked"
    /\ summary.byStatus = None
    /\ summary' = [summary EXCEPT !.byStatus =
                     [s \in OrderStatus |->
                        Cardinality({o \in Orders : \E i \in DOMAIN trail[o] : trail[o][i].to = s})]]
    /\ UNCHANGED <<vars, nudge>>

CountByStatus ==
    /\ summary.pc = "asked"
    /\ summary.byStatus = None
    /\ summary' = [summary EXCEPT !.byStatus = countByStatus]
    /\ UNCHANGED <<vars, nudge>>

AnswerSummary ==
    /\ summary.pc = "asked"
    /\ None \notin {summary.byProvider, summary.byStatus}
    /\ summary' = NoSummary
    /\ UNCHANGED <<vars, nudge>>

\* One of the statements rejects: a 500.
SummaryFails ==
    /\ summary.pc = "asked"
    /\ summary' = NoSummary
    /\ UNCHANGED <<vars, nudge>>

-----------------------------------------------------------------------------
(* The simulator's nudgeRandomOrder.                                       *)

\* The first or the last of nextStatuses: everything but RECEIVED's second,
\* REJECTED; undefined of an empty array.
Nudges(from) ==
    IF ORDER_TRANSITIONS[from] = {} THEN {None} ELSE ORDER_TRANSITIONS[from] \ {"REJECTED"}

\* Mutant of movable: the filter is dropped.
movable_All == {o \in Orders : status[o] # None}

\* The listed orders that have somewhere to go.
movable == {o \in Orders : status[o] # None /\ ORDER_TRANSITIONS[status[o]] # {}}

\* GET /orders, and the choice of an order and of its next status.
ListAndChoose ==
    /\ nudge.pc # "chosen"
    /\ patch[Simulator] = NoPatch
    /\ \E o \in movable : \E to \in Nudges(status[o]) :
         nudge' = [pc |-> "chosen", order |-> o, to |-> to, version |-> Len(trail[o])]
    /\ UNCHANGED <<vars, summary>>

\* What the controller, the service and the state machine say to a PATCH.
Verdict(o, to) ==
    IF to \notin OrderStatus THEN "400"
    ELSE IF status[o] = None THEN "404"
    ELSE IF ~CanTransition(status[o], to) THEN "409" ELSE "legal"

\* The PATCH arrives, and goes on as a call of OrderDesk or is refused.
NudgeArrives ==
    LET verdict == Verdict(nudge.order, nudge.to) IN
    /\ nudge.pc = "chosen"
    /\ IF verdict = "legal"
         THEN Decide(Simulator, nudge.order, nudge.to) /\ nudge' = NoNudge
         ELSE nudge' = [nudge EXCEPT !.pc = verdict] /\ UNCHANGED vars
    /\ UNCHANGED summary

\* fetch rejects: caught in main, which goes on with its next webhook.
NudgeFails ==
    /\ nudge.pc = "chosen"
    /\ nudge' = NoNudge
    /\ UNCHANGED <<vars, summary>>

-----------------------------------------------------------------------------
\* The desk, where the simulator asks for nothing but its nudges.
DeskMoves ==
    /\ \/ \E o \in Orders : Create(o) \/ Announce(o) \/ AnnounceFails(o)
       \/ \E p \in Operators :
            \/ p # Simulator /\ \E o \in Orders, to \in OrderStatus : Decide(p, o, to)
            \/ Apply(p) \/ Publish(p) \/ PatchFails(p)
    /\ UNCHANGED <<summary, nudge>>

ReadsNext ==
    \/ DeskMoves
    \/ AskSummary \/ CountByProvider \/ CountByStatus \/ AnswerSummary \/ SummaryFails
    \/ ListAndChoose \/ NudgeArrives \/ NudgeFails

ReadsSpec == ReadsInit /\ [][ReadsNext]_rvars

-----------------------------------------------------------------------------
\* The orders of a provider that were there at the call are counted, and each that is
\* counted is there by now.
ProvidersAreRecent ==
    summary.byProvider # None =>
        \A p \in DOMAIN summary.since :
            summary.byProvider[p] \in summary.since[p] .. countByProvider[p]

\* So is the sum of the counts by status: an order that changes its status is counted
\* once.
StatusesAreRecent ==
    summary.byStatus # None =>
        SumFunction(summary.byStatus) \in SumFunction(summary.since) .. SumFunction(countByProvider)

\* A summary is of the time between its call and its answer, though its two counts
\* are of two moments: each order that was there at the call is in both, and each
\* order in either is there by now.  So the counts may differ, but by no more than
\* the orders that were created meanwhile, and no order that changes its status is
\* counted twice or not at all (metricsSummary, 39-42).
SummaryIsRecent == ProvidersAreRecent /\ StatusesAreRecent

\* The simulator is refused only when somebody has moved the order since it listed
\* it: a 409 is the race of two writers, and there is no other way to one, nor to a
\* 400 or a 404 (nudgeRandomOrder, 63-86).
NudgeRefusedOnlyIfOvertaken ==
    /\ nudge.pc \notin {"400", "404"}
    /\ nudge.pc = "409" => Len(trail[nudge.order]) > nudge.version
=============================================================================

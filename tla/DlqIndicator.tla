---------------------------- MODULE DlqIndicator ----------------------------
(***************************************************************************)
(* The letter count of the dashboard's header (DlqIndicator.vue): it asks  *)
(* GET /dlq when it is mounted and every ten seconds, whether or not an    *)
(* earlier answer has come, and keeps the last count when a call fails.    *)
(***************************************************************************)
EXTENDS IngestPipeline, FiniteSets

VARIABLES
    answers,     \* the counts that calls of refresh, however many, have been answered
    dlqCount     \* state.dlqCount of the store

ivars == <<vars, answers, dlqCount>>

\* DlqService.list: the letters, none of which ever leaves the waiting state.
count == Cardinality(dlq)

\* The store's initial count is shown until the first answer comes.
IndicatorInit == Init /\ answers = {} /\ dlqCount = 0

\* The interval fires, and the API answers what there is at that moment.
fetchDlqCount ==
    /\ answers' = answers \cup {count}
    /\ UNCHANGED <<vars, dlqCount>>

\* A call with answer n ends; it may have been the last one with that answer.
Ends(n) == n \in answers /\ answers' \in {answers, answers \ {n}}

\* Mutant of refresh: an empty queue is taken for no answer, `if (count)'.
refresh_Truthy(n) ==
    /\ Ends(n)
    /\ dlqCount' = IF n = 0 THEN dlqCount ELSE n
    /\ UNCHANGED vars

\* The answer arrives, maybe after that of a later call: setDlqCount.
refresh(n) ==
    /\ Ends(n)
    /\ dlqCount' = n
    /\ UNCHANGED vars

\* The answer is lost, and the catch keeps the last known count.
refreshFails(n) ==
    /\ Ends(n)
    /\ UNCHANGED <<vars, dlqCount>>

Counts == 0 .. Cardinality(JobIds)

IndicatorNext ==
    \/ Next /\ UNCHANGED <<answers, dlqCount>>
    \/ fetchDlqCount
    \/ \E n \in Counts : refresh(n) \/ refreshFails(n)

(***************************************************************************)
(* Fairness.  The interval goes on firing, and every call ends.  Of calls  *)
(* that are made for ever some get their answer (strong fairness): with an *)
(* API that never answers, nothing could be said of the count.             *)
(***************************************************************************)
IndicatorSpec ==
    /\ IndicatorInit /\ [][IndicatorNext]_ivars
    /\ Fairness
    /\ WF_ivars(fetchDlqCount)
    /\ \A n \in Counts : SF_ivars(refresh(n) /\ n \notin answers')

-----------------------------------------------------------------------------
\* Once the letters stay as they are, the indicator ends on their number: neither calls
\* that fail nor answers that overtake one another keep it on an old number, and
\* it goes back to green when the last letter was requeued (refresh, 10-21).
CountSettles == <>[][UNCHANGED dlq]_dlq => <>[](dlqCount = count)
=============================================================================

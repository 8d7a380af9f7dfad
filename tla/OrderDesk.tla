----------------------------- MODULE OrderDesk ------------------------------
(***************************************************************************)
(* Operators move orders through their lifecycle: PATCH                    *)
(* /orders/:id/transition of the API, which is OrdersService.transition.   *)
(*                                                                         *)
(* A call reads the order, decides on the status it read, writes the new   *)
(* status and an audit entry in one transaction, and then publishes the    *)
(* new row.  The write is `update where id': it does not look at the       *)
(* status again, so what other calls do between the read and the write is  *)
(* the heart of the matter.                                                *)
(*                                                                         *)
(* The other publisher is the worker, which announces an order after the   *)
(* transaction that created it (order.created).  A published row carries   *)
(* its version, the number of rows of the order's trail when it was        *)
(* written: it stands for the updatedAt column, which goes over the wire.  *)
(***************************************************************************)
EXTENDS OrderLifecycle, Integers, Sequences, FiniteSets

CONSTANTS
    Orders,
    ProviderOf,  \* order -> the provider it came from
    Operators,   \* each has at most one PATCH call under way
    None,
    MaxMoves     \* bound: transitions written per order

ASSUME DeskOrders == IsFiniteSet(Orders)
ASSUME DeskNone   == None \notin OrderStatus \cup Orders
ASSUME DeskBound  == MaxMoves \in Nat

VARIABLES
    status,      \* order -> its status column, None before it is created
    trail,       \* order -> its OrderEvent rows, oldest first
    patch,       \* operator -> where its PATCH call is
    unannounced, \* orders whose worker has committed and not yet published
    feed         \* order.created and order.updated messages, as published

vars == <<status, trail, patch, unannounced, feed>>

Entry   == [from : OrderStatus \cup {None}, to : OrderStatus]
Message == [order : Orders, status : OrderStatus, version : Nat]
Patch   == [pc : {"idle", "apply", "publish"}, order : Orders \cup {None},
            seen : OrderStatus \cup {None}, to : OrderStatus \cup {None}, version : Nat]

NoPatch == [pc |-> "idle", order |-> None, seen |-> None, to |-> None, version |-> 0]

Init ==
    /\ status = [o \in Orders |-> None]
    /\ trail = [o \in Orders |-> <<>>]
    /\ patch = [p \in Operators |-> NoPatch]
    /\ unannounced = {}
    /\ feed = <<>>

\* groupBy status and by provider, one statement each.
countByStatus == [s \in OrderStatus |-> Cardinality({o \in Orders : status[o] = s})]
countByProvider ==
    [p \in {ProviderOf[o] : o \in Orders} |->
       Cardinality({o \in Orders : status[o] # None /\ ProviderOf[o] = p})]

\* Mutant of Create: a status outside the lifecycle.
Create_Pending(o) ==
    /\ status[o] = None
    /\ status' = [status EXCEPT ![o] = "PENDING"]
    /\ trail' = [trail EXCEPT ![o] = <<[from |-> None, to |-> "RECEIVED"]>>]
    /\ unannounced' = unannounced \cup {o}
    /\ UNCHANGED <<patch, feed>>

\* The worker's transaction creates the order and its first audit entry.
Create(o) ==
    /\ status[o] = None
    /\ status' = [status EXCEPT ![o] = "RECEIVED"]
    /\ trail' = [trail EXCEPT ![o] = <<[from |-> None, to |-> "RECEIVED"]>>]
    /\ unannounced' = unannounced \cup {o}
    /\ UNCHANGED <<patch, feed>>

\* Then it publishes order.created, with the row that its transaction returned.
Announce(o) ==
    /\ o \in unannounced
    /\ feed' = Append(feed, [order |-> o, status |-> "RECEIVED", version |-> 1])
    /\ unannounced' = unannounced \ {o}
    /\ UNCHANGED <<status, trail, patch>>

\* The publish rejects or the worker dies: no retry announces the order.
AnnounceFails(o) ==
    /\ o \in unannounced
    /\ unannounced' = unannounced \ {o}
    /\ UNCHANGED <<status, trail, patch, feed>>

\* Mutants of Decide: assertTransition is not called; the row is published before
\* it is written.
Decide_Unchecked(p, o, to) ==
    /\ patch[p] = NoPatch
    /\ status[o] # None
    /\ patch' = [patch EXCEPT ![p] =
                   [pc |-> "apply", order |-> o, seen |-> status[o], to |-> to,
                    version |-> 0]]
    /\ UNCHANGED <<status, trail, unannounced, feed>>
Decide_PublishFirst(p, o, to) ==
    /\ patch[p] = NoPatch
    /\ status[o] # None
    /\ CanTransition(status[o], to)
    /\ patch' = [patch EXCEPT ![p] =
                   [pc |-> "publish", order |-> o, seen |-> status[o], to |-> to,
                    version |-> 0]]
    /\ UNCHANGED <<status, trail, unannounced, feed>>

\* findById and assertTransition: on to the write if the table allows the move
\* from the status read.  404 and 409 change nothing.
Decide(p, o, to) ==
    /\ patch[p] = NoPatch
    /\ status[o] # None
    /\ CanTransition(status[o], to)
    /\ patch' = [patch EXCEPT ![p] =
                   [pc |-> "apply", order |-> o, seen |-> status[o], to |-> to,
                    version |-> 0]]
    /\ UNCHANGED <<status, trail, unannounced, feed>>

\* A call that has written its row and holds it.
Written(p) ==
    LET c == patch[p] IN
    [pc |-> "publish", order |-> c.order, seen |-> c.seen, to |-> c.to,
     version |-> Len(trail[c.order]) + 1]

\* Mutant of Apply: two statements without a transaction, the second fails.
Apply_NoTransaction(p) ==
    LET o == patch[p].order IN
    /\ patch[p].pc = "apply"
    /\ Len(trail[o]) <= MaxMoves
    /\ status' = [status EXCEPT ![o] = patch[p].to]
    /\ patch' = [patch EXCEPT ![p] = NoPatch]
    /\ UNCHANGED <<trail, unannounced, feed>>

\* applyTransition: status and audit entry in one transaction.  Its answer may be
\* lost, and then nothing is published.
Apply(p) ==
    LET o == patch[p].order IN
    /\ patch[p].pc = "apply"
    /\ Len(trail[o]) <= MaxMoves
    /\ status' = [status EXCEPT ![o] = patch[p].to]
    /\ trail' = [trail EXCEPT ![o] = Append(@, [from |-> patch[p].seen, to |-> patch[p].to])]
    /\ \E next \in {NoPatch, Written(p)} :
         patch' = [patch EXCEPT ![p] = next]
    /\ UNCHANGED <<unannounced, feed>>

\* events.publish(order.updated) with the row as the transaction returned it.
Publish(p) ==
    /\ patch[p].pc = "publish"
    /\ feed' = Append(feed, [order |-> patch[p].order, status |-> patch[p].to,
                             version |-> patch[p].version])
    /\ patch' = [patch EXCEPT ![p] = NoPatch]
    /\ UNCHANGED <<status, trail, unannounced>>

\* The write or the publish rejects, or the API process dies: a 500 or no answer.
PatchFails(p) ==
    /\ patch[p] # NoPatch
    /\ patch' = [patch EXCEPT ![p] = NoPatch]
    /\ UNCHANGED <<status, trail, unannounced, feed>>

Next ==
    \/ \E o \in Orders : Create(o) \/ Announce(o) \/ AnnounceFails(o)
    \/ \E p \in Operators :
         \/ \E o \in Orders, to \in OrderStatus : Decide(p, o, to)
         \/ Apply(p) \/ Publish(p) \/ PatchFails(p)

Spec == Init /\ [][Next]_vars

-----------------------------------------------------------------------------
\* Columns, audit rows, calls and messages have their types.
TypeOK ==
    /\ status \in [Orders -> OrderStatus \cup {None}]
    /\ trail \in [Orders -> Seq(Entry)]
    /\ patch \in [Operators -> Patch]
    /\ unannounced \subseteq Orders
    /\ feed \in Seq(Message)

\* The audit trail ends at the order's status, and starts at its creation: no
\* interleaving of calls separates the two tables (applyTransition, 30-35).
TrailEndsAtStatus ==
    \A o \in Orders :
        IF status[o] = None
          THEN trail[o] = <<>>
          ELSE /\ Len(trail[o]) > 0
               /\ trail[o][1] = [from |-> None, to |-> "RECEIVED"]
               /\ trail[o][Len(trail[o])].to = status[o]

\* Every later audit entry is a move of the table, and from a status that the
\* order had at some time before it, even if not the one just before: what a
\* stale read can do to the trail has this limit (transition, 22-30).
EntriesAreLegal ==
    \A o \in Orders : \A i \in 2 .. Len(trail[o]) :
        /\ trail[o][i].from \in OrderStatus
        /\ CanTransition(trail[o][i].from, trail[o][i].to)
        /\ \E j \in 1 .. i - 1 : trail[o][j].to = trail[o][i].from

\* A message carries a row as some transaction committed it: "the dashboard never
\* sees uncommitted state" (ADR 0003), whichever calls fail or overlap.
FeedIsCommitted ==
    \A n \in 1 .. Len(feed) :
        LET m == feed[n] IN
        m.version \in 1 .. Len(trail[m.order]) /\ trail[m.order][m.version].to = m.status

\* Every change of an order's status is a move of the table: "the API enforces
\* it" (README, 89).  True of one operator at a time; refuted with two.
StatusFollowsTable ==
    [][\A o \in Orders :
         status[o] \notin {None, status'[o]} => CanTransition(status[o], status'[o])]_vars

\* The audit trail of an order is a path: each entry starts where the entry
\* before it ended.  Also true of one operator at a time only.
TrailIsPath ==
    \A o \in Orders : \A i \in 2 .. Len(trail[o]) : trail[o][i].from = trail[o][i - 1].to
=============================================================================

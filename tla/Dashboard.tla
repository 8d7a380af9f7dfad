----------------------------- MODULE Dashboard ------------------------------
(***************************************************************************)
(* The live board: what OrderDesk publishes goes through the gateway to    *)
(* the dashboards, which also fetch all orders once, when their page is    *)
(* opened, and whose buttons are the source of the desk's PATCH calls.     *)
(*                                                                         *)
(* Three things run without waiting for each other: the fetch (App.vue),   *)
(* the socket (useRealtimeOrders), and the writers of the desk.  The store *)
(* keeps the row that came last and compares it with nothing.              *)
(***************************************************************************)
EXTENDS OrderDesk

CONSTANTS
    Dashboards,
    MaxOpens,    \* bound: times a page is opened or reloaded
    MaxLosses    \* bound: disconnects, and messages that the gateway misses

ASSUME BoardBounds == MaxOpens \in Nat /\ MaxLosses \in Nat

VARIABLES
    relayed,     \* messages of the feed that the gateway is done with
    socket,      \* dashboard -> connected to the gateway
    inbox,       \* dashboard -> events emitted to it that it has not handled
    fetch,       \* dashboard -> where its GET /orders is
    snapshot,    \* dashboard -> the rows that the API read for it
    shown,       \* dashboard -> state.orders of its store
    clicked,     \* operator -> the PATCH request on its way from a click to the API
    gaps,        \* history: what the dashboard missed since the API read its rows
    opens, losses

page  == <<relayed, socket, inbox, fetch, snapshot, shown, opens, losses>>
board == <<page, clicked>>
bvars == <<vars, board, gaps>>

FetchPoints == {"closed", "asked", "answered", "done", "failed"}
Causes      == {"publish", "gateway", "socket", "order", "snapshot"}
Row         == [status : OrderStatus \cup {None}, version : Nat]
Move        == [order : Orders, to : OrderStatus]
Empty       == [o \in Orders |-> [status |-> None, version |-> 0]]

\* findMany, one statement: every row as it is now.
Rows == [o \in Orders |-> [status |-> status[o], version |-> Len(trail[o])]]

RowOf(m) == [status |-> m.status, version |-> m.version]

\* The buttons of an order's card.
Offered(d, o) == IF shown[d][o].status = None THEN {} ELSE ORDER_TRANSITIONS[shown[d][o].status]

\* Dashboards ds have missed something, for the reason why.
Missed(ds, why) == gaps' = [d \in Dashboards |-> gaps[d] \cup (IF d \in ds THEN {why} ELSE {})]

BoardInit ==
    /\ Init
    /\ relayed = 0
    /\ socket = [d \in Dashboards |-> FALSE]
    /\ inbox = [d \in Dashboards |-> <<>>]
    /\ fetch = [d \in Dashboards |-> "closed"]
    /\ snapshot = [d \in Dashboards |-> Empty]
    /\ shown = [d \in Dashboards |-> Empty]
    /\ clicked = [p \in Operators |-> None]
    /\ gaps = [d \in Dashboards |-> {}]
    /\ opens = 0
    /\ losses = 0

-----------------------------------------------------------------------------
(* The desk.                                                               *)

\* What the worker and the API do; a message may get lost before it is published.
DeskStep ==
    /\ UNCHANGED board
    /\ \/ /\ \/ \E o \in Orders : Create(o) \/ Announce(o)
             \/ \E p \in Operators :
                  \/ Publish(p)
                  \/ Apply(p) /\ patch'[p] # NoPatch
                  \/ PatchFails(p) /\ patch[p].pc = "apply"
          /\ UNCHANGED gaps
       \/ /\ \/ \E o \in Orders : AnnounceFails(o)
             \/ \E p \in Operators :
                  \/ Apply(p) /\ patch'[p] = NoPatch
                  \/ PatchFails(p) /\ patch[p].pc = "publish"
          /\ Missed(Dashboards, "publish")

\* Mutant of Click: the card is moved before the server has answered.
Click_Optimistic(d, p, o, to) ==
    /\ to \in Offered(d, o)
    /\ patch[p] = NoPatch
    /\ clicked[p] = None
    /\ clicked' = [clicked EXCEPT ![p] = [order |-> o, to |-> to]]
    /\ shown' = [shown EXCEPT ![d] = [@ EXCEPT ![o] = [status |-> to, version |-> @.version + 1]]]
    /\ UNCHANGED <<vars, relayed, socket, inbox, fetch, snapshot, opens, losses, gaps>>

\* A button of a card is clicked: a request is on its way, and the store is not touched.
Click(d, p, o, to) ==
    /\ to \in Offered(d, o)
    /\ patch[p] = NoPatch
    /\ clicked[p] = None
    /\ clicked' = [clicked EXCEPT ![p] = [order |-> o, to |-> to]]
    /\ UNCHANGED <<vars, page, gaps>>

\* The API reads the order, which may have moved since, and finds the move legal.
Arrive(p) ==
    /\ clicked[p] # None
    /\ Decide(p, clicked[p].order, clicked[p].to)
    /\ clicked' = [clicked EXCEPT ![p] = None]
    /\ UNCHANGED <<page, gaps>>

\* It is a 409, or the request is lost: nothing changes anywhere.
ClickFails(p) ==
    /\ clicked[p] # None
    /\ clicked' = [clicked EXCEPT ![p] = None]
    /\ UNCHANGED <<vars, page, gaps>>

-----------------------------------------------------------------------------
(* The gateway.                                                            *)

\* server.emit to every socket that is connected, and to no other.
Relay ==
    /\ relayed < Len(feed)
    /\ relayed' = relayed + 1
    /\ inbox' = [d \in Dashboards |-> IF socket[d] THEN Append(inbox[d], feed[relayed + 1])
                                                   ELSE inbox[d]]
    /\ Missed({d \in Dashboards : ~socket[d]}, "socket")
    /\ UNCHANGED <<vars, socket, fetch, snapshot, shown, clicked, opens, losses>>

\* The API process is down, or its Redis connection: pub/sub does not keep messages.
RelayMisses ==
    /\ relayed < Len(feed)
    /\ losses < MaxLosses
    /\ relayed' = relayed + 1
    /\ losses' = losses + 1
    /\ Missed(Dashboards, "gateway")
    /\ UNCHANGED <<vars, socket, inbox, fetch, snapshot, shown, clicked, opens>>

-----------------------------------------------------------------------------
(* The page.                                                               *)

\* The page is opened, or reloaded: an empty store, io(), and load().
OpenPage(d) ==
    /\ opens < MaxOpens
    /\ opens' = opens + 1
    /\ socket' = [socket EXCEPT ![d] = FALSE]
    /\ inbox' = [inbox EXCEPT ![d] = <<>>]
    /\ fetch' = [fetch EXCEPT ![d] = "asked"]
    /\ shown' = [shown EXCEPT ![d] = Empty]
    /\ UNCHANGED <<vars, relayed, snapshot, gaps, clicked, losses>>

\* The socket connects for the first time, or again: nothing is loaded here.
Connect(d) ==
    /\ fetch[d] # "closed"
    /\ ~socket[d]
    /\ socket' = [socket EXCEPT ![d] = TRUE]
    /\ UNCHANGED <<vars, relayed, inbox, fetch, snapshot, shown, gaps, clicked, opens, losses>>

Disconnect(d) ==
    /\ socket[d]
    /\ losses < MaxLosses
    /\ losses' = losses + 1
    /\ socket' = [socket EXCEPT ![d] = FALSE]
    /\ inbox' = [inbox EXCEPT ![d] = <<>>]
    /\ Missed(IF inbox[d] = <<>> THEN {} ELSE {d}, "socket")
    /\ UNCHANGED <<vars, relayed, fetch, snapshot, shown, clicked, opens>>

\* The API reads all orders.  What was missed before is in them.
Answer(d) ==
    /\ fetch[d] = "asked"
    /\ fetch' = [fetch EXCEPT ![d] = "answered"]
    /\ snapshot' = [snapshot EXCEPT ![d] = Rows]
    /\ gaps' = [gaps EXCEPT ![d] = {}]
    /\ UNCHANGED <<vars, relayed, socket, inbox, shown, clicked, opens, losses>>

\* Mutant of FetchFails: the body of the error answer goes into the store.
FetchFails_Stored(d) ==
    /\ fetch[d] \in {"asked", "answered"}
    /\ fetch' = [fetch EXCEPT ![d] = "failed"]
    /\ shown' = [shown EXCEPT ![d] = None]
    /\ UNCHANGED <<vars, relayed, socket, inbox, snapshot, gaps, clicked, opens, losses>>

\* The request fails; load() rejects and nobody tries again.
FetchFails(d) ==
    /\ fetch[d] \in {"asked", "answered"}
    /\ fetch' = [fetch EXCEPT ![d] = "failed"]
    /\ UNCHANGED <<vars, relayed, socket, inbox, snapshot, shown, gaps, clicked, opens, losses>>

\* setOrders replaces whatever events have put into the store by now.
Load(d) ==
    /\ fetch[d] = "answered"
    /\ fetch' = [fetch EXCEPT ![d] = "done"]
    /\ shown' = [shown EXCEPT ![d] = snapshot[d]]
    /\ Missed(IF \E o \in Orders : snapshot[d][o].version < shown[d][o].version
                THEN {d} ELSE {}, "snapshot")
    /\ UNCHANGED <<vars, relayed, socket, inbox, snapshot, clicked, opens, losses>>

\* Mutant of Receive: only order.updated has a handler.
Receive_UpdatedOnly(d) ==
    /\ inbox[d] # <<>>
    /\ LET m == Head(inbox[d]) IN
       /\ shown' = IF m.version = 1 THEN shown
                   ELSE [shown EXCEPT ![d] = [@ EXCEPT ![m.order] = RowOf(m)]]
       /\ Missed(IF m.version < shown[d][m.order].version THEN {d} ELSE {}, "order")
    /\ inbox' = [inbox EXCEPT ![d] = Tail(@)]
    /\ UNCHANGED <<vars, relayed, socket, fetch, snapshot, clicked, opens, losses>>

\* applyOrderEvent, for order.created and order.updated: the row replaces the one
\* that is there, which may be newer.
Receive(d) ==
    /\ inbox[d] # <<>>
    /\ LET m == Head(inbox[d]) IN
       /\ shown' = [shown EXCEPT ![d] = [@ EXCEPT ![m.order] = RowOf(m)]]
       /\ Missed(IF m.version < shown[d][m.order].version THEN {d} ELSE {}, "order")
    /\ inbox' = [inbox EXCEPT ![d] = Tail(@)]
    /\ UNCHANGED <<vars, relayed, socket, fetch, snapshot, clicked, opens, losses>>

-----------------------------------------------------------------------------
(* What the page makes of the store.                                       *)

\* The getters: all orders that the store has, and those with a status.
all(d) == {o \in Orders : shown[d][o].status # None}
byStatus(d, s) == {o \in all(d) : shown[d][o].status = s}
countsByProvider(d) ==
    [p \in {ProviderOf[o] : o \in Orders} |-> Cardinality({o \in all(d) : ProviderOf[o] = p})]

\* The board: six columns with their cards, and a line that counts the rest.
COLUMNS == {"RECEIVED", "ACCEPTED", "IN_PREPARATION", "READY", "DISPATCHED", "DELIVERED"}
Cards(d) == UNION {byStatus(d, s) : s \in COLUMNS}

\* Mutant of closedCount: only the cancelled ones.
closedCount_Cancelled(d) == Cardinality(byStatus(d, "CANCELLED"))

closedCount(d) == Cardinality(byStatus(d, "CANCELLED")) + Cardinality(byStatus(d, "REJECTED"))

\* The bar above it.
total(d) == Cardinality(all(d))

-----------------------------------------------------------------------------
BoardNext ==
    \/ DeskStep
    \/ \E d \in Dashboards, p \in Operators, o \in Orders, to \in OrderStatus : Click(d, p, o, to)
    \/ \E p \in Operators : Arrive(p) \/ ClickFails(p)
    \/ Relay \/ RelayMisses
    \/ \E d \in Dashboards :
         \/ OpenPage(d) \/ Connect(d) \/ Disconnect(d)
         \/ Answer(d) \/ FetchFails(d) \/ Load(d) \/ Receive(d)

BoardSpec == BoardInit /\ [][BoardNext]_bvars

-----------------------------------------------------------------------------
\* Every variable of the board has its type: the store maps orders to rows.
BoardTypeOK ==
    /\ relayed \in 0 .. Len(feed)
    /\ socket \in [Dashboards -> BOOLEAN]
    /\ inbox \in [Dashboards -> Seq(Message)]
    /\ fetch \in [Dashboards -> FetchPoints]
    /\ snapshot \in [Dashboards -> [Orders -> Row]]
    /\ shown \in [Dashboards -> [Orders -> Row]]
    /\ clicked \in [Operators -> Move \cup {None}]
    /\ gaps \in [Dashboards -> SUBSET Causes]
    /\ opens \in Nat
    /\ losses \in Nat

\* A row that the database had: none yet, or one that a transaction wrote.
WasCommitted(o, r) ==
    \/ r = [status |-> None, version |-> 0]
    \/ r.version \in 1 .. Len(trail[o]) /\ trail[o][r.version].to = r.status

\* "The dashboard never sees uncommitted state" (ADR 0003), end to end: what a
\* board shows, or is about to show, is a row that some transaction committed,
\* however fetch, socket and writers overlap and whatever gets lost.
BoardShowsCommitted ==
    \A d \in Dashboards :
        /\ \A o \in Orders : WasCommitted(o, shown[d][o]) /\ WasCommitted(o, snapshot[d][o])
        /\ \A n \in 1 .. Len(inbox[d]) :
             LET m == inbox[d][n] IN m.version > 0 /\ WasCommitted(m.order, RowOf(m))

\* Nothing is under way that could still change what dashboard d shows.
Quiet(d) ==
    /\ \A p \in Operators : patch[p].pc # "publish"
    /\ unannounced = {}
    /\ relayed = Len(feed)
    /\ inbox[d] = <<>>

\* A board that has loaded and missed nothing since the API read its rows shows
\* the database once things are quiet.  There is no way to a stale board but the
\* five: a publish that failed, a message that the gateway or a disconnected page
\* missed, one that came after a newer one, a snapshot that came after an event.
OnlyGapsMislead ==
    \A d \in Dashboards :
        Quiet(d) /\ fetch[d] = "done" /\ gaps[d] = {} => shown[d] = Rows

\* No order that the store has is hidden without being counted, and once things are
\* quiet on a board without gaps every number on the page is the database's: the
\* cards of a column, the hidden orders, the orders of a provider.
NoOrderIsHidden ==
    \A d \in Dashboards :
        /\ total(d) = Cardinality(Cards(d)) + closedCount(d)
        /\ Quiet(d) /\ fetch[d] = "done" /\ gaps[d] = {} =>
             /\ \A s \in COLUMNS : Cardinality(byStatus(d, s)) = countByStatus[s]
             /\ closedCount(d) = countByStatus["CANCELLED"] + countByStatus["REJECTED"]
             /\ countsByProvider(d) = countByProvider

\* "it is impossible to render an action the server would reject" (OrderCard.vue,
\* 21-22), of a quiet board to which every message was published and delivered.
ButtonsAreAccepted ==
    \A d \in Dashboards, o \in Orders :
        Quiet(d) /\ fetch[d] = "done" /\ gaps[d] \cap {"publish", "gateway", "socket"} = {}
          => \A to \in Offered(d, o) : CanTransition(status[o], to)
=============================================================================

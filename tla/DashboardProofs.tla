-------------------------- MODULE DashboardProofs ---------------------------
(***************************************************************************)
(* Proofs about Dashboard, for any orders, operators and dashboards: the   *)
(* board is an order desk, it shows committed rows only, and it is right   *)
(* when things are quiet unless one of the five things has happened.       *)
(*                                                                         *)
(* The inductive invariant says where the newest row of an order is, as    *)
(* long as a dashboard has missed nothing: on the board, in the snapshot   *)
(* that is about to be loaded, in its inbox, in the part of the feed that  *)
(* the gateway has still to relay, or with whoever is about to publish it. *)
(***************************************************************************)
EXTENDS Dashboard, OrderDeskProofs, FiniteSetTheorems

\* Message m carries the newest row of order o.
Newest(m, o) == m.order = o /\ m.version = Len(trail[o])

\* It will, after the step.
NewestThen(m, o) == m.order = o /\ m.version = Len(trail'[o])

\* The newest row of order o is shown by dashboard d, or on its way to it.
OnItsWay(d, o) ==
    \/ shown[d][o].version = Len(trail[o])
    \/ fetch[d] = "answered" /\ snapshot[d][o].version = Len(trail[o])
    \/ \E n \in 1 .. Len(inbox[d]) : Newest(inbox[d][n], o)
    \/ \E n \in relayed + 1 .. Len(feed) : Newest(feed[n], o)
    \/ o \in unannounced /\ Len(trail[o]) = 1
    \/ \E p \in Operators : patch[p].pc = "publish" /\ Newest(patch[p], o)

NothingLost ==
    \A d \in Dashboards, o \in Orders :
        gaps[d] = {} /\ fetch[d] \in {"answered", "done"} => OnItsWay(d, o)

BoardInv ==
    /\ BoardTypeOK
    /\ BoardShowsCommitted
    /\ NothingLost

-----------------------------------------------------------------------------
(* The board is a desk.                                                    *)

\* A request that is on its way is for an order, and to a status of the lifecycle.
ClicksTyped == clicked \in [Operators -> Move \cup {None}]

\* A step keeps that.
LEMMA ClicksStep ==
  ASSUME ClicksTyped, [BoardNext]_bvars
  PROVE  ClicksTyped'
<1>1. ASSUME NEW d \in Dashboards, NEW p \in Operators, NEW o \in Orders,
             NEW to \in OrderStatus, Click(d, p, o, to)
      PROVE  ClicksTyped'
  BY <1>1 DEF Click, ClicksTyped, Move
<1>2. ASSUME NEW p \in Operators, Arrive(p) \/ ClickFails(p)
      PROVE  ClicksTyped'
  BY <1>2 DEF Arrive, ClickFails, ClicksTyped
<1>3. CASE UNCHANGED clicked
  BY <1>3 DEF ClicksTyped
<1>4. QED
  BY <1>1, <1>2, <1>3 DEF BoardNext, bvars, board, DeskStep, Relay, RelayMisses, OpenPage,
     Connect, Disconnect, Answer, FetchFails, Load, Receive

\* A step of the board is a step of the desk, or leaves it alone.
LEMMA BoardStepIsDeskStep ==
  ASSUME ClicksTyped, [BoardNext]_bvars
  PROVE  [Next]_vars
<1>1. DeskStep => Next
  BY DEF DeskStep, Next
<1>2. ASSUME NEW p \in Operators, Arrive(p)
      PROVE  Next
  <2>1. clicked[p].order \in Orders /\ clicked[p].to \in OrderStatus
    BY <1>2 DEF Arrive, ClicksTyped, Move
  <2>2. QED
    BY <1>2, <2>1 DEF Arrive, Next
<1>3. ASSUME NEW d \in Dashboards,
             \/ OpenPage(d) \/ Connect(d) \/ Disconnect(d)
             \/ Answer(d) \/ FetchFails(d) \/ Load(d) \/ Receive(d)
             \/ \E p \in Operators, o \in Orders, to \in OrderStatus : Click(d, p, o, to)
      PROVE  UNCHANGED vars
  BY <1>3 DEF OpenPage, Connect, Disconnect, Answer, FetchFails, Load, Receive, Click
<1>4. Relay \/ RelayMisses \/ (\E p \in Operators : ClickFails(p)) => UNCHANGED vars
  BY DEF Relay, RelayMisses, ClickFails
<1>5. QED
  BY <1>1, <1>2, <1>3, <1>4 DEF BoardNext, bvars

\* What is proved of the desk holds of the board: the requests of clicks are its PATCH
\* calls, and the dashboards, the gateway and their losses do not touch the database.
THEOREM BoardIsDesk == BoardSpec => Spec
<1>1. BoardInit => Init /\ ClicksTyped
  BY DEF BoardInit, ClicksTyped
<1>2. ClicksTyped /\ [BoardNext]_bvars => ClicksTyped' /\ [Next]_vars
  BY ClicksStep, BoardStepIsDeskStep
<1>3. QED
  BY <1>1, <1>2, PTL DEF BoardSpec, Spec

-----------------------------------------------------------------------------
(* Types.                                                                  *)

LEMMA MessagesKept ==
  ASSUME IndInv, [Next]_vars
  PROVE  /\ Len(feed) \in Nat
         /\ Len(feed') \in Nat
         /\ Len(feed) <= Len(feed')
         /\ \A n \in 1 .. Len(feed) : feed'[n] = feed[n]
<1>1. feed \in Seq(Message)
  BY DEF IndInv, TypeOK
<1>2. CASE UNCHANGED feed
  BY <1>1, <1>2
<1>3. ASSUME NEW m \in Message, feed' = Append(feed, m)
      PROVE  /\ Len(feed') = Len(feed) + 1
             /\ \A n \in 1 .. Len(feed) : feed'[n] = feed[n]
  BY <1>1, <1>3
<1>4. ASSUME NEW o \in Orders, Announce(o)
      PROVE  \E m \in Message : feed' = Append(feed, m)
  BY <1>4 DEF Announce, Message, OrderStatus
<1>5. ASSUME NEW p \in Operators, Publish(p)
      PROVE  \E m \in Message : feed' = Append(feed, m)
  <2>1. /\ patch[p].order \in Orders
        /\ patch[p].to \in OrderStatus
        /\ patch[p].version \in Nat
    BY <1>5, TableType DEF Publish, IndInv, TypeOK, Patch, Grounded
  <2>2. QED
    BY <1>5, <2>1 DEF Publish, Message
<1>6. Len(feed) \in Nat
  BY <1>1
<1>7. CASE \E m \in Message : feed' = Append(feed, m)
  BY <1>3, <1>6, <1>7
<1>8. QED
  BY <1>2, <1>4, <1>5, <1>6, <1>7
  DEF Next, vars, Create, AnnounceFails, Decide, Apply, PatchFails

LEMMA BoardTypeStep ==
  ASSUME IndInv, BoardTypeOK, [BoardNext]_bvars
  PROVE  BoardTypeOK'
<1>1. Len(feed) \in Nat /\ Len(feed') \in Nat /\ Len(feed) <= Len(feed')
  BY BoardStepIsDeskStep, MessagesKept DEF BoardTypeOK, ClicksTyped
<1>2. CASE UNCHANGED board /\ (UNCHANGED gaps \/ Missed(Dashboards, "publish"))
  BY <1>1, <1>2 DEF BoardTypeOK, board, page, Missed, Causes
<1>3. CASE Relay
  <2>1. feed[relayed + 1] \in Message
    BY <1>3 DEF Relay, IndInv, TypeOK, BoardTypeOK
  <2>2. inbox' \in [Dashboards -> Seq(Message)]
    BY <1>3, <2>1 DEF Relay, BoardTypeOK
  <2>3. gaps' \in [Dashboards -> SUBSET Causes]
    BY <1>3 DEF Relay, Missed, BoardTypeOK, Causes
  <2>4. relayed' \in 0 .. Len(feed')
    BY <1>1, <1>3 DEF Relay, vars, BoardTypeOK
  <2>5. QED
    BY <1>3, <2>2, <2>3, <2>4 DEF Relay, BoardTypeOK
<1>4. CASE RelayMisses
  BY <1>1, <1>4 DEF RelayMisses, BoardTypeOK, Missed, Causes, vars
<1>5. ASSUME NEW d \in Dashboards, OpenPage(d)
      PROVE  BoardTypeOK'
  BY <1>5 DEF OpenPage, BoardTypeOK, FetchPoints, Empty, Row, vars
<1>6. ASSUME NEW d \in Dashboards, Connect(d)
      PROVE  BoardTypeOK'
  BY <1>6 DEF Connect, BoardTypeOK, vars
<1>7. ASSUME NEW d \in Dashboards, Disconnect(d)
      PROVE  BoardTypeOK'
  BY <1>7 DEF Disconnect, BoardTypeOK, Missed, Causes, vars
<1>8. ASSUME NEW d \in Dashboards, Answer(d)
      PROVE  BoardTypeOK'
  <2>1. Rows \in [Orders -> Row]
    BY DEF Rows, Row, IndInv, TypeOK
  <2>2. QED
    BY <1>8, <2>1 DEF Answer, BoardTypeOK, FetchPoints, vars
<1>9. ASSUME NEW d \in Dashboards, FetchFails(d)
      PROVE  BoardTypeOK'
  BY <1>9 DEF FetchFails, BoardTypeOK, FetchPoints, vars
<1>10. ASSUME NEW d \in Dashboards, Load(d)
       PROVE  BoardTypeOK'
  BY <1>10 DEF Load, BoardTypeOK, FetchPoints, Missed, Causes, vars
<1>11. ASSUME NEW d \in Dashboards, Receive(d)
       PROVE  BoardTypeOK'
  <2> DEFINE m == Head(inbox[d])
  <2>1. m \in Message /\ Tail(inbox[d]) \in Seq(Message)
    BY <1>11 DEF Receive, BoardTypeOK
  <2>2. m.order \in Orders /\ RowOf(m) \in Row
    BY <2>1 DEF Message, RowOf, Row
  <2>3. shown' \in [Dashboards -> [Orders -> Row]]
    BY <1>11, <2>2 DEF Receive, BoardTypeOK
  <2>4. inbox' \in [Dashboards -> Seq(Message)]
    BY <1>11, <2>1 DEF Receive, BoardTypeOK
  <2>5. gaps' \in [Dashboards -> SUBSET Causes]
    BY <1>11 DEF Receive, Missed, BoardTypeOK, Causes
  <2>6. QED
    BY <1>11, <2>3, <2>4, <2>5 DEF Receive, BoardTypeOK, vars
<1>12. ASSUME \/ \E p \in Operators : Arrive(p) \/ ClickFails(p)
              \/ \E d \in Dashboards, p \in Operators, o \in Orders, to \in OrderStatus :
                   Click(d, p, o, to)
       PROVE  BoardTypeOK'
  <2>1. ClicksTyped'
    BY ClicksStep DEF BoardTypeOK, ClicksTyped
  <2>2. UNCHANGED <<page, gaps>>
    BY <1>12 DEF Arrive, ClickFails, Click
  <2>3. QED
    BY <1>1, <2>1, <2>2 DEF BoardTypeOK, ClicksTyped, page
<1>13. QED
  BY <1>12, <1>2, <1>3, <1>4, <1>5, <1>6, <1>7, <1>8, <1>9, <1>10, <1>11
  DEF BoardNext, DeskStep, bvars, board, page

-----------------------------------------------------------------------------
(* Committed rows only.                                                    *)

\* Row r was committed for order o, said of the next state.
StillCommitted(o, r) ==
    \/ r = [status |-> None, version |-> 0]
    \/ r.version \in 1 .. Len(trail'[o]) /\ trail'[o][r.version].to = r.status

LEMMA CommittedStays ==
  ASSUME IndInv, [Next]_vars, NEW o \in Orders, NEW r, WasCommitted(o, r)
  PROVE  StillCommitted(o, r)
<1>1. CASE r = [status |-> None, version |-> 0]
  BY <1>1 DEF StillCommitted
<1>2. CASE r.version \in 1 .. Len(trail[o]) /\ trail[o][r.version].to = r.status
  BY <1>2, TrailsGrow DEF StillCommitted
<1>3. QED
  BY <1>1, <1>2 DEF WasCommitted

\* What an inbox may hold, now and in the next state.
GoodMail(box)  == \A n \in 1 .. Len(box) :
                     box[n].version > 0 /\ WasCommitted(box[n].order, RowOf(box[n]))
StillGood(box) == \A n \in 1 .. Len(box) :
                     box[n].version > 0 /\ StillCommitted(box[n].order, RowOf(box[n]))

LEMMA MailStays ==
  ASSUME IndInv, [Next]_vars, NEW box \in Seq(Message), GoodMail(box)
  PROVE  StillGood(box)
<1> SUFFICES ASSUME NEW n \in 1 .. Len(box)
             PROVE  box[n].version > 0 /\ StillCommitted(box[n].order, RowOf(box[n]))
  BY DEF StillGood
<1>1. box[n] \in Message
  OBVIOUS
<1>2. box[n].order \in Orders
  BY <1>1 DEF Message
<1>3. QED
  BY <1>2, CommittedStays DEF GoodMail

\* The rows that a dashboard shows, has in its snapshot and in its inbox, after a
\* step that leaves each of them alone or takes it from a place that has such rows.
LEMMA CommittedStep ==
  ASSUME IndInv, IndInv', BoardTypeOK, BoardShowsCommitted, [BoardNext]_bvars
  PROVE  BoardShowsCommitted'
<1> SUFFICES ASSUME NEW d \in Dashboards
             PROVE  /\ \A o \in Orders : StillCommitted(o, shown'[d][o])
                    /\ \A o \in Orders : StillCommitted(o, snapshot'[d][o])
                    /\ StillGood(inbox'[d])
  BY DEF BoardShowsCommitted, WasCommitted, StillCommitted, StillGood
<1>1. [Next]_vars
  BY BoardStepIsDeskStep DEF BoardTypeOK, ClicksTyped
<1>2. \A o \in Orders : StillCommitted(o, shown[d][o]) /\ StillCommitted(o, snapshot[d][o])
  BY <1>1, CommittedStays DEF BoardShowsCommitted
<1>3. inbox[d] \in Seq(Message) /\ GoodMail(inbox[d]) /\ StillGood(inbox[d])
  <2>1. inbox[d] \in Seq(Message) /\ GoodMail(inbox[d])
    BY DEF BoardTypeOK, BoardShowsCommitted, GoodMail
  <2>2. QED
    BY <1>1, <2>1, MailStays
<1>4. /\ \A o \in Orders : StillCommitted(o, Empty[o])
      /\ StillGood(<<>>)
  BY DEF Empty, StillCommitted, StillGood
<1>5. shown'[d] \in {shown[d], Empty, snapshot[d]} \/ \E x \in Dashboards : Receive(x)
  <2>1. CASE UNCHANGED shown
    BY <2>1
  <2>2. ASSUME NEW x \in Dashboards, OpenPage(x) \/ Load(x)
        PROVE  shown'[d] \in {shown[d], Empty, snapshot[d]}
    BY <2>2 DEF OpenPage, Load, BoardTypeOK
  <2>3. QED
    BY <2>1, <2>2 DEF BoardNext, DeskStep, Click, Arrive, ClickFails, page, Relay,
       RelayMisses, Connect, Disconnect, Answer, FetchFails, bvars, board, page
<1>6. \A o \in Orders : StillCommitted(o, shown'[d][o])
  <2>1. ASSUME NEW x \in Dashboards, Receive(x), NEW o \in Orders
        PROVE  StillCommitted(o, shown'[d][o])
    <3> DEFINE m == Head(inbox[d])
    <3>1. CASE x = d /\ o = m.order
      <4>1. m = inbox[d][1] /\ 1 \in 1 .. Len(inbox[d])
        BY <1>3, <2>1, <3>1 DEF Receive
      <4>2. StillCommitted(m.order, RowOf(m))
        BY <1>3, <4>1 DEF StillGood
      <4>3. shown'[d][o] = RowOf(m)
        BY <2>1, <3>1 DEF Receive, BoardTypeOK
      <4>4. QED
        BY <3>1, <4>2, <4>3
    <3>2. CASE ~(x = d /\ o = m.order)
      <4>1. shown'[d][o] = shown[d][o]
        BY <2>1, <3>2 DEF Receive, BoardTypeOK
      <4>2. QED
        BY <1>2, <4>1
    <3>3. QED
      BY <3>1, <3>2
  <2>2. QED
    BY <1>2, <1>4, <1>5, <2>1
<1>7. \A o \in Orders : StillCommitted(o, snapshot'[d][o])
  <2>1. ASSUME NEW x \in Dashboards, Answer(x), NEW o \in Orders
        PROVE  StillCommitted(o, snapshot'[d][o])
    <3>1. trail'[o] = trail[o] /\ status'[o] = status[o]
      BY <2>1 DEF Answer, vars
    <3>2. \/ snapshot'[d][o] = [status |-> status[o], version |-> Len(trail[o])]
          \/ snapshot'[d][o] = snapshot[d][o]
      BY <2>1 DEF Answer, Rows, BoardTypeOK
    <3>3. \/ status[o] = None /\ Len(trail[o]) = 0
          \/ Len(trail[o]) \in 1 .. Len(trail[o]) /\ trail[o][Len(trail[o])].to = status[o]
      BY DEF IndInv, TrailEndsAtStatus, TypeOK
    <3>4. QED
      BY <1>2, <3>1, <3>2, <3>3 DEF StillCommitted
  <2>2. CASE UNCHANGED snapshot
    BY <1>2, <2>2
  <2>3. QED
    BY <2>1, <2>2 DEF BoardNext, DeskStep, Click, Arrive, ClickFails, page, Relay,
       RelayMisses, OpenPage, Connect, Disconnect, FetchFails, Load, Receive, bvars, board,
       page
<1>8. StillGood(inbox'[d])
  <2>1. CASE Relay
    <3> DEFINE m == feed[relayed + 1]
    <3>1. relayed + 1 \in 1 .. Len(feed) /\ m \in Message
      BY <2>1 DEF Relay, IndInv, TypeOK, BoardTypeOK
    <3>2. m.version > 0 /\ WasCommitted(m.order, RowOf(m))
      BY <3>1 DEF IndInv, FeedIsCommitted, WasCommitted, RowOf, Message
    <3>3. StillCommitted(m.order, RowOf(m))
      BY <1>1, <3>1, <3>2, CommittedStays DEF Message
    <3>4. inbox'[d] = inbox[d] \/ inbox'[d] = Append(inbox[d], m)
      BY <2>1 DEF Relay
    <3> HIDE DEF m
    <3>5. ASSUME NEW n \in 1 .. Len(Append(inbox[d], m))
          PROVE  \/ Append(inbox[d], m)[n] = m
                 \/ n \in 1 .. Len(inbox[d]) /\ Append(inbox[d], m)[n] = inbox[d][n]
      BY <1>3, <3>1
    <3>6. QED
      BY <1>3, <3>2, <3>3, <3>4, <3>5 DEF StillGood
  <2>2. ASSUME NEW x \in Dashboards, Receive(x)
        PROVE  StillGood(inbox'[d])
    <3>1. \/ inbox'[d] = inbox[d]
          \/ inbox[d] # <<>> /\ inbox'[d] = Tail(inbox[d])
      BY <2>2 DEF Receive, BoardTypeOK
    <3>2. ASSUME inbox[d] # <<>>, NEW n \in 1 .. Len(Tail(inbox[d]))
          PROVE  n + 1 \in 1 .. Len(inbox[d]) /\ Tail(inbox[d])[n] = inbox[d][n + 1]
      BY <1>3, <3>2
    <3>3. QED
      BY <1>3, <3>1, <3>2 DEF StillGood
  <2>3. ASSUME NEW x \in Dashboards, OpenPage(x) \/ Disconnect(x)
        PROVE  StillGood(inbox'[d])
    <3>1. inbox'[d] \in {inbox[d], <<>>}
      BY <2>3 DEF OpenPage, Disconnect, BoardTypeOK
    <3>2. QED
      BY <1>3, <1>4, <3>1
  <2>4. CASE UNCHANGED inbox
    BY <1>3, <2>4
  <2>5. QED
    BY <2>1, <2>2, <2>3, <2>4 DEF BoardNext, DeskStep, Click, Arrive, ClickFails, page,
       RelayMisses, Connect, Answer, FetchFails, Load, bvars, board, page
<1>9. QED
  BY <1>6, <1>7, <1>8

-----------------------------------------------------------------------------
(* Nothing is lost without a gap.                                          *)

\* No version is beyond the trail.
LEMMA VersionBound ==
  ASSUME IndInv, BoardTypeOK, BoardShowsCommitted, NEW d \in Dashboards, NEW o \in Orders
  PROVE  /\ Len(trail[o]) \in Nat
         /\ shown[d][o].version \in 0 .. Len(trail[o])
         /\ snapshot[d][o].version \in 0 .. Len(trail[o])
         /\ \A n \in 1 .. Len(inbox[d]) :
              inbox[d][n].order = o => inbox[d][n].version \in 1 .. Len(trail[o])
<1>1. Len(trail[o]) \in Nat
  BY DEF IndInv, TypeOK
<1>2. WasCommitted(o, shown[d][o]) /\ WasCommitted(o, snapshot[d][o])
  BY DEF BoardShowsCommitted
<1>3. ASSUME NEW n \in 1 .. Len(inbox[d]), inbox[d][n].order = o
      PROVE  inbox[d][n].version \in 1 .. Len(trail[o])
  <2>1. inbox[d][n].version > 0 /\ WasCommitted(o, RowOf(inbox[d][n]))
    BY <1>3 DEF BoardShowsCommitted
  <2>2. RowOf(inbox[d][n]).version = inbox[d][n].version
    BY DEF RowOf
  <2>3. QED
    BY <2>1, <2>2 DEF WasCommitted
<1>4. QED
  BY <1>1, <1>2, <1>3 DEF WasCommitted

\* A desk step that costs no dashboard a message hands the newest row on.
LEMMA DeskHandsOn ==
  ASSUME IndInv, IndInv', BoardTypeOK, DeskStep, NEW d \in Dashboards, NEW o \in Orders,
         gaps'[d] = {}, OnItsWay(d, o)
  PROVE  OnItsWay(d, o)'
<1>1. UNCHANGED board
  BY DEF DeskStep
<1>2. ~Missed(Dashboards, "publish")
  BY DEF Missed, BoardTypeOK
<1>3. /\ Len(feed) \in Nat /\ Len(feed') \in Nat /\ Len(feed) <= Len(feed')
      /\ \A n \in 1 .. Len(feed) : feed'[n] = feed[n]
  <2>1. [Next]_vars
    BY DEF DeskStep, Next
  <2>2. QED
    BY <2>1, MessagesKept
<1>4. ASSUME NEW m, m.order = o, m.version = Len(trail[o]), UNCHANGED trail,
             feed' = Append(feed, m)
      PROVE  OnItsWay(d, o)'
  <2>1. feed \in Seq(Message) /\ relayed \in 0 .. Len(feed)
    BY DEF IndInv, TypeOK, BoardTypeOK
  <2>2. Len(feed') = Len(feed) + 1 /\ feed'[Len(feed) + 1] = m
    BY <1>4, <2>1
  <2>3. Len(feed) + 1 \in relayed' + 1 .. Len(feed')
    BY <1>1, <2>1, <2>2 DEF board, page
  <2>4. NewestThen(feed'[Len(feed) + 1], o)
    BY <1>4, <2>2 DEF NewestThen
  <2>5. QED
    BY <2>3, <2>4 DEF OnItsWay, Newest, NewestThen
<1>5. ASSUME trail'[o] = trail[o],
             o \in unannounced /\ Len(trail[o]) = 1 => o \in unannounced',
             \A p \in Operators : patch[p].pc = "publish" /\ Newest(patch[p], o)
                                    => patch'[p] = patch[p]
      PROVE  OnItsWay(d, o)'
  <2>1. ASSUME NEW n \in relayed + 1 .. Len(feed), Newest(feed[n], o)
        PROVE  n \in relayed' + 1 .. Len(feed') /\ NewestThen(feed'[n], o)
    <3>1. n \in 1 .. Len(feed) /\ n \in relayed' + 1 .. Len(feed')
      BY <1>1, <1>3 DEF BoardTypeOK, board, page
    <3>2. QED
      BY <1>3, <1>5, <2>1, <3>1 DEF Newest, NewestThen
  <2>2. QED
    BY <1>1, <1>5, <2>1 DEF OnItsWay, Newest, NewestThen, board, page
<1>6. ASSUME NEW x \in Orders, Create(x)
      PROVE  OnItsWay(d, o)'
  <2>1. CASE x = o
    BY <1>6, <2>1 DEF Create, OnItsWay, IndInv, TypeOK
  <2>2. CASE x # o
    BY <1>5, <1>6, <2>2 DEF Create, IndInv, TypeOK
  <2>3. QED
    BY <2>1, <2>2
<1>7. ASSUME NEW x \in Orders, Announce(x)
      PROVE  OnItsWay(d, o)'
  <2>1. CASE x = o /\ Len(trail[o]) = 1
    BY <1>4, <1>7, <2>1 DEF Announce
  <2>2. CASE ~(x = o /\ Len(trail[o]) = 1)
    BY <1>5, <1>7, <2>2 DEF Announce
  <2>3. QED
    BY <2>1, <2>2
<1>8. ASSUME NEW p \in Operators, Publish(p)
      PROVE  OnItsWay(d, o)'
  <2>1. CASE Newest(patch[p], o)
    BY <1>4, <1>8, <2>1 DEF Publish, Newest
  <2>2. CASE ~Newest(patch[p], o)
    BY <1>5, <1>8, <2>2 DEF Publish, IndInv, TypeOK
  <2>3. QED
    BY <2>1, <2>2
<1>9. ASSUME NEW p \in Operators, Apply(p), patch'[p] # NoPatch
      PROVE  OnItsWay(d, o)'
  <2>1. patch' = [patch EXCEPT ![p] = Written(p)] /\ patch'[p] = Written(p)
    BY <1>9 DEF Apply, IndInv, TypeOK
  <2>2. CASE o = patch[p].order
    <3>1. Len(trail'[o]) = Len(trail[o]) + 1
      BY <1>9, <2>2, ApplyEffect
    <3>2. patch'[p].pc = "publish" /\ NewestThen(patch'[p], o)
      BY <2>1, <2>2, <3>1 DEF Written, NewestThen
    <3>3. QED
      BY <3>2 DEF OnItsWay, Newest, NewestThen
  <2>3. CASE o # patch[p].order
    <3>1. trail'[o] = trail[o]
      BY <1>9, <2>3, ApplyFrame
    <3>2. QED
      BY <1>5, <1>9, <2>1, <3>1 DEF Apply, IndInv, TypeOK
  <2>4. QED
    BY <2>2, <2>3
<1>10. ASSUME NEW p \in Operators, PatchFails(p), patch[p].pc = "apply"
       PROVE  OnItsWay(d, o)'
  BY <1>5, <1>10 DEF PatchFails, IndInv, TypeOK
<1>11. QED
  BY <1>2, <1>6, <1>7, <1>8, <1>9, <1>10 DEF DeskStep

\* So does a click, whose request at most starts a call.
LEMMA ClickHandsOn ==
  ASSUME IndInv, NEW p \in Operators,
         \/ Arrive(p) \/ ClickFails(p)
         \/ \E x \in Dashboards, y \in Orders, to \in OrderStatus : Click(x, p, y, to),
         NEW d \in Dashboards, NEW o \in Orders, OnItsWay(d, o)
  PROVE  OnItsWay(d, o)'
<1>1. \A q \in Operators : patch[q].pc = "publish" => patch'[q] = patch[q]
  BY DEF Click, Arrive, ClickFails, vars, Decide, NoPatch, IndInv, TypeOK
<1>2. UNCHANGED <<page, status, trail, unannounced, feed>>
  BY DEF Click, Arrive, ClickFails, vars, Decide
<1>3. QED
  BY <1>1, <1>2 DEF OnItsWay, Newest, page

\* The steps of the gateway and of the dashboards themselves.
LEMMA BoardHandsOn ==
  ASSUME IndInv, BoardTypeOK, BoardShowsCommitted, UNCHANGED vars,
         NEW d \in Dashboards, NEW o \in Orders,
         OnItsWay(d, o), gaps'[d] = {},
         fetch'[d] \in {"answered", "done"},
         \/ Relay \/ RelayMisses
         \/ \E x \in Dashboards : \/ OpenPage(x) \/ Connect(x) \/ Disconnect(x)
                                  \/ FetchFails(x) \/ Load(x) \/ Receive(x)
  PROVE  OnItsWay(d, o)'
<1> USE DEF vars
<1>1. /\ Len(trail[o]) \in Nat
      /\ shown[d][o].version \in 0 .. Len(trail[o])
      /\ snapshot[d][o].version \in 0 .. Len(trail[o])
      /\ \A n \in 1 .. Len(inbox[d]) :
           inbox[d][n].order = o => inbox[d][n].version \in 1 .. Len(trail[o])
  BY VersionBound
<1>2. inbox[d] \in Seq(Message) /\ feed \in Seq(Message) /\ relayed \in 0 .. Len(feed)
  BY DEF BoardTypeOK, IndInv, TypeOK
<1>3. CASE Relay
  <2>1. socket[d]
    BY <1>3 DEF Relay, Missed
  <2>2. inbox'[d] = Append(inbox[d], feed[relayed + 1]) /\ relayed' = relayed + 1
    BY <1>3, <2>1 DEF Relay
  <2>3. relayed + 1 \in 1 .. Len(feed) /\ feed[relayed + 1] \in Message
    BY <1>2, <1>3 DEF Relay
  <2> DEFINE m == feed[relayed + 1]
  <2>4. /\ Len(inbox'[d]) = Len(inbox[d]) + 1
        /\ inbox'[d][Len(inbox[d]) + 1] = m
        /\ \A n \in 1 .. Len(inbox[d]) : inbox'[d][n] = inbox[d][n]
    BY <1>2, <2>2, <2>3
  <2>5. UNCHANGED <<vars, fetch, snapshot, shown>>
    BY <1>3 DEF Relay
  <2>6. CASE Newest(m, o)
    <3>1. Len(inbox[d]) + 1 \in 1 .. Len(inbox'[d])
      BY <1>2, <2>4
    <3>2. QED
      BY <2>4, <2>5, <2>6, <3>1 DEF OnItsWay, Newest
  <2>7. CASE ~Newest(m, o)
    <3>1. ASSUME NEW n \in relayed + 1 .. Len(feed), Newest(feed[n], o)
          PROVE  n \in relayed' + 1 .. Len(feed)
      <4>1. n # relayed + 1
        BY <2>7, <3>1
      <4>2. QED
        BY <1>2, <2>2, <4>1
    <3>2. \A n \in 1 .. Len(inbox[d]) : n \in 1 .. Len(inbox'[d])
      BY <1>2, <2>4
    <3>3. QED
      BY <2>4, <2>5, <3>1, <3>2 DEF OnItsWay, Newest
  <2>8. QED
    BY <2>6, <2>7
<1>4. CASE RelayMisses
  BY <1>4 DEF RelayMisses, Missed
<1>5. ASSUME NEW x \in Dashboards, OpenPage(x)
      PROVE  OnItsWay(d, o)'
  <2>1. x # d
    BY <1>5 DEF OpenPage, BoardTypeOK
  <2>2. QED
    BY <1>5, <2>1 DEF OpenPage, OnItsWay, Newest, BoardTypeOK
<1>6. ASSUME NEW x \in Dashboards, Connect(x)
      PROVE  OnItsWay(d, o)'
  BY <1>6 DEF Connect, OnItsWay, Newest
<1>7. ASSUME NEW x \in Dashboards, Disconnect(x)
      PROVE  OnItsWay(d, o)'
  <2>1. x = d => inbox[d] = <<>>
    BY <1>7 DEF Disconnect, Missed
  <2>2. UNCHANGED <<relayed, fetch, snapshot, shown>> /\ inbox'[d] = inbox[d]
    BY <1>7, <2>1 DEF Disconnect, BoardTypeOK
  <2>3. QED
    BY <2>2 DEF OnItsWay, Newest
<1>8. ASSUME NEW x \in Dashboards, FetchFails(x)
      PROVE  OnItsWay(d, o)'
  <2>1. x # d
    BY <1>8 DEF FetchFails, BoardTypeOK
  <2>2. QED
    BY <1>8, <2>1 DEF FetchFails, OnItsWay, Newest, BoardTypeOK
<1>9. ASSUME NEW x \in Dashboards, Load(x)
      PROVE  OnItsWay(d, o)'
  <2>1. UNCHANGED <<relayed, inbox, snapshot>>
    BY <1>9 DEF Load
  <2>2. CASE x = d
    <3>1. shown'[d] = snapshot[d]
      BY <1>9, <2>2 DEF Load, BoardTypeOK
    <3>2. ~(snapshot[d][o].version < shown[d][o].version)
      BY <1>9, <2>2 DEF Load, Missed
    <3>3. shown[d][o].version = Len(trail[o]) => snapshot[d][o].version = Len(trail[o])
      BY <1>1, <3>2
    <3>4. QED
      BY <2>1, <3>1, <3>3 DEF OnItsWay, Newest
  <2>3. CASE x # d
    <3>1. shown'[d] = shown[d] /\ fetch'[d] = fetch[d]
      BY <1>9, <2>3 DEF Load, BoardTypeOK
    <3>2. QED
      BY <2>1, <3>1 DEF OnItsWay, Newest
  <2>4. QED
    BY <2>2, <2>3
<1>10. ASSUME NEW x \in Dashboards, Receive(x)
       PROVE  OnItsWay(d, o)'
  <2>1. UNCHANGED <<relayed, fetch, snapshot>>
    BY <1>10 DEF Receive
  <2>2. CASE x = d
    <3> DEFINE m == Head(inbox[d])
    <3>1. /\ m = inbox[d][1] /\ 1 \in 1 .. Len(inbox[d])
          /\ inbox'[d] = Tail(inbox[d])
      BY <1>2, <1>10, <2>2 DEF Receive, BoardTypeOK
    <3>2. ~(m.version < shown[d][m.order].version)
      BY <1>10, <2>2 DEF Receive, Missed
    <3>3. shown'[d][o].version = IF m.order = o THEN m.version ELSE shown[d][o].version
      BY <1>10, <2>2 DEF Receive, RowOf, BoardTypeOK
    <3>4. shown[d][o].version = Len(trail[o]) => shown'[d][o].version = Len(trail[o])
      <4>1. m.order = o => m.version \in 1 .. Len(trail[o])
        BY <1>1, <3>1
      <4>2. QED
        BY <1>1, <3>2, <3>3, <4>1
    <3>5. ASSUME NEW n \in 1 .. Len(inbox[d]), Newest(inbox[d][n], o)
          PROVE  \/ shown'[d][o].version = Len(trail[o])
                 \/ \E i \in 1 .. Len(inbox'[d]) : Newest(inbox'[d][i], o)
      <4>1. CASE n = 1
        BY <3>1, <3>3, <3>5, <4>1 DEF Newest
      <4>2. CASE n # 1
        <5>1. n - 1 \in 1 .. Len(inbox'[d]) /\ inbox'[d][n - 1] = inbox[d][n]
          BY <1>2, <3>1, <4>2
        <5>2. QED
          BY <3>5, <5>1
      <4>3. QED
        BY <4>1, <4>2
    <3>6. QED
      BY <2>1, <3>4, <3>5 DEF OnItsWay, Newest
  <2>3. CASE x # d
    <3>1. shown'[d] = shown[d] /\ inbox'[d] = inbox[d]
      BY <1>10, <2>3 DEF Receive, BoardTypeOK
    <3>2. QED
      BY <2>1, <3>1 DEF OnItsWay, Newest
  <2>4. QED
    BY <2>2, <2>3
<1>11. QED
  BY <1>3, <1>4, <1>5, <1>6, <1>7, <1>8, <1>9, <1>10

\* A dashboard without gaps had none before, unless the API has just read its rows.
LEMMA GapsGrow ==
  ASSUME BoardTypeOK, [BoardNext]_bvars, NEW d \in Dashboards, ~Answer(d),
         gaps'[d] = {}, fetch'[d] \in {"answered", "done"}
  PROVE  gaps[d] = {} /\ fetch[d] \in {"answered", "done"}
<1>1. CASE UNCHANGED fetch /\ (UNCHANGED gaps \/ \E ds, why : Missed(ds, why))
  BY <1>1 DEF Missed, BoardTypeOK
<1>2. ASSUME NEW x \in Dashboards, OpenPage(x) \/ Answer(x) \/ FetchFails(x) \/ Load(x)
      PROVE  gaps[d] = {} /\ fetch[d] \in {"answered", "done"}
  BY <1>2 DEF OpenPage, Answer, FetchFails, Load, Missed, BoardTypeOK
<1>3. DeskStep \/ Relay \/ RelayMisses
        => UNCHANGED fetch /\ (UNCHANGED gaps \/ \E ds, why : Missed(ds, why))
  BY DEF DeskStep, Relay, RelayMisses, board, page
<1>4. ASSUME NEW x \in Dashboards, Connect(x) \/ Disconnect(x) \/ Receive(x)
      PROVE  UNCHANGED fetch /\ (UNCHANGED gaps \/ \E ds, why : Missed(ds, why))
  BY <1>4 DEF Connect, Disconnect, Receive
<1>5. ASSUME NEW p \in Operators,
             \/ Arrive(p) \/ ClickFails(p)
             \/ \E x \in Dashboards, o \in Orders, to \in OrderStatus : Click(x, p, o, to)
      PROVE  UNCHANGED fetch /\ UNCHANGED gaps
  BY <1>5 DEF Click, Arrive, ClickFails, page
<1>6. QED
  BY <1>1, <1>2, <1>3, <1>4, <1>5 DEF BoardNext, bvars, board, page

LEMMA NothingLostStep ==
  ASSUME IndInv, IndInv', BoardTypeOK, BoardShowsCommitted, NothingLost, [BoardNext]_bvars
  PROVE  NothingLost'
<1> SUFFICES ASSUME NEW d \in Dashboards, NEW o \in Orders,
                    gaps'[d] = {}, fetch'[d] \in {"answered", "done"}
             PROVE  OnItsWay(d, o)'
  BY DEF NothingLost
<1>1. CASE Answer(d)
  <2>1. snapshot'[d][o].version = Len(trail'[o]) /\ fetch'[d] = "answered"
    BY <1>1 DEF Answer, Rows, BoardTypeOK, vars
  <2>2. QED
    BY <2>1 DEF OnItsWay
<1>2. CASE ~Answer(d)
  <2>1. OnItsWay(d, o)
    BY <1>2, GapsGrow DEF NothingLost
  <2>2. CASE DeskStep
    BY <2>1, <2>2, DeskHandsOn
  <2>3. ASSUME NEW p \in Operators,
               \/ Arrive(p) \/ ClickFails(p)
               \/ \E x \in Dashboards, y \in Orders, to \in OrderStatus : Click(x, p, y, to)
        PROVE  OnItsWay(d, o)'
    BY <2>1, <2>3, ClickHandsOn
  <2>4. CASE \/ Relay \/ RelayMisses
             \/ \E x \in Dashboards : \/ OpenPage(x) \/ Connect(x) \/ Disconnect(x)
                                      \/ FetchFails(x) \/ Load(x) \/ Receive(x)
    <3>1. UNCHANGED vars
      BY <2>4 DEF Relay, RelayMisses, OpenPage, Connect, Disconnect, FetchFails, Load, Receive
    <3>2. QED
      BY <2>1, <2>4, <3>1, BoardHandsOn
  <2>5. ASSUME NEW x \in Dashboards, Answer(x)
        PROVE  OnItsWay(d, o)'
    <3>1. /\ UNCHANGED <<vars, relayed, inbox, shown>>
          /\ fetch'[d] = fetch[d] /\ snapshot'[d] = snapshot[d]
      BY <1>2, <2>5 DEF Answer, BoardTypeOK
    <3>2. QED
      BY <2>1, <3>1 DEF OnItsWay, Newest, vars
  <2>6. CASE UNCHANGED bvars
    BY <2>1, <2>6 DEF OnItsWay, Newest, bvars, vars, board, page
  <2>7. QED
    BY <2>2, <2>3, <2>4, <2>5, <2>6 DEF BoardNext
<1>3. QED
  BY <1>1, <1>2

-----------------------------------------------------------------------------
(* The theorems.                                                           *)

\* The desk's invariant and the board's hold together.
THEOREM BoardInvariance == BoardSpec => []IndInv /\ []BoardInv
<1>1. BoardInit => BoardInv
  BY DEF BoardInit, Init, BoardInv, BoardTypeOK, BoardShowsCommitted, NothingLost, WasCommitted,
         FetchPoints, Empty, Row, Message
<1>2. IndInv /\ IndInv' /\ BoardInv /\ [BoardNext]_bvars => BoardInv'
  BY BoardTypeStep, CommittedStep, NothingLostStep DEF BoardInv
<1>3. BoardSpec => []IndInv
  BY BoardIsDesk, Invariance, PTL
<1>4. QED
  BY <1>1, <1>2, <1>3, PTL DEF BoardSpec

\* The board's variables have their types.
THEOREM BoardTypeCorrect == BoardSpec => []BoardTypeOK
<1>1. BoardInv => BoardTypeOK
  BY DEF BoardInv
<1>2. QED
  BY <1>1, BoardInvariance, PTL

\* A dashboard never shows, nor is about to show, a row that no transaction
\* committed (ADR 0003).
THEOREM OnlyCommittedIsShown == BoardSpec => []BoardShowsCommitted
<1>1. BoardInv => BoardShowsCommitted
  BY DEF BoardInv
<1>2. QED
  BY <1>1, BoardInvariance, PTL

\* A quiet board that has loaded and that nothing was kept from shows the database
\* (orders.store.ts, 33-45, behind the bridge and the gateway).
THEOREM QuietBoardIsRight == BoardSpec => []OnlyGapsMislead
<1>1. IndInv /\ BoardInv => OnlyGapsMislead
  <2> SUFFICES ASSUME IndInv, BoardInv, NEW d \in Dashboards,
                      Quiet(d), fetch[d] = "done", gaps[d] = {}
               PROVE  shown[d] = Rows
    BY DEF OnlyGapsMislead
  <2>1. ASSUME NEW o \in Orders
        PROVE  shown[d][o] = [status |-> status[o], version |-> Len(trail[o])]
    <3>1. OnItsWay(d, o)
      BY DEF BoardInv, NothingLost
    <3>2. shown[d][o].version = Len(trail[o])
      <4>1. relayed + 1 .. Len(feed) = {} /\ 1 .. Len(inbox[d]) = {}
        BY DEF Quiet, IndInv, TypeOK
      <4>2. QED
        BY <3>1, <4>1 DEF OnItsWay, Quiet
    <3>3. WasCommitted(o, shown[d][o]) /\ shown[d][o] \in Row
      BY DEF BoardInv, BoardShowsCommitted, BoardTypeOK
    <3>4. shown[d][o].status = status[o]
      <4>1. IF status[o] = None THEN Len(trail[o]) = 0
                                ELSE /\ Len(trail[o]) > 0
                                     /\ trail[o][Len(trail[o])].to = status[o]
        BY DEF IndInv, TrailEndsAtStatus, TypeOK
      <4>2. QED
        BY <3>2, <3>3, <4>1 DEF WasCommitted, IndInv, TypeOK
    <3>5. QED
      BY <3>2, <3>3, <3>4 DEF Row
  <2>2. shown[d] \in [Orders -> Row]
    BY DEF BoardInv, BoardTypeOK
  <2>3. QED
    BY <2>1, <2>2 DEF Rows
<1>2. QED
  BY <1>1, BoardInvariance, PTL

\* Every order that the store has is a card of a column or a closed one.
LEMMA CardsOrClosed ==
  ASSUME BoardTypeOK, NEW d \in Dashboards
  PROVE  total(d) = Cardinality(Cards(d)) + closedCount(d)
<1> DEFINE C == Cards(d)
           X == byStatus(d, "CANCELLED")
           R == byStatus(d, "REJECTED")
<1>1. C \in SUBSET Orders /\ X \in SUBSET Orders /\ R \in SUBSET Orders
  BY DEF Cards, byStatus, all
<1>2. /\ IsFiniteSet(C) /\ Cardinality(C) \in Nat
      /\ IsFiniteSet(X) /\ Cardinality(X) \in Nat
      /\ IsFiniteSet(R) /\ Cardinality(R) \in Nat
  BY <1>1, DeskOrders, FS_Subset, FS_CardinalityType
<1>3. all(d) = C \cup (X \cup R)
  <2>1. ASSUME NEW o \in all(d)
        PROVE  o \in C \cup (X \cup R)
    <3>1. shown[d][o].status \in OrderStatus
      BY DEF all, BoardTypeOK, Row
    <3>2. shown[d][o].status \in COLUMNS \cup {"CANCELLED", "REJECTED"}
      BY <3>1 DEF OrderStatus, COLUMNS
    <3>3. QED
      BY <3>2 DEF Cards, byStatus
  <2>2. QED
    BY <2>1 DEF Cards, byStatus
<1>4. X \cap R = {} /\ C \cap (X \cup R) = {}
  BY DEF Cards, byStatus, COLUMNS
<1> HIDE DEF C, X, R
<1>5. /\ IsFiniteSet(X \cup R)
      /\ Cardinality(X \cup R) = Cardinality(X) + Cardinality(R) - Cardinality(X \cap R)
  BY <1>2, FS_Union
<1>6. Cardinality(C \cup (X \cup R))
        = Cardinality(C) + Cardinality(X \cup R) - Cardinality(C \cap (X \cup R))
  BY <1>2, <1>5, FS_Union
<1>7. Cardinality(X \cap R) = 0 /\ Cardinality(C \cap (X \cup R)) = 0
  BY <1>4, FS_EmptySet
<1>8. Cardinality(C \cup (X \cup R)) = Cardinality(C) + (Cardinality(X) + Cardinality(R))
  BY <1>2, <1>5, <1>6, <1>7
<1>9. QED
  BY <1>3, <1>8 DEF total, closedCount, C, X, R

\* Each order that the page has is on a card or in the closed count, and the numbers
\* of a quiet board without gaps are the database's (orders.store.ts, 6-27;
\* KanbanBoard.vue, 10-38; MetricsBar.vue).
THEOREM AllOrdersAreCounted == BoardSpec => []NoOrderIsHidden
<1>1. BoardTypeOK /\ OnlyGapsMislead => NoOrderIsHidden
  <2> SUFFICES ASSUME BoardTypeOK, OnlyGapsMislead, NEW d \in Dashboards,
                      Quiet(d), fetch[d] = "done", gaps[d] = {}
               PROVE  /\ \A s \in COLUMNS : Cardinality(byStatus(d, s)) = countByStatus[s]
                      /\ closedCount(d) = countByStatus["CANCELLED"] + countByStatus["REJECTED"]
                      /\ countsByProvider(d) = countByProvider
    BY CardsOrClosed DEF NoOrderIsHidden
  <2>1. ASSUME NEW o \in Orders
        PROVE  shown[d][o].status = status[o]
    <3>1. shown[d] = Rows
      BY DEF OnlyGapsMislead
    <3>2. QED
      BY <2>1, <3>1 DEF Rows
  <2>2. ASSUME NEW s \in OrderStatus
        PROVE  Cardinality(byStatus(d, s)) = countByStatus[s]
    <3>1. byStatus(d, s) = {o \in Orders : status[o] = s}
      BY <2>1, DeskNone DEF byStatus, all
    <3>2. QED
      BY <3>1 DEF countByStatus
  <2>3. countsByProvider(d) = countByProvider
    <3> DEFINE Count(p) == Cardinality({o \in Orders : status[o] # None /\ ProviderOf[o] = p})
    <3>1. all(d) = {o \in Orders : status[o] # None}
      BY <2>1 DEF all
    <3>2. ASSUME NEW p
          PROVE  Cardinality({o \in all(d) : ProviderOf[o] = p}) = Count(p)
      <4>1. {o \in all(d) : ProviderOf[o] = p}
              = {o \in Orders : status[o] # None /\ ProviderOf[o] = p}
        BY <3>1
      <4>2. QED
        BY <4>1
    <3>3. countByProvider = [p \in {ProviderOf[o] : o \in Orders} |-> Count(p)]
      BY Zenon DEF countByProvider
    <3> HIDE DEF Count
    <3>4. countsByProvider(d) = [p \in {ProviderOf[o] : o \in Orders} |-> Count(p)]
      BY <3>2, Zenon DEF countsByProvider
    <3>5. QED
      BY <3>3, <3>4, Zenon
  <2>4. COLUMNS \subseteq OrderStatus /\ {"CANCELLED", "REJECTED"} \subseteq OrderStatus
    BY DEF COLUMNS, OrderStatus
  <2>5. QED
    BY <2>2, <2>3, <2>4 DEF closedCount
<1>2. QED
  BY <1>1, BoardTypeCorrect, QuietBoardIsRight, PTL

\* "it is impossible to render an action the server would reject" (OrderCard.vue,
\* 21-22) is false of the code, by a run; it is true of a quiet board without gaps,
\* where a message that overtook a newer one, or a snapshot that came after an
\* event, counts as a gap like one that was lost (orders.store.ts, 29-43).
THEOREM ButtonsNeedNoGaps ==
  BoardSpec => [](\A d \in Dashboards, o \in Orders :
                    Quiet(d) /\ fetch[d] = "done" /\ gaps[d] = {} =>
                      \A to \in Offered(d, o) : CanTransition(status[o], to))
<1>1. OnlyGapsMislead =>
        \A d \in Dashboards, o \in Orders :
          Quiet(d) /\ fetch[d] = "done" /\ gaps[d] = {} =>
            \A to \in Offered(d, o) : CanTransition(status[o], to)
  <2> SUFFICES ASSUME OnlyGapsMislead, NEW d \in Dashboards, NEW o \in Orders,
                      Quiet(d), fetch[d] = "done", gaps[d] = {}, NEW to \in Offered(d, o)
               PROVE  CanTransition(status[o], to)
    OBVIOUS
  <2>1. shown[d] = Rows
    BY DEF OnlyGapsMislead
  <2>2. shown[d][o].status = status[o]
    BY <2>1 DEF Rows
  <2>3. QED
    BY <2>2 DEF Offered, CanTransition
<1>2. QED
  BY <1>1, QuietBoardIsRight, PTL
=============================================================================

------------------------- MODULE AccountWorkerProofs -------------------------
(* Theorems about a cycle of the worker, for all rules, modes, kinds of       *)
(* positions, brokers and bounds.                                             *)
EXTENDS AccountWorker, RuleEngineProofs

-------------------------------------------------------------------------------
(* The inductive invariant.                                                 *)

\* Tickets are given in turn, none of them twice.
TicketsOK ==
  /\ Tickets(positions) \subseteq 1..Opened
  /\ Tickets(snap.positions) \subseteq 1..Opened

\* Between two cycles nothing is left to do; what failed is from this cycle.
WorkOK ==
  /\ work \in {"idle", "positions", "history"} => failed = <<>>
  /\ work \in {"idle", "positions", "history"} => verdict = {}
  /\ \A r \in verdict : r.rule = "consecutive_loss_cooldown" => r.ticket \in Nat

\* What failed has been alerted or is still in the list.
AlertInv == work \in {"handle", "close"} => verdict = alerted \union ToSet(failed)

\* What there is to close has a cause.
CauseInv ==
  queue # <<>> =>
    /\ mode # "passive"
    /\ \E r \in verdict : \/ r.rule \in DailyLossRules
                          \/ r.rule = "consecutive_loss_cooldown" /\ queue = <<r.ticket>>

\* The cooldown violation of ticket t is to be acted on, being acted on, or
\* settled.
Pending(t) == \E r \in ToSet(failed) : r.rule = "consecutive_loss_cooldown" /\ r.ticket = t

Settled(t) == t \notin Tickets(positions) \/ t \in refused

CooldownInv ==
  (work \in {"handle", "close"} /\ mode # "passive" /\ InCooldown(Rules, snap.trades, snap.asOf)) =>
      \A i \in DOMAIN snap.positions :
        snap.positions[i].openTime > Last(snap.trades).closeTime =>
          LET t == snap.positions[i].ticket
          IN  Pending(t) \/ queue = <<t>> \/ Settled(t)

IInv == TypeOK /\ TicketsOK /\ WorkOK /\ AlertInv /\ CauseInv /\ CooldownInv

--------------------------------------------------------------------------------
(* The account.                                                             *)

LEMMA AccountTypes ==
  ASSUME TypeOK
  PROVE  /\ now \in Nat /\ Opened \in Nat /\ Len(positions) \in Nat /\ Len(history) \in Nat
         /\ DOMAIN positions = 1..Len(positions)
         /\ \A i \in DOMAIN positions : positions[i] \in Position /\ positions[i].ticket \in Nat
<1>1. now \in Nat
  BY AccountWorkerAssumption DEF TypeOK
<1>2. Len(positions) \in Nat /\ Len(history) \in Nat /\ DOMAIN positions = 1..Len(positions)
      /\ \A i \in DOMAIN positions : positions[i] \in Position
  BY DEF TypeOK
<1>3. \A i \in DOMAIN positions : positions[i].ticket \in Nat
  BY <1>2 DEF Position
<1> QED
  BY <1>1, <1>2, <1>3 DEF Opened

LEMMA ClosedTodayType ==
  ASSUME history \in Seq(Trade)
  PROVE  ClosedToday \in Seq(Trade)
<1> DEFINE I == {i \in DOMAIN history : Day(history[i].closeTime) = Day(now)}
<1>1. history \in Seq(Trade) /\ I \in SUBSET DOMAIN history
  OBVIOUS
<1>2. ClosedToday = Subsequence(history, I)
  BY DEF ClosedToday
<1> HIDE DEF I
<1> QED
  BY <1>1, <1>2, SubsequenceType

LEMMA EquityType ==
  ASSUME positions \in Seq(Position), history \in Seq(Trade)
  PROVE  Balance \in Int /\ Balance + TotalProfit(positions) \in Int
<1>1. /\ Len(history) \in Nat /\ \A i \in 1..Len(history) : history[i] \in Trade
      /\ Len(positions) \in Nat /\ \A i \in 1..Len(positions) : positions[i] \in Position
      /\ StartBalance \in Int
  BY AccountWorkerAssumption
<1>2. /\ \A i \in 1..Len(history) : history[i].profit \in Int
      /\ \A i \in 1..Len(positions) : positions[i].profit \in Int
  BY <1>1 DEF Trade, Position
<1>3. TotalProfit(history) \in Int /\ TotalProfit(positions) \in Int
  BY <1>1, <1>2, TotalProfitType DEF HasProfits
<1> QED
  BY <1>1, <1>3 DEF Balance

LEMMA NoSnapshotType ==
  NoSnapshot \in AccountSnapshot /\ NoSnapshot.positions = <<>>
<1>1. <<>> \in Seq(Position) /\ <<>> \in Seq(Trade)
  OBVIOUS
<1> QED
  BY <1>1 DEF NoSnapshot, AccountSnapshot

\* A position that is closed moves to the history with its ticket.
LEMMA ClosedMoves ==
  ASSUME TypeOK, NEW i \in DOMAIN positions, Closed(i)
  PROVE  /\ positions' \in Seq(Position) /\ history' \in Seq(Trade) /\ Opened' = Opened
         /\ DistinctTickets(positions')
         /\ Tickets(positions') = Tickets(positions) \ {positions[i].ticket}
<1> DEFINE left == RemoveAt(positions, i)
<1>1. /\ positions \in Seq(Position) /\ history \in Seq(Trade) /\ DistinctTickets(positions)
      /\ positions' = left /\ history' = Append(history, TradeOf(positions[i]))
  BY DEF TypeOK, Closed
<1>2. /\ left \in Seq(Position) /\ Len(left) = Len(positions) - 1
      /\ \A j \in DOMAIN left : left[j] = IF j < i THEN positions[j] ELSE positions[j + 1]
  BY <1>1, RemoveAtProperties
<1>3. TradeOf(positions[i]) \in Trade
  <2>1. positions[i] \in Position /\ now \in Nat
    BY AccountTypes
  <2> QED
    BY <2>1 DEF TradeOf, Trade, Position
<1> HIDE DEF left
<1>4. history' \in Seq(Trade) /\ Len(history') = Len(history) + 1
  BY <1>1, <1>3
<1>5. Opened' = Opened
  BY <1>1, <1>2, <1>4, AccountTypes DEF Opened
<1>6. /\ Len(positions) \in Nat /\ DOMAIN positions = 1..Len(positions)
      /\ DOMAIN left = 1..Len(positions) - 1 /\ i \in 1..Len(positions)
  BY <1>2, AccountTypes
<1> DEFINE From(j) == IF j < i THEN j ELSE j + 1
<1>7. /\ \A j \in DOMAIN left : From(j) \in DOMAIN positions /\ From(j) # i /\ left[j] = positions[From(j)]
      /\ \A j, k \in DOMAIN left : From(j) = From(k) => j = k
      /\ \A j \in DOMAIN positions : j # i => \E k \in DOMAIN left : From(k) = j
  <2>1. \A j \in DOMAIN left : From(j) \in DOMAIN positions /\ From(j) # i /\ left[j] = positions[From(j)]
    BY <1>2, <1>6
  <2>2. \A j, k \in DOMAIN left : From(j) = From(k) => j = k
    BY <1>6
  <2>3. ASSUME NEW j \in DOMAIN positions, j # i PROVE \E k \in DOMAIN left : From(k) = j
    <3>1. CASE j < i
      <4>1. j \in DOMAIN left /\ From(j) = j
        BY <1>6, <3>1
      <4> QED
        BY <4>1
    <3>2. CASE ~(j < i)
      <4>1. j - 1 \in DOMAIN left /\ From(j - 1) = j
        BY <1>6, <2>3, <3>2
      <4> QED
        BY <4>1
    <3> QED
      BY <3>1, <3>2
  <2> QED
    BY <2>1, <2>2, <2>3
<1> HIDE DEF From
<1>8. DistinctTickets(left)
  BY <1>1, <1>7 DEF DistinctTickets
<1>9. Tickets(left) = Tickets(positions) \ {positions[i].ticket}
  <2>1. ASSUME NEW j \in DOMAIN left PROVE left[j].ticket \in Tickets(positions) \ {positions[i].ticket}
    <3>1. From(j) \in DOMAIN positions /\ From(j) # i /\ left[j] = positions[From(j)]
      BY <1>7
    <3>2. positions[From(j)].ticket # positions[i].ticket
      BY <1>1, <3>1 DEF DistinctTickets
    <3> QED
      BY <3>1, <3>2 DEF Tickets
  <2>2. ASSUME NEW j \in DOMAIN positions, positions[j].ticket # positions[i].ticket
        PROVE  positions[j].ticket \in Tickets(left)
    <3>1. PICK k \in DOMAIN left : From(k) = j
      BY <1>7, <2>2
    <3> QED
      BY <1>7, <3>1 DEF Tickets
  <2> QED
    BY <2>1, <2>2 DEF Tickets
<1> QED
  BY <1>1, <1>2, <1>4, <1>5, <1>8, <1>9

-------------------------------------------------------------------------------
(* What the trader, the market and the clock do leaves the invariant alone:  *)
(* a ticket that the worker knows never comes back.                          *)

LEMMA WorldPreserves ==
  ASSUME IInv, TypeOK', UNCHANGED <<mode, cycle>>, Opened <= Opened',
         Tickets(positions') \subseteq 1..Opened',
         Tickets(positions') \intersect 1..Opened \subseteq Tickets(positions)
  PROVE  IInv'
<1>1. /\ UNCHANGED <<mode, work, snap, failed, queue, verdict, alerted, refused>>
      /\ Opened \in Nat /\ Opened' \in Nat
  <2>1. Opened' \in Nat
    BY DEF Opened, TypeOK
  <2> QED
    BY <2>1, AccountTypes DEF cycle, IInv
<1>2. Tickets(snap.positions) \subseteq 1..Opened
  BY DEF IInv, TicketsOK
<1>3. TicketsOK'
  <2>1. 1..Opened \subseteq 1..Opened'
    BY <1>1
  <2> QED
    BY <1>1, <1>2, <2>1 DEF TicketsOK
<1>4. WorkOK' /\ AlertInv' /\ CauseInv'
  BY <1>1 DEF IInv, WorkOK, AlertInv, CauseInv
<1>5. CooldownInv'
  <2> SUFFICES ASSUME work \in {"handle", "close"}, mode # "passive",
                      InCooldown(Rules, snap.trades, snap.asOf),
                      NEW i \in DOMAIN snap.positions,
                      snap.positions[i].openTime > Last(snap.trades).closeTime
               PROVE  LET t == snap.positions[i].ticket
                      IN  Pending(t)' \/ queue' = <<t>> \/ Settled(t)'
    BY <1>1 DEF CooldownInv
  <2> DEFINE t == snap.positions[i].ticket
  <2>1. Pending(t) \/ queue = <<t>> \/ Settled(t)
    BY DEF IInv, CooldownInv
  <2>2. t \in 1..Opened
    BY <1>2 DEF Tickets
  <2>3. CASE Pending(t)
    BY <1>1, <2>3 DEF Pending
  <2>4. CASE queue = <<t>>
    BY <1>1, <2>4
  <2>5. CASE Settled(t)
    BY <1>1, <2>2, <2>5 DEF Settled
  <2> QED
    BY <2>1, <2>3, <2>4, <2>5
<1> QED
  BY <1>3, <1>4, <1>5 DEF IInv

\* What a step of the world leaves alone keeps its type.
LEMMA WorldTypes ==
  ASSUME TypeOK, UNCHANGED <<mode, cycle>>,
         now' \in 0..MaxTime, breached' \in BOOLEAN,
         positions' \in Seq(Position), history' \in Seq(Trade), Opened' <= MaxTickets,
         DistinctTickets(positions')
  PROVE  TypeOK'
BY DEF TypeOK, cycle

LEMMA OpenPreserves ==
  ASSUME IInv, NEW kind \in Kinds, Open(kind)
  PROVE  IInv'
<1> DEFINE new == [ticket |-> Opened + 1, symbol |-> kind.symbol, openTime |-> now, risk |-> kind.risk,
                   sl |-> kind.sl, tp |-> kind.tp, profit |-> 0]
           n   == Len(positions)
<1>1. /\ TypeOK /\ Opened < MaxTickets /\ positions' = Append(positions, new)
      /\ UNCHANGED <<mode, now, history, cycle, breached>>
  BY DEF IInv, Open
<1>2. /\ n \in Nat /\ now \in Nat /\ Opened \in Nat /\ MaxTickets \in Nat /\ Len(history) \in Nat
      /\ positions \in Seq(Position) /\ Tickets(positions) \subseteq 1..Opened
  BY <1>1, AccountTypes, AccountWorkerAssumption DEF TypeOK, IInv, TicketsOK
<1>3. new \in Position
  BY <1>2, AccountWorkerAssumption DEF Position
<1> HIDE DEF new
<1>4. /\ positions' \in Seq(Position) /\ DOMAIN positions' = 1..n + 1 /\ DOMAIN positions = 1..n
      /\ Len(positions') = n + 1
      /\ positions'[n + 1] = new /\ \A i \in 1..n : positions'[i] = positions[i]
  BY <1>1, <1>2, <1>3
<1>5. new.ticket = Opened + 1
  BY DEF new
<1>6. Opened' = Opened + 1
  BY <1>1, <1>2, <1>4 DEF Opened
<1>7. Tickets(positions') = Tickets(positions) \union {Opened + 1}
  <2>1. \A i \in 1..n + 1 : i = n + 1 \/ i \in 1..n
    BY <1>2
  <2>2. n + 1 \in 1..n + 1 /\ 1..n \subseteq 1..n + 1
    BY <1>2
  <2> QED
    BY <1>4, <1>5, <2>1, <2>2 DEF Tickets
<1>8. DistinctTickets(positions')
  <2>1. ASSUME NEW i \in 1..n PROVE positions'[i].ticket # positions'[n + 1].ticket
    <3>1. positions[i].ticket \in 1..Opened
      BY <1>2, <1>4 DEF Tickets
    <3> QED
      BY <1>2, <1>4, <1>5, <3>1
  <2>2. \A i, j \in 1..n : positions'[i].ticket = positions'[j].ticket => i = j
    <3>1. DistinctTickets(positions)
      BY <1>1 DEF TypeOK
    <3> HIDE DEF n
    <3> QED
      BY <1>4, <3>1 DEF DistinctTickets
  <2>3. \A i \in 1..n + 1 : i = n + 1 \/ i \in 1..n
    BY <1>2
  <2> QED
    BY <1>4, <2>1, <2>2, <2>3 DEF DistinctTickets
<1>9. TypeOK'
  <2>1. Opened' <= MaxTickets
    BY <1>1, <1>2, <1>6
  <2> QED
    BY <1>1, <1>4, <1>8, <2>1, WorldTypes DEF TypeOK
<1>10. /\ Opened <= Opened' /\ Tickets(positions') \subseteq 1..Opened'
       /\ Tickets(positions') \intersect 1..Opened \subseteq Tickets(positions)
  BY <1>2, <1>6, <1>7
<1> QED
  BY <1>1, <1>9, <1>10, WorldPreserves

LEMMA CloseByHandPreserves ==
  ASSUME IInv, NEW i \in DOMAIN positions, CloseByHand(i)
  PROVE  IInv'
<1>1. /\ TypeOK /\ Closed(i) /\ UNCHANGED <<mode, now, cycle>>
      /\ breached' = (breached \/ OverDailyLoss') /\ Opened \in Nat
      /\ Tickets(positions) \subseteq 1..Opened
  BY AccountTypes DEF IInv, CloseByHand, TicketsOK
<1>2. /\ positions' \in Seq(Position) /\ history' \in Seq(Trade) /\ Opened' = Opened
      /\ DistinctTickets(positions') /\ Tickets(positions') \subseteq Tickets(positions)
  BY <1>1, ClosedMoves
<1>3. TypeOK'
  <2>1. breached' \in BOOLEAN
    BY <1>1 DEF TypeOK, OverDailyLoss, DailyLossBreached
  <2> QED
    BY <1>1, <1>2, <2>1, WorldTypes DEF TypeOK
<1> QED
  BY <1>1, <1>2, <1>3, WorldPreserves

LEMMA MarketPreserves ==
  ASSUME IInv, NEW i \in DOMAIN positions, NEW profit \in Profits, Market(i, profit)
  PROVE  IInv'
<1>1. /\ TypeOK /\ positions' = [positions EXCEPT ![i].profit = profit] /\ profit \in Int
      /\ UNCHANGED <<mode, now, history, cycle>> /\ breached' = (breached \/ OverDailyLoss')
      /\ Tickets(positions) \subseteq 1..Opened
  BY AccountWorkerAssumption DEF IInv, Market, TicketsOK
<1>2. [positions[i] EXCEPT !.profit = profit] \in Position
  BY <1>1, AccountTypes DEF Position
<1>3. /\ positions' \in Seq(Position) /\ Len(positions') = Len(positions)
      /\ DOMAIN positions' = DOMAIN positions
  BY <1>1, <1>2 DEF TypeOK
<1>4. \A j \in DOMAIN positions : positions'[j].ticket = positions[j].ticket
  <2>1. \A j \in DOMAIN positions : positions[j] \in Position
    BY <1>1, AccountTypes
  <2> QED
    BY <1>1, <2>1 DEF Position
<1>5. Opened' = Opened /\ Opened \in Nat
  BY <1>1, <1>3, AccountTypes DEF Opened
<1>6. DistinctTickets(positions') /\ Tickets(positions') = Tickets(positions)
  BY <1>1, <1>3, <1>4 DEF TypeOK, DistinctTickets, Tickets
<1>7. TypeOK'
  <2>1. breached' \in BOOLEAN
    BY <1>1 DEF TypeOK, OverDailyLoss, DailyLossBreached
  <2> QED
    BY <1>1, <1>3, <1>5, <1>6, <2>1, WorldTypes DEF TypeOK
<1>8. UNCHANGED <<mode, cycle>> /\ Opened <= Opened'
  BY <1>1, <1>5
<1>9. /\ Tickets(positions') \subseteq 1..Opened'
      /\ Tickets(positions') \intersect 1..Opened \subseteq Tickets(positions)
  BY <1>1, <1>5, <1>6
<1> QED
  BY <1>7, <1>8, <1>9, WorldPreserves

LEMMA TickPreserves ==
  ASSUME IInv, Tick
  PROVE  IInv'
<1>1. /\ TypeOK /\ now' \in 0..MaxTime /\ UNCHANGED <<mode, trading, cycle>>
      /\ breached' = (breached \/ OverDailyLoss')
      /\ Tickets(positions) \subseteq 1..Opened
  BY AccountWorkerAssumption DEF IInv, Tick, TicketsOK, TypeOK
<1>2. UNCHANGED <<positions, history, Opened>> /\ Opened \in Nat
  BY <1>1, AccountTypes DEF trading, Opened
<1>3. TypeOK'
  <2>1. breached' \in BOOLEAN
    BY <1>1 DEF TypeOK, OverDailyLoss, DailyLossBreached
  <2> QED
    BY <1>1, <1>2, <2>1, WorldTypes DEF TypeOK
<1> QED
  BY <1>1, <1>2, <1>3, WorldPreserves

-------------------------------------------------------------------------------
(* The worker's own steps.                                                  *)

LEMMA InitEstablishes ==
  ASSUME Init
  PROVE  IInv
<1>1. /\ mode \in Modes /\ now = 0 /\ positions = <<>> /\ history = <<>>
      /\ work = "idle" /\ snap = NoSnapshot /\ failed = <<>> /\ queue = <<>>
      /\ verdict = {} /\ alerted = {} /\ refused = {} /\ breached = FALSE
  BY DEF Init
<1>2. positions \in Seq(Position) /\ history \in Seq(Trade) /\ now \in 0..MaxTime
      /\ MaxTickets \in Nat
  BY <1>1, AccountWorkerAssumption
<1>3. snap \in AccountSnapshot /\ snap.positions = <<>>
  BY <1>1, NoSnapshotType
<1>4. Opened = 0 /\ Tickets(<<>>) = {} /\ DistinctTickets(<<>>)
  BY <1>1 DEF Opened, Tickets, DistinctTickets
<1>5. failed \in Seq(CheckResult) /\ queue \in Seq(Nat)
  BY <1>1
<1>6. TypeOK
  <2>1. ToSet(failed) = {} /\ Opened <= MaxTickets
    BY <1>1, <1>2, <1>4, TupleElements
  <2> QED
    BY <1>1, <1>2, <1>3, <1>4, <1>5, <2>1 DEF TypeOK
<1>7. TicketsOK
  BY <1>1, <1>3, <1>4 DEF TicketsOK
<1>8. WorkOK /\ AlertInv /\ CauseInv /\ CooldownInv
  BY <1>1 DEF WorkOK, AlertInv, CauseInv, CooldownInv
<1> QED
  BY <1>6, <1>7, <1>8 DEF IInv

LEMMA TakeAccountPreserves ==
  ASSUME IInv, TakeAccount
  PROVE  IInv'
<1>1. /\ TypeOK /\ TicketsOK /\ WorkOK /\ work = "idle" /\ work' = "positions"
      /\ snap' = [snap EXCEPT !.balance = Balance, !.equity = Balance + TotalProfit(positions)]
      /\ breached' = OverDailyLoss
      /\ UNCHANGED <<mode, now, positions, history, failed, queue, verdict, alerted, refused>>
  BY DEF IInv, TakeAccount, trading
<1>2. queue = <<>>
  BY <1>1 DEF TypeOK
<1>3. snap' \in AccountSnapshot /\ snap'.positions = snap.positions
  BY <1>1, EquityType DEF TypeOK, AccountSnapshot
<1>4. Opened' = Opened
  BY <1>1 DEF Opened
<1>5. TypeOK'
  <2>1. breached' \in BOOLEAN
    BY <1>1 DEF OverDailyLoss, DailyLossBreached
  <2> QED
    BY <1>1, <1>3, <1>4, <2>1 DEF TypeOK
<1>6. TicketsOK'
  BY <1>1, <1>3, <1>4 DEF TicketsOK
<1>7. WorkOK' /\ AlertInv' /\ CauseInv' /\ CooldownInv'
  BY <1>1, <1>2 DEF WorkOK, AlertInv, CauseInv, CooldownInv
<1> QED
  BY <1>5, <1>6, <1>7 DEF IInv

LEMMA TakePositionsPreserves ==
  ASSUME IInv, TakePositions
  PROVE  IInv'
<1>1. /\ TypeOK /\ TicketsOK /\ WorkOK /\ work = "positions" /\ work' = "history"
      /\ snap' = [snap EXCEPT !.positions = positions, !.symbolInfo = SymbolInfo]
      /\ UNCHANGED <<mode, now, positions, history, failed, queue, verdict, alerted, refused,
                     breached>>
  BY DEF IInv, TakePositions, trading
<1>2. queue = <<>>
  BY <1>1 DEF TypeOK
<1>3. snap' \in AccountSnapshot /\ snap'.positions = positions
  BY <1>1, AccountWorkerAssumption DEF TypeOK, AccountSnapshot
<1>4. Opened' = Opened
  BY <1>1 DEF Opened
<1>5. TypeOK'
  BY <1>1, <1>3, <1>4 DEF TypeOK
<1>6. TicketsOK'
  BY <1>1, <1>3, <1>4 DEF TicketsOK
<1>7. WorkOK' /\ AlertInv' /\ CauseInv' /\ CooldownInv'
  BY <1>1, <1>2 DEF WorkOK, AlertInv, CauseInv, CooldownInv
<1> QED
  BY <1>5, <1>6, <1>7 DEF IInv

\* The verdict is complete, and each cooldown violation in it has its ticket.
LEMMA TakeHistoryPreserves ==
  ASSUME IInv, TakeHistory
  PROVE  IInv'
<1>1. /\ TypeOK /\ TicketsOK /\ WorkOK /\ work = "history" /\ work' = "handle"
      /\ snap' = [snap EXCEPT !.asOf = now, !.trades = ClosedToday]
      /\ failed' = Failed(Evaluate(Rules, snap')) /\ verdict' = ToSet(failed')
      /\ UNCHANGED <<mode, now, positions, history, queue, alerted, refused, breached>>
  BY DEF IInv, TakeHistory, trading
<1>2. queue = <<>> /\ alerted = {}
  BY <1>1 DEF WorkOK, TypeOK
<1>3. Rules \in TradingRules
  BY AccountWorkerAssumption
<1>4. snap' \in AccountSnapshot /\ snap'.positions = snap.positions
  <2>1. snap \in AccountSnapshot /\ now \in Nat /\ ClosedToday \in Seq(Trade)
    BY <1>1, AccountTypes, ClosedTodayType DEF TypeOK
  <2> QED
    BY <1>1, <2>1 DEF AccountSnapshot
<1>5. failed' \in Seq(CheckResult) /\ verdict' \subseteq CheckResult
  <2>1. failed' \in Seq(CheckResult)
    BY <1>1, <1>3, <1>4, FailedElements
  <2> QED
    BY <1>1, <2>1, ElementsType
<1>6. /\ \A r \in verdict' : r.rule = "consecutive_loss_cooldown" => r.ticket \in Nat
      /\ InCooldown(Rules, snap'.trades, snap'.asOf) =>
           \A i \in DOMAIN snap'.positions :
             snap'.positions[i].openTime > Last(snap'.trades).closeTime =>
               \E r \in verdict' : /\ r.rule = "consecutive_loss_cooldown"
                                   /\ r.ticket = snap'.positions[i].ticket
  BY <1>1, <1>3, <1>4, CooldownFailures
<1>7. Opened' = Opened
  BY <1>1 DEF Opened
<1>8. TypeOK'
  BY <1>1, <1>2, <1>4, <1>5, <1>7 DEF TypeOK
<1>9. TicketsOK'
  BY <1>1, <1>4, <1>7 DEF TicketsOK
<1>10. WorkOK'
  BY <1>1, <1>6 DEF WorkOK
<1>11. AlertInv' /\ CauseInv'
  BY <1>1, <1>2 DEF AlertInv, CauseInv
<1>12. CooldownInv'
  BY <1>1, <1>6 DEF CooldownInv, Pending
<1> QED
  BY <1>8, <1>9, <1>10, <1>11, <1>12 DEF IInv

\* What is ordered closed for a result.
LEMMA OrdersFor ==
  ASSUME TypeOK, WorkOK, NEW r \in verdict
  PROVE  /\ Orders(r) \in Seq(Nat)
         /\ Orders(r) # <<>> =>
              /\ mode # "passive"
              /\ r.rule \in DailyLossRules
                   \/ (r.rule = "consecutive_loss_cooldown" /\ Orders(r) = <<r.ticket>>)
         /\ mode # "passive" /\ r.rule = "consecutive_loss_cooldown" => Orders(r) = <<r.ticket>>
<1>1. "consecutive_loss_cooldown" \notin DailyLossRules
  BY DEF DailyLossRules
<1>2. [i \in DOMAIN positions |-> positions[i].ticket] \in Seq(Nat)
  BY AccountTypes
<1>3. r.rule = "consecutive_loss_cooldown" => <<r.ticket>> \in Seq(Nat)
  BY DEF WorkOK
<1> QED
  BY <1>1, <1>2, <1>3 DEF Orders

LEMMA HandleNextPreserves ==
  ASSUME IInv, HandleNext
  PROVE  IInv'
<1> DEFINE r == Head(failed)
<1>1. /\ TypeOK /\ TicketsOK /\ WorkOK /\ AlertInv /\ CooldownInv
      /\ work = "handle" /\ failed # <<>>
      /\ failed' = Tail(failed) /\ alerted' = alerted \union {r} /\ queue' = Orders(r)
      /\ work' = IF queue' = <<>> THEN "handle" ELSE "close"
      /\ UNCHANGED <<mode, now, positions, history, snap, verdict, refused, breached>>
  BY DEF IInv, HandleNext, trading
<1>2. /\ failed' \in Seq(CheckResult) /\ ToSet(failed) = {r} \union ToSet(failed')
      /\ r \in verdict /\ ToSet(failed') \subseteq verdict
  <2>1. failed \in Seq(CheckResult) /\ ToSet(failed) \subseteq verdict
    BY <1>1 DEF TypeOK
  <2> QED
    BY <1>1, <2>1, HeadAndTailElements
<1> HIDE DEF r
<1>3. /\ queue' \in Seq(Nat)
      /\ queue' # <<>> =>
           /\ mode # "passive"
           /\ r.rule \in DailyLossRules
                \/ (r.rule = "consecutive_loss_cooldown" /\ queue' = <<r.ticket>>)
      /\ mode # "passive" /\ r.rule = "consecutive_loss_cooldown" => queue' = <<r.ticket>>
  BY <1>1, <1>2, OrdersFor
<1>4. Opened' = Opened
  BY <1>1 DEF Opened
<1>5. TypeOK'
  BY <1>1, <1>2, <1>3, <1>4 DEF TypeOK
<1>6. TicketsOK' /\ WorkOK'
  BY <1>1, <1>4 DEF TicketsOK, WorkOK
<1>7. AlertInv' /\ CauseInv'
  BY <1>1, <1>2, <1>3 DEF AlertInv, CauseInv
<1>8. CooldownInv'
  <2> SUFFICES ASSUME mode # "passive", InCooldown(Rules, snap.trades, snap.asOf),
                      NEW i \in DOMAIN snap.positions,
                      snap.positions[i].openTime > Last(snap.trades).closeTime
               PROVE  LET t == snap.positions[i].ticket
                      IN  Pending(t)' \/ queue' = <<t>> \/ Settled(t)'
    BY <1>1 DEF CooldownInv
  <2> DEFINE t == snap.positions[i].ticket
  <2>1. Pending(t) \/ queue = <<t>> \/ Settled(t)
    BY <1>1 DEF CooldownInv
  <2>2. queue # <<t>>
    <3>1. queue = <<>>
      BY <1>1 DEF TypeOK
    <3>2. \A x : <<x>> # <<>>
      OBVIOUS
    <3> QED
      BY <3>1, <3>2
  <2>3. CASE Pending(t)
    <3>1. PICK v \in ToSet(failed) : v.rule = "consecutive_loss_cooldown" /\ v.ticket = t
      BY <2>3 DEF Pending
    <3>2. CASE v = r
      BY <1>1, <1>3, <3>1, <3>2
    <3>3. CASE v \in ToSet(failed')
      BY <1>1, <3>1, <3>3 DEF Pending
    <3> QED
      BY <1>2, <3>2, <3>3
  <2>4. CASE Settled(t)
    BY <1>1, <2>4 DEF Settled
  <2> QED
    BY <2>1, <2>2, <2>3, <2>4
<1> QED
  BY <1>5, <1>6, <1>7, <1>8 DEF IInv

LEMMA CloseDonePreserves ==
  ASSUME IInv, CloseDone
  PROVE  IInv'
<1> DEFINE head == Head(queue)
<1>1. /\ TypeOK /\ TicketsOK /\ WorkOK /\ AlertInv /\ CauseInv /\ CooldownInv
      /\ work = "close" /\ queue' = Tail(queue)
      /\ work' = IF queue' = <<>> THEN "handle" ELSE "close"
      /\ UNCHANGED <<mode, now, snap, failed, verdict, alerted, refused>>
      /\ breached' = (breached \/ OverDailyLoss')
  BY DEF IInv, CloseDone
<1>2. PICK i \in DOMAIN positions : positions[i].ticket = head /\ Closed(i)
  BY DEF CloseDone
<1>3. /\ positions' \in Seq(Position) /\ history' \in Seq(Trade) /\ Opened' = Opened
      /\ DistinctTickets(positions') /\ Tickets(positions') = Tickets(positions) \ {head}
  BY <1>1, <1>2, ClosedMoves
<1>4. queue \in Seq(Nat) /\ queue # <<>>
  BY <1>1 DEF TypeOK
<1>5. queue' \in Seq(Nat) /\ \A x : queue = <<x>> => head = x /\ queue' = <<>>
  BY <1>1, <1>4
<1> HIDE DEF head
<1>6. TypeOK'
  <2>1. breached' \in BOOLEAN
    BY <1>1 DEF TypeOK, OverDailyLoss, DailyLossBreached
  <2>2. (queue' # <<>>) = (work' = "close")
    BY <1>1
  <2> QED
    BY <1>1, <1>3, <1>5, <2>1, <2>2 DEF TypeOK
<1>7. TicketsOK' /\ WorkOK' /\ AlertInv'
  BY <1>1, <1>3 DEF TicketsOK, WorkOK, AlertInv
<1>8. CauseInv'
  BY <1>1, <1>4, <1>5 DEF CauseInv
<1>9. CooldownInv'
  <2> SUFFICES ASSUME mode # "passive", InCooldown(Rules, snap.trades, snap.asOf),
                      NEW j \in DOMAIN snap.positions,
                      snap.positions[j].openTime > Last(snap.trades).closeTime
               PROVE  LET t == snap.positions[j].ticket
                      IN  Pending(t)' \/ queue' = <<t>> \/ Settled(t)'
    BY <1>1 DEF CooldownInv
  <2> DEFINE t == snap.positions[j].ticket
  <2>1. Pending(t) \/ queue = <<t>> \/ Settled(t)
    BY <1>1 DEF CooldownInv
  <2>2. CASE Pending(t)
    BY <1>1, <2>2 DEF Pending
  <2>3. CASE queue = <<t>>
    <3>1. t \notin Tickets(positions')
      BY <1>3, <1>5, <2>3
    <3> QED
      BY <1>1, <3>1 DEF Settled
  <2>4. CASE Settled(t)
    BY <1>1, <1>3, <2>4 DEF Settled
  <2> QED
    BY <2>1, <2>2, <2>3, <2>4
<1> QED
  BY <1>6, <1>7, <1>8, <1>9 DEF IInv

LEMMA CloseFailsPreserves ==
  ASSUME IInv, CloseFails
  PROVE  IInv'
<1> DEFINE head == Head(queue)
<1>1. /\ TypeOK /\ TicketsOK /\ WorkOK /\ AlertInv /\ CooldownInv
      /\ work = "close" /\ (head \notin Tickets(positions) \/ head \in Refusing)
      /\ refused' = refused \union ({head} \intersect Tickets(positions))
      /\ queue' = <<>> /\ work' = "handle"
      /\ UNCHANGED <<mode, now, positions, history, snap, failed, verdict, alerted, breached>>
  BY DEF IInv, CloseFails, trading
<1>2. \A x : queue = <<x>> => head = x
  OBVIOUS
<1> HIDE DEF head
<1>3. Opened' = Opened
  BY <1>1 DEF Opened
<1>4. TypeOK'
  <2>1. refused' \subseteq Refusing /\ queue' \in Seq(Nat)
    BY <1>1 DEF TypeOK
  <2> QED
    BY <1>1, <1>3, <2>1 DEF TypeOK
<1>5. TicketsOK' /\ WorkOK' /\ AlertInv' /\ CauseInv'
  BY <1>1, <1>3 DEF TicketsOK, WorkOK, AlertInv, CauseInv
<1>6. CooldownInv'
  <2> SUFFICES ASSUME mode # "passive", InCooldown(Rules, snap.trades, snap.asOf),
                      NEW j \in DOMAIN snap.positions,
                      snap.positions[j].openTime > Last(snap.trades).closeTime
               PROVE  LET t == snap.positions[j].ticket
                      IN  Pending(t)' \/ queue' = <<t>> \/ Settled(t)'
    BY <1>1 DEF CooldownInv
  <2> DEFINE t == snap.positions[j].ticket
  <2>1. Pending(t) \/ queue = <<t>> \/ Settled(t)
    BY <1>1 DEF CooldownInv
  <2>2. CASE Pending(t)
    BY <1>1, <2>2 DEF Pending
  <2>3. CASE queue = <<t>>
    <3>1. t \notin Tickets(positions) \/ t \in refused'
      BY <1>1, <1>2, <2>3
    <3> QED
      BY <1>1, <3>1 DEF Settled
  <2>4. CASE Settled(t)
    BY <1>1, <2>4 DEF Settled
  <2> QED
    BY <2>1, <2>2, <2>3, <2>4
<1> QED
  BY <1>4, <1>5, <1>6 DEF IInv

\* The cycle ends, with its list empty or given up.
LEMMA EndPreserves ==
  ASSUME IInv, CloseRaises \/ EndCycle
  PROVE  IInv'
<1>1. /\ TypeOK /\ TicketsOK /\ work' = "idle" /\ snap' = NoSnapshot
      /\ failed' = <<>> /\ queue' = <<>> /\ verdict' = {} /\ alerted' = {} /\ refused' = {}
      /\ UNCHANGED <<mode, now, positions, history, breached>>
  BY DEF IInv, CloseRaises, EndCycle, Left, trading
<1>2. Opened' = Opened /\ Tickets(<<>>) = {}
  BY <1>1 DEF Opened, Tickets
<1>3. TypeOK'
  <2>1. failed' \in Seq(CheckResult) /\ queue' \in Seq(Nat) /\ ToSet(failed') = {}
    BY <1>1, TupleElements
  <2> QED
    BY <1>1, <1>2, <2>1, NoSnapshotType DEF TypeOK
<1>4. TicketsOK'
  BY <1>1, <1>2, NoSnapshotType DEF TicketsOK
<1>5. WorkOK' /\ AlertInv' /\ CauseInv' /\ CooldownInv'
  BY <1>1 DEF WorkOK, AlertInv, CauseInv, CooldownInv
<1> QED
  BY <1>3, <1>4, <1>5 DEF IInv

LEMMA StutterPreserves ==
  ASSUME IInv, UNCHANGED vars
  PROVE  IInv'
BY DEF vars, cycle, trading, IInv, TypeOK, TicketsOK, WorkOK, AlertInv, CauseInv, CooldownInv,
       Pending, Settled, Opened

LEMMA NextPreserves ==
  ASSUME IInv, [Next]_vars
  PROVE  IInv'
<1>1. CASE Trader
  BY <1>1, OpenPreserves, CloseByHandPreserves DEF Trader
<1>2. CASE \E i \in DOMAIN positions, profit \in Profits : Market(i, profit)
  BY <1>2, MarketPreserves
<1>3. CASE Tick
  BY <1>3, TickPreserves
<1>4. CASE RunOnce
  BY <1>4, TakeAccountPreserves, TakePositionsPreserves, TakeHistoryPreserves,
     HandleNextPreserves, CloseDonePreserves, CloseFailsPreserves, EndPreserves DEF RunOnce
<1>5. CASE UNCHANGED vars
  BY <1>5, StutterPreserves
<1> QED
  BY <1>1, <1>2, <1>3, <1>4, <1>5 DEF Next

-------------------------------------------------------------------------------
(* The theorems.                                                            *)

\* Every reachable state satisfies the inductive invariant.
THEOREM WorkerInvariant ==
  Spec => []IInv
<1>1. Init => IInv
  BY InitEstablishes
<1>2. IInv /\ [Next]_vars => IInv'
  BY NextPreserves
<1> QED
  BY <1>1, <1>2, PTL DEF Spec

\* Positions, history, snapshot, verdict and the work in progress have their
\* types, no ticket is open twice, and there is something to close just when
\* the enforcer is closing.
THEOREM TypeCorrect ==
  Spec => []TypeOK
<1>1. IInv => TypeOK
  BY DEF IInv
<1> QED
  BY <1>1, WorkerInvariant, PTL

\* When the enforcer is through with a cycle, every failed check was alerted,
\* whatever became of the orders of those before it.
THEOREM AlwaysAlertsAll ==
  Spec => []AlertsAll
<1>1. IInv => AlertsAll
  BY TupleElements DEF IInv, AlertInv, AlertsAll
<1> QED
  BY <1>1, WorkerInvariant, PTL

\* At the end of a cycle every position opened in the cooldown that the
\* snapshot shows is closed, or the broker refused to close it.
THEOREM CooldownAlwaysEnforced ==
  Spec => []CooldownEnforced
<1>1. IInv => CooldownEnforced
  <2> SUFFICES ASSUME IInv, work = "handle", failed = <<>>, mode # "passive",
                      NEW p \in ToSet(snap.positions),
                      InCooldown(Rules, snap.trades, snap.asOf),
                      p.openTime > Last(snap.trades).closeTime
               PROVE  p.ticket \notin Tickets(positions) \ refused
    BY DEF CooldownEnforced
  <2>1. PICK i \in DOMAIN snap.positions : snap.positions[i] = p
    BY DEF ToSet
  <2>2. Pending(p.ticket) \/ queue = <<p.ticket>> \/ Settled(p.ticket)
    BY <2>1 DEF IInv, CooldownInv
  <2>3. ~Pending(p.ticket)
    BY TupleElements DEF Pending
  <2>4. queue # <<p.ticket>>
    <3>1. queue = <<>>
      BY DEF IInv, TypeOK
    <3>2. \A x : <<x>> # <<>>
      OBVIOUS
    <3> QED
      BY <3>1, <3>2
  <2> QED
    BY <2>2, <2>3, <2>4 DEF Settled
<1> QED
  BY <1>1, WorkerInvariant, PTL

\* A position the enforcer closes has its cause in the verdict of the same
\* cycle, and nothing is closed in passive mode.
THEOREM AlwaysClosesForCause ==
  Spec => ClosesOnlyForCause
<1> DEFINE ForCause ==
      queue' # queue =>
        \A t \in Tickets(positions) \ Tickets(positions') :
          /\ mode # "passive"
          /\ \E r \in verdict : \/ r.rule \in DailyLossRules
                                \/ r.rule = "consecutive_loss_cooldown" /\ r.ticket = t
<1>1. IInv /\ [Next]_vars => [ForCause]_vars
  <2> SUFFICES ASSUME IInv, [Next]_vars, queue' # queue,
                      NEW t \in Tickets(positions) \ Tickets(positions')
               PROVE  /\ mode # "passive"
                      /\ \E r \in verdict : \/ r.rule \in DailyLossRules
                                            \/ r.rule = "consecutive_loss_cooldown" /\ r.ticket = t
    OBVIOUS
  <2>1. CloseDone
    <3>1. Next /\ positions' # positions
      BY DEF vars, cycle
    <3>2. ~Trader /\ ~Tick /\ \A i \in DOMAIN positions, profit \in Profits : ~Market(i, profit)
      BY DEF Trader, Open, CloseByHand, Market, Tick, cycle
    <3> QED
      BY <3>1, <3>2 DEF Next, RunOnce, TakeAccount, TakePositions, TakeHistory, HandleNext,
                        CloseFails, CloseRaises, EndCycle, Left, trading
  <2>2. TypeOK /\ queue \in Seq(Nat) /\ queue # <<>> /\ CauseInv
    BY <2>1 DEF IInv, TypeOK, CloseDone
  <2>3. PICK i \in DOMAIN positions : positions[i].ticket = Head(queue) /\ Closed(i)
    BY <2>1 DEF CloseDone
  <2>4. t = Head(queue)
    <3>1. Tickets(positions') = Tickets(positions) \ {positions[i].ticket}
      BY <2>2, <2>3, ClosedMoves
    <3> QED
      BY <2>3, <3>1
  <2>5. \A x : queue = <<x>> => Head(queue) = x
    OBVIOUS
  <2> QED
    BY <2>2, <2>4, <2>5 DEF CauseInv
<1> QED
  BY <1>1, WorkerInvariant, PTL DEF Spec, ClosesOnlyForCause

==============================================================================

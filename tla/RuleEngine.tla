------------------------------ MODULE RuleEngine ------------------------------
(***************************************************************************)
(* The nine checks of rules/engine.py as operators on a rules record and   *)
(* an account snapshot.  Times are minutes since some midnight UTC; prices *)
(* and volumes are condensed into the money a stop-loss risks; percentages *)
(* are compared by cross-multiplication.  A result names its rule, whether *)
(* it passed and the ticket in its context, NoTicket where it has none.    *)
(*                                                                         *)
(* A position is [ticket, symbol, openTime, risk, sl, tp, profit], a trade *)
(* [ticket, closeTime, profit] and a snapshot [asOf, balance, equity,      *)
(* positions, trades, symbolInfo]: the trades in the order of their close  *)
(* times, symbolInfo the symbols whose contract specs are known.           *)
(***************************************************************************)
EXTENDS Subsequences

CONSTANTS
  MinutesPerDay, \* 1440
  Symbols,       \* instruments
  NoTicket       \* the context has no ticket

ASSUME RuleEngineAssumption == MinutesPerDay \in Nat \ {0}

\* What the validators of rules/models.py let pass.
TradingRules ==
  [maxRisk : Nat \ {0}, maxLoss : Nat \ {0}, maxPositions : Nat \ {0}, maxTrades : Nat \ {0},
   requireSL : BOOLEAN, requireTP : BOOLEAN, lossTrigger : Nat \ {0}, cooldown : Nat \ {0},
   symbols : SUBSET Symbols, start : 0..MinutesPerDay-1, end : 0..MinutesPerDay-1]

Position == [ticket : Nat, symbol : Symbols, openTime : Nat, risk : Nat,
             sl : BOOLEAN, tp : BOOLEAN, profit : Int]

Trade == [ticket : Nat, closeTime : Nat, profit : Int]

AccountSnapshot ==
  [asOf : Nat, balance : Int, equity : Int, positions : Seq(Position), trades : Seq(Trade),
   symbolInfo : SUBSET Symbols]

RuleIds == {"max_risk_per_trade", "max_daily_loss", "max_daily_loss_open_positions",
            "consecutive_loss_cooldown", "stop_loss_required", "take_profit_required",
            "max_concurrent_positions", "allowed_symbol", "trading_session", "max_trades_per_day"}

CheckResult == [rule : RuleIds, passed : BOOLEAN, ticket : Nat \union {NoTicket}]

Result(rule, passed, ticket) == [rule |-> rule, passed |-> passed, ticket |-> ticket]

\* One result per position; passing holds the places of those that pass.
PerPosition(rule, positions, passing) ==
  [i \in DOMAIN positions |-> Result(rule, i \in passing, positions[i].ticket)]

Tickets(positions) == {positions[i].ticket : i \in DOMAIN positions}

\* The terminal does not give a ticket twice.
DistinctTickets(positions) ==
  \A i, j \in DOMAIN positions : positions[i].ticket = positions[j].ticket => i = j

Day(t)  == t \div MinutesPerDay
Time(t) == t % MinutesPerDay

TotalProfit(items) ==
  LET sum[i \in 0..Len(items)] == IF i = 0 THEN 0 ELSE sum[i - 1] + items[i].profit
  IN  sum[Len(items)]

-------------------------------------------------------------------------------
(* Exposure and exits. *)

\* Mutant: the percentage is taken of the limit the wrong way round.
RiskAtLeast(rules, snap, p) ==
  snap.equity > 0 => p.risk * 100 >= rules.maxRisk * snap.equity

\* risk_pct <= max_risk_per_trade_pct; it is 0 without equity and negative
\* with a negative one, so that both pass.
RiskWithin(rules, snap, p) ==
  snap.equity > 0 => p.risk * 100 <= rules.maxRisk * snap.equity

CheckMaxRiskPerTrade(rules, snap) ==
  LET all   == snap.positions
      sized == Subsequence(all, {i \in DOMAIN all : all[i].sl /\ all[i].symbol \in snap.symbolInfo})
  IN  PerPosition("max_risk_per_trade", sized, {i \in DOMAIN sized : RiskWithin(rules, snap, sized[i])})

CheckStopLossRequired(rules, snap) ==
  IF rules.requireSL
  THEN PerPosition("stop_loss_required", snap.positions,
         {i \in DOMAIN snap.positions : snap.positions[i].sl})
  ELSE <<>>

CheckTakeProfitRequired(rules, snap) ==
  IF rules.requireTP
  THEN PerPosition("take_profit_required", snap.positions,
         {i \in DOMAIN snap.positions : snap.positions[i].tp})
  ELSE <<>>

CheckMaxConcurrentPositions(rules, snap) ==
  <<Result("max_concurrent_positions", Len(snap.positions) <= rules.maxPositions, NoTicket)>>

-------------------------------------------------------------------------------
(* Session. *)

CheckAllowedSymbols(rules, snap) ==
  PerPosition("allowed_symbol", snap.positions,
    {i \in DOMAIN snap.positions : snap.positions[i].symbol \in rules.symbols})

\* Mutant: a session across midnight is not recognised.
TimeBetween(t, start, end) == start <= t /\ t < end

\* _time_in_range: [start, end), around midnight when end comes before start.
TimeInRange(t, start, end) ==
  IF start <= end THEN start <= t /\ t < end ELSE t >= start \/ t < end

CheckTradingSession(rules, snap) ==
  PerPosition("trading_session", snap.positions,
    {i \in DOMAIN snap.positions :
       TimeInRange(Time(snap.positions[i].openTime), rules.start, rules.end)})

CheckMaxTradesPerDay(rules, snap) ==
  LET openedToday == {i \in DOMAIN snap.positions : Day(snap.positions[i].openTime) = Day(snap.asOf)}
  IN  <<Result("max_trades_per_day",
               Cardinality(openedToday) + Len(snap.trades) <= rules.maxTrades, NoTicket)>>

-------------------------------------------------------------------------------
(* The cooldown after consecutive losses. *)

\* Mutant: every loss of the day counts, consecutive or not.
LossesToday(trades) == Cardinality({i \in DOMAIN trades : trades[i].profit < 0})

\* The number of losing trades after the last one that did not lose.
ConsecutiveLosses(trades) ==
  LET notLost == {i \in DOMAIN trades : trades[i].profit >= 0}
  IN  Len(trades) - (IF notLost = {} THEN 0 ELSE Max(notLost))

OpenedAfter(p, loss) == p.openTime > loss

\* The function sorts the trades by close time; here they are, as the client
\* has sorted them by the same key (TradeHistory) and the sort is stable.
CheckConsecutiveLossCooldown(rules, snap) ==
  LET trades   == snap.trades
      all      == snap.positions
      streak   == ConsecutiveLosses(trades)
      lastLoss == Last(trades).closeTime
      during   == Subsequence(all, {i \in DOMAIN all : OpenedAfter(all[i], lastLoss)})
  IN  IF trades = <<>> \/ streak < rules.lossTrigger THEN <<>>
      ELSE IF snap.asOf >= lastLoss + rules.cooldown \/ during = <<>>
           THEN <<Result("consecutive_loss_cooldown", TRUE, NoTicket)>>
           ELSE PerPosition("consecutive_loss_cooldown", during, {})

-------------------------------------------------------------------------------
(* The daily loss. *)

\* loss_pct >= max_daily_loss_pct, for a positive balance and limit.
DailyLossBreached(rules, snap) ==
  (TotalProfit(snap.trades) + TotalProfit(snap.positions)) * 100
    <= -(rules.maxLoss * snap.balance)

CheckMaxDailyLoss(rules, snap) ==
  IF snap.balance <= 0 THEN <<>>
  ELSE IF ~DailyLossBreached(rules, snap) THEN <<Result("max_daily_loss", TRUE, NoTicket)>>
  ELSE IF snap.positions = <<>> THEN <<Result("max_daily_loss", FALSE, NoTicket)>>
  ELSE <<Result("max_daily_loss", FALSE, NoTicket),
         Result("max_daily_loss_open_positions", FALSE, NoTicket)>>

-------------------------------------------------------------------------------

\* evaluate with DEFAULT_CHECKS.
Evaluate(rules, snap) ==
  CheckMaxDailyLoss(rules, snap)
    \o CheckConsecutiveLossCooldown(rules, snap)
    \o CheckMaxRiskPerTrade(rules, snap)
    \o CheckStopLossRequired(rules, snap)
    \o CheckTakeProfitRequired(rules, snap)
    \o CheckMaxConcurrentPositions(rules, snap)
    \o CheckAllowedSymbols(rules, snap)
    \o CheckTradingSession(rules, snap)
    \o CheckMaxTradesPerDay(rules, snap)

Failed(results) == Subsequence(results, {i \in DOMAIN results : ~results[i].passed})

-------------------------------------------------------------------------------
(* Reference definitions, written from what the rules mean.                 *)

\* The minutes of a session, counted from its start round the clock.
SessionMinutes(start, end) ==
  {(start + k) % MinutesPerDay : k \in 0..((end - start) % MinutesPerDay) - 1}

\* The last n trades all lost.
EndsInLosses(trades, n) ==
  n <= Len(trades) /\ \A k \in Len(trades) - n + 1 .. Len(trades) : trades[k].profit < 0

\* A mandatory pause is running at time t because of these trades.
InCooldown(rules, trades, t) ==
  /\ EndsInLosses(trades, rules.lossTrigger)
  /\ t < trades[Len(trades)].closeTime + rules.cooldown

FailedTickets(rules, snap, rule) ==
  {r.ticket : r \in {r \in ToSet(Evaluate(rules, snap)) : r.rule = rule /\ ~r.passed}}

Fails(rules, snap, rule) == FailedTickets(rules, snap, rule) # {}

\* strict has no limit looser than rules has.
Tighter(strict, rules) ==
  /\ strict.maxRisk <= rules.maxRisk /\ strict.maxLoss <= rules.maxLoss
  /\ strict.maxPositions <= rules.maxPositions /\ strict.maxTrades <= rules.maxTrades
  /\ rules.requireSL => strict.requireSL
  /\ rules.requireTP => strict.requireTP
  /\ strict.lossTrigger <= rules.lossTrigger /\ strict.cooldown >= rules.cooldown
  /\ strict.symbols \subseteq rules.symbols
  /\ SessionMinutes(strict.start, strict.end) \subseteq SessionMinutes(rules.start, rules.end)

===============================================================================

----------------------------- MODULE Calculations -----------------------------
(***************************************************************************)
(* What the program computes without keeping state: the checks of a         *)
(* snapshot, the day's trades of the terminal's deals, the reports of a     *)
(* compliance log.  A behaviour picks one of the three and feeds it inputs: *)
(* a snapshot, deals one by one, or the log of one cycle after another.     *)
(***************************************************************************)
EXTENDS RuleEngine, TradeHistory, ComplianceLog

CONSTANTS
  RuleSet,   \* rules to evaluate every snapshot with
  Snapshots, \* snapshots to evaluate
  Midnight,  \* the start of the day for which deals become trades
  DealTimes, \* the times of deals
  Legs,      \* what a deal can be: opening or closing, and its profit
  Cycles,    \* snapshots of the cycles that are logged
  Strict,    \* the rules they are evaluated with
  Instants,  \* the times of logged cycles and of windows
  MaxDeals,  \* bound: deals of a history
  MaxCycles  \* bound: cycles of a log

\* The validators let only certain rules pass; tickets are distinct.
ASSUME CalculationsAssumption ==
  /\ RuleSet \subseteq TradingRules /\ Strict \in TradingRules
  /\ Cycles \subseteq AccountSnapshot /\ Instants \subseteq Int
  /\ DealTimes \subseteq Int /\ \A leg \in Legs : leg.profit \in Int
  /\ Snapshots \subseteq {s \in AccountSnapshot : DistinctTickets(s.positions)}

VARIABLES
  input, \* the snapshot being evaluated
  deals, \* the history of the account
  log,   \* its compliance log
  cycles \* how many cycles are in it

TighterPairs == {q \in RuleSet \X RuleSet : q[1] # q[2] /\ Tighter(q[1], q[2])}

NoInput == [asOf |-> 0, balance |-> 100, equity |-> 100, positions |-> <<>>, trades |-> <<>>,
            symbolInfo |-> {}]

Init == input = NoInput /\ deals = <<>> /\ log = <<>> /\ cycles = 0

Evaluated ==
  /\ input = NoInput /\ deals = <<>> /\ log = <<>>
  /\ input' \in Snapshots
  /\ UNCHANGED <<deals, log, cycles>>

\* Two positions are opened and, in parts maybe, closed.
Dealt ==
  /\ input = NoInput /\ log = <<>> /\ Len(deals) < MaxDeals
  /\ \E p \in 1..2, t \in DealTimes, leg \in Legs :
       /\ deals # <<>> => Last(deals).time <= t
       /\ deals' = Append(deals, [position |-> p, entry |-> leg.entry, time |-> t, profit |-> leg.profit])
  /\ UNCHANGED <<input, log, cycles>>

\* A cycle is logged, a minute after the one before or, when the clock is set
\* back, not after it.
Logged ==
  /\ input = NoInput /\ deals = <<>> /\ cycles < MaxCycles
  /\ \E snap \in Cycles, t \in Instants :
       /\ log # <<>> => t - Last(log).timestamp \in -1..1
       /\ log' = LogCycle(log, t, Evaluate(Strict, snap))
  /\ cycles' = cycles + 1
  /\ UNCHANGED <<input, deals>>

Next == Evaluated \/ Dealt \/ Logged

vars == <<input, deals, log, cycles>>

Spec == Init /\ [][Next]_vars

-------------------------------------------------------------------------------
(* Properties.                                                              *)

\* _time_in_range agrees with walking the clock from the session's start, for
\* sessions within a day, across midnight and of no length.
SessionIsClockwise ==
  \A r \in RuleSet : \A p \in ToSet(input.positions) :
    (p.ticket \in FailedTickets(r, input, "trading_session"))
      = (Time(p.openTime) \notin SessionMinutes(r.start, r.end))

\* check_consecutive_loss_cooldown fails exactly the positions opened after
\* the loss that completed a run of lossTrigger losses, while the pause runs.
CooldownIsTheRun ==
  \A r \in RuleSet :
    FailedTickets(r, input, "consecutive_loss_cooldown") =
      IF InCooldown(r, input.trades, input.asOf)
      THEN {p.ticket : p \in {p \in ToSet(input.positions) : p.openTime > Last(input.trades).closeTime}}
      ELSE {}

\* A tightened rule never lets pass what the looser one flagged: no comparison
\* of the checks is the wrong way round and no check is skipped for it.
TighterFlagsMore ==
  \A q \in TighterPairs :
    \A rule \in {"max_risk_per_trade", "max_daily_loss", "consecutive_loss_cooldown",
                 "stop_loss_required", "take_profit_required", "max_concurrent_positions",
                 "allowed_symbol", "trading_session", "max_trades_per_day"} :
      FailedTickets(q[2], input, rule) \subseteq FailedTickets(q[1], input, rule)

\* What _get_closed_trades_today makes of a history is what the checks need:
\* one trade for every position closed today, in the order of their close
\* times, and, if no position was closed in parts, the day's realized result.
DayOfDeals ==
  LET trades  == ClosedTradesToday(deals, Midnight)
      today   == {i \in DOMAIN deals : deals[i].entry = "out" /\ deals[i].time >= Midnight}
      whole   == \A i, j \in today : deals[i].position = deals[j].position => i = j
  IN  /\ Tickets(trades) = {deals[i].position : i \in today}
      /\ \A i, j \in DOMAIN trades : i < j =>
           trades[i].ticket # trades[j].ticket /\ trades[i].closeTime <= trades[j].closeTime
      /\ whole => TotalProfit(trades) = TotalProfit(Subsequence(deals, today))

\* Every violation of a hard-safety rule is counted as a discipline save, and
\* one that is alone, of one rule and one ticket, is counted once however many
\* cycles see it.
SavesOfAnIncident ==
  \A r \in RuleSet :
    LET results == Evaluate(r, input)
        once    == LogCycle(<<>>, 1, results)
        keys    == Cardinality({KeyOf(once[i]) : i \in HardFailures(once, DOMAIN once)})
        thrice  == LogCycle(LogCycle(once, 2, results), 3, results)
        saves   == Report(thrice, 1, 3).saves
    IN  saves >= keys /\ (keys <= 1 => saves = keys)

\* The reports of two windows add up to the one of both, the instant where they
\* meet counted twice; only an incident may be counted once more, if it goes on
\* across the border and no violation falls on it.
WindowsAddUp ==
  cycles > 0 => \A since, until \in Instants : \A border \in since..until :
    LET parts  == Aggregate(Report(log, since, border), Report(log, border, until))
        whole  == Aggregate(Report(log, since, until), Report(log, border, border))
    IN  /\ parts.total = whole.total /\ parts.passed = whole.passed /\ parts.violations = whole.violations
        /\ parts.saves - whole.saves \in (IF Report(log, border, border).saves = 0 THEN {0, 1} ELSE {0})

===============================================================================

----------------------------- MODULE MCRuleEngine -----------------------------
(* All the small snapshots, one after the other, against each of a few rules; *)
(* the terminal's histories of a few deals; and compliance logs of a few      *)
(* cycles.                                                                    *)
EXTENDS Calculations

SmallRuleSet ==
  LET loose == [maxRisk |-> 3, maxLoss |-> 4, maxPositions |-> 2, maxTrades |-> 3,
                requireSL |-> FALSE, requireTP |-> FALSE, lossTrigger |-> 2, cooldown |-> 1,
                symbols |-> {"EURUSD", "USDJPY"}, start |-> 3, end |-> 2]
  IN  {loose,
       [loose EXCEPT !.maxRisk = 2, !.maxLoss = 2, !.lossTrigger = 1, !.requireSL = TRUE],
       [loose EXCEPT !.cooldown = 3, !.requireTP = TRUE, !.end = 0],
       [loose EXCEPT !.lossTrigger = 1, !.cooldown = 3, !.maxPositions = 1, !.maxTrades = 1],
       [loose EXCEPT !.start = 1, !.end = 3, !.symbols = {"EURUSD"}],
       [loose EXCEPT !.start = 2, !.end = 2]}

Now      == 5 \* minute 1 of the second day of 4 minutes

PositionsOf(ticket) ==
  {[ticket |-> ticket, symbol |-> s, openTime |-> o, risk |-> 2, sl |-> l, tp |-> ~l, profit |-> v] :
     s \in {"EURUSD", "USDJPY"}, o \in 3..5, l \in BOOLEAN, v \in {-2, 1}}

TradesOf(ticket) ==
  {[ticket |-> ticket, closeTime |-> c, profit |-> v] : c \in 4..5, v \in {-2, 0, 1}}

PositionLists ==
  {<<>>} \union {<<p>> : p \in PositionsOf(1)}
         \union {<<p, q>> : p \in PositionsOf(1), 
                            q \in {q \in PositionsOf(2) : q.sl /\ q.profit < 0 /\ q.symbol = "EURUSD"}}

TradeLists ==
  {<<>>} \union {<<t>> : t \in TradesOf(3)}
         \union {<<t, u>> \in TradesOf(3) \X TradesOf(4) : t.closeTime <= u.closeTime}

SmallSnapshots ==
  {[asOf |-> Now, balance |-> b, equity |-> e, positions |-> ps, trades |-> ts,
    symbolInfo |-> {"EURUSD"}] :
     b \in {0, 100}, e \in {0, 100}, ps \in PositionLists, ts \in TradeLists}

SmallLegs ==
  {[entry |-> "in", profit |-> 0]} \union {[entry |-> "out", profit |-> v] : v \in {-2, 1}}

\* Cycles of an account that is calm, in a cooldown or beyond its daily loss,
\* with and without a position.
SmallCycles ==
  LET calm   == [asOf |-> Now, balance |-> 100, equity |-> 100, positions |-> <<>>,
                 trades |-> <<>>, symbolInfo |-> {}]
      loss   == [ticket |-> 3, closeTime |-> 4, profit |-> -2]
      opened == [ticket |-> 1, symbol |-> "EURUSD", openTime |-> 5, risk |-> 2, sl |-> TRUE, tp |-> TRUE,
                 profit |-> 0]
  IN  {calm,
       [calm EXCEPT !.trades = <<loss>>, !.positions = <<opened>>],
       [calm EXCEPT !.trades = <<loss>>, !.positions = <<[opened EXCEPT !.ticket = 2]>>],
       [calm EXCEPT !.trades = <<[loss EXCEPT !.profit = -4]>>],
       [calm EXCEPT !.balance = 40, !.positions = <<[opened EXCEPT !.openTime = 3, !.profit = -2]>>]}

StrictRules == CHOOSE r \in SmallRuleSet : r.lossTrigger = 1 /\ r.cooldown = 3

===============================================================================

--------------------------- MODULE MCAccountWorker ---------------------------
(* Instances of AccountWorker for TLC: one kind of position that no other    *)
(* rule objects to, or one without a stop-loss, and a small account.         *)
EXTENDS AccountWorker

CONSTANT CooldownMinutes, LossTrigger

SmallRules ==
  [maxRisk |-> 5, maxLoss |-> 4, maxPositions |-> 1, maxTrades |-> 9,
   requireSL |-> TRUE, requireTP |-> FALSE, lossTrigger |-> LossTrigger,
   cooldown |-> CooldownMinutes, symbols |-> {"EURUSD"}, start |-> 1, end |-> 0]

NakedPosition == {[symbol |-> "EURUSD", risk |-> 0, sl |-> FALSE, tp |-> FALSE]}

LossOrProfit == {-3, 1}
LossOnly == {-3}

===============================================================================

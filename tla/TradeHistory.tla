----------------------------- MODULE TradeHistory -----------------------------
(***************************************************************************)
(* How client.py makes the day's closed trades out of the terminal's list   *)
(* of deals.  A deal is [position, entry, time, profit], its profit with    *)
(* swap and commission; the terminal lists deals in the order of their      *)
(* times.  Midnight is the start of the current UTC day.                    *)
(***************************************************************************)
EXTENDS Subsequences

\* The places of today's closing legs; a lookback of at least one day reaches
\* midnight.
ClosingDeals(deals, midnight) ==
  {i \in DOMAIN deals : deals[i].entry = "out" /\ deals[i].time >= midnight}

\* The closing legs of the position that the i-th deal closes.
PartsOf(deals, closing, i) == {j \in closing : deals[j].position = deals[i].position}

\* The last part is what the dict holds, where the first was inserted.
LastParts(deals, closing) == {i \in closing : i = Max(PartsOf(deals, closing, i))}

Inserted(deals, closing, i) == Min(PartsOf(deals, closing, i))

\* Mutant: the dict is listed as it was filled.
InInsertionOrder(deals, closing) ==
  {q \in closing \X closing : Inserted(deals, closing, q[1]) < Inserted(deals, closing, q[2])}

\* The pairs of a deal and one that is sorted behind it: by close time, and
\* the sort is stable.
ByCloseTime(deals, closing) ==
  {q \in closing \X closing :
     \/ deals[q[1]].time < deals[q[2]].time
     \/ /\ deals[q[1]].time = deals[q[2]].time
        /\ Inserted(deals, closing, q[1]) < Inserted(deals, closing, q[2])}

TradeOfDeal(deal) == [ticket |-> deal.position, closeTime |-> deal.time, profit |-> deal.profit]

\* _get_closed_trades_today: a position closed in parts has one trade, that of
\* the last part.
ClosedTradesToday(deals, midnight) ==
  LET closing == ClosingDeals(deals, midnight)
      kept    == LastParts(deals, closing)
      order   == ByCloseTime(deals, closing)
  IN  [k \in 1..Cardinality(kept) |-> TradeOfDeal(deals[Ranked(kept, order, k)])]

===============================================================================

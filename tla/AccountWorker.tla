----------------------------- MODULE AccountWorker -----------------------------
(***************************************************************************)
(* One account under its worker: the trader opens and closes positions at  *)
(* the broker while AccountWorker.run_once takes a snapshot in several     *)
(* calls, evaluates the rules on it and hands the failed results, one by   *)
(* one, to the enforcer of the account's mode.  The terminal is the real   *)
(* one (MetaTrader5Client); pause and rule changes are in PausableEnforcer *)
(* and RulesStore.                                                         *)
(***************************************************************************)
EXTENDS RuleEngine

CONSTANTS
  Modes,        \* the enforcement modes to consider
  Rules,        \* the account's rules
  StartBalance, \* money in the account before the first trade
  Kinds,        \* what a position can be: its symbol, risk, sl and tp
  Profits,      \* the values a position's profit moves between
  SymbolInfo,   \* the symbols whose specs the terminal knows
  Refusing,     \* tickets whose close order the broker always rejects
  Raising,      \* tickets whose close raises (no tick for the symbol)
  MaxTickets,   \* bound: positions ever opened
  MaxTime       \* bound: minutes

ASSUME AccountWorkerAssumption ==
  /\ Modes \subseteq {"passive", "hybrid", "active"}
  /\ Rules \in TradingRules /\ SymbolInfo \subseteq Symbols
  /\ Kinds \subseteq [symbol : Symbols, risk : Nat, sl : BOOLEAN, tp : BOOLEAN]
  /\ StartBalance \in Nat /\ Profits \subseteq Int
  /\ MaxTickets \in Nat /\ MaxTime \in Nat

VARIABLES
  mode,      \* the mode the enforcer was built for
  now,       \* minutes
  positions, \* the terminal's open positions, in its order
  history,   \* all closed trades, in the order of closing
  work,      \* where run_once is
  snap,      \* the snapshot, complete when work leaves "history"
  failed,    \* failed results the enforcer has still to handle
  queue,     \* tickets the call in progress has still to close
  verdict,   \* history: all failed results of the cycle
  alerted,   \* history: those an alert was sent for
  refused,   \* history: tickets the broker refused to close in the cycle
  breached   \* history: the daily loss was over its limit during the cycle

trading == <<positions, history>>
cycle   == <<work, snap, failed, queue, verdict, alerted, refused>>
vars    == <<mode, now, trading, cycle, breached>>

HardSafetyRules == {"max_daily_loss", "max_daily_loss_open_positions",
                    "consecutive_loss_cooldown"}

\* Mutant: the enforcer knows the rule by another name than the engine.
RenamedRules == {"daily_loss"}

DailyLossRules == HardSafetyRules \ {"consecutive_loss_cooldown"}

-------------------------------------------------------------------------------
(* The account as it is, whatever the worker has seen of it.               *)

Balance     == StartBalance + TotalProfit(history)
ClosedToday == Subsequence(history, {i \in DOMAIN history : Day(history[i].closeTime) = Day(now)})

\* Between two cycles: the snapshot is local to run_once.
NoSnapshot == [asOf |-> 0, balance |-> 0, equity |-> 0, positions |-> <<>>, trades |-> <<>>,
               symbolInfo |-> {}]

Account == [asOf |-> now, balance |-> Balance, equity |-> Balance + TotalProfit(positions),
            positions |-> positions, trades |-> ClosedToday, symbolInfo |-> SymbolInfo]

OverDailyLoss == Balance > 0 /\ DailyLossBreached(Rules, Account)

Opened == Len(history) + Len(positions)

TradeOf(p) == [ticket |-> p.ticket, closeTime |-> now, profit |-> p.profit]

\* The i-th position leaves the terminal and enters the history.
Closed(i) ==
  /\ positions' = RemoveAt(positions, i)
  /\ history' = Append(history, TradeOf(positions[i]))

Init ==
  /\ mode \in Modes
  /\ now = 0 /\ positions = <<>> /\ history = <<>>
  /\ work = "idle" /\ snap = NoSnapshot
  /\ failed = <<>> /\ queue = <<>>
  /\ verdict = {} /\ alerted = {} /\ refused = {}
  /\ breached = FALSE

-------------------------------------------------------------------------------
(* The trader, the market and the clock.                                   *)

Open(kind) ==
  /\ Opened < MaxTickets
  /\ positions' = Append(positions,
       [ticket |-> Opened + 1, symbol |-> kind.symbol, openTime |-> now, risk |-> kind.risk,
        sl |-> kind.sl, tp |-> kind.tp, profit |-> 0])
  /\ UNCHANGED <<mode, now, history, cycle, breached>>

CloseByHand(i) ==
  /\ Closed(i)
  /\ UNCHANGED <<mode, now, cycle>>
  /\ breached' = (breached \/ OverDailyLoss')

Market(i, profit) ==
  /\ positions[i].profit # profit
  /\ positions' = [positions EXCEPT ![i].profit = profit]
  /\ UNCHANGED <<mode, now, history, cycle>>
  /\ breached' = (breached \/ OverDailyLoss')

Tick ==
  /\ now < MaxTime
  /\ now' = now + 1
  /\ UNCHANGED <<mode, trading, cycle>>
  /\ breached' = (breached \/ OverDailyLoss')

-------------------------------------------------------------------------------
(* run_once: the snapshot.                                                  *)

\* account_info: balance and equity.
TakeAccount ==
  /\ work = "idle"
  /\ work' = "positions"
  /\ snap' = [snap EXCEPT !.balance = Balance, !.equity = Balance + TotalProfit(positions)]
  /\ breached' = OverDailyLoss
  /\ UNCHANGED <<mode, now, trading, failed, queue, verdict, alerted, refused>>

\* positions_get, and the specs of the symbols.
TakePositions ==
  /\ work = "positions"
  /\ work' = "history"
  /\ snap' = [snap EXCEPT !.positions = positions, !.symbolInfo = SymbolInfo]
  /\ UNCHANGED <<mode, now, trading, failed, queue, verdict, alerted, refused, breached>>

\* history_deals_get, a call later; then the checks and the log.
TakeHistory ==
  /\ work = "history"
  /\ snap' = [snap EXCEPT !.asOf = now, !.trades = ClosedToday]
  /\ \E results \in {Evaluate(Rules, snap')} : failed' = Failed(results)
  /\ verdict' = ToSet(failed')
  /\ work' = "handle"
  /\ UNCHANGED <<mode, now, trading, queue, alerted, refused, breached>>

-------------------------------------------------------------------------------
(* The enforcer's loop over the failed results.                             *)

\* Mutant: a missing stop-loss is acted on like a cooldown violation.
OrdersEagerly(result) ==
  IF mode = "passive" THEN <<>>
  ELSE IF result.rule \in DailyLossRules THEN [i \in DOMAIN positions |-> positions[i].ticket]
  ELSE IF result.rule \in {"consecutive_loss_cooldown", "stop_loss_required"} THEN <<result.ticket>>
  ELSE <<>>

\* enforce_hard_safety: the tickets to close for a result, in order.
Orders(result) ==
  IF mode = "passive" THEN <<>>
  ELSE IF result.rule \in DailyLossRules THEN [i \in DOMAIN positions |-> positions[i].ticket]
  ELSE IF result.rule = "consecutive_loss_cooldown" THEN <<result.ticket>>
  ELSE <<>>

\* Mutant: only the first failed result is looked at.
HandleFirst ==
  /\ work = "handle" /\ failed # <<>>
  /\ failed' = <<>>
  /\ alerted' = alerted \union {Head(failed)}
  /\ queue' = Orders(Head(failed))
  /\ work' = IF queue' = <<>> THEN "handle" ELSE "close"
  /\ UNCHANGED <<mode, now, trading, snap, verdict, refused, breached>>

\* The alert, then the action.  close_all_positions lists the terminal's
\* positions anew; a single close has a ticket of the snapshot.
HandleNext ==
  /\ work = "handle" /\ failed # <<>>
  /\ failed' = Tail(failed)
  /\ alerted' = alerted \union {Head(failed)}
  /\ queue' = Orders(Head(failed))
  /\ work' = IF queue' = <<>> THEN "handle" ELSE "close"
  /\ UNCHANGED <<mode, now, trading, snap, verdict, refused, breached>>

\* close_position succeeds; all() goes on to the next one.
CloseDone ==
  /\ work = "close"
  /\ Head(queue) \notin Refusing \union Raising
  /\ \E i \in DOMAIN positions : positions[i].ticket = Head(queue) /\ Closed(i)
  /\ queue' = Tail(queue)
  /\ work' = IF queue' = <<>> THEN "handle" ELSE "close"
  /\ UNCHANGED <<mode, now, snap, failed, verdict, alerted, refused>>
  /\ breached' = (breached \/ OverDailyLoss')

\* Mutant: the list in progress is not given up.
CloseFailsKeepsList ==
  /\ work = "close"
  /\ Head(queue) \notin Tickets(positions) \/ Head(queue) \in Refusing
  /\ refused' = refused \union ({Head(queue)} \intersect Tickets(positions))
  /\ work' = "handle"
  /\ UNCHANGED <<mode, now, trading, snap, failed, queue, verdict, alerted, breached>>

\* close_position returns False, because the broker refuses or the position
\* is gone: all() asks for no other.
CloseFails ==
  /\ work = "close"
  /\ Head(queue) \notin Tickets(positions) \/ Head(queue) \in Refusing
  /\ refused' = refused \union ({Head(queue)} \intersect Tickets(positions))
  /\ queue' = <<>>
  /\ work' = "handle"
  /\ UNCHANGED <<mode, now, trading, snap, failed, verdict, alerted, breached>>

\* run_once is left, and with it all it held.
Left ==
  /\ work' = "idle" /\ snap' = NoSnapshot
  /\ failed' = <<>> /\ queue' = <<>>
  /\ verdict' = {} /\ alerted' = {} /\ refused' = {}

\* close_position raises: run_forever logs it and the cycle is over.
CloseRaises ==
  /\ work = "close"
  /\ Head(queue) \in Tickets(positions) \intersect Raising
  /\ Left
  /\ UNCHANGED <<mode, now, trading, breached>>

EndCycle ==
  /\ work = "handle" /\ failed = <<>>
  /\ Left
  /\ UNCHANGED <<mode, now, trading, breached>>

Trader == \/ \E kind \in Kinds : Open(kind)
          \/ \E i \in DOMAIN positions : CloseByHand(i)

RunOnce == \/ TakeAccount \/ TakePositions \/ TakeHistory
           \/ HandleNext \/ CloseDone \/ CloseFails \/ CloseRaises
           \/ EndCycle

Next ==
  \/ Trader
  \/ \E i \in DOMAIN positions, profit \in Profits : Market(i, profit)
  \/ Tick
  \/ RunOnce

Spec == Init /\ [][Next]_vars

\* run_forever calls run_once again and again; the rest is up to the world.
FairSpec == Spec /\ WF_vars(RunOnce)

-------------------------------------------------------------------------------
(* Properties.                                                              *)

TypeOK ==
  /\ mode \in Modes /\ now \in 0..MaxTime
  /\ positions \in Seq(Position) /\ history \in Seq(Trade) /\ Opened <= MaxTickets
  /\ DistinctTickets(positions)
  /\ work \in {"idle", "positions", "history", "handle", "close"}
  /\ snap \in AccountSnapshot /\ breached \in BOOLEAN
  /\ failed \in Seq(CheckResult) /\ queue \in Seq(Nat)
  /\ verdict \subseteq CheckResult /\ refused \subseteq Refusing
  /\ ToSet(failed) \union alerted \subseteq verdict
  /\ (queue # <<>>) = (work = "close")

\* An order to close a position has its cause in the cycle's own verdict:
\* the daily loss, or a cooldown violation by that very position; and it is
\* never sent in passive mode.
ClosesOnlyForCause ==
  [][queue' # queue =>
       \A t \in Tickets(positions) \ Tickets(positions') :
         /\ mode # "passive"
         /\ \E r \in verdict : \/ r.rule \in DailyLossRules
                               \/ r.rule = "consecutive_loss_cooldown" /\ r.ticket = t]_vars

\* At the end of a cycle no position that the snapshot shows to have been
\* opened in a running cooldown is left, but those the broker would not close.
CooldownEnforced ==
  work = "handle" /\ failed = <<>> /\ mode # "passive" =>
    \A p \in ToSet(snap.positions) :
      InCooldown(Rules, snap.trades, snap.asOf) /\ p.openTime > Last(snap.trades).closeTime =>
        p.ticket \notin Tickets(positions) \ refused

\* "Closes all open positions" on a breach of the daily loss: the account
\* keeps coming back to where the loss is within its limit or nothing is
\* open but what the broker will not close.
EventuallyFlat ==
  mode # "passive" =>
    []<>(~OverDailyLoss \/ Tickets(positions) \subseteq Refusing \union Raising)

\* Every failed check was alerted when the enforcer is through with a cycle,
\* whatever became of the orders of the checks before it, unless one raised.
AlertsAll == work = "handle" /\ failed = <<>> => verdict = alerted

\* A daily loss is acted on only if the account really had it at some time
\* during the cycle.
NoPhantomBreach ==
  (\E r \in verdict : r.rule = "max_daily_loss") => breached

\* A position opened in a cooldown is a violation as long as that cooldown
\* runs ("no new positions may be opened for cooldown_minutes").
LockoutHolds ==
  work = "handle" /\ snap.asOf = now /\ ToSet(failed) = verdict =>
    \A p \in ToSet(snap.positions) :
      LET earlier == Subsequence(history, {i \in DOMAIN history :
                                   /\ history[i].closeTime < p.openTime
                                   /\ Day(history[i].closeTime) = Day(p.openTime)})
      IN  /\ \A t \in ToSet(history) : t.closeTime # p.openTime
          /\ p.ticket \in Tickets(positions)
          /\ InCooldown(Rules, earlier, p.openTime)
          /\ now < Last(earlier).closeTime + Rules.cooldown
          => p.ticket \in {r.ticket : r \in {r \in verdict : r.rule = "consecutive_loss_cooldown"}}

===============================================================================

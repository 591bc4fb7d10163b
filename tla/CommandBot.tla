------------------------------ MODULE CommandBot ------------------------------
(***************************************************************************)
(* TelegramCommandBot: the loop that fetches updates from Telegram in       *)
(* batches and carries out the commands in them, one after the other, some  *)
(* of them for all accounts.  Telegram keeps every update until a getUpdates*)
(* with a higher offset arrives; the bot keeps its offset in memory only.   *)
(* What a command changes is the pause switch of an account, as its state   *)
(* file shows it; the file itself is in PausableEnforcer, the setters of    *)
(* rules, which have a single account, in RulesStore.                       *)
(***************************************************************************)
EXTENDS Integers, SequencesExt

CONSTANTS
  AccountOrder,      \* the accounts, in the order of accounts.yaml
  authorized_user_ids, \* the whitelist; empty for open access
  Updates,           \* the updates people may send
  Nothing,           \* not a state of a switch
  MaxUpdates,        \* bound: updates ever sent
  MaxBatch,          \* updates in one answer of getUpdates (100 at Telegram)
  MaxStarts,         \* bound: starts of the bot after the first
  MaxFailures        \* bound: writes of a state file that fail

Accounts == ToSet(AccountOrder)
Switch   == {"active", "paused"}

ASSUME CommandBotAssumption ==
  /\ AccountOrder \in Seq(Accounts) /\ IsInjective(AccountOrder)
  /\ Accounts \cap {"all"} = {} /\ Nothing \notin Switch
  /\ \A u \in Updates : u.command \in {"chatter", "status", "pause", "resume"}
  /\ MaxUpdates \in Nat /\ MaxBatch \in Nat /\ MaxStarts \in Nat /\ MaxFailures \in Nat

VARIABLES
  inbox,     \* every update ever sent, its update_id the index
  confirmed, \* updates up to this one are no longer delivered by Telegram
  pc,        \* "head" of the loop, "wait" for getUpdates, "batch", "dispatch", "ended", "down"
  offset,    \* _offset
  last,      \* the last update of the batch in hand
  todo,      \* accounts the command in hand has still to change
  stop,      \* _stop_event
  switch,    \* the switch of every account
  starts,    \* starts so far
  failures,  \* failed writes so far
  executed,  \* history: <<update, account>> pairs carried out
  answered   \* history: updates whose sender received the handler's reply

bot  == <<pc, offset, last, todo, stop>>
vars == <<inbox, confirmed, bot, switch, starts, failures, executed, answered>>

-------------------------------------------------------------------------------

Authorized(update) == authorized_user_ids = {} \/ update.from \in authorized_user_ids

\* _resolve_many, with no account where it raises CommandError.
Resolve(token) ==
  IF token = "all" THEN AccountOrder ELSE IF token \in Accounts THEN <<token>> ELSE <<>>

\* Mutant: the whitelist is not consulted.
TargetsForAll(update) ==
  IF update.command \in {"pause", "resume"} THEN Resolve(update.token) ELSE <<>>

\* The accounts an update changes, in the order in which it does.
Targets(update) ==
  IF update.command \in {"pause", "resume"} /\ Authorized(update)
  THEN Resolve(update.token) ELSE <<>>

Setting(update) == IF update.command = "pause" THEN "paused" ELSE "active"

\* Updates taken from the batch since the start, or before it.
Taken == IF offset = 0 THEN confirmed ELSE offset - 1

\* The last update that fits into an answer.
BatchEnd == IF Len(inbox) < Taken + MaxBatch THEN Len(inbox) ELSE Taken + MaxBatch

Init ==
  /\ inbox = <<>> /\ confirmed = 0
  /\ pc = "head" /\ offset = 0 /\ last = 0 /\ todo = <<>> /\ stop = FALSE
  /\ switch = [a \in Accounts |-> "active"]
  /\ starts = 0 /\ failures = 0
  /\ executed = {} /\ answered = {}

Send(update) ==
  /\ Len(inbox) < MaxUpdates
  /\ inbox' = Append(inbox, update)
  /\ UNCHANGED <<confirmed, bot, switch, starts, failures, executed, answered>>

-------------------------------------------------------------------------------
(* run_forever and _poll_once.                                              *)

\* The stop flag is looked at between two polls only.
Ask ==
  /\ pc = "head" /\ ~stop
  /\ pc' = "wait"
  /\ UNCHANGED <<inbox, confirmed, offset, last, todo, stop, switch, starts, failures, executed, answered>>

Quit ==
  /\ pc = "head" /\ stop
  /\ pc' = "ended"
  /\ UNCHANGED <<inbox, confirmed, offset, last, todo, stop, switch, starts, failures, executed, answered>>

\* Mutant: what was delivered is not delivered again.
DeliverAndForget ==
  /\ pc = "wait"
  /\ confirmed' = BatchEnd
  /\ last' = BatchEnd
  /\ pc' = "batch"
  /\ UNCHANGED <<inbox, offset, todo, stop, switch, starts, failures, executed, answered>>

\* getUpdates: Telegram drops what is below the offset and answers with the
\* earliest updates it still has, or with none when the long poll is over.
Deliver ==
  /\ pc = "wait"
  /\ confirmed' = Taken
  /\ last' = BatchEnd
  /\ pc' = "batch"
  /\ UNCHANGED <<inbox, offset, todo, stop, switch, starts, failures, executed, answered>>

\* Mutant: the update that may have caused the failure is passed over.
LostSkips ==
  /\ pc = "wait"
  /\ confirmed' \in {confirmed, Taken}
  /\ offset' = IF Taken < Len(inbox) THEN Taken + 2 ELSE offset
  /\ pc' = "head"
  /\ UNCHANGED <<inbox, last, todo, stop, switch, starts, failures, executed, answered>>

\* A RequestException: the request or its answer was lost.
Lost ==
  /\ pc = "wait"
  /\ confirmed' \in {confirmed, Taken}
  /\ pc' = "head"
  /\ UNCHANGED <<inbox, offset, last, todo, stop, switch, starts, failures, executed, answered>>

\* Mutant: the offset is the update's own id.
TakeAgain ==
  /\ pc = "batch" /\ Taken < last
  /\ LET update == inbox[Taken + 1]
     IN  /\ todo' = Targets(update)
         /\ pc' = IF update.command = "chatter" THEN "batch" ELSE "dispatch"
  /\ offset' = Taken + 1
  /\ UNCHANGED <<inbox, confirmed, last, stop, switch, starts, failures, executed, answered>>

\* The offset moves on before the update is handled.
Take ==
  /\ pc = "batch" /\ Taken < last
  /\ LET update == inbox[Taken + 1]
     IN  /\ todo' = Targets(update)
         /\ pc' = IF update.command = "chatter" THEN "batch" ELSE "dispatch"
  /\ offset' = Taken + 2
  /\ UNCHANGED <<inbox, confirmed, last, stop, switch, starts, failures, executed, answered>>

\* _cmd_pause and _cmd_resume: one account after the other.
Apply ==
  /\ pc = "dispatch" /\ todo # <<>>
  /\ switch' = [switch EXCEPT ![Head(todo)] = Setting(inbox[Taken])]
  /\ executed' = executed \union {<<Taken, Head(todo)>>}
  /\ todo' = Tail(todo)
  /\ UNCHANGED <<inbox, confirmed, pc, offset, last, stop, starts, failures, answered>>

\* Mutant: the exception is caught in the loop, which polls on.
ApplyFailsQuietly ==
  /\ pc = "dispatch" /\ todo # <<>>
  /\ failures < MaxFailures
  /\ failures' = failures + 1
  /\ todo' = <<>> /\ pc' = "head"
  /\ UNCHANGED <<inbox, confirmed, offset, last, stop, switch, starts, executed, answered>>

\* An OSError of _persist: nobody catches it and the thread is over.
ApplyFails ==
  /\ pc = "dispatch" /\ todo # <<>>
  /\ failures < MaxFailures
  /\ failures' = failures + 1
  /\ pc' = "ended"
  /\ UNCHANGED <<inbox, confirmed, offset, last, todo, stop, switch, starts, executed, answered>>

\* _reply, whose failure is logged and forgotten.
Reply ==
  /\ pc = "dispatch" /\ todo = <<>>
  /\ answered' \in {answered, answered \union {Taken}}
  /\ pc' = "batch"
  /\ UNCHANGED <<inbox, confirmed, offset, last, todo, stop, switch, starts, failures, executed>>

EndBatch ==
  /\ pc = "batch" /\ Taken = last
  /\ pc' = "head"
  /\ UNCHANGED <<inbox, confirmed, offset, last, todo, stop, switch, starts, failures, executed, answered>>

-------------------------------------------------------------------------------
(* The process around the loop.                                             *)

Running == pc \notin {"ended", "down"}

Stop ==
  /\ Running /\ stop' = TRUE
  /\ UNCHANGED <<inbox, confirmed, pc, offset, last, todo, switch, starts, failures, executed, answered>>

Crash ==
  /\ Running /\ pc' = "down"
  /\ UNCHANGED <<inbox, confirmed, offset, last, todo, stop, switch, starts, failures, executed, answered>>

\* A new object: its offset is 0 and Telegram's memory decides.
Start ==
  /\ ~Running /\ starts < MaxStarts
  /\ starts' = starts + 1
  /\ pc' = "head" /\ offset' = 0 /\ last' = 0 /\ todo' = <<>> /\ stop' = FALSE
  /\ UNCHANGED <<inbox, confirmed, switch, failures, executed, answered>>

Poll   == Ask \/ Quit \/ Deliver \/ Lost
Handle == Take \/ Apply \/ ApplyFails \/ Reply \/ EndBatch

Next ==
  \/ \E update \in Updates : Send(update)
  \/ Poll \/ Handle
  \/ Stop \/ Crash \/ Start

Spec == Init /\ [][Next]_vars

\* The thread goes on, and a request that is repeated for ever is answered
\* some time.  Nothing makes people send, processes die or start again.
FairSpec ==
  /\ Spec
  /\ WF_vars(Ask \/ Take \/ Apply \/ Reply \/ EndBatch)
  /\ SF_vars(Deliver)

-------------------------------------------------------------------------------
(* Properties.                                                              *)

TypeOK ==
  /\ inbox \in Seq(Updates)
  /\ pc \in {"head", "wait", "batch", "dispatch", "ended", "down"} /\ stop \in BOOLEAN
  /\ offset \in Nat /\ confirmed \in Nat /\ Taken \in confirmed..Len(inbox)
  /\ pc \in {"batch", "dispatch"} => last \in Taken..Len(inbox)
  /\ todo \in Seq(Accounts)
  /\ pc = "dispatch" => Taken > confirmed
  /\ switch \in [Accounts -> Switch]
  /\ starts \in 0..MaxStarts /\ failures \in 0..MaxFailures
  /\ executed \subseteq (1..Len(inbox)) \X Accounts /\ answered \subseteq 1..Len(inbox)

\* The update is a command of an authorised user for the account.
IsFor(update, account) ==
  /\ update.command \in {"pause", "resume"} /\ Authorized(update)
  /\ update.token \in {account, "all"}

\* What an account sees of the updates, and how many of them it has behind it.
Effects(account) ==
  [i \in DOMAIN inbox |-> IF IsFor(inbox[i], account) THEN Setting(inbox[i]) ELSE Nothing]

Cursor(account) == IF account \in ToSet(todo) THEN Taken - 1 ELSE Taken

\* What one account's switch sees of the bot: a log of commands, some of them
\* not for it, that is replayed from what Telegram has not forgotten.
Replay(account) == INSTANCE ReplayedLog WITH
  Values    <- Switch,
  Default   <- "active",
  log       <- Effects(account),
  forgotten <- confirmed,
  at        <- Cursor(account),
  value     <- switch[account]

\* Polling in batches, with lost answers, failed writes, crashes and
\* redelivery, is for every account a ReplayedLog: no command is skipped, none
\* overtakes another, and only a new start goes back.
IsReplayedLog ==
  /\ \A a \in Accounts : Replay(a)!Init
  /\ [][\A a \in Accounts : Replay(a)!Next \/ UNCHANGED Replay(a)!vars]_vars

Executed(i) == \A a \in Accounts : IsFor(inbox[i], a) => <<i, a>> \in executed

\* An update that Telegram forgot, or whose sender was answered, was carried
\* out for every account it names: no crash, no failed write in the middle of
\* "/pause all" and no lost answer of getUpdates loses part of a command.
AtLeastOnce == \A i \in (1..confirmed) \union answered : Executed(i)

\* Between two polls, when all was handled, every switch is as the newest
\* authorised command for it says, whatever was replayed on the way there.
NewestDecides ==
  pc \in {"head", "wait"} /\ Taken = Len(inbox) =>
    \A a \in Accounts : Replay(a)!IsOutcome(switch[a], Len(inbox))

\* If the bot is up for good and not told to stop, every update sent is carried
\* out: a poll that fails is repeated from where the last one ended.
EventuallyExecuted ==
  <>[](Running /\ ~stop) =>
    \A i \in 1..MaxUpdates : (Len(inbox) >= i) ~> (Len(inbox) >= i /\ Executed(i))

===============================================================================

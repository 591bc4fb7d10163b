------------------------------ MODULE Supervisor ------------------------------
(***************************************************************************)
(* A process from its start to its exit: build one runtime per account,     *)
(* start a thread per worker and one for the bot, wait, stop, join.         *)
(* scripts/run_monitor.py runs all accounts and the bot under a             *)
(* MultiAccountSupervisor; run_account.py and run_bot.py run one worker, or *)
(* the bot, in the main thread.  What a cycle does is in AccountWorker, what*)
(* the bot does in CommandBot; here both are steps that end or hang.        *)
(***************************************************************************)
EXTENDS Integers, SequencesExt

CONSTANTS
  AccountOrder,  \* the accounts, in the order of accounts.yaml
  Bot,           \* the thread of the command bot
  Configs,       \* configurations: settings, accounts and environment
  Slow,          \* threads one step of which may take longer than a join waits
  MaxInterrupts  \* bound: how often Ctrl-C is pressed

Accounts == ToSet(AccountOrder)
Threads  == Accounts \union {Bot}

\* Threads are started, and joined, in this order.
Order == Append(AccountOrder, Bot)

ASSUME SupervisorAssumption ==
  /\ AccountOrder \in Seq(Accounts) /\ IsInjective(AccountOrder)  \* load_accounts refuses duplicates
  /\ Bot \notin Accounts
  /\ Slow \subseteq Threads /\ MaxInterrupts \in Nat
  /\ \A c \in Configs :
       /\ c.program \in {"run_monitor", "run_bot"} \union Accounts
       /\ {c.mock, c.env_confirmed, c.commands} \subseteq BOOLEAN
       /\ \A a \in Accounts : c.account[a].mode \in {"passive", "active", "hybrid"}

VARIABLES
  config,     \* run_monitor, run_bot or the account of run_account; and all it reads
  main,       \* "build", "launch", "wait", "shutdown", "exited" or "failed"
  built,      \* how far in AccountOrder the building is
  launched,   \* how far in Order the starting of threads is
  joined,     \* how far in Order _shutdown is
  thread,     \* "none", "connect", "head" of its loop, "cycle", "log", "act"; "ended", or
              \* cut off in one of these: "broken" by an exception, "killed" by the exit
  connected,  \* accounts whose bridge is connected
  torn,       \* accounts in whose compliance log a line is cut off: no report can be read
  interrupts, \* Ctrl-C so far
  hurried     \* history: one of them came where nobody catches it

progress == <<built, launched, joined>>
vars     == <<config, main, progress, thread, connected, torn, interrupts, hurried>>

-------------------------------------------------------------------------------
(* What the configuration says.                                             *)

Settings(a) == config.account[a]

\* The accounts to build: every enabled one, or that of run_account.
Selected == {a \in Accounts : Settings(a).enabled /\ config.program \in {"run_monitor", "run_bot", a}}

\* The threads to run.
Crew == IF config.program = "run_bot" THEN {Bot}
        ELSE Selected \union {t \in {Bot} : config.program = "run_monitor" /\ config.commands}

\* require_live_execution_confirmed.
Confirmed(a) == Settings(a).allow_live_execution /\ config.env_confirmed

\* Mutant: the environment variable is enough.
EnforcerBuildsByEnvironment(a) == Settings(a).mode = "passive" \/ config.env_confirmed

EnforcerBuilds(a) == Settings(a).mode = "passive" \/ Confirmed(a)

\* A real bridge wants login, password and server.
BridgeBuilds(a) == config.mock \/ Settings(a).credentials

\* build_account_runtime raises nothing.
Builds(a) == Settings(a).rules = "valid" /\ BridgeBuilds(a) /\ EnforcerBuilds(a)

\* live_execution_enabled of the bridge; a mock refuses every order.
LiveExecution(a) ==
  ~config.mock /\ Settings(a).mode # "passive" /\ Settings(a).allow_live_execution

Reachable(a) == config.mock \/ Settings(a).reachable

InCycle(t) == thread[t] \in {"cycle", "log", "act"}

-------------------------------------------------------------------------------
(* The main thread.                                                         *)

Init ==
  /\ config \in Configs
  /\ main = "build" /\ built = 0 /\ launched = 0 /\ joined = 0
  /\ thread = [t \in Threads |-> "none"] /\ connected = {} /\ torn = {}
  /\ interrupts = 0 /\ hurried = FALSE

\* Mutant: what building an account raises is logged, and its worker is started.
BuildUnchecked ==
  /\ main = "build" /\ built < Len(AccountOrder)
  /\ built' = built + 1
  /\ UNCHANGED <<config, main, launched, joined, thread, connected, torn, interrupts, hurried>>

Build ==
  /\ main = "build" /\ built < Len(AccountOrder)
  /\ AccountOrder[built + 1] \in Selected => Builds(AccountOrder[built + 1])
  /\ built' = built + 1
  /\ UNCHANGED <<config, main, launched, joined, thread, connected, torn, interrupts, hurried>>

\* Whatever is raised while building ends the process, before any thread or
\* connection: for a bad account, no account at all, a bot that is switched off.
BuildFails ==
  /\ main = "build"
  /\ \/ built < Len(AccountOrder) /\ AccountOrder[built + 1] \in {a \in Selected : ~Builds(a)}
     \/ Selected = {}
     \/ built = Len(AccountOrder) /\ config.program = "run_bot" /\ ~config.commands
  /\ main' = "failed"
  /\ UNCHANGED <<config, progress, thread, connected, torn, interrupts, hurried>>

BuildDone ==
  /\ main = "build" /\ built = Len(AccountOrder) /\ Selected # {}
  /\ config.program = "run_bot" => config.commands
  /\ main' = "launch"
  /\ UNCHANGED <<config, progress, thread, connected, torn, interrupts, hurried>>

Launch ==
  /\ main = "launch"
  /\ launched' = launched + 1
  /\ thread' = [thread EXCEPT ![Order[launched']] =
                  IF Order[launched'] \notin Crew THEN "none"
                  ELSE IF Order[launched'] = Bot THEN "head" ELSE "connect"]
  /\ main' = IF launched' = Len(Order) THEN "wait" ELSE "launch"
  /\ UNCHANGED <<config, built, joined, connected, torn, interrupts, hurried>>

\* The interpreter exits and takes the daemon threads with it, one that is
\* writing its log in the middle of a line maybe.
Exit ==
  /\ main' = "exited"
  /\ thread' = [t \in Threads |-> IF thread[t] \in {"none", "ended"} THEN thread[t] ELSE "killed"]
  /\ torn' \in {torn, torn \union {a \in Accounts : thread[a] = "log"}}
  /\ UNCHANGED <<config, progress>>

\* Mutant: the supervisor waits only as long as all workers run.
AnyEnded ==
  /\ main = "wait"
  /\ \E t \in Crew : thread[t] = "ended"
  /\ IF config.program = "run_monitor"
     THEN main' = "shutdown" /\ UNCHANGED <<config, progress, thread, torn>>
     ELSE Exit
  /\ UNCHANGED <<connected, interrupts, hurried>>

\* The wait loop: the supervisor watches its workers, not the bot; a program
\* with a single thread is over when that is.
AllEnded ==
  /\ main = "wait"
  /\ \A t \in Crew : thread[t] = "ended" \/ (t = Bot /\ config.program = "run_monitor")
  /\ IF config.program = "run_monitor"
     THEN main' = "shutdown" /\ UNCHANGED <<config, progress, thread, torn>>
     ELSE Exit
  /\ UNCHANGED <<connected, interrupts, hurried>>

\* Mutant: the joins have no timeout.
JoinForever ==
  /\ main = "shutdown" /\ joined < Len(Order)
  /\ Order[joined + 1] \in Crew => thread[Order[joined + 1]] = "ended"
  /\ joined' = joined + 1
  /\ UNCHANGED <<config, main, built, launched, thread, connected, torn, interrupts, hurried>>

\* _shutdown has told all threads to stop; it gives each of them ten seconds.
Join ==
  /\ main = "shutdown" /\ joined < Len(Order)
  /\ Order[joined + 1] \in Crew \ Slow => thread[Order[joined + 1]] = "ended"
  /\ joined' = joined + 1
  /\ UNCHANGED <<config, main, built, launched, thread, connected, torn, interrupts, hurried>>

ShutdownDone ==
  /\ main = "shutdown" /\ joined = Len(Order)
  /\ Exit
  /\ UNCHANGED <<connected, interrupts, hurried>>

\* Mutant: the interrupt is not caught in the wait loop.
InterruptUncaught ==
  /\ interrupts < MaxInterrupts /\ config.program = "run_monitor"
  /\ main \in {"launch", "wait", "shutdown"}
  /\ interrupts' = interrupts + 1
  /\ hurried' = (hurried \/ main # "wait")
  /\ Exit
  /\ UNCHANGED connected

\* KeyboardInterrupt under the supervisor: caught in the wait loop only.
Interrupt ==
  /\ interrupts < MaxInterrupts /\ config.program = "run_monitor"
  /\ interrupts' = interrupts + 1
  /\ \/ main = "wait" /\ main' = "shutdown" /\ UNCHANGED <<config, progress, thread, torn, hurried>>
     \/ main \in {"launch", "shutdown"} /\ hurried' = TRUE /\ Exit
  /\ UNCHANGED connected

\* KeyboardInterrupt in a program whose main thread is the worker, or the bot:
\* it breaks into the cycle, which stays half done, but the log is closed with a
\* whole line and run_forever's finally still disconnects.
InterruptSingle ==
  /\ interrupts < MaxInterrupts /\ config.program # "run_monitor" /\ main = "wait"
  /\ interrupts' = interrupts + 1
  /\ main' = "exited"
  /\ thread' = [t \in Threads |-> IF InCycle(t) THEN "broken"
                                 ELSE IF thread[t] = "none" THEN "none" ELSE "ended"]
  /\ connected' = {}
  /\ UNCHANGED <<config, progress, torn, hurried>>

-------------------------------------------------------------------------------
(* The threads.                                                             *)

Told == main = "shutdown"

\* AccountWorker.run_forever tries to connect once.
Connect(a) ==
  /\ thread[a] = "connect"
  /\ thread' = [thread EXCEPT ![a] = IF Reachable(a) THEN "head" ELSE "ended"]
  /\ connected' = IF Reachable(a) THEN connected \union {a} ELSE connected
  /\ UNCHANGED <<config, main, progress, torn, interrupts, hurried>>

BeginCycle(t) ==
  /\ thread[t] = "head" /\ ~Told
  /\ thread' = [thread EXCEPT ![t] = "cycle"]
  /\ UNCHANGED <<config, main, progress, connected, torn, interrupts, hurried>>

\* run_once: the compliance log is appended to after the checks and before
\* the enforcer acts.
LogCycle(a) ==
  /\ thread[a] = "cycle"
  /\ thread' = [thread EXCEPT ![a] = "log"]
  /\ UNCHANGED <<config, main, progress, connected, torn, interrupts, hurried>>

Act(a) ==
  /\ thread[a] = "log"
  /\ thread' = [thread EXCEPT ![a] = "act"]
  /\ UNCHANGED <<config, main, progress, connected, torn, interrupts, hurried>>

\* Mutant: an exception leaves the loop.
EndCycleOrLeave(t) ==
  /\ InCycle(t)
  /\ \/ thread' = [thread EXCEPT ![t] = "head"] /\ UNCHANGED connected
     \/ thread' = [thread EXCEPT ![t] = "ended"] /\ connected' = connected \ {t}
  /\ UNCHANGED <<config, main, progress, torn, interrupts, hurried>>

\* A cycle ends, by return or by an exception that run_forever logs; then the
\* thread sleeps, until the next cycle or until it is told to stop.
EndCycle(t) ==
  /\ InCycle(t)
  /\ thread' = [thread EXCEPT ![t] = "head"]
  /\ UNCHANGED <<config, main, progress, connected, torn, interrupts, hurried>>

\* An OSError of a command ends the bot.
BotDies ==
  /\ thread[Bot] = "cycle"
  /\ thread' = [thread EXCEPT ![Bot] = "ended"]
  /\ UNCHANGED <<config, main, progress, connected, torn, interrupts, hurried>>

\* Mutant: only the loop is left.
LeaveConnected(t) ==
  /\ thread[t] = "head" /\ Told
  /\ thread' = [thread EXCEPT ![t] = "ended"]
  /\ UNCHANGED <<config, main, progress, connected, torn, interrupts, hurried>>

\* The stop event ends the loop between two cycles, and finally disconnects.
Leave(t) ==
  /\ thread[t] = "head" /\ Told
  /\ thread' = [thread EXCEPT ![t] = "ended"]
  /\ connected' = connected \ {t}
  /\ UNCHANGED <<config, main, progress, torn, interrupts, hurried>>

RunWorker(a) == Connect(a) \/ LogCycle(a) \/ Act(a)

Run(t) == (t # Bot /\ RunWorker(t)) \/ BeginCycle(t) \/ EndCycle(t) \/ Leave(t)

Main == Build \/ BuildFails \/ BuildDone \/ Launch \/ AllEnded \/ Join \/ ShutdownDone

Next == Main \/ Interrupt \/ InterruptSingle \/ (\E t \in Threads : Run(t)) \/ BotDies

Spec == Init /\ [][Next]_vars

\* The main thread goes on, and so does every thread that does not hang.
FairSpec == Spec /\ WF_vars(Main) /\ \A t \in Threads \ Slow : WF_vars(Run(t))

-------------------------------------------------------------------------------
(* Properties.                                                              *)

TypeOK ==
  /\ config \in Configs
  /\ main \in {"build", "launch", "wait", "shutdown", "exited", "failed"}
  /\ built \in 0..Len(AccountOrder) /\ launched \in 0..Len(Order) /\ joined \in 0..Len(Order)
  /\ thread \in [Threads -> {"none", "connect", "head", "cycle", "log", "act", "ended", "broken",
                             "killed"}]
  /\ connected \subseteq {a \in Accounts : InCycle(a) \/ thread[a] \in {"head", "killed"}}
  /\ torn \subseteq Accounts
  /\ interrupts \in 0..MaxInterrupts /\ hurried \in BOOLEAN

\* No worker runs for an account that cannot be built, be it for its rules,
\* its credentials or a missing confirmation, and no connection is made before
\* all the building is over, well or not.
StartsTheBuilt ==
  /\ \A a \in Accounts : thread[a] # "none" => a \in Selected /\ Builds(a)
  /\ connected # {} => main \notin {"build", "failed"}

\* The documented claim: a missing confirmation keeps its own account from
\* starting, "other accounts are unaffected".  When the start fails although an
\* account could be built, something else is wrong with another one, or with
\* the bot.
OthersUnaffected ==
  main = "failed" /\ (\E a \in Selected : Builds(a)) =>
    \/ \E b \in Selected : Settings(b).rules # "valid" \/ ~BridgeBuilds(b)
    \/ config.program = "run_bot" /\ ~config.commands

\* The enforcer's gate and the bridge's flag, computed from the configuration
\* in two places, agree for every running worker: none that acts lacks either
\* confirmation, none with a terminal is refused by its own bridge, and no
\* bridge of a passive one takes orders.
LocksAgree ==
  \A a \in Accounts : thread[a] = "act" =>
    IF Settings(a).mode = "passive" THEN ~LiveExecution(a)
    ELSE Settings(a).allow_live_execution /\ config.env_confirmed /\ (LiveExecution(a) \/ config.mock)

\* Nothing but a user's interrupt ends the monitoring of an account whose
\* terminal could be reached: no exception of a cycle, no other account that
\* could not be reached, no bot that died.
EndsOnlyOnRequest ==
  main \in {"shutdown", "exited"} /\ interrupts = 0 =>
    \A a \in Crew \ {Bot} : ~Reachable(a)

\* After an exit that was not hurried the bridge of every thread that does not
\* hang is disconnected and its compliance log still readable; and under the
\* supervisor each of them has ended, not been cut off in a cycle.  That last is
\* more than the programs with a single thread do.
CleanExit ==
  main = "exited" /\ ~hurried =>
    \A t \in Crew \ Slow :
      /\ t \notin connected \union torn
      /\ config.program = "run_monitor" => thread[t] = "ended"

\* A shutdown comes to its end although threads hang, and it comes when no
\* worker is left.
Exits ==
  main = "shutdown" \/ (main = "wait" /\ \A t \in Crew \ {Bot} : thread[t] = "ended")
    ~> main = "exited" \/ (config.program = "run_bot" /\ thread[Bot] # "ended")

\* Whatever becomes of the others, an account that can be reached is looked
\* after again and again as long as the process is not told to stop.
WatchesOn ==
  \A a \in Accounts \ Slow :
    main = "wait" /\ a \in Crew /\ Reachable(a) ~> thread[a] = "cycle" \/ main # "wait"

===============================================================================

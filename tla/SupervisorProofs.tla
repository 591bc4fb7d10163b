--------------------------- MODULE SupervisorProofs ---------------------------
(* Theorems about Supervisor for every list of accounts, every set of         *)
(* configurations and of threads that hang, any number of interrupts.         *)
EXTENDS Supervisor, TLAPS

States == {"none", "connect", "head", "cycle", "log", "act", "ended", "broken", "killed"}
Final  == {"none", "ended", "broken", "killed"}

\* All that is behind the building has been built, and before it is finished
\* no thread is started.
BuiltOK ==
  /\ main = "build" => \A i \in 1..built : AccountOrder[i] \in Selected => Builds(AccountOrder[i])
  /\ main \notin {"build", "failed"} => \A a \in Selected : Builds(a)
  /\ main \in {"build", "failed"} => launched = 0

\* The threads of the crew behind launched are started, no others.
StartedOK ==
  /\ \A t \in Threads : thread[t] # "none" => t \in Crew
  /\ \A i \in 1..Len(Order) :
       IF i \in 1..launched THEN Order[i] \in Crew => thread[Order[i]] # "none"
       ELSE thread[Order[i]] = "none"
  /\ main \in {"wait", "shutdown"} => launched = Len(Order)
  /\ main = "launch" => launched < Len(Order)

\* The threads behind joined have ended or hang; when the process is over no
\* thread is left, and only then can a line have been cut off.
JoinedOK ==
  /\ main \notin {"shutdown", "exited"} => joined = 0
  /\ main = "shutdown" => \A i \in 1..joined : Order[i] \in Crew \ Slow => thread[Order[i]] = "ended"
  /\ main = "exited" => \A t \in Threads : thread[t] \in Final
  /\ main # "exited" => torn = {} /\ \A t \in Threads : thread[t] \notin {"broken", "killed"}

\* A worker that is connected ends only when it is told to.
EndedOK ==
  \A a \in Accounts : thread[a] = "ended" /\ Reachable(a) => main \in {"shutdown", "exited"}

Inv == TypeOK /\ BuiltOK /\ StartedOK /\ JoinedOK /\ EndedOK /\ EndsOnlyOnRequest /\ CleanExit

-------------------------------------------------------------------------------
(* The constants and the configuration.                                     *)

LEMMA Bounds == MaxInterrupts \in Nat /\ Slow \subseteq Threads
  BY SupervisorAssumption

\* Every thread has its place in the order, exactly one.
LEMMA OrderIsAll ==
  /\ Len(Order) \in Nat /\ Len(Order) = Len(AccountOrder) + 1 /\ Len(AccountOrder) \in Nat
  /\ \A i \in 1..Len(Order) : Order[i] \in Threads
  /\ \A i \in 1..Len(AccountOrder) : AccountOrder[i] \in Accounts
  /\ \A t \in Threads : \E i \in 1..Len(Order) : Order[i] = t
  /\ \A i, j \in 1..Len(Order) : Order[i] = Order[j] => i = j
  /\ \A a \in Accounts : \E i \in 1..Len(AccountOrder) : AccountOrder[i] = a
<1>1. /\ AccountOrder \in Seq(Accounts) /\ Bot \notin Accounts
      /\ Len(AccountOrder) \in Nat /\ DOMAIN AccountOrder = 1..Len(AccountOrder)
      /\ \A i, j \in DOMAIN AccountOrder : AccountOrder[i] = AccountOrder[j] => i = j
  BY SupervisorAssumption DEF IsInjective
<1>2. \A a \in Accounts : \E i \in 1..Len(AccountOrder) : AccountOrder[i] = a
  BY <1>1 DEF Accounts, ToSet
<1>3. /\ Len(Order) = Len(AccountOrder) + 1
      /\ \A i \in 1..Len(AccountOrder) : Order[i] = AccountOrder[i] /\ AccountOrder[i] \in Accounts
      /\ Order[Len(AccountOrder) + 1] = Bot
  BY <1>1 DEF Order
<1>4. \A t \in Threads : \E i \in 1..Len(Order) : Order[i] = t
  BY <1>1, <1>2, <1>3 DEF Threads
<1>5. \A i \in 1..Len(Order) : i \in 1..Len(AccountOrder) \/ i = Len(AccountOrder) + 1
  BY <1>1, <1>3
<1>6. \A i, j \in 1..Len(Order) : Order[i] = Order[j] => i = j
  BY <1>1, <1>3, <1>5
<1>7. \A i \in 1..Len(Order) : Order[i] \in Threads
  BY <1>3, <1>5 DEF Threads
<1> QED
  BY <1>1, <1>2, <1>3, <1>4, <1>6, <1>7

\* What is computed from the configuration stays as it is.
LEMMA ConfigStable ==
  ASSUME config' = config
  PROVE  /\ Selected' = Selected /\ Crew' = Crew
         /\ \A a \in Accounts : Builds(a)' = Builds(a)
         /\ \A a \in Accounts : Reachable(a)' = Reachable(a)
<1>1. \A a \in Accounts : Settings(a)' = Settings(a)
  BY DEF Settings
<1>2. Selected' = Selected
  BY <1>1 DEF Selected, Settings
<1> QED
  BY <1>2 DEF Crew, Builds, BridgeBuilds, EnforcerBuilds, Reachable, Settings, Confirmed

LEMMA CrewAreThreads == Crew \subseteq Threads /\ Accounts \subseteq Threads /\ Bot \in Threads /\ Bot \notin Accounts
  BY SupervisorAssumption DEF Crew, Selected, Threads

-------------------------------------------------------------------------------
(* The steps of the threads.                                                *)

\* A running thread moves on, and ends only where it may.
LEMMA ThreadMoves ==
  ASSUME Inv, NEW t \in Threads, NEW s \in {"head", "cycle", "log", "act", "ended"},
         thread[t] \in {"connect", "head", "cycle", "log", "act"},
         s = "ended" => t = Bot \/ ~Reachable(t) \/ main = "shutdown",
         thread' = [thread EXCEPT ![t] = s],
         connected' \subseteq connected \union {t},
         t \in connected' => t \in Accounts /\ s # "ended",
         UNCHANGED <<config, main, progress, torn, interrupts, hurried>>
  PROVE  Inv'
<1> USE ConfigStable
<1>1. /\ \A u \in Threads : thread'[u] = IF u = t THEN s ELSE thread[u]
      /\ thread' \in [Threads -> States]
  BY DEF Inv, TypeOK, States, Final
<1>2. main # "exited"
  BY DEF Inv, JoinedOK, States, Final
<1>3. TypeOK'
  <2>1. connected' \subseteq {a \in Accounts : InCycle(a)' \/ thread'[a] \in {"head", "killed"}}
    BY <1>1, CrewAreThreads DEF Inv, TypeOK, InCycle
  <2>2. hurried' \in BOOLEAN
    BY DEF Inv, TypeOK
  <2> QED
    BY <1>1, <2>1, <2>2 DEF Inv, TypeOK, progress
<1>4. BuiltOK'
  <2>1. \A i \in 1..Len(AccountOrder) : AccountOrder[i] \in Accounts
    BY OrderIsAll
  <2>2. built \in 0..Len(AccountOrder) /\ Len(AccountOrder) \in Nat /\ built' = built /\ launched' = launched
    BY OrderIsAll DEF Inv, TypeOK, progress
  <2>3. \A i \in 1..built : AccountOrder[i] \in Accounts
    BY <2>1, <2>2
  <2>4. Selected \subseteq Accounts
    BY DEF Selected
  <2> QED
    BY <2>2, <2>3, <2>4 DEF Inv, BuiltOK
<1>5. StartedOK'
  BY <1>1, OrderIsAll DEF Inv, StartedOK, progress
<1>6. JoinedOK'
  <2>1. joined' = joined /\ joined \in 0..Len(Order) /\ Len(Order) \in Nat
    BY OrderIsAll DEF Inv, TypeOK, progress
  <2>2. \A i \in 1..joined : Order[i] \in Threads
    BY <2>1, OrderIsAll
  <2> QED
    BY <1>1, <1>2, <2>1, <2>2 DEF Inv, JoinedOK
<1>7. EndedOK'
  BY <1>1, CrewAreThreads DEF Inv, EndedOK
<1>8. EndsOnlyOnRequest' /\ CleanExit'
  <2>1. Crew \ {Bot} \subseteq Accounts
    BY CrewAreThreads DEF Threads
  <2> QED
    BY <1>2, <2>1 DEF Inv, EndsOnlyOnRequest, CleanExit
<1> QED
  BY <1>3, <1>4, <1>5, <1>6, <1>7, <1>8 DEF Inv

LEMMA RunStep ==
  ASSUME Inv, NEW t \in Threads, Run(t)
  PROVE  Inv'
<1>1. CASE t # Bot /\ Connect(t)
  <2>1. t \in Accounts
    BY <1>1, SupervisorAssumption DEF Threads
  <2>2. CASE Reachable(t)
    BY <1>1, <2>1, <2>2, ThreadMoves DEF Connect
  <2>3. CASE ~Reachable(t)
    <3>1. t \notin connected
      BY <1>1 DEF Connect, Inv, TypeOK, InCycle
    <3> QED
      BY <1>1, <2>1, <2>3, <3>1, ThreadMoves DEF Connect
  <2> QED
    BY <2>2, <2>3
<1>2. CASE t # Bot /\ (LogCycle(t) \/ Act(t))
  <2>1. t \in Accounts
    BY <1>2, SupervisorAssumption DEF Threads
  <2> QED
    BY <1>2, <2>1, ThreadMoves DEF LogCycle, Act
<1>3. CASE BeginCycle(t)
  BY <1>3, ThreadMoves DEF BeginCycle, Inv, TypeOK
<1>4. CASE EndCycle(t)
  BY <1>4, ThreadMoves DEF EndCycle, InCycle, Inv, TypeOK
<1>5. CASE Leave(t)
  BY <1>5, ThreadMoves DEF Leave, Told
<1> QED
  BY <1>1, <1>2, <1>3, <1>4, <1>5 DEF Run, RunWorker

LEMMA BotDiesStep ==
  ASSUME Inv, BotDies
  PROVE  Inv'
<1>1. Bot \in Threads /\ Bot \notin connected
  BY CrewAreThreads DEF Inv, TypeOK
<1> QED
  BY <1>1, ThreadMoves DEF BotDies

-------------------------------------------------------------------------------
(* The steps of the main thread.                                            *)

LEMMA InitHolds == Init => Inv
<1> SUFFICES ASSUME Init PROVE Inv
  OBVIOUS
<1> USE DEF Init
<1>1. TypeOK
  <2>1. hurried \in BOOLEAN
    OBVIOUS
  <2> QED
    BY <2>1, OrderIsAll, Bounds DEF TypeOK
<1>2. BuiltOK
  BY DEF BuiltOK
<1>3. StartedOK
  BY OrderIsAll DEF StartedOK
<1>4. JoinedOK
  BY DEF JoinedOK
<1>5. EndedOK
  BY CrewAreThreads DEF EndedOK
<1>6. EndsOnlyOnRequest /\ CleanExit
  BY DEF EndsOnlyOnRequest, CleanExit
<1> QED
  BY <1>1, <1>2, <1>3, <1>4, <1>5, <1>6 DEF Inv

\* Before the threads start there is none to disturb.
LEMMA Quiet ==
  ASSUME Inv, main = "build"
  PROVE  /\ \A t \in Threads : thread[t] = "none"
         /\ connected = {} /\ torn = {} /\ launched = 0 /\ joined = 0
<1>1. launched = 0 /\ joined = 0 /\ torn = {}
  BY DEF Inv, BuiltOK, JoinedOK
<1>2. \A t \in Threads : thread[t] = "none"
  BY <1>1, OrderIsAll DEF Inv, StartedOK
<1>3. connected = {}
  BY <1>2, CrewAreThreads DEF Inv, TypeOK, InCycle
<1> QED
  BY <1>1, <1>2, <1>3

LEMMA BuildStep ==
  ASSUME Inv, Build
  PROVE  Inv'
<1> USE DEF Build
<1>1. config' = config /\ built' = built + 1 /\ built \in 0..Len(AccountOrder) /\ built < Len(AccountOrder)
      /\ Len(AccountOrder) \in Nat
  BY OrderIsAll DEF Inv, TypeOK
<1>2. TypeOK'
  <2>1. hurried' \in BOOLEAN
    BY DEF Inv, TypeOK
  <2> QED
    BY <1>1, <2>1 DEF Inv, TypeOK, InCycle
<1>3. BuiltOK'
  <2>1. \A i \in 1..built' : AccountOrder[i] \in Accounts
    BY <1>1, OrderIsAll
  <2>2. \A i \in 1..built' : i \in 1..built \/ i = built + 1
    BY <1>1
  <2>3. \A i \in 1..built' : AccountOrder[i] \in Selected => Builds(AccountOrder[i])
    BY <2>2 DEF Inv, BuiltOK
  <2> QED
    BY <1>1, <2>1, <2>3, ConfigStable DEF Inv, BuiltOK
<1> QED
  BY <1>1, <1>2, <1>3, ConfigStable, CrewAreThreads, Quiet
  DEF Inv, StartedOK, JoinedOK, EndedOK, EndsOnlyOnRequest, CleanExit

LEMMA BuildFailsStep ==
  ASSUME Inv, BuildFails
  PROVE  Inv'
<1> USE DEF BuildFails
<1>1. TypeOK'
  <2>1. hurried' \in BOOLEAN
    BY DEF Inv, TypeOK
  <2> QED
    BY <2>1 DEF Inv, TypeOK, InCycle, progress
<1> QED
  BY <1>1, ConfigStable, CrewAreThreads, Quiet
  DEF Inv, BuiltOK, StartedOK, JoinedOK, EndedOK, EndsOnlyOnRequest, CleanExit, progress

LEMMA BuildDoneStep ==
  ASSUME Inv, BuildDone
  PROVE  Inv'
<1> USE DEF BuildDone
<1>1. TypeOK'
  <2>1. hurried' \in BOOLEAN
    BY DEF Inv, TypeOK
  <2> QED
    BY <2>1 DEF Inv, TypeOK, InCycle, progress
<1>2. \A a \in Selected : Builds(a)
  BY OrderIsAll DEF Inv, BuiltOK, Selected
<1>3. BuiltOK'
  BY <1>2, ConfigStable, Quiet DEF BuiltOK, Selected, progress
<1> QED
  BY <1>1, <1>3, ConfigStable, CrewAreThreads, Quiet, OrderIsAll
  DEF Inv, StartedOK, JoinedOK, EndedOK, EndsOnlyOnRequest, CleanExit, progress

LEMMA LaunchStep ==
  ASSUME Inv, Launch
  PROVE  Inv'
<1> DEFINE t == Order[launched']
<1>1. /\ launched' = launched + 1 /\ launched \in 0..Len(Order) /\ launched < Len(Order)
      /\ Len(Order) \in Nat /\ launched' \in 1..Len(Order) /\ config' = config
  BY OrderIsAll DEF Launch, Inv, TypeOK, StartedOK
<1>2. t \in Threads /\ thread[t] = "none" /\ t \notin connected
  <2>1. t \in Threads /\ thread[t] = "none"
    BY <1>1, OrderIsAll DEF Inv, StartedOK
  <2> QED
    BY <2>1 DEF Inv, TypeOK, InCycle
<1>3. PICK s \in {"none", "head", "connect"} :
        /\ thread' = [thread EXCEPT ![t] = s]
        /\ s = "none" <=> t \notin Crew
  BY DEF Launch
<1>4. \A u \in Threads : thread'[u] = IF u = t THEN s ELSE thread[u]
  BY <1>3 DEF Inv, TypeOK
<1>5. main = "launch" /\ main' \in {"launch", "wait"} /\ (main' = "launch" <=> launched' # Len(Order))
  BY DEF Launch
<1>6. TypeOK'
  <2>1. hurried' \in BOOLEAN
    BY DEF Inv, TypeOK, Launch
  <2>2. thread' \in [Threads -> States]
    BY <1>3 DEF Inv, TypeOK, States, Final
  <2>3. connected' \subseteq {a \in Accounts : InCycle(a)' \/ thread'[a] \in {"head", "killed"}}
    BY <1>2, <1>4, CrewAreThreads DEF Inv, TypeOK, InCycle, Launch
  <2> QED
    BY <1>1, <1>5, <2>1, <2>2, <2>3 DEF Inv, TypeOK, Launch
<1>7. BuiltOK'
  BY <1>5, ConfigStable, <1>1 DEF Inv, BuiltOK, Selected
<1>8. StartedOK'
  <2>1. \A u \in Threads : thread'[u] # "none" => u \in Crew'
    BY <1>1, <1>3, <1>4, ConfigStable DEF Inv, StartedOK
  <2>2. ASSUME NEW i \in 1..Len(Order)
        PROVE  IF i \in 1..launched' THEN Order[i] \in Crew => thread'[Order[i]] # "none"
               ELSE thread'[Order[i]] = "none"
    <3>1. CASE i = launched'
      BY <3>1, <1>1, <1>2, <1>3, <1>4
    <3>2. CASE i # launched'
      <4>1. Order[i] # t /\ Order[i] \in Threads /\ (i \in 1..launched' <=> i \in 1..launched)
        BY <3>2, <1>1, OrderIsAll
      <4> QED
        BY <4>1, <1>4 DEF Inv, StartedOK
    <3> QED
      BY <3>1, <3>2
  <2>3. Crew' = Crew
    BY <1>1, ConfigStable
  <2>4. main' \in {"wait", "shutdown"} => launched' = Len(Order)
    BY <1>5
  <2>5. main' = "launch" => launched' < Len(Order)
    BY <1>1, <1>5
  <2> QED
    BY <2>1, <2>2, <2>3, <2>4, <2>5 DEF StartedOK, Order
<1>9. JoinedOK' /\ EndedOK'
  BY <1>2, <1>3, <1>4, <1>5, CrewAreThreads, ConfigStable, <1>1 DEF Inv, JoinedOK, EndedOK, Launch
<1> QED
  BY <1>5, <1>6, <1>7, <1>8, <1>9 DEF Inv, EndsOnlyOnRequest, CleanExit

\* The shutdown begins: no thread has been joined yet.
LEMMA BeginShutdown ==
  ASSUME Inv, main = "wait", main' = "shutdown",
         interrupts' \in 0..MaxInterrupts,
         interrupts' = 0 => \A a \in Crew \ {Bot} : ~Reachable(a),
         UNCHANGED <<config, progress, thread, connected, torn, hurried>>
  PROVE  Inv'
<1>1. TypeOK'
  <2>1. hurried' \in BOOLEAN
    BY DEF Inv, TypeOK
  <2> QED
    BY <2>1 DEF Inv, TypeOK, InCycle, progress
<1>2. EndsOnlyOnRequest'
  <2>1. Crew \ {Bot} \subseteq Accounts
    BY CrewAreThreads DEF Threads
  <2> QED
    BY <2>1, ConfigStable DEF EndsOnlyOnRequest
<1> QED
  BY <1>1, <1>2, ConfigStable
  DEF Inv, BuiltOK, Selected, StartedOK, JoinedOK, EndedOK, CleanExit, progress

\* The process is over: who was running is killed.
LEMMA ExitStep ==
  ASSUME Inv, main \in {"launch", "wait", "shutdown"}, Exit,
         connected' = connected, hurried' \in BOOLEAN, interrupts' \in 0..MaxInterrupts,
         interrupts' = 0 => \A a \in Crew \ {Bot} : ~Reachable(a),
         ~hurried' => \A t \in Crew \ Slow : thread[t] = "ended"
  PROVE  Inv'
<1> USE DEF Exit, States, Final
<1>1. \A t \in Threads : thread'[t] = IF thread[t] \in {"none", "ended"} THEN thread[t] ELSE "killed"
  OBVIOUS
<1>2. torn = {} /\ torn' \subseteq {a \in Accounts : thread[a] = "log"}
  BY DEF Inv, JoinedOK
<1>3. TypeOK'
  <2>1. thread' \in [Threads -> States]
    BY DEF Inv, TypeOK
  <2>2. connected' \subseteq {a \in Accounts : InCycle(a)' \/ thread'[a] \in {"head", "killed"}}
    BY <1>1, CrewAreThreads DEF Inv, TypeOK, InCycle
  <2>3. torn' \subseteq Accounts
    BY <1>2
  <2> QED
    BY <2>1, <2>2, <2>3 DEF Inv, TypeOK, progress
<1>4. BuiltOK'
  BY ConfigStable DEF Inv, BuiltOK, Selected, progress
<1>5. StartedOK'
  BY <1>1, ConfigStable, OrderIsAll DEF Inv, StartedOK, progress
<1>6. JoinedOK' /\ EndedOK'
  <2>1. \A t \in Threads : thread'[t] \in Final
    BY <1>1
  <2> QED
    BY <2>1 DEF JoinedOK, EndedOK
<1>7. EndsOnlyOnRequest'
  <2>1. Crew \ {Bot} \subseteq Accounts
    BY CrewAreThreads DEF Threads
  <2> QED
    BY <2>1, ConfigStable DEF EndsOnlyOnRequest
<1>8. CleanExit'
  <2>1. Crew' = Crew /\ Crew \subseteq Threads
    BY ConfigStable, CrewAreThreads
  <2>2. ASSUME ~hurried', NEW t \in Crew \ Slow
        PROVE  thread'[t] = "ended" /\ t \notin connected' \union torn'
    BY <2>1, <2>2, <1>1, <1>2 DEF Inv, TypeOK, InCycle
  <2> QED
    BY <2>1, <2>2 DEF CleanExit
<1> QED
  BY <1>3, <1>4, <1>5, <1>6, <1>7, <1>8 DEF Inv

LEMMA AllEndedStep ==
  ASSUME Inv, AllEnded
  PROVE  Inv'
<1>1. main = "wait" /\ \A t \in Crew : thread[t] = "ended" \/ (t = Bot /\ config.program = "run_monitor")
  BY DEF AllEnded
<1>2. \A a \in Crew \ {Bot} : ~Reachable(a)
  BY <1>1, CrewAreThreads DEF Inv, EndedOK, Threads
<1>3. interrupts' = interrupts /\ interrupts \in 0..MaxInterrupts /\ hurried' = hurried /\ connected' = connected
  BY DEF AllEnded, Inv, TypeOK
<1>4. hurried \in BOOLEAN
  BY DEF Inv, TypeOK
<1>5. CASE config.program = "run_monitor"
  BY <1>1, <1>2, <1>3, <1>5, BeginShutdown DEF AllEnded
<1>6. CASE config.program # "run_monitor"
  <2>1. Exit /\ \A t \in Crew \ Slow : thread[t] = "ended"
    BY <1>1, <1>6 DEF AllEnded
  <2> QED
    BY <1>1, <1>2, <1>3, <1>4, <2>1, ExitStep
<1> QED
  BY <1>5, <1>6

LEMMA JoinStep ==
  ASSUME Inv, Join
  PROVE  Inv'
<1> USE DEF Join
<1>1. /\ joined' = joined + 1 /\ joined \in 0..Len(Order) /\ joined < Len(Order) /\ Len(Order) \in Nat
      /\ config' = config
  BY OrderIsAll DEF Inv, TypeOK
<1>2. TypeOK'
  <2>1. hurried' \in BOOLEAN
    BY DEF Inv, TypeOK
  <2> QED
    BY <1>1, <2>1 DEF Inv, TypeOK, InCycle
<1>3. JoinedOK'
  <2>1. \A i \in 1..joined' : i \in 1..joined \/ i = joined + 1
    BY <1>1
  <2>2. \A i \in 1..joined' : Order[i] \in Crew \ Slow => thread[Order[i]] = "ended"
    BY <2>1 DEF Inv, JoinedOK
  <2> QED
    BY <1>1, <2>2, ConfigStable DEF Inv, JoinedOK, Order
<1>4. BuiltOK' /\ StartedOK'
  BY <1>1, ConfigStable DEF Inv, BuiltOK, Selected, StartedOK, Order
<1>5. EndedOK' /\ EndsOnlyOnRequest' /\ CleanExit'
  <2>1. Crew \ {Bot} \subseteq Accounts
    BY CrewAreThreads DEF Threads
  <2> QED
    BY <1>1, <2>1, ConfigStable DEF Inv, EndedOK, EndsOnlyOnRequest, CleanExit
<1> QED
  BY <1>2, <1>3, <1>4, <1>5 DEF Inv

LEMMA ShutdownDoneStep ==
  ASSUME Inv, ShutdownDone
  PROVE  Inv'
<1>1. main = "shutdown" /\ Exit /\ UNCHANGED <<connected, interrupts, hurried>>
  BY DEF ShutdownDone
<1>2. \A t \in Crew \ Slow : thread[t] = "ended"
  BY OrderIsAll, CrewAreThreads DEF ShutdownDone, Inv, JoinedOK
<1>3. interrupts \in 0..MaxInterrupts /\ (interrupts = 0 => \A a \in Crew \ {Bot} : ~Reachable(a))
  BY <1>1 DEF Inv, TypeOK, EndsOnlyOnRequest
<1>4. hurried \in BOOLEAN
  BY DEF Inv, TypeOK
<1> QED
  BY <1>1, <1>2, <1>3, <1>4, ExitStep

LEMMA InterruptStep ==
  ASSUME Inv, Interrupt
  PROVE  Inv'
<1>1. interrupts' \in 0..MaxInterrupts /\ interrupts' # 0 /\ connected' = connected
  BY Bounds DEF Interrupt, Inv, TypeOK
<1>2. CASE main = "wait" /\ main' = "shutdown" /\ UNCHANGED <<config, progress, thread, torn, hurried>>
  BY <1>1, <1>2, BeginShutdown
<1>3. CASE main \in {"launch", "shutdown"} /\ hurried' = TRUE /\ Exit
  <2>1. hurried' \in BOOLEAN /\ hurried'
    BY <1>3
  <2> QED
    BY <1>1, <1>3, <2>1, ExitStep
<1> QED
  BY <1>2, <1>3 DEF Interrupt

LEMMA InterruptSingleStep ==
  ASSUME Inv, InterruptSingle
  PROVE  Inv'
<1> USE DEF InterruptSingle
<1>1. \A t \in Threads : thread'[t] = IF InCycle(t) THEN "broken"
                                     ELSE IF thread[t] = "none" THEN "none" ELSE "ended"
  OBVIOUS
<1>2. main = "wait" /\ main' = "exited" /\ interrupts' \in 0..MaxInterrupts /\ interrupts' # 0
  BY Bounds DEF Inv, TypeOK
<1>3. TypeOK'
  <2>1. hurried' \in BOOLEAN
    BY DEF Inv, TypeOK
  <2>2. thread' \in [Threads -> States]
    BY <1>1 DEF States
  <2> QED
    BY <1>2, <2>1, <2>2 DEF Inv, TypeOK, progress
<1>4. BuiltOK' /\ StartedOK'
  BY <1>1, <1>2, ConfigStable, OrderIsAll DEF InCycle, Inv, BuiltOK, Selected, StartedOK, progress
<1>5. JoinedOK' /\ EndedOK' /\ EndsOnlyOnRequest'
  BY <1>1, <1>2 DEF Final, JoinedOK, EndedOK, EndsOnlyOnRequest
<1>6. CleanExit'
  <2>1. torn' = {} /\ connected' = {} /\ config'.program # "run_monitor"
    BY <1>2 DEF Inv, JoinedOK
  <2> QED
    BY <2>1 DEF CleanExit
<1> QED
  BY <1>3, <1>4, <1>5, <1>6 DEF Inv

-------------------------------------------------------------------------------
(* The theorems.                                                            *)

LEMMA Stutter ==
  ASSUME Inv, UNCHANGED vars
  PROVE  Inv'
<1> USE DEF vars, progress
<1>1. TypeOK'
  <2>1. hurried' \in BOOLEAN
    BY DEF Inv, TypeOK
  <2> QED
    BY <2>1 DEF Inv, TypeOK, InCycle
<1>2. BuiltOK' /\ StartedOK' /\ JoinedOK'
  BY ConfigStable DEF Inv, BuiltOK, Selected, StartedOK, JoinedOK, Order
<1>3. EndedOK' /\ EndsOnlyOnRequest' /\ CleanExit'
  <2>1. Crew \ {Bot} \subseteq Accounts
    BY CrewAreThreads DEF Threads
  <2> QED
    BY <2>1, ConfigStable DEF Inv, EndedOK, EndsOnlyOnRequest, CleanExit
<1> QED
  BY <1>1, <1>2, <1>3 DEF Inv

\* The invariant holds in every state of the process: the building, the
\* launching and the joining have come as far as their counters say.
THEOREM Inductive == Spec => []Inv
<1>1. Inv /\ [Next]_vars => Inv'
  <2> SUFFICES ASSUME Inv, [Next]_vars PROVE Inv'
    OBVIOUS
  <2>1. CASE Main
    BY <2>1, BuildStep, BuildFailsStep, BuildDoneStep, LaunchStep, AllEndedStep, JoinStep, ShutdownDoneStep
    DEF Main
  <2>2. CASE Interrupt \/ InterruptSingle
    BY <2>2, InterruptStep, InterruptSingleStep
  <2>3. CASE \E t \in Threads : Run(t)
    BY <2>3, RunStep
  <2>4. CASE BotDies
    BY <2>4, BotDiesStep
  <2>5. CASE UNCHANGED vars
    BY <2>5, Stutter
  <2> QED
    BY <2>1, <2>2, <2>3, <2>4, <2>5 DEF Next
<1> QED
  BY InitHolds, <1>1, PTL DEF Spec

\* Type correctness; an ended worker has disconnected its bridge.
THEOREM TypeCorrect == Spec => []TypeOK
<1>1. Inv => TypeOK
  BY DEF Inv
<1> QED
  BY <1>1, Inductive, PTL

\* Before all the building is over no thread has started, so that every account
\* of one that has was built.
LEMMA StartedIsBuilt ==
  ASSUME Inv, NEW a \in Accounts, thread[a] # "none"
  PROVE  a \in Selected /\ Builds(a) /\ main \notin {"build", "failed"}
<1>1. a \in Crew /\ a # Bot /\ a \in Threads
  BY CrewAreThreads DEF Inv, StartedOK
<1>2. a \in Selected
  BY <1>1 DEF Crew
<1>3. main \notin {"build", "failed"}
  BY <1>1, OrderIsAll DEF Inv, BuiltOK, StartedOK
<1> QED
  BY <1>2, <1>3 DEF Inv, BuiltOK

\* Whatever the accounts and their order, no worker runs without its runtime and
\* nothing is connected while accounts are still being built.
THEOREM StartsOnlyTheBuilt == Spec => []StartsTheBuilt
<1>1. ASSUME Inv, connected # {} PROVE main \notin {"build", "failed"}
  <2>1. PICK a \in connected : a \in Accounts /\ thread[a] # "none"
    BY <1>1 DEF Inv, TypeOK, InCycle
  <2> QED
    BY <1>1, <2>1, StartedIsBuilt
<1>2. Inv => StartsTheBuilt
  BY <1>1, StartedIsBuilt DEF StartsTheBuilt
<1> QED
  BY <1>2, Inductive, PTL

\* The confirmations demanded by build_enforcer and the flag of build_bridge
\* agree in every worker that acts.
THEOREM LocksAlwaysAgree == Spec => []LocksAgree
<1>1. ASSUME Inv, NEW a \in Accounts, thread[a] = "act"
      PROVE  Builds(a)
  BY <1>1, StartedIsBuilt
<1>2. Inv => LocksAgree
  BY <1>1 DEF LocksAgree, Builds, EnforcerBuilds, Confirmed, LiveExecution
<1> QED
  BY <1>2, Inductive, PTL

\* Without an interrupt the monitoring ends only when no terminal of an
\* account could be reached.
THEOREM MonitoringEndsOnlyOnRequest == Spec => []EndsOnlyOnRequest
<1>1. Inv => EndsOnlyOnRequest
  BY DEF Inv
<1> QED
  BY <1>1, Inductive, PTL

\* An exit that nobody hurried leaves no bridge connected and no log cut off of
\* a thread that could be joined, and under the supervisor no cycle half done.
THEOREM ExitsCleanly == Spec => []CleanExit
<1>1. Inv => CleanExit
  BY DEF Inv
<1> QED
  BY <1>1, Inductive, PTL
===============================================================================

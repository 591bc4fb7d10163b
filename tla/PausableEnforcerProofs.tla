------------------------ MODULE PausableEnforcerProofs ------------------------
(***************************************************************************)
(* What is proved about the pause switch, for every number of writes,      *)
(* crashes and check results: types; that an acknowledged state is in the  *)
(* file, whatever fails; that mtimes are honest and cycles obey what was   *)
(* acknowledged before them, where no constructor of the worker races with *)
(* a writer; and that two processes implement LiveSetting's safety part.   *)
(***************************************************************************)
EXTENDS PausableEnforcer, TLAPS

LEMMA ProcType == Bot \in Procs /\ Worker \in Procs
  BY DEF Procs

\* A thread whose process is not up is off.  Types depend on it: a worker that
\* starts again has no results left to act on.
OffWhileDown ==
  /\ phase[Bot] # "up" => bot = "off"
  /\ phase[Worker] # "up" => work = "off"

Types == TypeOK /\ OffWhileDown

LEMMA TypeInit == Init => Types
  BY ProcType, PausableEnforcerAssumption
     DEF Init, Types, TypeOK, OffWhileDown, Contents, Spoilt, Told, ReadEnabled

\* Assigning one attribute of one object.
LEMMA AssignType ==
  ASSUME NEW o \in [Procs -> [enabled : BOOLEAN, mtime : Nat]],
         NEW p \in Procs, NEW enabled \in BOOLEAN, NEW mtime \in Nat
  PROVE  /\ [o EXCEPT ![p].enabled = enabled] \in [Procs -> [enabled : BOOLEAN, mtime : Nat]]
         /\ [o EXCEPT ![p].mtime = mtime] \in [Procs -> [enabled : BOOLEAN, mtime : Nat]]
  OBVIOUS

\* The constructor and the bot's thread.
LEMMA BotType ==
  ASSUME Types,
         Build \/ (\E value \in BOOLEAN : SetEnabled(value)) \/ Persist \/ PersistFails
  PROVE  TypeOK'
<1>1. ASSUME NEW p \in Procs, BuildRead(p) PROVE TypeOK'
  <2>1. ReadEnabled \in BOOLEAN
    BY DEF ReadEnabled
  <2> QED
    BY <1>1, <2>1 DEF BuildRead, Types, TypeOK
<1>2. ASSUME NEW p \in Procs, BuildStat(p) PROVE TypeOK'
  BY <1>2 DEF BuildStat, Types, OffWhileDown, TypeOK
<1>3. ASSUME NEW value \in BOOLEAN, SetEnabled(value) PROVE TypeOK'
  <2>1. obj' \in [Procs -> [enabled : BOOLEAN, mtime : Nat]]
    BY <1>3, AssignType, ProcType DEF SetEnabled, Types, TypeOK
  <2> QED
    BY <1>3, <2>1 DEF SetEnabled, Types, TypeOK, Told
<1>4. CASE Replace
  <2>1. Dump \in Contents
    BY DEF Dump, Contents
  <2> QED
    BY <1>4, <2>1 DEF Replace, Types, TypeOK
<1>5. CASE Restat
  <2>1. told' \in Told
    BY <1>5 DEF Restat, Told
  <2>2. obj' \in [Procs -> [enabled : BOOLEAN, mtime : Nat]]
    <3>1. file.mtime \in Nat
      BY DEF Types, TypeOK
    <3> QED
      BY <1>5, <3>1, AssignType, ProcType DEF Restat, Types, TypeOK
  <2> QED
    BY <1>5, <2>1, <2>2 DEF Restat, Types, TypeOK
<1>6. CASE PersistFails
  BY <1>6 DEF PersistFails, Types, TypeOK
<1> QED
  BY <1>1, <1>2, <1>3, <1>4, <1>5, <1>6 DEF Build, Persist

\* The worker's thread and the environment.
LEMMA WorkerType ==
  ASSUME Types, Cycle \/ Corrupt \/ \E p \in Procs : Crash(p)
  PROVE  TypeOK'
<1>1. CASE SyncStat
  BY <1>1 DEF SyncStat, Types, TypeOK
<1>2. CASE SyncRead
  BY <1>2 DEF SyncRead, Synced, ReadEnabled, Types, TypeOK
<1>3. CASE Check
  <2>1. left' \in 0..MaxResults
    BY <1>3, PausableEnforcerAssumption DEF Check
  <2> QED
    BY <1>3, <2>1 DEF Check, Types, TypeOK
<1>4. CASE Act \/ Return \/ SyncFails
  BY <1>4, PausableEnforcerAssumption DEF Act, Return, SyncFails, Types, TypeOK
<1>5. CASE Corrupt
  BY <1>5 DEF Corrupt, Types, TypeOK, Contents, Spoilt, Told
<1>6. ASSUME NEW p \in Procs, Crash(p) PROVE TypeOK'
  BY <1>6, PausableEnforcerAssumption DEF Crash, Types, TypeOK, Told
<1> QED
  BY <1>1, <1>2, <1>3, <1>4, <1>5, <1>6 DEF Cycle

LEMMA OffStep ==
  ASSUME Types, [Next]_vars
  PROVE  OffWhileDown'
<1>1. CASE UNCHANGED vars
  BY <1>1 DEF vars, Types, OffWhileDown
<1>2. ASSUME NEW p \in Procs, BuildRead(p) \/ BuildStat(p) PROVE OffWhileDown'
  BY <1>2, ProcType DEF BuildRead, BuildStat, Types, TypeOK, OffWhileDown
<1>3. ASSUME NEW value \in BOOLEAN, SetEnabled(value) PROVE OffWhileDown'
  BY <1>3 DEF SetEnabled, Types, OffWhileDown
<1>4. CASE Persist \/ PersistFails
  BY <1>4, ProcType DEF Persist, Replace, Restat, PersistFails, Types, TypeOK, OffWhileDown
<1>5. CASE Cycle \/ Corrupt
  BY <1>5 DEF Cycle, SyncStat, SyncRead, SyncFails, Check, Act, Return, Corrupt, Types, OffWhileDown
<1>6. ASSUME NEW p \in Procs, Crash(p) PROVE OffWhileDown'
  BY <1>6, ProcType DEF Crash, Types, TypeOK, OffWhileDown
<1> QED
  BY <1>1, <1>2, <1>3, <1>4, <1>5, <1>6 DEF Next, Build

LEMMA TypesInvariant == Spec => []Types
<1>1. Types /\ [Next]_vars => Types'
  <2> SUFFICES ASSUME Types, [Next]_vars PROVE Types'
    OBVIOUS
  <2>1. CASE UNCHANGED vars
    BY <2>1, OffStep DEF vars, Types, TypeOK
  <2> QED
    BY <2>1, BotType, WorkerType, OffStep DEF Next, Types
<1> QED
  BY <1>1, TypeInit, PTL DEF Spec

\* Every variable keeps its type; in particular there is nothing left to act
\* on outside the enforcer, after a crash in the middle of it as well.
THEOREM TypeCorrect == Spec => []TypeOK
<1>1. Types => TypeOK
  BY DEF Types
<1> QED
  BY <1>1, TypesInvariant, PTL

-------------------------------------------------------------------------------
(* What was acknowledged is in the file.  While the bot is in a command     *)
(* nothing is acknowledged, its object does not change under it, and once   *)
(* the file is written it holds the new state or was spoiled since.         *)

InCommand == bot \in {"persist", "restat"}

LockIsExclusive == Bot = Worker /\ work = "read" => ~InCommand

CommandIsOpen ==
  /\ InCommand => told = "none"
  /\ bot = "restat" => file.content \in {Dump} \union Spoilt

\* A cycle goes by what is acknowledged now, or by nothing.
CycleToldIsTold == cycleTold \in {"none", told}

AckInv ==
  LockIsExclusive /\ CommandIsOpen /\ CycleToldIsTold /\ AckedStateSurvives

LEMMA AckInit == Init => AckInv
  BY DEF Init, AckInv, LockIsExclusive, CommandIsOpen, CycleToldIsTold,
         AckedStateSurvives, InCommand, Procs

LEMMA BuildAck ==
  ASSUME Types, AckInv, NEW p \in Procs, BuildRead(p) \/ BuildStat(p)
  PROVE  AckInv'
<1>1. UNCHANGED <<file, told, cycleTold>>
  BY DEF BuildRead, BuildStat
<1>2. phase[p] # "up"
  BY DEF BuildRead, BuildStat
<1>3. InCommand' => InCommand /\ p # Bot /\ bot' = bot
  BY <1>2 DEF BuildRead, BuildStat, InCommand, Types, OffWhileDown
<1>4. p # Bot => obj'[Bot] = obj[Bot]
  BY ProcType DEF BuildRead, BuildStat, Types, TypeOK
<1>5. LockIsExclusive'
  BY <1>2, <1>3 DEF BuildRead, BuildStat, AckInv, LockIsExclusive, InCommand
<1>6. CommandIsOpen'
  BY <1>1, <1>3, <1>4 DEF AckInv, CommandIsOpen, InCommand, Dump
<1> QED
  BY <1>1, <1>5, <1>6 DEF AckInv, CycleToldIsTold, AckedStateSurvives

LEMMA SetEnabledAck ==
  ASSUME Types, AckInv, NEW value \in BOOLEAN, SetEnabled(value)
  PROVE  AckInv'
  BY DEF SetEnabled, LockFreeForBot, AckInv, LockIsExclusive, CommandIsOpen,
         CycleToldIsTold, AckedStateSurvives, InCommand, Types, TypeOK

LEMMA PersistAck ==
  ASSUME Types, AckInv, Replace \/ Restat \/ PersistFails
  PROVE  AckInv'
<1>1. InCommand /\ told = "none" /\ cycleTold = "none"
  BY DEF Replace, Restat, PersistFails, InCommand, AckInv, CommandIsOpen, CycleToldIsTold
<1>2. LockIsExclusive'
  BY <1>1 DEF Replace, Restat, PersistFails, AckInv, LockIsExclusive, InCommand
<1>4. CommandIsOpen'
  BY <1>1 DEF Replace, Restat, PersistFails, CommandIsOpen, InCommand, Dump
<1>5. CycleToldIsTold'
  BY <1>1 DEF Replace, Restat, PersistFails, CycleToldIsTold
<1>6. AckedStateSurvives'
  BY <1>1 DEF Replace, Restat, PersistFails, AckInv, CommandIsOpen, AckedStateSurvives, Dump, Spoilt
<1> QED
  BY <1>2, <1>4, <1>5, <1>6 DEF AckInv

LEMMA CycleAck ==
  ASSUME Types, AckInv, Cycle
  PROVE  AckInv'
<1>1. UNCHANGED <<file, phase, bot, told>> /\ work # "off" /\ cycleTold' \in {cycleTold, told}
  BY DEF Cycle, SyncStat, SyncRead, SyncFails, Check, Act, Return
<1>2. LockIsExclusive'
  BY <1>1 DEF Cycle, SyncStat, SyncRead, SyncFails, Check, Act, Return, LockFreeForWorker, AckInv, LockIsExclusive,
              InCommand
<1>3. InCommand => obj'[Bot] = obj[Bot]
  BY ProcType DEF Cycle, SyncStat, SyncRead, SyncFails, Check, Act, Return, AckInv, LockIsExclusive, Types, TypeOK
<1>4. CommandIsOpen'
  BY <1>1, <1>3 DEF AckInv, CommandIsOpen, InCommand, Dump
<1> QED
  BY <1>1, <1>2, <1>4 DEF AckInv, CycleToldIsTold, AckedStateSurvives

LEMMA EnvironmentAck ==
  ASSUME Types, AckInv, Corrupt \/ \E p \in Procs : Crash(p)
  PROVE  AckInv'
<1>1. CASE Corrupt
  BY <1>1 DEF Corrupt, AckInv, LockIsExclusive, CommandIsOpen, CycleToldIsTold,
              AckedStateSurvives, InCommand
<1>2. ASSUME NEW p \in Procs, Crash(p) PROVE AckInv'
  BY <1>2, ProcType DEF Crash, AckInv, LockIsExclusive, CommandIsOpen,
                        CycleToldIsTold, AckedStateSurvives, InCommand, Dump, Types, TypeOK
<1> QED
  BY <1>1, <1>2

LEMMA AckStep ==
  ASSUME Types, AckInv, [Next]_vars
  PROVE  AckInv'
<1>1. CASE UNCHANGED vars
  BY <1>1 DEF vars, AckInv, LockIsExclusive, CommandIsOpen, CycleToldIsTold,
              AckedStateSurvives, InCommand, Dump
<1> QED
  BY <1>1, BuildAck, SetEnabledAck, PersistAck, CycleAck, EnvironmentAck DEF Next, Build, Persist

LEMMA AckInvariant == Spec => []AckInv
<1>1. Types /\ AckInv /\ [Next]_vars => AckInv'
  BY AckStep
<1> QED
  BY <1>1, AckInit, TypesInvariant, PTL DEF Spec

\* An acknowledged /pause or /resume is in the state file, in every topology,
\* whichever process crashes, whichever write fails.
THEOREM AckedStateIsDurable == Spec => []AckedStateSurvives
<1>1. AckInv => AckedStateSurvives
  BY DEF AckInv
<1> QED
  BY <1>1, AckInvariant, PTL

-------------------------------------------------------------------------------
(* Honest mtimes.  Every write gets an mtime nobody has recorded, so a      *)
(* recorded one that is still the file's was taken with the state held; the *)
(* constructor takes its two readings apart, hence the assumptions.         *)

StampAssumption ==
  /\ Bot # Worker => Worker \notin Restarting
  /\ Bot = Worker => Faults = {}

StampsAreOld == file.mtime <= clock /\ obj[Worker].mtime <= clock /\ seen <= clock

NotSpoilt == Faults = {} => file.content \notin Spoilt

WorkerIsUp == Bot # Worker => phase[Worker] = "up"

BuiltOnFile == phase[Worker] = "building" => Readable /\ obj[Worker].enabled = ReadEnabled

HonestInv == StampsAreOld /\ NotSpoilt /\ WorkerIsUp /\ BuiltOnFile /\ StampIsHonest

LEMMA HonestInit == Init => HonestInv
  BY ProcType DEF Init, HonestInv, StampsAreOld, NotSpoilt, WorkerIsUp, BuiltOnFile,
                  StampIsHonest, ReadEnabled, Readable, Spoilt

LEMMA BuildHonest ==
  ASSUME StampAssumption, Types, AckInv, HonestInv,
         NEW p \in Procs, BuildRead(p) \/ BuildStat(p)
  PROVE  HonestInv'
<1>1. CASE p # Worker
  <2>1. UNCHANGED <<file, clock, seen, work, obj[Worker], phase[Worker]>>
    BY <1>1, ProcType DEF BuildRead, BuildStat, Types, TypeOK
  <2>2. Bot # Worker
    BY <1>1 DEF Procs
  <2> QED
    BY <2>1, <2>2 DEF HonestInv, StampsAreOld, NotSpoilt, WorkerIsUp, BuiltOnFile,
                      StampIsHonest, ReadEnabled, Readable, LockFreeForWorker
<1>2. CASE p = Worker
  <2>1. Bot = Worker
    BY <1>2 DEF BuildRead, BuildStat, HonestInv, WorkerIsUp
  <2>2. /\ UNCHANGED <<file, clock, seen>>
        /\ ReadEnabled' = ReadEnabled /\ ReadEnabled \in BOOLEAN /\ Readable' = Readable
    BY DEF BuildRead, BuildStat, ReadEnabled, Readable
  <2>3. CASE BuildRead(Worker)
    <3>1. /\ obj'[Worker].mtime = obj[Worker].mtime /\ obj'[Worker].enabled = ReadEnabled
          /\ Readable /\ phase'[Worker] = "building" /\ work' = work /\ phase[Worker] = "down"
      BY <2>3, ProcType DEF BuildRead, Types, TypeOK
    <3> QED
      BY <2>1, <2>2, <3>1 DEF HonestInv, StampsAreOld, NotSpoilt, WorkerIsUp, BuiltOnFile, StampIsHonest,
                              Types, OffWhileDown
  <2>4. CASE BuildStat(Worker)
    <3>1. obj'[Worker].mtime = file.mtime /\ obj'[Worker].enabled = obj[Worker].enabled
      BY <2>4, ProcType DEF BuildStat, Types, TypeOK
    <3>2. Readable /\ obj[Worker].enabled = ReadEnabled
      BY <2>4 DEF BuildStat, HonestInv, BuiltOnFile
    <3> QED
      BY <2>1, <2>2, <3>1, <3>2 DEF HonestInv, StampsAreOld, NotSpoilt, WorkerIsUp, BuiltOnFile, StampIsHonest
  <2> QED
    BY <1>2, <2>3, <2>4
<1> QED
  BY <1>1, <1>2

\* The bot's thread shares the worker's object only in one process, where it
\* holds the lock from the assignment in memory to the recorded mtime.
LEMMA CommandHonest ==
  ASSUME StampAssumption, Types, AckInv, HonestInv,
         (\E value \in BOOLEAN : SetEnabled(value)) \/ Persist \/ PersistFails
  PROVE  HonestInv'
<1> DEFINE Same == /\ UNCHANGED <<work, seen, phase[Worker]>>
                   /\ Bot # Worker => obj'[Worker] = obj[Worker]
                   /\ clock' >= clock
<1>1. Same
  BY ProcType DEF SetEnabled, Persist, Replace, Restat, PersistFails, Types, TypeOK
<1>2. CASE \E value \in BOOLEAN : SetEnabled(value)
  <2>1. UNCHANGED <<file, clock>> /\ obj'[Worker].mtime = obj[Worker].mtime /\ bot' = "persist" /\ bot = "idle"
    BY <1>2, ProcType DEF SetEnabled, Types, TypeOK
  <2> QED
    BY <1>1, <2>1 DEF HonestInv, StampsAreOld, NotSpoilt, WorkerIsUp, BuiltOnFile,
                      StampIsHonest, ReadEnabled, Readable, LockFreeForWorker, Types, OffWhileDown
<1>3. CASE Replace
  <2>1. obj' = obj /\ clock' = clock + 1 /\ file'.mtime = clock + 1 /\ file'.content = Dump /\ bot' = "restat" /\ bot = "persist"
    BY <1>3 DEF Replace
  <2>2. Dump \notin Spoilt
    BY DEF Dump, Spoilt
  <2> QED
    BY <1>1, <2>1, <2>2, ProcType DEF HonestInv, StampsAreOld, NotSpoilt, WorkerIsUp, BuiltOnFile,
         StampIsHonest, LockFreeForWorker, Types, TypeOK, OffWhileDown
<1>4. CASE Restat
  <2>1. UNCHANGED <<file, clock>> /\ bot = "restat" /\ obj'[Worker].enabled = obj[Worker].enabled
    BY <1>4, ProcType DEF Restat, Types, TypeOK
  <2>2. obj'[Worker].mtime \in {obj[Worker].mtime, file.mtime}
    BY <1>4, ProcType DEF Restat, Types, TypeOK
  <2>3. Bot = Worker => Readable /\ obj[Worker].enabled = ReadEnabled
    BY <2>1, ProcType DEF StampAssumption, HonestInv, NotSpoilt, AckInv, CommandIsOpen, Dump, ReadEnabled, Readable,
                          Spoilt, Types, TypeOK
  <2> QED
    BY <1>1, <2>1, <2>2, <2>3 DEF HonestInv, StampsAreOld, NotSpoilt, WorkerIsUp, BuiltOnFile,
         StampIsHonest, ReadEnabled, Readable, LockFreeForWorker, Types, OffWhileDown
<1>5. CASE PersistFails
  <2>1. Bot # Worker /\ UNCHANGED <<file, clock, obj>>
    BY <1>5 DEF PersistFails, StampAssumption
  <2> QED
    BY <1>1, <2>1 DEF HonestInv, StampsAreOld, NotSpoilt, WorkerIsUp, BuiltOnFile,
         StampIsHonest, ReadEnabled, Readable, LockFreeForWorker
<1> QED
  BY <1>2, <1>3, <1>4, <1>5 DEF Persist

LEMMA CycleHonest ==
  ASSUME StampAssumption, Types, AckInv, HonestInv, Cycle
  PROVE  HonestInv'
<1>1. /\ UNCHANGED <<file, clock, phase, bot>> /\ work # "off"
      /\ ReadEnabled' = ReadEnabled /\ Readable' = Readable
  BY DEF Cycle, SyncStat, SyncRead, SyncFails, Check, Act, Return, ReadEnabled, Readable
<1>2. CASE SyncRead
  <2>1. Readable /\ obj'[Worker].enabled = ReadEnabled /\ obj'[Worker].mtime = seen /\ seen' = seen
    BY <1>2, ProcType DEF SyncRead, Synced, Types, TypeOK
  <2> QED
    BY <1>1, <2>1 DEF HonestInv, StampsAreOld, NotSpoilt, WorkerIsUp, BuiltOnFile, StampIsHonest
<1>3. CASE SyncStat \/ SyncFails \/ Check \/ Act \/ Return
  <2>1. obj' = obj /\ seen' \in {seen, file.mtime}
    BY <1>3 DEF SyncStat, SyncFails, Check, Act, Return
  <2>2. work' = "read" => ~(Bot = Worker /\ bot \in {"persist", "restat"})
    BY <1>3 DEF SyncStat, SyncFails, Check, Act, Return, LockFreeForWorker
  <2> QED
    BY <1>1, <2>1, <2>2 DEF HonestInv, StampsAreOld, NotSpoilt, WorkerIsUp, BuiltOnFile, StampIsHonest, LockFreeForWorker
<1> QED
  BY <1>2, <1>3 DEF Cycle

LEMMA EnvironmentHonest ==
  ASSUME StampAssumption, Types, AckInv, HonestInv, Corrupt \/ \E p \in Procs : Crash(p)
  PROVE  HonestInv'
<1>1. CASE Corrupt
  <2>1. Bot # Worker /\ Faults # {}
    BY <1>1 DEF Corrupt, StampAssumption
  <2>2. UNCHANGED <<obj, phase, seen>> /\ clock' = clock + 1 /\ file'.mtime = clock + 1
    BY <1>1 DEF Corrupt
  <2> QED
    BY <2>1, <2>2, ProcType DEF HonestInv, StampsAreOld, NotSpoilt, WorkerIsUp, BuiltOnFile,
                                StampIsHonest, Types, TypeOK
<1>2. ASSUME NEW p \in Procs, Crash(p) PROVE HonestInv'
  <2>1. UNCHANGED <<file, clock, obj, seen>> /\ ReadEnabled' = ReadEnabled /\ Readable' = Readable
    BY <1>2 DEF Crash, ReadEnabled, Readable
  <2>2. CASE p = Worker
    <3>1. Bot = Worker /\ work' = "off" /\ phase'[Worker] = "down"
      BY <1>2, <2>2 DEF Crash, StampAssumption, Types, TypeOK
    <3> QED
      BY <2>1, <3>1 DEF HonestInv, StampsAreOld, NotSpoilt, WorkerIsUp, BuiltOnFile, StampIsHonest
  <2>3. CASE p # Worker
    <3>1. Bot # Worker /\ UNCHANGED <<work, phase[Worker]>>
      BY <1>2, <2>3 DEF Crash, Procs, Types, TypeOK
    <3> QED
      BY <2>1, <3>1 DEF HonestInv, StampsAreOld, NotSpoilt, WorkerIsUp, BuiltOnFile,
                        StampIsHonest, LockFreeForWorker
  <2> QED
    BY <2>2, <2>3
<1> QED
  BY <1>1, <1>2

LEMMA HonestStep ==
  ASSUME StampAssumption, Types, AckInv, HonestInv, [Next]_vars
  PROVE  HonestInv'
<1>1. CASE UNCHANGED vars
  BY <1>1 DEF vars, HonestInv, StampsAreOld, NotSpoilt, WorkerIsUp, BuiltOnFile, StampIsHonest,
              ReadEnabled, Readable, LockFreeForWorker
<1> QED
  BY <1>1, BuildHonest, CommandHonest, CycleHonest, EnvironmentHonest DEF Next, Build

LEMMA HonestInvariant ==
  ASSUME StampAssumption
  PROVE  Spec => []HonestInv
<1>1. Types /\ AckInv /\ HonestInv /\ [Next]_vars => HonestInv'
  BY HonestStep
<1> QED
  BY <1>1, HonestInit, TypesInvariant, AckInvariant, PTL DEF Spec

\* A recorded mtime that is the file's vouches for the switch held, so that
\* sync_from_disk skips no write: with two processes, while the worker's does
\* not start again next to a writer; with one, while nobody else writes.
THEOREM HonestStamp ==
  ASSUME Bot # Worker => Worker \notin Restarting,
         Bot = Worker => Faults = {}
  PROVE  Spec => []StampIsHonest
<1>1. StampAssumption
  BY DEF StampAssumption
<1>2. HonestInv => StampIsHonest
  BY DEF HonestInv
<1> QED
  BY <1>1, <1>2, HonestInvariant, PTL

-------------------------------------------------------------------------------
(* Cycles obey.  A cycle that keeps what it holds has an honest mtime, one  *)
(* that reads gets the file; either way the file holds what is acknowledged *)
(* at that moment, and a newer command leaves the cycle nothing to obey.    *)

LEMMA CycleObeysStep ==
  ASSUME Types, AckInv, StampIsHonest, CycleObeysAck, [Next]_vars
  PROVE  CycleObeysAck'
<1>1. CASE UNCHANGED vars
  BY <1>1 DEF vars, CycleObeysAck
<1>2. ASSUME NEW p \in Procs, BuildRead(p) \/ BuildStat(p) PROVE CycleObeysAck'
  <2>1. CASE p = Worker
    BY <1>2, <2>1 DEF BuildRead, BuildStat, Types, OffWhileDown, CycleObeysAck
  <2>2. CASE p # Worker
    BY <1>2, <2>2, ProcType DEF BuildRead, BuildStat, Types, TypeOK, CycleObeysAck
  <2> QED
    BY <2>1, <2>2
<1>3. CASE (\E value \in BOOLEAN : SetEnabled(value)) \/ Corrupt
  BY <1>3 DEF SetEnabled, Corrupt, CycleObeysAck
<1>4. CASE Persist \/ PersistFails
  <2>1. obj'[Worker].enabled = obj[Worker].enabled /\ UNCHANGED <<work, cycleTold>>
    BY <1>4, ProcType DEF Persist, Replace, Restat, PersistFails, Types, TypeOK
  <2> QED
    BY <2>1 DEF CycleObeysAck
<1>5. CASE SyncStat
  <2>1. UNCHANGED obj /\ cycleTold' = told /\ work' # "act"
    BY <1>5 DEF SyncStat
  <2>2. work' = "check" => obj[Worker].enabled = ReadEnabled
    BY <1>5 DEF SyncStat, Changed, StampIsHonest
  <2> QED
    BY <2>1, <2>2 DEF AckInv, AckedStateSurvives, ReadEnabled, CycleObeysAck, Types, TypeOK, Told
<1>6. CASE SyncRead
  <2>1. obj'[Worker].enabled = ReadEnabled /\ cycleTold' = cycleTold /\ work' = "check"
    BY <1>6, ProcType DEF SyncRead, Synced, Types, TypeOK
  <2> QED
    BY <2>1 DEF AckInv, CycleToldIsTold, AckedStateSurvives, ReadEnabled, CycleObeysAck, Types, TypeOK, Told
<1>7. CASE Check
  <2>1. obj[Worker].enabled => cycleTold # "paused"
    BY <1>7 DEF Check, CycleObeysAck
  <2>2. UNCHANGED <<obj, cycleTold>> /\ work' = IF obj[Worker].enabled THEN "act" ELSE "idle"
    BY <1>7 DEF Check
  <2> QED
    BY <2>1, <2>2 DEF CycleObeysAck
<1>8. CASE Act \/ Return \/ SyncFails
  BY <1>8 DEF Act, Return, SyncFails, CycleObeysAck
<1>9. ASSUME NEW p \in Procs, Crash(p) PROVE CycleObeysAck'
  BY <1>9 DEF Crash, CycleObeysAck
<1> QED
  BY <1>1, <1>2, <1>3, <1>4, <1>5, <1>6, <1>7, <1>8, <1>9 DEF Next, Build, Cycle

\* A cycle that began after /pause or /resume was acknowledged is governed by
\* it or by a newer command, under the same assumptions.
THEOREM CycleObeys ==
  ASSUME Bot # Worker => Worker \notin Restarting,
         Bot = Worker => Faults = {}
  PROVE  Spec => []CycleObeysAck
<1>1. Init => CycleObeysAck
  BY DEF Init, CycleObeysAck
<1>2. Types /\ AckInv /\ StampIsHonest /\ CycleObeysAck /\ [Next]_vars => CycleObeysAck'
  BY CycleObeysStep
<1> QED
  BY <1>1, <1>2, TypesInvariant, AckInvariant, HonestStamp, PTL DEF Spec

-------------------------------------------------------------------------------
(* With the bot in a process of its own, every step of the program is one   *)
(* of LiveSetting's: only the writes change the setting, and the worker's   *)
(* switch only ever changes to what the file says.  Crashes and failed      *)
(* writes included; no assumption on mtimes is needed.                      *)

LEMMA SettingType == Setting \in Switch!Disks
  BY DEF Setting, ReadEnabled, Readable, Switch!Disks

\* What the file holds is all that the setting depends on.
LEMMA SettingSame == UNCHANGED file => UNCHANGED Setting
  BY DEF Setting, ReadEnabled, Readable

LEMMA SwitchStep ==
  ASSUME Bot # Worker, Types, [Next]_vars
  PROVE  [Switch!Next]_<<Setting, obj[Worker].enabled>>
<1> DEFINE Same == UNCHANGED <<Setting, obj[Worker].enabled>>
<1>0. Readable => ReadEnabled \in Setting
  BY DEF Setting, ReadEnabled
<1>1. CASE UNCHANGED vars
  BY <1>1, SettingSame DEF vars
<1>2. ASSUME NEW p \in Procs, BuildRead(p) PROVE Same \/ Switch!Learn
  BY <1>0, <1>2, SettingSame, ProcType DEF BuildRead, Switch!Learn, Types, TypeOK
<1>3. ASSUME NEW p \in Procs, BuildStat(p) PROVE Same
  BY <1>3, SettingSame, ProcType DEF BuildStat, Types, TypeOK
<1>4. ASSUME NEW value \in BOOLEAN, SetEnabled(value) PROVE Same
  BY <1>4, SettingSame, ProcType DEF SetEnabled, Types, TypeOK
<1>5. CASE Replace \/ Corrupt
  <2>1. Setting' \in Switch!Disks
    BY DEF Setting, ReadEnabled, Readable, Switch!Disks
  <2> QED
    BY <1>5, <2>1 DEF Replace, Corrupt, Switch!Next, Switch!Write
<1>6. CASE Restat \/ PersistFails
  BY <1>6, SettingSame, ProcType DEF Restat, PersistFails, Types, TypeOK
<1>7. CASE SyncRead
  BY <1>0, <1>7, SettingSame, ProcType DEF SyncRead, Synced, Switch!Next, Switch!Learn, Types, TypeOK
<1>8. CASE SyncStat \/ SyncFails \/ Check \/ Act \/ Return
  BY <1>8, SettingSame DEF SyncStat, SyncFails, Check, Act, Return
<1>9. ASSUME NEW p \in Procs, Crash(p) PROVE Same
  BY <1>9, SettingSame DEF Crash
<1> QED
  BY <1>1, <1>2, <1>3, <1>4, <1>5, <1>6, <1>7, <1>8, <1>9
     DEF Next, Build, Persist, Cycle, Switch!Next

\* The worker's switch implements the safety part of LiveSetting: it never
\* holds a state that was not in the file when it was taken.
THEOREM Implements ==
  ASSUME Bot # Worker
  PROVE  Spec => Switch!Spec
<1>1. Types => Switch!Init
  BY SettingType, ProcType DEF Types, TypeOK, Switch!Init, Switch!TypeOK
<1>2. Types /\ [Next]_vars => [Switch!Next]_<<Setting, obj[Worker].enabled>>
  BY SwitchStep
<1> QED
  BY <1>1, <1>2, TypesInvariant, PTL DEF Spec, Switch!Spec

===============================================================================

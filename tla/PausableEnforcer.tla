--------------------------- MODULE PausableEnforcer ---------------------------
(***************************************************************************)
(* The pause switch of one account (enforcement/pausable.py): one small    *)
(* state file, and one PausableEnforcer in each process that uses the      *)
(* account.  The bot's thread calls pause and resume; the worker's thread  *)
(* calls sync_from_disk and handle once per monitoring cycle.  Bot =       *)
(* Worker is the single-process topology, where both threads share one     *)
(* object and its lock.                                                    *)
(***************************************************************************)
EXTENDS Naturals

CONSTANTS
  Bot, Worker,   \* the two processes, possibly the same one
  Restarting,    \* the processes that may crash and be started again
  Faults,        \* which of "corrupt", "persist" may happen
  MaxResults,    \* bound: check results one cycle acts on
  MaxClock,      \* bound: writes of the state file
  MaxCrashes     \* bound: process crashes

ASSUME PausableEnforcerAssumption ==
  /\ Restarting \subseteq {Bot, Worker}
  /\ Faults \subseteq {"corrupt", "persist"}
  /\ MaxResults \in Nat \ {0}
  /\ MaxClock \in Nat /\ MaxCrashes \in Nat

VARIABLES
  file,      \* the state file: its content and its mtime, 0 while absent
  clock,     \* the latest mtime handed out; every write gets a new one
  obj,       \* obj[p]: the attributes _enabled and _state_mtime in process p
  phase,     \* phase[p]: "down", in the constructor ("building") or "up"
  bot,       \* where the bot's thread is in _set_enabled
  work,      \* where the worker's thread is in its monitoring cycle
  seen,      \* the local variable mtime of sync_from_disk
  left,      \* check results the cycle has not acted on yet
  told,      \* history: the acknowledged state, "none" during a command
  cycleTold, \* history: what was acknowledged when the cycle began
  crashes    \* number of crashes so far

vars == <<file, clock, obj, phase, bot, work, seen, left, told, cycleTold, crashes>>

Procs    == {Bot, Worker}
Spoilt   == {"corrupt", "broken"}
Contents == {"absent", "paused", "active"} \union Spoilt
Told     == {"none", "paused", "active"}

-------------------------------------------------------------------------------
(* The pure helpers. *)

\* _read_enabled returns: it catches that there is no file and that its text
\* is no JSON ("corrupt"), not that the file cannot be opened or that its JSON
\* is no object ("broken").
Readable == file.content # "broken"

\* What it returns then: everything but "paused" enables enforcement.
ReadEnabled == file.content # "paused"

\* The setting as a set: empty when reading it raises.
Setting == {enabled \in BOOLEAN : Readable /\ enabled = ReadEnabled}

\* Mutant: the flag is stored without the negation.
DumpInverted == IF obj[Bot].enabled THEN "paused" ELSE "active"

\* What _persist writes.
Dump == IF obj[Bot].enabled THEN "active" ELSE "paused"

\* Mutant: a paused worker stops looking at the file.
ChangedWhileEnabled == obj[Worker].enabled /\ file.mtime # obj[Worker].mtime

\* The test of sync_from_disk.
Changed == file.mtime # obj[Worker].mtime

\* Mutant: the new mtime is kept without the new state.
OnlyTheStamp == [obj[Worker] EXCEPT !.mtime = seen]

\* What sync_from_disk assigns: the state read last, the mtime taken first.
Synced == [enabled |-> ReadEnabled, mtime |-> seen]

\* One thread of a process holds the lock at a time.
LockFreeForBot    == Bot # Worker \/ work # "read"
LockFreeForWorker == Bot # Worker \/ bot \notin {"persist", "restat"}

Init ==
  /\ file \in {[content |-> "absent", mtime |-> 0],
               [content |-> "paused", mtime |-> 1], [content |-> "active", mtime |-> 1]}
  /\ clock = 1
  /\ obj = [p \in Procs |-> [enabled |-> ReadEnabled, mtime |-> file.mtime]]
  /\ phase = [p \in Procs |-> "up"]
  /\ bot = "idle" /\ work = "idle"
  /\ seen = 0 /\ left = 0
  /\ told = "none" /\ cycleTold = "none"
  /\ crashes = 0

-------------------------------------------------------------------------------
(* The constructor reads the state before it takes the mtime, the other way *)
(* round than sync_from_disk.                                               *)

\* Mutant: a new object does not read the state file.
BuildEnabled(p) ==
  /\ phase[p] = "down"
  /\ Readable
  /\ phase' = [phase EXCEPT ![p] = "building"]
  /\ obj' = [obj EXCEPT ![p].enabled = TRUE]
  /\ UNCHANGED <<file, clock, bot, work, seen, left, told, cycleTold, crashes>>

\* A file whose reading raises ends the start-up and changes nothing.
BuildRead(p) ==
  /\ phase[p] = "down"
  /\ Readable
  /\ phase' = [phase EXCEPT ![p] = "building"]
  /\ obj' = [obj EXCEPT ![p].enabled = ReadEnabled]
  /\ UNCHANGED <<file, clock, bot, work, seen, left, told, cycleTold, crashes>>

BuildStat(p) ==
  /\ phase[p] = "building"
  /\ phase' = [phase EXCEPT ![p] = "up"]
  /\ obj' = [obj EXCEPT ![p].mtime = file.mtime]
  /\ bot' = IF p = Bot THEN "idle" ELSE bot
  /\ work' = IF p = Worker THEN "idle" ELSE work
  /\ UNCHANGED <<file, clock, seen, left, told, cycleTold, crashes>>

-------------------------------------------------------------------------------
(* The bot's thread: pause() and resume(). *)

SetEnabled(value) ==
  /\ bot = "idle" /\ LockFreeForBot
  /\ obj' = [obj EXCEPT ![Bot].enabled = value]
  /\ bot' = "persist"
  /\ told' = "none" /\ cycleTold' = "none"
  /\ UNCHANGED <<file, clock, phase, work, seen, left, crashes>>

Replace ==
  /\ bot = "persist"
  /\ clock < MaxClock
  /\ clock' = clock + 1
  /\ file' = [content |-> Dump, mtime |-> clock + 1]
  /\ bot' = "restat"
  /\ UNCHANGED <<obj, phase, work, seen, left, told, cycleTold, crashes>>

\* The mtime is recorded, the lock released, the command answered; the answer
\* counts unless somebody spoiled the file in between.
Restat ==
  /\ bot = "restat"
  /\ obj' = [obj EXCEPT ![Bot].mtime = file.mtime]
  /\ bot' = "idle"
  /\ told' = IF file.content \in Spoilt THEN "none"
             ELSE IF obj[Bot].enabled THEN "active" ELSE "paused"
  /\ UNCHANGED <<file, clock, phase, work, seen, left, cycleTold, crashes>>

\* An OSError in _persist ends the bot's thread, and its process if it is
\* the only one in it; the memory is changed by then.
PersistFails ==
  /\ "persist" \in Faults
  /\ bot = "persist"
  /\ bot' = "off"
  /\ phase' = IF Bot = Worker THEN phase ELSE [phase EXCEPT ![Bot] = "down"]
  /\ UNCHANGED <<file, clock, obj, work, seen, left, told, cycleTold, crashes>>

-------------------------------------------------------------------------------
(* The worker's thread: sync_from_disk and handle in run_once. *)

SyncStat ==
  /\ work = "idle" /\ LockFreeForWorker
  /\ seen' = file.mtime
  /\ work' = IF Changed THEN "read" ELSE "check"
  /\ cycleTold' = told
  /\ UNCHANGED <<file, clock, obj, phase, bot, left, told, crashes>>

SyncRead ==
  /\ work = "read"
  /\ Readable
  /\ obj' = [obj EXCEPT ![Worker] = Synced]
  /\ work' = "check"
  /\ UNCHANGED <<file, clock, phase, bot, seen, left, told, cycleTold, crashes>>

\* Reading raises: the object is unchanged, the cycle is over, and so will be
\* every one that finds the file like this.
SyncFails ==
  /\ work = "read"
  /\ ~Readable
  /\ work' = "idle"
  /\ UNCHANGED <<file, clock, obj, phase, bot, seen, left, told, cycleTold, crashes>>

\* handle reads the switch once, for all of the cycle's results; the inner
\* enforcer acts on those that failed, if any.
Check ==
  /\ work = "check" /\ LockFreeForWorker
  /\ left' \in IF obj[Worker].enabled THEN 0..MaxResults ELSE {0}
  /\ work' = IF obj[Worker].enabled THEN "act" ELSE "idle"
  /\ UNCHANGED <<file, clock, obj, phase, bot, seen, told, cycleTold, crashes>>

\* One alert or order of the inner enforcer.
Act ==
  /\ work = "act" /\ left > 0
  /\ left' = left - 1
  /\ UNCHANGED <<file, clock, obj, phase, bot, work, seen, told, cycleTold, crashes>>

\* handle returns.
Return ==
  /\ work = "act" /\ left = 0
  /\ work' = "idle"
  /\ UNCHANGED <<file, clock, obj, phase, bot, seen, left, told, cycleTold, crashes>>

-------------------------------------------------------------------------------
(* The environment. *)

\* Somebody spoils the file; what was acknowledged is void.
Corrupt ==
  /\ "corrupt" \in Faults
  /\ clock < MaxClock
  /\ clock' = clock + 1
  /\ file' \in {[content |-> c, mtime |-> clock + 1] : c \in Spoilt}
  /\ told' = "none" /\ cycleTold' = "none"
  /\ UNCHANGED <<obj, phase, bot, work, seen, left, crashes>>

Crash(p) ==
  /\ p \in Restarting
  /\ phase[p] # "down"
  /\ crashes < MaxCrashes
  /\ crashes' = crashes + 1
  /\ phase' = [phase EXCEPT ![p] = "down"]
  /\ bot' = IF p = Bot THEN "off" ELSE bot
  /\ work' = IF p = Worker THEN "off" ELSE work
  /\ cycleTold' = IF p = Worker THEN "none" ELSE cycleTold
  /\ left' = IF p = Worker THEN 0 ELSE left
  /\ UNCHANGED <<file, clock, obj, seen, told>>

Build   == \E p \in Procs : BuildRead(p) \/ BuildStat(p)
Persist == Replace \/ Restat
Cycle   == SyncStat \/ SyncRead \/ SyncFails \/ Check \/ Act \/ Return

Next ==
  \/ Build
  \/ \E value \in BOOLEAN : SetEnabled(value)
  \/ Persist \/ PersistFails
  \/ Cycle
  \/ Corrupt
  \/ \E p \in Procs : Crash(p)

Spec == Init /\ [][Next]_vars

\* A running worker keeps cycling, a call in progress goes on and a process
\* that starts gets up.  Commands, crashes and corruption are not promised.
Fairness == WF_vars(Cycle) /\ WF_vars(Persist) /\ WF_vars(Build)

FairSpec == Spec /\ Fairness

-------------------------------------------------------------------------------
(* Properties. *)

TypeOK ==
  /\ file \in [content : Contents, mtime : Nat]
  /\ clock \in Nat /\ seen \in Nat /\ left \in 0..MaxResults /\ crashes \in Nat
  /\ obj \in [Procs -> [enabled : BOOLEAN, mtime : Nat]]
  /\ phase \in [Procs -> {"down", "building", "up"}]
  /\ bot \in {"off", "idle", "persist", "restat"}
  /\ work \in {"off", "idle", "read", "check", "act"}
  /\ told \in Told /\ cycleTold \in Told
  /\ left > 0 => work = "act"

\* A recorded mtime vouches for the state held with it: while it is the
\* file's own, the worker's switch is what _read_enabled would return, so no
\* write is ever skipped by sync_from_disk.
StampIsHonest ==
  work # "off" /\ LockFreeForWorker /\ obj[Worker].mtime = file.mtime =>
    Readable /\ obj[Worker].enabled = ReadEnabled

\* An acknowledged /pause or /resume is in the file, whichever process
\* restarts afterwards ("pause state survives a restart", config.py).
AckedStateSurvives ==
  /\ told = "paused" => file.content = "paused"
  /\ told = "active" => file.content = "active"

\* A cycle that began after a command was acknowledged is governed by that
\* command, unless a newer one was given: a paused account is not acted on
\* and a resumed one is not left alone.
CycleObeysAck ==
  /\ work = "check" /\ cycleTold # "none" =>
       obj[Worker].enabled = (cycleTold = "active")
  /\ work = "act" => cycleTold # "paused"

\* An acknowledged command reaches a worker that runs ("on its next poll"), or
\* is superseded.
AckReachesWorker ==
  \A t \in {"paused", "active"} :
    told = t ~> \/ told # t
                \/ work = "off"
                \/ obj[Worker].enabled = (t = "active")

\* With the bot in a process of its own, the worker's switch implements a
\* live setting whose disk is the state file: a file that cannot be read
\* leaves the switch as it was, and the next one that can be is learnt.
Switch == INSTANCE LiveSetting WITH
            Settings <- BOOLEAN, disk <- Setting, view <- obj[Worker].enabled


===============================================================================

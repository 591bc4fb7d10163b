------------------------------ MODULE RulesStore ------------------------------
(***************************************************************************)
(* One account's live trading rules, as discipline_framework/rules/store.py*)
(* keeps them: a baseline file, a sparse file of overrides set from chat,  *)
(* and one RulesStore object in each process that uses the account.        *)
(*                                                                         *)
(* Bot is the process of the command bot, the only caller of the setters;  *)
(* Worker is the process of the AccountWorker, the only caller of          *)
(* reload_if_stale after start-up.  Bot = Worker is the single-process     *)
(* topology (run_monitor.py), where both threads share one object; Bot #   *)
(* Worker is run_account.py plus run_bot.py.  Each operation holds the     *)
(* object's RLock from its first to its last step, so a process has one    *)
(* program counter; between the steps the files may change.                *)
(*                                                                         *)
(* A nested rules dict is a function from its leaf fields ("risk.max_...") *)
(* to values, Unset where a sparse dict has no such key.                   *)
(***************************************************************************)
EXTENDS Naturals

CONSTANTS
  Fields,        \* the leaf fields of TradingRules
  ValidValues,   \* the values the pydantic validators accept
  InvalidValues, \* values they reject
  Baselines,     \* the baselines the programs may be installed with
  Edits,         \* what a hand edit may make of the baseline, sound or not
  Unset,         \* no such key in the dict
  Setters,       \* for each setter, the set of the fields it patches
  Bot, Worker,   \* the two processes, possibly the same one
  Faults,        \* which of "delete", "persist" may happen
  MaxClock,      \* bound: file writes
  MaxCrashes     \* bound: process crashes

ASSUME RulesStoreAssumption ==
  /\ Unset \notin ValidValues \union InvalidValues
  /\ ValidValues \intersect InvalidValues = {}
  /\ Setters \subseteq SUBSET Fields
  /\ Baselines \subseteq [Fields -> ValidValues]
  /\ Edits \subseteq [Fields -> ValidValues \union InvalidValues \union {Unset}]
  /\ Faults \subseteq {"delete", "persist"}
  /\ MaxClock \in Nat /\ MaxCrashes \in Nat

VARIABLES
  baseFile, \* config/rules/<id>.yaml: its data and its mtime
  ovFile,   \* config/rules_overrides/<id>.yaml: mtime 0 while it is absent
  clock,    \* the latest mtime handed out; every write gets a new one
  store,    \* store[p]: the attributes of p's RulesStore
  local,    \* local[p]: the local variables of p's reload_if_stale
  pc,       \* pc[p]: where p is in the operation that holds the lock
  force,    \* force[p]: the reload is the forced one of load()
  pending,  \* the patch of the setter being executed
  botAlive, \* the bot's polling loop has not been ended by an exception
  settled,  \* history: acknowledged settings that no later command touched
  due,      \* history: what was settled when the worker's cycle began
  crashes   \* number of crashes so far

files == <<baseFile, ovFile, clock>>
ghosts == <<settled, due>>
vars == <<files, store, local, pc, force, pending, botAlive, ghosts, crashes>>

Procs   == {Bot, Worker}
Values  == ValidValues \union InvalidValues
Dict    == [Fields -> Values \union {Unset}]
Empty   == [f \in Fields |-> Unset]
File    == [data : Dict, mtime : Nat]
Patches == {d \in Dict : {f \in Fields : d[f] # Unset} \in Setters}

Reloading == {"statOverrides", "readBase", "readOverrides"}
Locations == {"down", "load", "idle", "persist", "restat"} \union Reloading

-------------------------------------------------------------------------------
(* The pure helpers. *)

\* _deep_merge: the overrides' keys win, every other key keeps its value.
DeepMerge(b, o) == [f \in Fields |-> IF o[f] # Unset THEN o[f] ELSE b[f]]

\* TradingRules.model_validate: every field present and within its range.
Validates(d) == \A f \in Fields : d[f] \in ValidValues

\* A later command on the same field takes an obligation away.
Lapse(d, patch) == [f \in Fields |-> IF patch[f] # Unset THEN Unset ELSE d[f]]

\* Mutant: the staleness test forgets the overrides file.
StaleByBaseline(p) == force[p] \/ local[p].baseMtime # store[p].baseMtime

\* The test of reload_if_stale: either mtime differs from the recorded one.
Stale(p) ==
  \/ force[p]
  \/ local[p].baseMtime # store[p].baseMtime
  \/ ovFile.mtime # store[p].ovMtime

\* Mutant: the mtimes are taken when the new data is committed.
StampedLate(p) ==
  [base |-> local[p].base, overrides |-> ovFile.data,
   rules |-> DeepMerge(local[p].base, ovFile.data),
   baseMtime |-> baseFile.mtime, ovMtime |-> ovFile.mtime]

\* What reload_if_stale commits: the data read last, the mtimes taken first.
Reloaded(p) ==
  [base |-> local[p].base, overrides |-> ovFile.data,
   rules |-> DeepMerge(local[p].base, ovFile.data),
   baseMtime |-> local[p].baseMtime, ovMtime |-> local[p].ovMtime]

\* Mutant: a setter starts from an empty set of overrides.
OnlyThePatch(patch) == patch

\* _apply_override merges the patch into its own copy of the overrides; it
\* reads neither file.
NewOverrides(patch) == DeepMerge(store[Bot].overrides, patch)

\* Mutant: the full rules are dumped instead of the sparse overrides.
FullDump == store[Bot].rules

\* What _persist writes.
Dump == store[Bot].overrides

Init ==
  /\ baseFile \in {[data |-> d, mtime |-> 1] : d \in Baselines}
  /\ ovFile = [data |-> Empty, mtime |-> 0]
  /\ clock = 1
  /\ store = [p \in Procs |-> [base |-> Empty, overrides |-> Empty, rules |-> Empty,
                               baseMtime |-> 0, ovMtime |-> 0]]
  /\ local = [p \in Procs |-> [base |-> Empty, baseMtime |-> 0, ovMtime |-> 0]]
  /\ pc = [p \in Procs |-> "down"]
  /\ force = [p \in Procs |-> FALSE]
  /\ pending = Empty
  /\ botAlive = FALSE
  /\ settled = Empty
  /\ due = Empty
  /\ crashes = 0

-------------------------------------------------------------------------------
(* load() and reload_if_stale(). *)

\* Mutant: load() leaves the re-read to the staleness test.
StartUnforced(p) ==
  /\ pc[p] = "down"
  /\ Validates(baseFile.data)
  /\ store' = [store EXCEPT ![p] =
       [base |-> baseFile.data, overrides |-> Empty, rules |-> baseFile.data,
        baseMtime |-> baseFile.mtime, ovMtime |-> ovFile.mtime]]
  /\ force' = [force EXCEPT ![p] = FALSE]
  /\ pc' = [pc EXCEPT ![p] = "load"]
  /\ botAlive' = (botAlive \/ p = Bot)
  /\ UNCHANGED <<files, local, pending, ghosts, crashes>>

\* load() up to its reload_if_stale(force=True).  A baseline that does not
\* validate ends the start-up and changes nothing.  The mtimes __init__ takes
\* are all replaced by the forced reload, so that they are taken in one step
\* with the data is immaterial.
Start(p) ==
  /\ pc[p] = "down"
  /\ Validates(baseFile.data)
  /\ store' = [store EXCEPT ![p] =
       [base |-> baseFile.data, overrides |-> Empty, rules |-> baseFile.data,
        baseMtime |-> baseFile.mtime, ovMtime |-> ovFile.mtime]]
  /\ force' = [force EXCEPT ![p] = TRUE]
  /\ pc' = [pc EXCEPT ![p] = "load"]
  /\ botAlive' = (botAlive \/ p = Bot)
  /\ UNCHANGED <<files, local, pending, ghosts, crashes>>

\* The call of load(), or the first line of the worker's monitoring cycle,
\* which must see all that was acknowledged before it.
StatBase(p) ==
  /\ pc[p] = "load" \/ (pc[p] = "idle" /\ p = Worker)
  /\ local' = [local EXCEPT ![p].baseMtime = baseFile.mtime]
  /\ pc' = [pc EXCEPT ![p] = "statOverrides"]
  /\ due' = IF p = Worker THEN settled ELSE due
  /\ UNCHANGED <<files, store, force, pending, botAlive, settled, crashes>>

StatOverrides(p) ==
  /\ pc[p] = "statOverrides"
  /\ local' = [local EXCEPT ![p].ovMtime = ovFile.mtime]
  /\ pc' = [pc EXCEPT ![p] = IF Stale(p) THEN "readBase" ELSE "idle"]
  /\ UNCHANGED <<files, store, force, pending, botAlive, ghosts, crashes>>

ReadBase(p) ==
  /\ pc[p] = "readBase"
  /\ local' = [local EXCEPT ![p].base = baseFile.data]
  /\ pc' = [pc EXCEPT ![p] = "readOverrides"]
  /\ UNCHANGED <<files, store, force, pending, botAlive, ghosts, crashes>>

\* Mutant: a reload keeps what it has read without validating it.
ReadUnvalidated(p) ==
  /\ pc[p] = "readOverrides"
  /\ store' = [store EXCEPT ![p] = Reloaded(p)]
  /\ force' = [force EXCEPT ![p] = FALSE]
  /\ pc' = [pc EXCEPT ![p] = "idle"]
  /\ UNCHANGED <<files, local, pending, botAlive, ghosts, crashes>>

\* The overrides are read, merged and validated; only then is anything kept.
ReadOverrides(p) ==
  /\ pc[p] = "readOverrides"
  /\ Validates(DeepMerge(local[p].base, ovFile.data))
  /\ store' = [store EXCEPT ![p] = Reloaded(p)]
  /\ force' = [force EXCEPT ![p] = FALSE]
  /\ pc' = [pc EXCEPT ![p] = "idle"]
  /\ UNCHANGED <<files, local, pending, botAlive, ghosts, crashes>>

\* model_validate raises: load() fails and the process with it; the worker
\* logs the error, enforces nothing in this cycle and begins a new one.
RejectReload(p) ==
  /\ pc[p] = "readOverrides"
  /\ ~Validates(DeepMerge(local[p].base, ovFile.data))
  /\ pc' = [pc EXCEPT ![p] = IF force[p] THEN "down" ELSE "idle"]
  /\ force' = [force EXCEPT ![p] = FALSE]
  /\ botAlive' = (botAlive /\ pc'[Bot] # "down")
  /\ due' = IF p = Worker THEN Empty ELSE due
  /\ UNCHANGED <<files, store, local, pending, settled, crashes>>

-------------------------------------------------------------------------------
(* The setters: _apply_override and _persist. *)

\* Mutant: the overrides are assigned before they are validated.
CommitUnvalidated(patch) ==
  /\ pc[Bot] = "idle" /\ botAlive
  /\ LET merged == DeepMerge(store[Bot].base, NewOverrides(patch))
         ok     == Validates(merged)
     IN  /\ store' = [store EXCEPT ![Bot].overrides = NewOverrides(patch),
                                   ![Bot].rules = IF ok THEN merged ELSE @]
         /\ pc' = [pc EXCEPT ![Bot] = IF ok THEN "persist" ELSE "idle"]
  /\ pending' = patch
  /\ settled' = Lapse(settled, patch)
  /\ due' = Lapse(due, patch)
  /\ UNCHANGED <<files, local, force, botAlive, crashes>>

\* A setter commits in memory.  A patch that does not validate is answered
\* with a warning and changes nothing.
ApplyOverride(patch) ==
  /\ pc[Bot] = "idle" /\ botAlive
  /\ LET merged == DeepMerge(store[Bot].base, NewOverrides(patch))
     IN  /\ Validates(merged)
         /\ store' = [store EXCEPT ![Bot].overrides = NewOverrides(patch),
                                   ![Bot].rules = merged]
  /\ pc' = [pc EXCEPT ![Bot] = "persist"]
  /\ pending' = patch
  /\ settled' = Lapse(settled, patch)
  /\ due' = Lapse(due, patch)
  /\ UNCHANGED <<files, local, force, botAlive, crashes>>

\* The temporary file is written and renamed over the overrides file.
Replace ==
  /\ pc[Bot] = "persist"
  /\ clock < MaxClock
  /\ clock' = clock + 1
  /\ ovFile' = [data |-> Dump, mtime |-> clock + 1]
  /\ pc' = [pc EXCEPT ![Bot] = "restat"]
  /\ UNCHANGED <<baseFile, store, local, force, pending, botAlive, ghosts, crashes>>

\* The new mtime is recorded and the command is acknowledged.
Restat ==
  /\ pc[Bot] = "restat"
  /\ store' = [store EXCEPT ![Bot].ovMtime = ovFile.mtime]
  /\ pc' = [pc EXCEPT ![Bot] = "idle"]
  /\ settled' = DeepMerge(settled, pending)
  /\ pending' = Empty
  /\ UNCHANGED <<files, local, force, botAlive, due, crashes>>

\* Mutant: the OSError is swallowed and the command answered with success.
PersistFailsAcked ==
  /\ "persist" \in Faults
  /\ pc[Bot] = "persist"
  /\ pc' = [pc EXCEPT ![Bot] = "idle"]
  /\ settled' = DeepMerge(settled, pending)
  /\ pending' = Empty
  /\ UNCHANGED <<files, store, local, force, botAlive, due, crashes>>

\* An OSError in _persist, after memory was assigned: no caller up to the
\* polling loop catches it.  The bot's process ends, or its thread does.
PersistFails ==
  /\ "persist" \in Faults
  /\ pc[Bot] = "persist"
  /\ pc' = [pc EXCEPT ![Bot] = IF Bot = Worker THEN "idle" ELSE "down"]
  /\ botAlive' = FALSE
  /\ pending' = Empty
  /\ UNCHANGED <<files, store, local, force, ghosts, crashes>>

-------------------------------------------------------------------------------
(* The environment: whoever edits the account's files, and crashes. *)

EditBaseline(data) ==
  /\ clock < MaxClock
  /\ clock' = clock + 1
  /\ baseFile' = [data |-> data, mtime |-> clock + 1]
  /\ UNCHANGED <<ovFile, store, local, pc, force, pending, botAlive, ghosts, crashes>>

\* The documented way to give the values of the baseline back their effect;
\* nothing set before it is promised any more.
DeleteOverrides ==
  /\ "delete" \in Faults
  /\ ovFile.mtime # 0
  /\ ovFile' = [data |-> Empty, mtime |-> 0]
  /\ settled' = Empty
  /\ due' = Empty
  /\ pending' = IF pc[Bot] = "restat" THEN Empty ELSE pending
  /\ UNCHANGED <<baseFile, clock, store, local, pc, force, botAlive, crashes>>

\* The memory of a process is lost between any two of its steps.
Crash(p) ==
  /\ pc[p] # "down"
  /\ crashes < MaxCrashes
  /\ crashes' = crashes + 1
  /\ pc' = [pc EXCEPT ![p] = "down"]
  /\ force' = [force EXCEPT ![p] = FALSE]
  /\ pending' = IF p = Bot THEN Empty ELSE pending
  /\ botAlive' = (botAlive /\ p # Bot)
  /\ UNCHANGED <<files, store, local, ghosts>>

Reload(p) ==
  StatBase(p) \/ StatOverrides(p) \/ ReadBase(p) \/ ReadOverrides(p) \/ RejectReload(p)

Persist == Replace \/ Restat

Next ==
  \/ \E p \in Procs : Start(p) \/ Reload(p) \/ Crash(p)
  \/ \E patch \in Patches : ApplyOverride(patch)
  \/ Persist
  \/ PersistFails
  \/ \E data \in Edits : EditBaseline(data)
  \/ DeleteOverrides

Spec == Init /\ [][Next]_vars

\* Running threads run: the worker's loop and a call in progress go on.  No
\* command, edit, crash or restart is promised.
Fairness == (\A p \in Procs : WF_vars(Reload(p))) /\ WF_vars(Persist)

FairSpec == Spec /\ Fairness

-------------------------------------------------------------------------------
(* Properties. *)

StoreType == [base : Dict, overrides : Dict, rules : Dict, baseMtime : Nat, ovMtime : Nat]
LocalType == [base : Dict, baseMtime : Nat, ovMtime : Nat]

\* Types; and the rules a running process works with are always validated
\* ones, whatever the files contain (TradingRules.model_validate).
TypeOK ==
  /\ baseFile \in File /\ ovFile \in File
  /\ clock \in Nat /\ crashes \in Nat
  /\ store \in [Procs -> StoreType]
  /\ local \in [Procs -> LocalType]
  /\ pc \in [Procs -> Locations]
  /\ force \in [Procs -> BOOLEAN]
  /\ botAlive \in BOOLEAN
  /\ pending \in Dict /\ settled \in Dict /\ due \in Dict
  /\ \A p \in Procs : pc[p] # "down" => Validates(store[p].rules)

\* The three attributes of a store are one version of it: the rules are
\* always the merge of the baseline and the overrides beside them, after any
\* mixture of commands, reloads and rejected values.
RulesAreMerged ==
  \A p \in Procs : pc[p] # "down" =>
    store[p].rules = DeepMerge(store[p].base, store[p].overrides)

\* An mtime never vouches for data that was not in the file when the file had
\* it: as long as a recorded mtime is the file's own, the file's data is what
\* the process holds, so the cheap stat of reload_if_stale never hides a
\* change, wherever between its stat and its read a write falls.  That there
\* is no overrides file is no such stamp: it may have come and gone in between.
StampsAreHonest ==
  \A p \in Procs : pc[p] # "down" /\ ~force[p] =>
    /\ store[p].baseMtime = baseFile.mtime => store[p].base = baseFile.data
    /\ (/\ pc[p] \notin {"persist", "restat"}
        /\ ovFile.mtime # 0 /\ store[p].ovMtime = ovFile.mtime) =>
         store[p].overrides = ovFile.data

\* What the bot answered with a check mark is in the overrides file until a
\* later command on the same field, across crashes and restarts.
AckedIsDurable == \A f \in Fields : settled[f] # Unset => ovFile.data[f] = settled[f]

\* Once a monitoring cycle has got past its reload, it enforces everything that
\* was acknowledged before the cycle began ("takes effect on that account's
\* next monitoring cycle").
EffectiveByNextCycle ==
  pc[Worker] = "idle" =>
    \A f \in Fields : due[f] # Unset => store[Worker].rules[f] = due[f]

\* The overrides file, while there is one, is an audit trail of exactly what
\* was changed live: outside a setter the bot holds the overrides it lists,
\* whichever write failed and whichever process was started again.
AuditTrail ==
  pc[Bot] = "idle" /\ ovFile.mtime # 0 => store[Bot].overrides = ovFile.data

\* The documented claim: a write of the overrides file changes the fields of
\* the one command being executed and no other.
WritesOnlyThePatch ==
  [][\A f \in Fields :
       ovFile'.data[f] # ovFile.data[f] =>
         \/ ovFile'.mtime = 0
         \/ pending[f] # Unset /\ ovFile'.data[f] = pending[f]]_vars

\* What is left of it when the file may be deleted: a write never changes
\* another entry of the file it replaces, and where there is no file it adds
\* only what somebody once set, never a value of the baseline.
WritesAreSparse ==
  [][\A f \in Fields :
       ovFile'.data[f] # ovFile.data[f] =>
         \/ ovFile'.mtime = 0
         \/ pending[f] # Unset /\ ovFile'.data[f] = pending[f]
         \/ ovFile.mtime = 0 /\ ovFile'.data[f] = store[Bot].overrides[f]]_vars

\* Unless the files do not validate, a running worker keeps coming back to
\* the rules they describe, without any notification from the bot.  Where there
\* is no overrides file it may still hold those of one that was deleted just
\* after it was read: the mtime is again that of no file.
WorkerCatchesUp ==
  LET Merged(overrides) == DeepMerge(baseFile.data, overrides)
  IN  []<>(\/ pc[Worker] = "down"
           \/ ~Validates(Merged(ovFile.data))
           \/ store[Worker].rules = Merged(ovFile.data)
           \/ ovFile.mtime = 0 /\ store[Worker].rules = Merged(store[Worker].overrides))

-------------------------------------------------------------------------------
(* The inductive invariant behind StampsAreHonest, AuditTrail and            *)
(* WritesAreSparse.  With one process it needs that no write fails: the      *)
(* worker would go on with a memory that is ahead of the file.               *)

StampsArePast ==
  /\ baseFile.mtime <= clock /\ ovFile.mtime <= clock
  /\ \A p \in Procs : /\ store[p].baseMtime <= clock /\ store[p].ovMtime <= clock
                      /\ local[p].baseMtime <= clock /\ local[p].ovMtime <= clock

OnlyLoadsForce == \A p \in Procs : force[p] => pc[p] = "load" \/ pc[p] \in Reloading

\* The data read first goes with the mtime taken before it.
ReadIsHonest ==
  \A p \in Procs : pc[p] = "readOverrides" /\ local[p].baseMtime = baseFile.mtime =>
    local[p].base = baseFile.data

\* While there is an overrides file, the bot's copy differs from it by the
\* patch it is about to write.
BotMirrorsFile ==
  /\ ovFile.mtime # 0 =>
       /\ pc[Bot] = "persist" => store[Bot].overrides = DeepMerge(ovFile.data, pending)
       /\ pc[Bot] \notin {"down", "persist"} /\ ~force[Bot] => store[Bot].overrides = ovFile.data
  /\ pc[Bot] = "load" => force[Bot]

IndInv ==
  /\ TypeOK /\ RulesAreMerged
  /\ StampsArePast /\ OnlyLoadsForce /\ ReadIsHonest /\ StampsAreHonest /\ BotMirrorsFile

===============================================================================

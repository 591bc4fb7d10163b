--------------------------- MODULE RulesStoreProofs ---------------------------
(***************************************************************************)
(* Theorems about RulesStore, for every set of fields, values and setters, *)
(* for both topologies and with no bound on files, commands or crashes     *)
(* other than the constants that name one.                                 *)
(***************************************************************************)
EXTENDS RulesStore, TLAPS

-------------------------------------------------------------------------------
(* The helpers. *)

LEMMA MergeType ==
  ASSUME NEW b \in Dict, NEW o \in Dict
  PROVE  DeepMerge(b, o) \in Dict
  BY DEF DeepMerge, Dict

LEMMA EmptyType == Empty \in Dict
  BY DEF Empty, Dict

LEMMA LapseType ==
  ASSUME NEW d \in Dict, NEW patch \in Dict
  PROVE  Lapse(d, patch) \in Dict
  BY DEF Lapse, Dict

\* Merging nothing changes nothing.
LEMMA MergeEmpty ==
  ASSUME NEW b \in Dict
  PROVE  DeepMerge(b, Empty) = b
  BY DEF DeepMerge, Empty, Dict

LEMMA ProcType == Bot \in Procs /\ Worker \in Procs
  BY DEF Procs

-------------------------------------------------------------------------------
(* Type correctness, and the rules of a running process are valid ones. *)

LEMMA TypeInit == Init => TypeOK
<1> SUFFICES ASSUME Init PROVE TypeOK
  OBVIOUS
<1>1. baseFile \in File
  <2>1. PICK d \in Baselines : baseFile = [data |-> d, mtime |-> 1]
    BY DEF Init
  <2>2. d \in Dict
    BY RulesStoreAssumption DEF Dict, Values
  <2> QED
    BY <2>1, <2>2 DEF File
<1> QED
  BY <1>1, EmptyType DEF Init, TypeOK, File, StoreType, LocalType, Locations

LEMMA StartType ==
  ASSUME TypeOK, NEW p \in Procs, Start(p)
  PROVE  TypeOK'
  BY EmptyType DEF Start, TypeOK, File, StoreType, Locations, files, ghosts

LEMMA ReloadType ==
  ASSUME TypeOK, NEW p \in Procs, Reload(p)
  PROVE  TypeOK'
<1>1. CASE StatBase(p)
  BY <1>1 DEF StatBase, TypeOK, File, LocalType, Locations, Reloading, files, ghosts
<1>2. CASE StatOverrides(p)
  BY <1>2 DEF StatOverrides, TypeOK, File, LocalType, Locations, Reloading, files, ghosts
<1>3. CASE ReadBase(p)
  BY <1>3 DEF ReadBase, TypeOK, File, LocalType, Locations, Reloading, files, ghosts
<1>4. CASE ReadOverrides(p)
  <2>1. Reloaded(p) \in StoreType
    BY MergeType DEF Reloaded, TypeOK, File, LocalType, StoreType
  <2>2. Validates(Reloaded(p).rules)
    BY <1>4 DEF ReadOverrides, Reloaded
  <2> QED
    BY <1>4, <2>1, <2>2 DEF ReadOverrides, TypeOK, Locations, files, ghosts
<1>5. CASE RejectReload(p)
  BY <1>5, EmptyType DEF RejectReload, TypeOK, Locations, files
<1> QED
  BY <1>1, <1>2, <1>3, <1>4, <1>5 DEF Reload

LEMMA ApplyOverrideType ==
  ASSUME TypeOK, NEW patch \in Patches, ApplyOverride(patch)
  PROVE  TypeOK'
<1> DEFINE new == NewOverrides(patch)
           merged == DeepMerge(store[Bot].base, new)
<1>1. patch \in Dict
  BY DEF Patches
<1>2. new \in Dict /\ merged \in Dict
  BY <1>1, MergeType, ProcType DEF TypeOK, StoreType, NewOverrides
<1>3. Lapse(settled, patch) \in Dict /\ Lapse(due, patch) \in Dict
  BY <1>1, LapseType DEF TypeOK
<1>4. /\ store' = [store EXCEPT ![Bot].overrides = new, ![Bot].rules = merged]
      /\ Validates(merged)
  BY DEF ApplyOverride
<1> HIDE DEF new, merged
<1>5. /\ store' \in [Procs -> StoreType]
      /\ \A p \in Procs : p # Bot => store'[p] = store[p]
      /\ store'[Bot].rules = merged
  BY <1>2, <1>4, ProcType DEF TypeOK, StoreType
<1>6. pc' \in [Procs -> Locations] /\ \A p \in Procs : p # Bot => pc'[p] = pc[p]
  BY ProcType DEF ApplyOverride, TypeOK, Locations
<1>7. \A p \in Procs : pc'[p] # "down" => Validates(store'[p].rules)
  BY <1>4, <1>5, <1>6 DEF TypeOK
<1> QED
  BY <1>1, <1>3, <1>5, <1>6, <1>7 DEF ApplyOverride, TypeOK, files

LEMMA PersistType ==
  ASSUME TypeOK, Persist \/ PersistFails
  PROVE  TypeOK'
<1>1. CASE Replace
  BY <1>1, ProcType DEF Replace, Dump, TypeOK, File, StoreType, Locations, ghosts
<1>2. CASE Restat
  <2>1. DeepMerge(settled, pending) \in Dict
    BY MergeType DEF TypeOK
  <2> QED
    BY <1>2, <2>1, EmptyType, ProcType DEF Restat, TypeOK, File, StoreType, Locations, files
<1>3. CASE PersistFails
  BY <1>3, EmptyType, ProcType DEF PersistFails, TypeOK, Locations, files, ghosts
<1> QED
  BY <1>1, <1>2, <1>3 DEF Persist

LEMMA EnvironmentType ==
  ASSUME TypeOK, \/ \E p \in Procs : Crash(p)
                 \/ \E data \in Edits : EditBaseline(data)
                 \/ DeleteOverrides
  PROVE  TypeOK'
<1>1. ASSUME NEW p \in Procs, Crash(p) PROVE TypeOK'
  BY <1>1, EmptyType DEF Crash, TypeOK, Locations, files, ghosts
<1>2. ASSUME NEW data \in Edits, EditBaseline(data) PROVE TypeOK'
  <2>1. data \in Dict
    BY RulesStoreAssumption DEF Dict, Values
  <2> QED
    BY <1>2, <2>1 DEF EditBaseline, TypeOK, File, ghosts
<1>3. ASSUME DeleteOverrides PROVE TypeOK'
  BY <1>3, EmptyType DEF DeleteOverrides, TypeOK, File
<1> QED
  BY <1>1, <1>2, <1>3

\* Whatever happens to the files, every process works with validated rules.
THEOREM TypeCorrect == Spec => []TypeOK
<1>1. Init => TypeOK
  BY TypeInit
<1>2. TypeOK /\ [Next]_vars => TypeOK'
  <2> SUFFICES ASSUME TypeOK, [Next]_vars PROVE TypeOK'
    OBVIOUS
  <2>1. CASE Next
    BY <2>1, StartType, ReloadType, ApplyOverrideType, PersistType, EnvironmentType DEF Next
  <2>2. CASE UNCHANGED vars
    BY <2>2 DEF vars, files, ghosts, TypeOK
  <2> QED
    BY <2>1, <2>2
<1> QED
  BY <1>1, <1>2, PTL DEF Spec

-------------------------------------------------------------------------------
(* The rules of a store are the merge of its two other attributes.         *)

LEMMA StartMerged ==
  ASSUME TypeOK, RulesAreMerged, NEW p \in Procs, Start(p)
  PROVE  RulesAreMerged'
<1>1. store'[p].rules = DeepMerge(store'[p].base, store'[p].overrides)
  BY MergeEmpty DEF Start, TypeOK, File
<1>2. \A q \in Procs : q # p => store'[q] = store[q] /\ pc'[q] = pc[q]
  BY DEF Start, TypeOK
<1> QED
  BY <1>1, <1>2 DEF RulesAreMerged

LEMMA ReloadMerged ==
  ASSUME TypeOK, RulesAreMerged, NEW p \in Procs, Reload(p)
  PROVE  RulesAreMerged'
<1>1. CASE ReadOverrides(p)
  <2>1. store'[p] = Reloaded(p)
    BY <1>1 DEF ReadOverrides, TypeOK
  <2>2. \A q \in Procs : q # p => store'[q] = store[q] /\ pc'[q] = pc[q]
    BY <1>1 DEF ReadOverrides, TypeOK
  <2> QED
    BY <2>1, <2>2 DEF RulesAreMerged, Reloaded
<1>2. CASE ~ReadOverrides(p)
  <2>1. store' = store
    BY <1>2 DEF Reload, StatBase, StatOverrides, ReadBase, RejectReload
  <2>2. \A q \in Procs : pc'[q] # "down" => pc[q] # "down"
    BY <1>2 DEF Reload, StatBase, StatOverrides, ReadBase, RejectReload, TypeOK
  <2> QED
    BY <2>1, <2>2 DEF RulesAreMerged
<1> QED
  BY <1>1, <1>2

\* What a setter leaves in the bot's store, and what it leaves alone.
LEMMA ApplyOverrideEffect ==
  ASSUME TypeOK, NEW patch \in Patches, ApplyOverride(patch)
  PROVE  /\ patch \in Dict
         /\ store'[Bot].overrides = DeepMerge(store[Bot].overrides, patch)
         /\ store'[Bot].rules = DeepMerge(store'[Bot].base, store'[Bot].overrides)
         /\ store'[Bot].base = store[Bot].base
         /\ store'[Bot].baseMtime = store[Bot].baseMtime
         /\ store'[Bot].ovMtime = store[Bot].ovMtime
         /\ pc'[Bot] = "persist"
         /\ \A p \in Procs : p # Bot => store'[p] = store[p] /\ pc'[p] = pc[p]
<1> DEFINE new == NewOverrides(patch)
           merged == DeepMerge(store[Bot].base, new)
<1>1. patch \in Dict
  BY DEF Patches
<1>2. store' = [store EXCEPT ![Bot].overrides = new, ![Bot].rules = merged]
  BY DEF ApplyOverride
<1>3. new = DeepMerge(store[Bot].overrides, patch)
  BY DEF NewOverrides
<1>4. merged = DeepMerge(store[Bot].base, new)
  OBVIOUS
<1>5. pc'[Bot] = "persist" /\ \A p \in Procs : p # Bot => pc'[p] = pc[p]
  BY ProcType DEF ApplyOverride, TypeOK
<1> HIDE DEF new, merged
<1>6. /\ store'[Bot].overrides = new
      /\ store'[Bot].rules = merged
      /\ store'[Bot].base = store[Bot].base
      /\ store'[Bot].baseMtime = store[Bot].baseMtime
      /\ store'[Bot].ovMtime = store[Bot].ovMtime
      /\ \A p \in Procs : p # Bot => store'[p] = store[p]
  BY <1>2, ProcType DEF TypeOK, StoreType
<1> QED
  BY <1>1, <1>3, <1>4, <1>5, <1>6

\* The last step of a setter touches one mtime of the bot's store.
LEMMA RestatEffect ==
  ASSUME TypeOK, Restat
  PROVE  /\ store'[Bot].ovMtime = ovFile.mtime
         /\ \A p \in Procs : /\ store'[p].rules = store[p].rules
                             /\ store'[p].base = store[p].base
                             /\ store'[p].overrides = store[p].overrides
                             /\ store'[p].baseMtime = store[p].baseMtime
         /\ pc'[Bot] = "idle"
         /\ \A p \in Procs : p # Bot => store'[p] = store[p] /\ pc'[p] = pc[p]
  BY ProcType DEF Restat, TypeOK, StoreType

LEMMA OtherMerged ==
  ASSUME TypeOK, RulesAreMerged,
         \/ \E patch \in Patches : ApplyOverride(patch)
         \/ Persist
         \/ PersistFails
         \/ \E p \in Procs : Crash(p)
         \/ \E data \in Edits : EditBaseline(data)
         \/ DeleteOverrides
  PROVE  RulesAreMerged'
<1>1. ASSUME NEW patch \in Patches, ApplyOverride(patch) PROVE RulesAreMerged'
  BY <1>1, ApplyOverrideEffect DEF RulesAreMerged
<1>2. CASE Restat
  BY <1>2, RestatEffect DEF RulesAreMerged, Restat
<1>3. CASE Replace \/ PersistFails
  BY <1>3 DEF Replace, PersistFails, RulesAreMerged, TypeOK
<1>4. ASSUME NEW p \in Procs, Crash(p) PROVE RulesAreMerged'
  BY <1>4 DEF Crash, RulesAreMerged, TypeOK
<1>5. ASSUME NEW data \in Edits, EditBaseline(data) PROVE RulesAreMerged'
  BY <1>5 DEF EditBaseline, RulesAreMerged
<1>6. CASE DeleteOverrides
  BY <1>6 DEF DeleteOverrides, RulesAreMerged
<1> QED
  BY <1>1, <1>2, <1>3, <1>4, <1>5, <1>6 DEF Persist

\* .rules is never a partially applied set: no interleaving of commands,
\* reloads, file edits and crashes separates it from the baseline and the
\* overrides the same store holds.
THEOREM AlwaysMerged == Spec => []RulesAreMerged
<1>1. Init => RulesAreMerged
  BY DEF Init, RulesAreMerged
<1>2. TypeOK /\ RulesAreMerged /\ [Next]_vars => RulesAreMerged'
  <2> SUFFICES ASSUME TypeOK, RulesAreMerged, [Next]_vars PROVE RulesAreMerged'
    OBVIOUS
  <2>1. CASE Next
    BY <2>1, StartMerged, ReloadMerged, OtherMerged DEF Next
  <2>2. CASE UNCHANGED vars
    BY <2>2 DEF vars, RulesAreMerged
  <2> QED
    BY <2>1, <2>2
<1> QED
  BY <1>1, <1>2, TypeCorrect, PTL DEF Spec

-------------------------------------------------------------------------------
(* The inductive invariant, step by step.  Every action below keeps the     *)
(* typing and the merge by the lemmas above; what is left is how the files, *)
(* the stamps and the promises made to the operator move together.          *)

\* The part of the invariant the previous theorems do not cover.
Tracking ==
  StampsArePast /\ OnlyLoadsForce /\ ReadIsHonest /\ StampsAreHonest /\ BotMirrorsFile

LEMMA TrackingInit == Init => Tracking
<1> SUFFICES ASSUME Init PROVE Tracking
  OBVIOUS
<1>1. \A p \in Procs : pc[p] = "down" /\ ~force[p]
  BY DEF Init
<1>2. StampsArePast
  BY DEF Init, StampsArePast
<1>3. BotMirrorsFile
  BY <1>1, ProcType DEF BotMirrorsFile
<1> QED
  BY <1>1, <1>2, <1>3 DEF Tracking, OnlyLoadsForce, ReadIsHonest, StampsAreHonest

\* Only the store, the pc and the flag of the process that starts change.
LEMMA StartTracks ==
  ASSUME TypeOK, Tracking, NEW p \in Procs, Start(p)
  PROVE  Tracking'
<1>1. /\ store'[p].baseMtime = baseFile.mtime /\ store'[p].ovMtime = ovFile.mtime
      /\ pc'[p] = "load" /\ force'[p]
      /\ \A q \in Procs : q # p => store'[q] = store[q] /\ pc'[q] = pc[q] /\ force'[q] = force[q]
  BY DEF Start, TypeOK
<1>2. UNCHANGED <<files, local, pending>>
  BY DEF Start
<1>3. StampsArePast'
  BY <1>1, <1>2 DEF files, Tracking, StampsArePast
<1>4. OnlyLoadsForce' /\ ReadIsHonest' /\ StampsAreHonest'
  BY <1>1, <1>2 DEF files, Tracking, OnlyLoadsForce, ReadIsHonest, StampsAreHonest
<1>5. BotMirrorsFile'
  BY <1>1, <1>2, ProcType DEF files, Tracking, BotMirrorsFile
<1> QED
  BY <1>3, <1>4, <1>5 DEF Tracking

\* The steps of a reload before its commit move one process between the
\* locations of a reload and write only its local variables.
LEMMA ScanTracks ==
  ASSUME TypeOK, Tracking, NEW p \in Procs,
         StatBase(p) \/ StatOverrides(p) \/ ReadBase(p)
  PROVE  Tracking'
<1>1. UNCHANGED <<files, store, force, pending>>
  BY DEF StatBase, StatOverrides, ReadBase
<1>2. /\ pc[p] \in {"load", "idle"} \union Reloading
      /\ pc'[p] \in {"idle"} \union Reloading
      /\ \A q \in Procs : q # p => pc'[q] = pc[q] /\ local'[q] = local[q]
  BY DEF StatBase, StatOverrides, ReadBase, TypeOK, Reloading
<1>3. StampsArePast'
  <2>1. local'[p].baseMtime \in {local[p].baseMtime, baseFile.mtime}
    BY DEF StatBase, StatOverrides, ReadBase, TypeOK, LocalType
  <2>2. local'[p].ovMtime \in {local[p].ovMtime, ovFile.mtime}
    BY DEF StatBase, StatOverrides, ReadBase, TypeOK, LocalType
  <2> QED
    BY <1>1, <1>2, <2>1, <2>2 DEF files, Tracking, StampsArePast
<1>4. OnlyLoadsForce'
  <2>1. force[p] => pc'[p] # "idle"
    BY DEF StatBase, StatOverrides, ReadBase, Stale, Tracking, OnlyLoadsForce, TypeOK, Reloading
  <2> QED
    BY <1>1, <1>2, <2>1 DEF Tracking, OnlyLoadsForce
<1>5. ReadIsHonest'
  <2>1. pc'[p] = "readOverrides" => local'[p].base = baseFile.data
    BY DEF StatBase, StatOverrides, ReadBase, TypeOK, LocalType
  <2> QED
    BY <1>1, <1>2, <2>1 DEF files, Tracking, ReadIsHonest
<1>6. StampsAreHonest'
  BY <1>1, <1>2 DEF files, Tracking, StampsAreHonest, Reloading
<1>7. BotMirrorsFile'
  BY <1>1, <1>2, ProcType DEF files, Tracking, BotMirrorsFile, Reloading
<1> QED
  BY <1>3, <1>4, <1>5, <1>6, <1>7 DEF Tracking

\* A commit takes over the content of the files with stamps taken before it
\* was read: where a stamp is still the file's, the content is, too.
LEMMA CommitTracks ==
  ASSUME TypeOK, Tracking, NEW p \in Procs, ReadOverrides(p)
  PROVE  Tracking'
<1>1. /\ pc[p] = "readOverrides" /\ pc'[p] = "idle" /\ ~force'[p]
      /\ \A q \in Procs : q # p => store'[q] = store[q] /\ pc'[q] = pc[q] /\ force'[q] = force[q]
  BY DEF ReadOverrides, TypeOK
<1>2. UNCHANGED <<files, local, pending>>
  BY DEF ReadOverrides
<1>3. /\ store'[p].base = local[p].base /\ store'[p].overrides = ovFile.data
      /\ store'[p].baseMtime = local[p].baseMtime /\ store'[p].ovMtime = local[p].ovMtime
  BY DEF ReadOverrides, Reloaded, TypeOK
<1>4. StampsArePast'
  BY <1>1, <1>2, <1>3 DEF files, Tracking, StampsArePast
<1>5. OnlyLoadsForce' /\ ReadIsHonest'
  BY <1>1, <1>2 DEF files, Tracking, OnlyLoadsForce, ReadIsHonest
<1>6. StampsAreHonest'
  BY <1>1, <1>2, <1>3 DEF files, Tracking, ReadIsHonest, StampsAreHonest
<1>7. BotMirrorsFile'
  BY <1>1, <1>2, <1>3, ProcType DEF files, Tracking, BotMirrorsFile
<1> QED
  BY <1>4, <1>5, <1>6, <1>7 DEF Tracking

\* Steps that end what a process was doing and write no data.
LEMMA AbandonTracks ==
  ASSUME TypeOK, Tracking, NEW p \in Procs, RejectReload(p) \/ Crash(p)
  PROVE  Tracking'
<1>1. UNCHANGED <<files, store, local>> /\ ~force'[p]
  BY DEF RejectReload, Crash, TypeOK
<1>2. /\ pc'[p] = "down" \/ (pc'[p] = "idle" /\ pc[p] = "readOverrides" /\ ~force[p])
      /\ \A q \in Procs : q # p => pc'[q] = pc[q] /\ force'[q] = force[q]
  BY DEF RejectReload, Crash, TypeOK
<1>3. pending' = pending \/ pc'[Bot] = "down"
  BY DEF RejectReload, Crash, TypeOK
<1>4. StampsArePast'
  BY <1>1 DEF files, Tracking, StampsArePast
<1>5. OnlyLoadsForce' /\ ReadIsHonest'
  BY <1>1, <1>2 DEF files, Tracking, OnlyLoadsForce, ReadIsHonest
<1>6. StampsAreHonest'
  BY <1>1, <1>2 DEF files, Tracking, StampsAreHonest
<1>7. BotMirrorsFile'
  BY <1>1, <1>2, <1>3, ProcType DEF files, Tracking, BotMirrorsFile
<1> QED
  BY <1>4, <1>5, <1>6, <1>7 DEF Tracking

\* A write that fails ends the bot's process; a file that is gone, and the
\* mtime of none, say nothing about anybody's copy.
LEMMA FaultsTrack ==
  ASSUME Bot = Worker => "persist" \notin Faults,
         TypeOK, Tracking, PersistFails \/ DeleteOverrides
  PROVE  Tracking'
<1>1. CASE PersistFails
  <2>1. Bot # Worker /\ pc[Bot] = "persist" /\ pc'[Bot] = "down"
        /\ (\A p \in Procs : p # Bot => pc'[p] = pc[p]) /\ UNCHANGED <<files, store, local, force>>
    BY <1>1, ProcType DEF PersistFails, TypeOK
  <2>2. ~force[Bot]
    BY <2>1, ProcType DEF Tracking, OnlyLoadsForce, Reloading
  <2> QED
    BY <2>1, <2>2 DEF files, Tracking, StampsArePast, OnlyLoadsForce, ReadIsHonest, StampsAreHonest,
                      BotMirrorsFile
<1>2. CASE DeleteOverrides
  <2>1. UNCHANGED <<baseFile, clock, store, local, pc, force>> /\ ovFile'.mtime = 0 /\ clock \in Nat
    BY <1>2 DEF DeleteOverrides, TypeOK
  <2> QED
    BY <2>1 DEF Tracking, StampsArePast, OnlyLoadsForce, ReadIsHonest, StampsAreHonest, BotMirrorsFile
<1> QED
  BY <1>1, <1>2

\* A patch on top of patches: a field of the result is the newest setting.
LEMMA MergeApply ==
  ASSUME NEW b, NEW o, NEW f \in Fields
  PROVE  DeepMerge(b, o)[f] = IF o[f] # Unset THEN o[f] ELSE b[f]
  BY DEF DeepMerge

\* A setter changes the bot's overrides by the patch it is about to write.
LEMMA ApplyOverrideTracks ==
  ASSUME TypeOK, Tracking, NEW patch \in Patches, ApplyOverride(patch)
  PROVE  Tracking'
<1>1. UNCHANGED <<files, local, force>> /\ pending' = patch
  BY DEF ApplyOverride
<1>2. /\ store'[Bot].overrides = DeepMerge(store[Bot].overrides, patch)
      /\ store'[Bot].base = store[Bot].base
      /\ store'[Bot].baseMtime = store[Bot].baseMtime
      /\ store'[Bot].ovMtime = store[Bot].ovMtime
      /\ pc'[Bot] = "persist"
      /\ \A p \in Procs : p # Bot => store'[p] = store[p] /\ pc'[p] = pc[p]
  BY ApplyOverrideEffect
<1>3. pc[Bot] = "idle"
  BY DEF ApplyOverride
<1>4. ~force[Bot]
  BY <1>3, ProcType DEF Tracking, OnlyLoadsForce, Reloading
<1>5. StampsArePast'
  BY <1>1, <1>2 DEF files, Tracking, StampsArePast
<1>6. OnlyLoadsForce' /\ ReadIsHonest'
  BY <1>1, <1>2, <1>4 DEF files, Tracking, OnlyLoadsForce, ReadIsHonest
<1>7. StampsAreHonest'
  BY <1>1, <1>2, <1>3, <1>4 DEF files, Tracking, StampsAreHonest
<1>8. BotMirrorsFile'
  <2>1. ovFile.mtime # 0 => store[Bot].overrides = ovFile.data
    BY <1>3, <1>4 DEF Tracking, BotMirrorsFile
  <2> QED
    BY <1>1, <1>2, <2>1 DEF files, BotMirrorsFile
<1> QED
  BY <1>5, <1>6, <1>7, <1>8 DEF Tracking

\* The file gets the bot's overrides, and an mtime nobody has recorded.
LEMMA ReplaceTracks ==
  ASSUME TypeOK, Tracking, Replace
  PROVE  Tracking'
<1>1. /\ UNCHANGED <<baseFile, store, local, force>>
      /\ clock' = clock + 1
      /\ ovFile' = [data |-> store[Bot].overrides, mtime |-> clock + 1]
      /\ pc[Bot] = "persist" /\ pc'[Bot] = "restat"
      /\ \A p \in Procs : p # Bot => pc'[p] = pc[p]
  BY ProcType DEF Replace, Dump, TypeOK
<1>2. ovFile'.data = store[Bot].overrides
  BY <1>1
<1>3. \A p \in Procs : store[p].ovMtime # ovFile'.mtime
  BY <1>1 DEF Tracking, StampsArePast, TypeOK, StoreType
<1>4. StampsArePast'
  BY <1>1 DEF Tracking, StampsArePast, TypeOK, StoreType, LocalType, File
<1>5. OnlyLoadsForce' /\ ReadIsHonest'
  BY <1>1, ProcType DEF Tracking, OnlyLoadsForce, ReadIsHonest, Reloading
<1>6. StampsAreHonest'
  BY <1>1, <1>3 DEF Tracking, StampsAreHonest
<1>7. BotMirrorsFile'
  BY <1>1, <1>2 DEF BotMirrorsFile
<1> QED
  BY <1>4, <1>5, <1>6, <1>7 DEF Tracking

\* The recorded mtime is that of what the bot has written, or of no file.
LEMMA RestatTracks ==
  ASSUME TypeOK, Tracking, Restat
  PROVE  Tracking'
<1>1. UNCHANGED <<files, local, force>> /\ pc[Bot] = "restat"
  BY DEF Restat
<1>2. /\ store'[Bot].ovMtime = ovFile.mtime
      /\ \A p \in Procs : /\ store'[p].base = store[p].base
                          /\ store'[p].overrides = store[p].overrides
                          /\ store'[p].baseMtime = store[p].baseMtime
      /\ pc'[Bot] = "idle"
      /\ \A p \in Procs : p # Bot => store'[p] = store[p] /\ pc'[p] = pc[p]
  BY RestatEffect
<1>3. ~force[Bot]
  BY <1>1, ProcType DEF Tracking, OnlyLoadsForce, Reloading
<1>4. ovFile.mtime # 0 => store[Bot].overrides = ovFile.data
  BY <1>1, <1>3 DEF Tracking, BotMirrorsFile
<1>5. StampsArePast'
  BY <1>1, <1>2 DEF files, Tracking, StampsArePast
<1>6. OnlyLoadsForce' /\ ReadIsHonest'
  BY <1>1, <1>2, <1>3 DEF files, Tracking, OnlyLoadsForce, ReadIsHonest
<1>7. StampsAreHonest'
  BY <1>1, <1>2, <1>4 DEF files, Tracking, StampsAreHonest
<1>8. BotMirrorsFile'
  BY <1>1, <1>2, <1>3, <1>4, ProcType DEF files, BotMirrorsFile
<1> QED
  BY <1>5, <1>6, <1>7, <1>8 DEF Tracking

\* An edit of the baseline gets an mtime nobody has recorded.
LEMMA EditTracks ==
  ASSUME TypeOK, Tracking, NEW data \in Edits, EditBaseline(data)
  PROVE  Tracking'
<1>1. /\ UNCHANGED <<ovFile, store, local, pc, force, pending>>
      /\ clock' = clock + 1
      /\ baseFile' = [data |-> data, mtime |-> clock + 1]
  BY DEF EditBaseline
<1>2. \A p \in Procs : /\ store[p].baseMtime # baseFile'.mtime
                       /\ local[p].baseMtime # baseFile'.mtime
  BY <1>1 DEF Tracking, StampsArePast, TypeOK, StoreType, LocalType
<1>3. StampsArePast'
  BY <1>1 DEF Tracking, StampsArePast, TypeOK, StoreType, LocalType, File
<1>4. OnlyLoadsForce' /\ ReadIsHonest' /\ StampsAreHonest'
  BY <1>1, <1>2 DEF Tracking, OnlyLoadsForce, ReadIsHonest, StampsAreHonest
<1>5. BotMirrorsFile'
  BY <1>1 DEF Tracking, BotMirrorsFile
<1> QED
  BY <1>3, <1>4, <1>5 DEF Tracking

LEMMA TrackingStep ==
  ASSUME Bot = Worker => "persist" \notin Faults,
         TypeOK, Tracking, [Next]_vars
  PROVE  Tracking'
<1>1. ASSUME NEW p \in Procs, Start(p) \/ Reload(p) \/ Crash(p) PROVE Tracking'
  BY <1>1, StartTracks, ScanTracks, CommitTracks, AbandonTracks DEF Reload
<1>2. ASSUME NEW patch \in Patches, ApplyOverride(patch) PROVE Tracking'
  BY <1>2, ApplyOverrideTracks
<1>3. CASE Persist
  BY <1>3, ReplaceTracks, RestatTracks DEF Persist
<1>4. ASSUME NEW data \in Edits, EditBaseline(data) PROVE Tracking'
  BY <1>4, EditTracks
<1>5. CASE PersistFails \/ DeleteOverrides
  BY <1>5, FaultsTrack
<1>6. CASE UNCHANGED vars
  BY <1>6 DEF vars, files, Tracking, StampsArePast, OnlyLoadsForce, ReadIsHonest,
              StampsAreHonest, BotMirrorsFile
<1> QED
  BY <1>1, <1>2, <1>3, <1>4, <1>5, <1>6 DEF Next

\* Files and stores stay together, unless the one process goes on after a
\* failed write: the invariant the theorems that follow are read off from.
THEOREM Inductive ==
  ASSUME Bot = Worker => "persist" \notin Faults
  PROVE  Spec => []IndInv
<1>1. Init => Tracking
  BY TrackingInit
<1>2. TypeOK /\ Tracking /\ [Next]_vars => Tracking'
  BY TrackingStep
<1>3. TypeOK /\ RulesAreMerged /\ Tracking => IndInv
  BY DEF Tracking, IndInv
<1> QED
  BY <1>1, <1>2, <1>3, TypeCorrect, AlwaysMerged, PTL DEF Spec

\* The mtime check never hides a change of either file.
THEOREM HonestStamps ==
  ASSUME Bot = Worker => "persist" \notin Faults
  PROVE  Spec => []StampsAreHonest
<1>1. IndInv => StampsAreHonest
  BY DEF IndInv
<1> QED
  BY <1>1, Inductive, PTL

\* Between commands the bot's overrides are the ones the file lists, while
\* there is one.
THEOREM FileIsAuditTrail ==
  ASSUME Bot = Worker => "persist" \notin Faults
  PROVE  Spec => []AuditTrail
<1>1. IndInv => AuditTrail
  BY ProcType DEF IndInv, BotMirrorsFile, OnlyLoadsForce, AuditTrail, Reloading
<1> QED
  BY <1>1, Inductive, PTL

\* Whatever the bot's memory went through, a write of the overrides file
\* changes the fields of the command being executed and no other of a file it
\* replaces, and puts nothing but overrides where there is none.
THEOREM SparseWrites ==
  ASSUME Bot = Worker => "persist" \notin Faults
  PROVE  Spec => WritesAreSparse
<1> DEFINE Sparse == \A f \in Fields :
       ovFile'.data[f] # ovFile.data[f] =>
         \/ ovFile'.mtime = 0
         \/ pending[f] # Unset /\ ovFile'.data[f] = pending[f]
         \/ ovFile.mtime = 0 /\ ovFile'.data[f] = store[Bot].overrides[f]
<1>1. IndInv /\ [Next]_vars => [Sparse]_vars
  <2> SUFFICES ASSUME IndInv, Next PROVE Sparse
    OBVIOUS
  <2>1. CASE Replace
    <3>1. ovFile'.data = store[Bot].overrides
      BY <2>1 DEF Replace, Dump
    <3>2. ovFile.mtime # 0 => ovFile'.data = DeepMerge(ovFile.data, pending)
      BY <2>1, <3>1 DEF Replace, IndInv, BotMirrorsFile
    <3> QED
      BY <3>1, <3>2, MergeApply
  <2>2. CASE DeleteOverrides
    BY <2>2 DEF DeleteOverrides
  <2>3. CASE ~Replace /\ ~DeleteOverrides
    <3>1. ovFile' = ovFile
      BY <2>3 DEF Next, Start, Reload, StatBase, StatOverrides, ReadBase, ReadOverrides,
                  RejectReload, ApplyOverride, Persist, Restat, PersistFails, EditBaseline,
                  Crash, files
    <3> QED
      BY <3>1
  <2> QED
    BY <2>1, <2>2, <2>3
<1>2. Spec => [][Sparse]_vars
  BY <1>1, Inductive, PTL DEF Spec
<1> QED
  BY <1>2 DEF WritesAreSparse

-------------------------------------------------------------------------------
(* What is promised to the operator is kept under every fault: a file that  *)
(* is deleted takes its promises with it, and a write that fails leaves the *)
(* bot's memory ahead of the file, but only by what nobody was promised.    *)

OverridesArePast ==
  /\ ovFile.mtime <= clock
  /\ \A p \in Procs : store[p].ovMtime <= clock /\ local[p].ovMtime <= clock

\* The next write of the bot contains what was acknowledged.
BotHoldsAcked ==
  /\ pc[Bot] = "load" => force[Bot]
  /\ pc[Bot] # "down" /\ ~force[Bot] =>
       \A f \in Fields : settled[f] # Unset => store[Bot].overrides[f] = settled[f]

\* The patch in hand is in the bot's memory, in the file once that is written,
\* and promised to nobody.
PatchInHand ==
  pc[Bot] \in {"persist", "restat"} =>
    \A f \in Fields : pending[f] # Unset =>
      /\ store[Bot].overrides[f] = pending[f] /\ settled[f] = Unset
      /\ pc[Bot] = "restat" => ovFile.data[f] = pending[f]

\* A worker in a process of its own has no stamp of a file it did not read,
\* but for that of an absent file, which says nothing.
WorkerIsHonest ==
  (/\ Worker # Bot /\ pc[Worker] # "down" /\ ~force[Worker]
   /\ ovFile.mtime # 0 /\ store[Worker].ovMtime = ovFile.mtime) =>
     store[Worker].overrides = ovFile.data

NoFileNoPromise ==
  ovFile.mtime = 0 =>
    \A f \in Fields : settled[f] = Unset /\ (pc[Bot] = "restat" => pending[f] = Unset)

DueIsSettled == \A f \in Fields : due[f] # Unset => settled[f] = due[f]

\* What is due is in force outside of the worker's reloads.
DueInForce ==
  pc[Worker] \in {"idle", "persist", "restat"} =>
    \A f \in Fields : due[f] # Unset => store[Worker].rules[f] = due[f]

Keeping ==
  /\ OverridesArePast /\ OnlyLoadsForce /\ BotHoldsAcked /\ PatchInHand
  /\ WorkerIsHonest /\ NoFileNoPromise /\ AckedIsDurable /\ DueIsSettled /\ DueInForce

LEMMA KeepingInit == Init => Keeping
<1> SUFFICES ASSUME Init PROVE Keeping
  OBVIOUS
<1>1. \A p \in Procs : pc[p] = "down" /\ ~force[p]
  BY DEF Init
<1>2. OverridesArePast
  BY DEF Init, OverridesArePast
<1>3. OnlyLoadsForce /\ BotHoldsAcked /\ PatchInHand /\ WorkerIsHonest /\ DueInForce
  BY <1>1, ProcType DEF OnlyLoadsForce, BotHoldsAcked, PatchInHand, WorkerIsHonest, DueInForce
<1>4. NoFileNoPromise /\ AckedIsDurable /\ DueIsSettled
  BY <1>1, ProcType DEF Init, Empty, NoFileNoPromise, AckedIsDurable, DueIsSettled
<1> QED
  BY <1>2, <1>3, <1>4 DEF Keeping

\* A promise that is due is in the file, whose mtime is not that of no file.
LEMMA DueIsInFile ==
  ASSUME Keeping, NEW f \in Fields, due[f] # Unset
  PROVE  ovFile.data[f] = due[f] /\ ovFile.mtime # 0
  BY DEF Keeping, DueIsSettled, AckedIsDurable, NoFileNoPromise

LEMMA StartKeeps ==
  ASSUME TypeOK, Keeping, NEW p \in Procs, Start(p)
  PROVE  Keeping'
<1>1. /\ store'[p].ovMtime = ovFile.mtime /\ pc[p] = "down" /\ pc'[p] = "load" /\ force'[p]
      /\ \A q \in Procs : q # p => store'[q] = store[q] /\ pc'[q] = pc[q] /\ force'[q] = force[q]
      /\ UNCHANGED <<ovFile, clock, local, pending, settled, due>>
  BY DEF Start, TypeOK, files, ghosts
<1>2. OverridesArePast' /\ OnlyLoadsForce'
  BY <1>1 DEF Keeping, OverridesArePast, OnlyLoadsForce
<1>3. BotHoldsAcked' /\ PatchInHand' /\ WorkerIsHonest' /\ NoFileNoPromise' /\ DueInForce'
  BY <1>1, ProcType DEF Keeping, BotHoldsAcked, PatchInHand, WorkerIsHonest, NoFileNoPromise, DueInForce
<1>4. AckedIsDurable' /\ DueIsSettled'
  BY <1>1 DEF Keeping, AckedIsDurable, DueIsSettled
<1> QED
  BY <1>2, <1>3, <1>4 DEF Keeping

\* Both ways to finish a reload: the stamps say that nothing is new, or the
\* files are read.
LEMMA ReloadDue ==
  ASSUME TypeOK, RulesAreMerged, Keeping, Reload(Worker)
  PROVE  DueInForce'
<1>1. CASE StatBase(Worker) \/ ReadBase(Worker)
  BY <1>1, ProcType DEF StatBase, ReadBase, DueInForce, TypeOK
<1>2. CASE StatOverrides(Worker)
  <2> SUFFICES ASSUME pc'[Worker] = "idle", NEW f \in Fields, due[f] # Unset
               PROVE  store[Worker].rules[f] = due[f]
    BY <1>2, ProcType DEF StatOverrides, ghosts, DueInForce, TypeOK
  <2>1. ~Stale(Worker) /\ pc[Worker] = "statOverrides"
    BY <1>2, ProcType DEF StatOverrides, TypeOK
  <2>2. store[Worker].overrides[f] = due[f]
    <3>1. ~force[Worker] /\ store[Worker].ovMtime = ovFile.mtime /\ pc[Worker] # "down"
      BY <2>1 DEF Stale
    <3>2. CASE Worker # Bot
      BY <3>1, <3>2, DueIsInFile DEF Keeping, WorkerIsHonest
    <3>3. CASE Worker = Bot
      BY <3>1, <3>3 DEF Keeping, BotHoldsAcked, DueIsSettled
    <3> QED
      BY <3>2, <3>3
  <2>3. store[Worker].rules = DeepMerge(store[Worker].base, store[Worker].overrides)
    BY <2>1, ProcType DEF RulesAreMerged
  <2> QED
    BY <2>2, <2>3 DEF DeepMerge
<1>3. CASE ReadOverrides(Worker)
  <2>1. store'[Worker].rules = DeepMerge(local[Worker].base, ovFile.data) /\ due' = due
    BY <1>3, ProcType DEF ReadOverrides, Reloaded, ghosts, TypeOK
  <2> QED
    BY <2>1, DueIsInFile DEF DeepMerge, DueInForce
<1>4. CASE RejectReload(Worker)
  BY <1>4 DEF RejectReload, Empty, DueInForce
<1> QED
  BY <1>1, <1>2, <1>3, <1>4 DEF Reload

LEMMA ReloadKeeps ==
  ASSUME TypeOK, RulesAreMerged, Keeping, NEW p \in Procs, Reload(p)
  PROVE  Keeping'
<1>1. /\ UNCHANGED <<ovFile, clock, pending, settled>>
      /\ pc[p] \in {"load", "idle"} \union Reloading /\ pc'[p] \in {"down", "idle"} \union Reloading
      /\ \A q \in Procs : q # p =>
           store'[q] = store[q] /\ local'[q] = local[q] /\ pc'[q] = pc[q] /\ force'[q] = force[q]
  BY DEF Reload, StatBase, StatOverrides, ReadBase, ReadOverrides, RejectReload, TypeOK,
         files, ghosts, Reloading
<1>2. \/ ~ReadOverrides(p) /\ store' = store /\ (force'[p] = force[p] \/ pc'[p] = "down")
      \/ ReadOverrides(p) /\ store'[p].overrides = ovFile.data /\ store'[p].ovMtime = local[p].ovMtime
         /\ local' = local /\ pc'[p] = "idle" /\ ~force'[p]
  <2>1. CASE ReadOverrides(p)
    BY <2>1 DEF ReadOverrides, Reloaded, TypeOK
  <2>2. CASE StatBase(p) \/ StatOverrides(p) \/ ReadBase(p)
    BY <2>2 DEF StatBase, StatOverrides, ReadBase, ReadOverrides, TypeOK
  <2>3. CASE RejectReload(p)
    BY <2>3 DEF RejectReload, ReadOverrides, TypeOK
  <2> QED
    BY <2>1, <2>2, <2>3 DEF Reload
<1>3. OverridesArePast'
  <2>1. local'[p].ovMtime \in {local[p].ovMtime, ovFile.mtime}
    BY DEF Reload, StatBase, StatOverrides, ReadBase, ReadOverrides, RejectReload, TypeOK, LocalType
  <2> QED
    BY <1>1, <1>2, <2>1 DEF Keeping, OverridesArePast
<1>4. OnlyLoadsForce'
  <2>1. force'[p] => pc'[p] \in Reloading
    BY DEF Reload, StatBase, StatOverrides, ReadBase, ReadOverrides, RejectReload, Stale,
           Keeping, OnlyLoadsForce, TypeOK, Reloading
  <2> QED
    BY <1>1, <2>1 DEF Keeping, OnlyLoadsForce
<1>5. BotHoldsAcked'
  BY <1>1, <1>2, ProcType DEF Keeping, BotHoldsAcked, AckedIsDurable, Reloading
<1>6. PatchInHand' /\ NoFileNoPromise'
  BY <1>1, ProcType DEF Keeping, PatchInHand, NoFileNoPromise, Reloading
<1>7. WorkerIsHonest'
  BY <1>1, <1>2, ProcType DEF Keeping, WorkerIsHonest, Reloading
<1>8. AckedIsDurable' /\ DueIsSettled'
  <2>1. due' = due \/ due' = settled \/ due' = Empty
    BY DEF Reload, StatBase, StatOverrides, ReadBase, ReadOverrides, RejectReload, ghosts
  <2> QED
    BY <1>1, <2>1 DEF Keeping, AckedIsDurable, DueIsSettled, Empty
<1>9. DueInForce'
  <2>1. CASE p = Worker
    BY <2>1, ReloadDue
  <2>2. CASE p # Worker
    <3>1. due' = due
      BY <2>2 DEF Reload, StatBase, StatOverrides, ReadBase, ReadOverrides, RejectReload, ghosts
    <3> QED
      BY <1>1, <2>2, <3>1, ProcType DEF Keeping, DueInForce
  <2> QED
    BY <2>1, <2>2
<1> QED
  BY <1>3, <1>4, <1>5, <1>6, <1>7, <1>8, <1>9 DEF Keeping

LEMMA ApplyOverrideKeeps ==
  ASSUME TypeOK, Keeping, NEW patch \in Patches, ApplyOverride(patch)
  PROVE  Keeping'
<1>1. /\ UNCHANGED <<ovFile, clock, local, force>> /\ pending' = patch /\ pc[Bot] = "idle"
      /\ settled' = Lapse(settled, patch) /\ due' = Lapse(due, patch)
  BY DEF ApplyOverride, files
<1>2. /\ store'[Bot].overrides = DeepMerge(store[Bot].overrides, patch)
      /\ store'[Bot].rules = DeepMerge(store'[Bot].base, store'[Bot].overrides)
      /\ store'[Bot].ovMtime = store[Bot].ovMtime /\ pc'[Bot] = "persist"
      /\ \A p \in Procs : p # Bot => store'[p] = store[p] /\ pc'[p] = pc[p]
  BY ApplyOverrideEffect
<1>3. ~force[Bot]
  BY <1>1, ProcType DEF Keeping, OnlyLoadsForce, Reloading
<1>4. OverridesArePast' /\ OnlyLoadsForce'
  BY <1>1, <1>2, <1>3 DEF Keeping, OverridesArePast, OnlyLoadsForce
<1>5. \A f \in Fields : settled'[f] # Unset => settled'[f] = settled[f] /\ patch[f] = Unset
  BY <1>1 DEF Lapse
<1>6. \A f \in Fields : due'[f] # Unset => due'[f] = due[f] /\ patch[f] = Unset
  BY <1>1 DEF Lapse
<1>7. \A f \in Fields : settled[f] # Unset => store[Bot].overrides[f] = settled[f]
  BY <1>1, <1>3 DEF Keeping, BotHoldsAcked
<1>8. BotHoldsAcked'
  BY <1>1, <1>2, <1>5, <1>7, MergeApply DEF BotHoldsAcked
<1>9. PatchInHand' /\ NoFileNoPromise'
  BY <1>1, <1>2, <1>5, MergeApply DEF Keeping, PatchInHand, NoFileNoPromise
<1>10. WorkerIsHonest'
  BY <1>1, <1>2, ProcType DEF Keeping, WorkerIsHonest
<1>11. AckedIsDurable' /\ DueIsSettled'
  BY <1>1, <1>5, <1>6 DEF Lapse, Keeping, AckedIsDurable, DueIsSettled
<1>12. DueInForce'
  <2> SUFFICES ASSUME pc'[Worker] \in {"idle", "persist", "restat"},
                      NEW f \in Fields, due'[f] # Unset
               PROVE  store'[Worker].rules[f] = due'[f]
    BY DEF DueInForce
  <2>1. due'[f] = due[f] /\ due[f] # Unset /\ patch[f] = Unset
    BY <1>6
  <2>2. CASE Worker # Bot
    BY <1>2, <2>1, <2>2, ProcType DEF Keeping, DueInForce
  <2>3. CASE Worker = Bot
    <3>1. store[Bot].overrides[f] = due[f]
      BY <1>7, <2>1 DEF Keeping, DueIsSettled
    <3>2. store'[Bot].overrides[f] = due[f]
      BY <1>2, <2>1, <3>1, MergeApply
    <3> QED
      BY <1>2, <2>1, <2>3, <3>2, MergeApply
  <2> QED
    BY <2>2, <2>3
<1> QED
  BY <1>4, <1>8, <1>9, <1>10, <1>11, <1>12 DEF Keeping

LEMMA ReplaceKeeps ==
  ASSUME TypeOK, Keeping, Replace
  PROVE  Keeping'
<1>1. /\ UNCHANGED <<store, local, force, pending, settled, due>> /\ clock' = clock + 1
      /\ ovFile' = [data |-> store[Bot].overrides, mtime |-> clock + 1]
      /\ pc[Bot] = "persist" /\ pc'[Bot] = "restat"
      /\ \A p \in Procs : p # Bot => pc'[p] = pc[p]
  BY ProcType DEF Replace, Dump, TypeOK, ghosts
<1>2. /\ ovFile'.data = store[Bot].overrides /\ ovFile'.mtime = clock + 1 /\ clock \in Nat
      /\ \A p \in Procs : /\ store[p].ovMtime \in Nat /\ store[p].ovMtime <= clock
                          /\ local[p].ovMtime \in Nat /\ local[p].ovMtime <= clock
  BY <1>1 DEF Keeping, OverridesArePast, TypeOK, StoreType, LocalType
<1>3. ovFile'.mtime # 0 /\ \A p \in Procs : store[p].ovMtime # ovFile'.mtime
  BY <1>2
<1>4. ~force[Bot]
  BY <1>1, ProcType DEF Keeping, OnlyLoadsForce, Reloading
<1>5. OverridesArePast'
  BY <1>1, <1>2 DEF OverridesArePast
<1>6. OnlyLoadsForce' /\ BotHoldsAcked'
  BY <1>1, <1>4 DEF Keeping, OnlyLoadsForce, BotHoldsAcked
<1>7. PatchInHand'
  BY <1>1, <1>2 DEF Keeping, PatchInHand
<1>8. WorkerIsHonest' /\ NoFileNoPromise'
  BY <1>1, <1>3, ProcType DEF WorkerIsHonest, NoFileNoPromise
<1>9. AckedIsDurable' /\ DueIsSettled'
  BY <1>1, <1>2, <1>4 DEF Keeping, BotHoldsAcked, AckedIsDurable, DueIsSettled
<1>10. DueInForce'
  BY <1>1, ProcType DEF Keeping, DueInForce
<1> QED
  BY <1>5, <1>6, <1>7, <1>8, <1>9, <1>10 DEF Keeping

\* The acknowledgement: memory and file already hold what is promised.
LEMMA RestatKeeps ==
  ASSUME TypeOK, Keeping, Restat
  PROVE  Keeping'
<1>1. /\ UNCHANGED <<ovFile, clock, local, force, due>> /\ pc[Bot] = "restat"
      /\ settled' = DeepMerge(settled, pending)
  BY DEF Restat, files
<1>2. /\ store'[Bot].ovMtime = ovFile.mtime
      /\ \A p \in Procs : store'[p].rules = store[p].rules /\ store'[p].overrides = store[p].overrides
      /\ pc'[Bot] = "idle"
      /\ \A p \in Procs : p # Bot => store'[p] = store[p] /\ pc'[p] = pc[p]
  BY RestatEffect
<1>3. ~force[Bot]
  BY <1>1, ProcType DEF Keeping, OnlyLoadsForce, Reloading
<1>4. OverridesArePast' /\ OnlyLoadsForce'
  BY <1>1, <1>2, <1>3 DEF Keeping, OverridesArePast, OnlyLoadsForce
<1>5. \A f \in Fields : settled'[f] = IF pending[f] # Unset THEN pending[f] ELSE settled[f]
  BY <1>1, MergeApply
<1>6. BotHoldsAcked'
  BY <1>1, <1>2, <1>3, <1>5, ProcType DEF Keeping, BotHoldsAcked, PatchInHand
<1>7. PatchInHand' /\ NoFileNoPromise'
  BY <1>1, <1>2, <1>5 DEF Keeping, PatchInHand, NoFileNoPromise
<1>8. WorkerIsHonest'
  BY <1>1, <1>2, ProcType DEF Keeping, WorkerIsHonest
<1>9. AckedIsDurable' /\ DueIsSettled'
  BY <1>1, <1>5 DEF Keeping, PatchInHand, AckedIsDurable, DueIsSettled
<1>10. DueInForce'
  BY <1>1, <1>2, ProcType DEF Keeping, DueInForce
<1> QED
  BY <1>4, <1>6, <1>7, <1>8, <1>9, <1>10 DEF Keeping

\* The faults: a write that fails, a file that is deleted, a process that ends.
LEMMA FaultsKeep ==
  ASSUME TypeOK, Keeping, PersistFails \/ DeleteOverrides \/ \E p \in Procs : Crash(p)
  PROVE  Keeping'
<1>1. CASE PersistFails
  <2>1. /\ UNCHANGED <<ovFile, clock, store, local, force, settled, due>>
        /\ pc[Bot] = "persist" /\ pc'[Bot] = (IF Bot = Worker THEN "idle" ELSE "down")
        /\ \A p \in Procs : p # Bot => pc'[p] = pc[p]
    BY <1>1, ProcType DEF PersistFails, TypeOK, files, ghosts
  <2>2. ~force[Bot]
    BY <2>1, ProcType DEF Keeping, OnlyLoadsForce, Reloading
  <2>3. OverridesArePast' /\ OnlyLoadsForce' /\ AckedIsDurable' /\ DueIsSettled'
    BY <2>1, <2>2 DEF Keeping, OverridesArePast, OnlyLoadsForce, AckedIsDurable, DueIsSettled
  <2>4. BotHoldsAcked' /\ PatchInHand' /\ NoFileNoPromise'
    BY <2>1, <2>2 DEF Keeping, BotHoldsAcked, PatchInHand, NoFileNoPromise
  <2>5. WorkerIsHonest' /\ DueInForce'
    BY <2>1, ProcType DEF Keeping, WorkerIsHonest, DueInForce
  <2> QED
    BY <2>3, <2>4, <2>5 DEF Keeping
<1>2. CASE DeleteOverrides
  <2>1. /\ UNCHANGED <<clock, store, local, pc, force>> /\ ovFile'.mtime = 0
        /\ settled' = Empty /\ due' = Empty
        /\ pending' = IF pc[Bot] = "restat" THEN Empty ELSE pending
    BY <1>2 DEF DeleteOverrides
  <2>2. \A f \in Fields : settled'[f] = Unset /\ due'[f] = Unset
                          /\ (pc[Bot] = "restat" => pending'[f] = Unset)
    BY <2>1 DEF Empty
  <2>3. OverridesArePast' /\ OnlyLoadsForce'
    BY <2>1 DEF Keeping, OverridesArePast, OnlyLoadsForce, TypeOK
  <2>4. BotHoldsAcked' /\ PatchInHand' /\ WorkerIsHonest' /\ NoFileNoPromise'
    BY <2>1, <2>2 DEF Keeping, BotHoldsAcked, PatchInHand, WorkerIsHonest, NoFileNoPromise
  <2>5. AckedIsDurable' /\ DueIsSettled' /\ DueInForce'
    BY <2>2 DEF AckedIsDurable, DueIsSettled, DueInForce
  <2> QED
    BY <2>3, <2>4, <2>5 DEF Keeping
<1>3. ASSUME NEW p \in Procs, Crash(p) PROVE Keeping'
  <2>1. /\ UNCHANGED <<ovFile, clock, store, local, settled, due>> /\ pc'[p] = "down" /\ ~force'[p]
        /\ \A q \in Procs : q # p => pc'[q] = pc[q] /\ force'[q] = force[q]
        /\ p # Bot => pending' = pending
    BY <1>3 DEF Crash, TypeOK, files, ghosts
  <2>2. OverridesArePast' /\ OnlyLoadsForce' /\ AckedIsDurable' /\ DueIsSettled'
    BY <2>1 DEF Keeping, OverridesArePast, OnlyLoadsForce, AckedIsDurable, DueIsSettled
  <2>3. BotHoldsAcked' /\ PatchInHand' /\ WorkerIsHonest' /\ NoFileNoPromise' /\ DueInForce'
    BY <2>1, ProcType DEF Keeping, BotHoldsAcked, PatchInHand, WorkerIsHonest, NoFileNoPromise, DueInForce
  <2> QED
    BY <2>2, <2>3 DEF Keeping
<1> QED
  BY <1>1, <1>2, <1>3

LEMMA KeepingStep ==
  ASSUME TypeOK, RulesAreMerged, Keeping, [Next]_vars
  PROVE  Keeping'
<1>1. ASSUME NEW p \in Procs, Start(p) \/ Reload(p) \/ Crash(p) PROVE Keeping'
  BY <1>1, StartKeeps, ReloadKeeps, FaultsKeep
<1>2. ASSUME NEW patch \in Patches, ApplyOverride(patch) PROVE Keeping'
  BY <1>2, ApplyOverrideKeeps
<1>3. CASE Persist
  BY <1>3, ReplaceKeeps, RestatKeeps DEF Persist
<1>4. CASE PersistFails \/ DeleteOverrides
  BY <1>4, FaultsKeep
<1>5. CASE (\E data \in Edits : EditBaseline(data)) \/ UNCHANGED vars
  <2>1. /\ UNCHANGED <<ovFile, store, local, pc, force, pending, settled, due>>
        /\ clock' = clock \/ clock' = clock + 1
    BY <1>5 DEF EditBaseline, vars, files, ghosts
  <2>2. OverridesArePast'
    BY <2>1 DEF Keeping, OverridesArePast, TypeOK, File, StoreType, LocalType
  <2> QED
    BY <2>1, <2>2 DEF Keeping, OnlyLoadsForce, BotHoldsAcked, PatchInHand, WorkerIsHonest,
                      NoFileNoPromise, AckedIsDurable, DueIsSettled, DueInForce
<1> QED
  BY <1>1, <1>2, <1>3, <1>4, <1>5 DEF Next

\* Promises, files and the bot's memory stay together under every fault.
THEOREM PromisesAreKept == Spec => []Keeping
<1>1. Init => Keeping
  BY KeepingInit
<1>2. TypeOK /\ RulesAreMerged /\ Keeping /\ [Next]_vars => Keeping'
  BY KeepingStep
<1> QED
  BY <1>1, <1>2, TypeCorrect, AlwaysMerged, PTL DEF Spec

\* An acknowledged setting stays in the overrides file through every crash,
\* failed write and other command, until a later command on its field or the
\* deletion of the file.
THEOREM DurableAcks == Spec => []AckedIsDurable
<1>1. Keeping => AckedIsDurable
  BY DEF Keeping
<1> QED
  BY <1>1, PromisesAreKept, PTL

\* A monitoring cycle enforces every setting acknowledged before it began,
\* in one process or in two, however the reload and the commands interleave
\* and whatever fails.
THEOREM NextCycleObeys == Spec => []EffectiveByNextCycle
<1>1. Keeping => EffectiveByNextCycle
  BY DEF Keeping, DueInForce, EffectiveByNextCycle
<1> QED
  BY <1>1, PromisesAreKept, PTL

===============================================================================

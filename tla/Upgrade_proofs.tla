--------------------------- MODULE Upgrade_proofs ---------------------------
(***************************************************************************)
(* Upgrade and rollback, for any number of commands and writes and every   *)
(* place where the old engine reports its sequence: the invariant IInv is  *)
(* inductive, and the properties of Upgrade follow from it.  There is one  *)
(* lemma for each conjunct of IInv and in it one step for each action.     *)
(***************************************************************************)
EXTENDS Upgrade, TLAPS

-----------------------------------------------------------------------------
(* Initial states                                                          *)

(* The invariant holds at first.                                           *)
LEMMA InitInv == Init => IInv
<1> SUFFICES ASSUME Init PROVE IInv
    OBVIOUS
<1> USE UpgradeAssumption
<1>1. 0 \in Counter /\ {0, Unknown} \subseteq Counter \cup {Unknown}
  BY DEF Counter
<1>2. NoBundle \in Bundles
  BY <1>1 DEF NoBundle, Bundles, Guards, Programs
<1>3. NoSnapshots \in [Snapshotting -> Snapshots]
  BY <1>1 DEF NoSnapshots, Snapshots, Programs
<1>4. TypeOK
  <2>1. {force, smoke, paused} \subseteq BOOLEAN
    BY DEF Init
  <2> QED
    BY <1>1, <1>2, <1>3, <2>1 DEF Init, TypeOK, Programs, Steps, Commands
<1>5. Running /\ NotYet /\ BackupBetween /\ Reviewed
  BY DEF Init, Running, NotYet, BackupBetween, Reviewed, OfUpgrade, OfRollback,
         Upgrading, RollingBack
<1>6. BundleSoFar
  BY DEF Init, BundleSoFar, Upgrading
<1>7. ReadBefore /\ Paused
  BY DEF Init, ReadBefore, Paused, NoSnapshots, NoBundle, Snapshotting, Upgrading,
         RollingBack, Recorded
<1>8. RecoverableUpdate /\ BackupIsCurrent
  BY DEF Init, RecoverableUpdate, BackupIsCurrent, NoBundle
<1> QED
  BY <1>4, <1>5, <1>6, <1>7, <1>8 DEF IInv

-----------------------------------------------------------------------------
(* What the steps leave of a bundle and of the snapshots                   *)

SameBackup(c) == bundle'[c].backup = bundle[c].backup
SameManifest(c) ==
    /\ bundle'[c].status = bundle[c].status
    /\ bundle'[c].to = bundle[c].to
    /\ bundle'[c].guard = bundle[c].guard
    /\ bundle'[c].clean = bundle[c].clean
SameSmoke(c) == bundle'[c].smoked = bundle[c].smoked
SameWasm(c) == bundle'[c].wasm = bundle[c].wasm

(* Planning and saving the program touch its file only.                    *)
LEMMA PlanEffect ==
    ASSUME TypeOK, Plan \/ SaveWasm, NEW c \in Commands
    PROVE  SameBackup(c) /\ SameManifest(c) /\ SameSmoke(c)
<1>1. bundle[c] \in Bundles
  BY DEF TypeOK
<1> QED
  BY <1>1 DEF Plan, SaveWasm, Bundles, TypeOK, SameBackup, SameManifest, SameSmoke

(* The backup, if one is taken, holds what is written by then.             *)
LEMMA BackupEffect ==
    ASSUME TypeOK, TakeBackup, NEW c \in Commands
    PROVE  /\ SameWasm(c) /\ SameManifest(c) /\ SameSmoke(c)
           /\ \/ SameBackup(c)
              \/ c = cur /\ bundle'[c].backup = writes
<1>1. \A d \in Commands : bundle[d] \in Bundles
  BY DEF TypeOK
<1>2. \A d \in Commands :
        \/ bundle'[d] = bundle[d]
        \/ d = cur /\ bundle'[d] = [bundle[d] EXCEPT !.backup = writes]
  <2>1. CASE bundle' = bundle
    BY <2>1
  <2>2. CASE bundle' = [bundle EXCEPT ![cur].backup = writes]
    BY <2>2 DEF TypeOK
  <2> QED
    BY <2>1, <2>2 DEF TakeBackup
<1>3. CASE bundle'[c] = bundle[c]
  BY <1>3 DEF SameBackup, SameManifest, SameSmoke, SameWasm
<1>4. CASE c = cur /\ bundle'[c] = [bundle[c] EXCEPT !.backup = writes]
  BY <1>1, <1>4 DEF Bundles, SameManifest, SameSmoke, SameWasm
<1> QED
  BY <1>2, <1>3, <1>4

(* A begun manifest touches neither program nor backup.                    *)
LEMMA GuardEffect ==
    ASSUME TypeOK, CheckGuard, NEW c \in Commands
    PROVE  SameWasm(c) /\ SameBackup(c) /\ SameSmoke(c)
<1>1. bundle[c] \in Bundles
  BY DEF TypeOK
<1> QED
  BY <1>1 DEF CheckGuard, Bundles, TypeOK, SameBackup, SameSmoke, SameWasm

(* The smoke write marks the bundle of the command that runs.              *)
LEMMA SmokeEffect ==
    ASSUME TypeOK, WriteSmoke, NEW c \in Commands
    PROVE  /\ SameWasm(c) /\ SameManifest(c) /\ SameBackup(c)
           /\ bundle'[c].smoked = (bundle[c].smoked \/ c = cur)
<1>1. bundle[c] \in Bundles
  BY DEF TypeOK
<1> QED
  BY <1>1 DEF WriteSmoke, Bundles, TypeOK, SameBackup, SameManifest, SameWasm

(* A manifest is rewritten for the command that runs, from one snapshot.   *)
LEMMA ManifestEffect ==
    ASSUME TypeOK, NEW st \in {"applied", "complete"}, NEW s \in {"after", "final"},
           Manifest(st, snap[s]), NEW c \in Commands
    PROVE  /\ SameWasm(c) /\ SameBackup(c) /\ SameSmoke(c)
           /\ c # cur => SameManifest(c)
           /\ c = cur => /\ bundle'[c].status = st
                         /\ bundle'[c].to = snap[s].hash
                         /\ bundle'[c].guard = Guard(snap[s])
                         /\ bundle'[c].clean = Clean(snap["guard"], snap[s])
<1>1. bundle[c] \in Bundles
  BY DEF TypeOK
<1> QED
  BY <1>1 DEF Manifest, Bundles, TypeOK, SameBackup, SameManifest, SameWasm, SameSmoke
(* A write leaves what was read in the past.                               *)
LEMMA ReadBeforeGrows ==
    ASSUME TypeOK, ReadBefore, writes' = writes + 1, UNCHANGED <<installedAt, snap>>,
           \A c \in Commands : bundle'[c].guard = bundle[c].guard,
           \A c \in Commands : bundle'[c].backup = bundle[c].backup
    PROVE  ReadBefore'
<1>1. writes \in Nat /\ installedAt \in Nat
  BY UpgradeAssumption DEF TypeOK, Counter
<1>2. installedAt' <= writes'
  BY <1>1 DEF ReadBefore
<1>3. ASSUME NEW s \in Snapshotting PROVE snap'[s].generation <= writes'
  <2>1. snap[s].generation \in Nat
    BY <1>3 DEF TypeOK, Snapshots, Counter
  <2> QED
    BY <1>1, <1>3, <2>1 DEF ReadBefore
<1>4. \A c \in Commands : bundle[c] \in Bundles
  BY DEF TypeOK
<1>5. ASSUME NEW c \in Commands PROVE bundle'[c].guard.generation <= writes'
  <2>1. bundle[c].guard.generation \in Nat
    BY <1>4, <1>5 DEF Bundles, Guards, Counter
  <2>2. bundle[c].guard.generation <= writes
    BY <1>5 DEF ReadBefore
  <2> QED
    BY <1>1, <1>5, <2>1, <2>2
<1>6. ASSUME NEW c \in Commands, bundle'[c].backup # Unknown PROVE bundle'[c].backup <= writes'
  <2>1. bundle[c].backup # Unknown /\ bundle[c].backup <= writes
    BY <1>6 DEF ReadBefore
  <2>2. bundle[c].backup \in Nat
    BY <1>4, <1>6, <2>1 DEF Bundles, Counter
  <2> QED
    BY <1>1, <1>6, <2>1, <2>2
<1> QED
  BY <1>2, <1>3, <1>5, <1>6 DEF ReadBefore

(* A view changes one snapshot, by what holds now.                         *)
LEMMA ViewEffect ==
    ASSUME TypeOK, View
    PROVE  /\ \A s \in Snapshotting : s # pc => snap'[s] = snap[s]
           /\ viewed = 0 => snap'[pc].hash = live
           /\ viewed # 0 => snap'[pc].hash = snap[pc].hash
           /\ viewed = 1 => snap'[pc].generation = writes
           /\ viewed # 1 => snap'[pc].generation = snap[pc].generation
<1>1. pc \in Snapshotting /\ snap \in [Snapshotting -> Snapshots] BY DEF View, TypeOK
<1>2. viewed \in 0..4 BY DEF TypeOK
<1>3. CASE ViewProgram BY <1>1, <1>3 DEF ViewProgram, Take, Snapshots
<1>4. CASE ViewStorage BY <1>1, <1>4 DEF ViewStorage, Snapshots
<1>5. CASE ViewAuth BY <1>1, <1>5 DEF ViewAuth, Take, Snapshots
<1>6. CASE ViewVersion BY <1>1, <1>6 DEF ViewVersion, Take, Snapshots
<1> QED BY <1>3, <1>4, <1>5, <1>6 DEF View

-----------------------------------------------------------------------------
(* Types                                                                   *)

LEMMA TypeStep == ASSUME IInv, [Next]_vars PROVE TypeOK'
<1> USE UpgradeAssumption
<1>a. /\ TypeOK /\ (pc # "idle" => cur \in Commands)
      /\ 0 \in Counter /\ writes \in Counter /\ writes \in Nat
      /\ bundle \in [Commands -> Bundles]
  BY DEF IInv, Running, TypeOK, Counter
<1>b. /\ \A s \in Snapshotting : Guard(snap[s]) \in Guards /\ snap[s].hash \in Programs
      /\ Guard(snap["guard"]) \in Guards /\ "new" \in Programs
  BY <1>a DEF TypeOK, Guard, Guards, Snapshots, Snapshotting, Programs
<1>c. ASSUME NEW st \in {"applied", "complete"}, NEW s \in {"after", "final"},
             Manifest(st, snap[s]), cur \in Commands
      PROVE  bundle' \in [Commands -> Bundles]
  <2>1. Clean(snap["guard"], snap[s]) \in {"true", "false", "unknown"}
    BY DEF Clean
  <2>2. bundle[cur] \in Bundles
    BY <1>a, <1>c
  <2>3. [bundle[cur] EXCEPT !.status = st, !.to = snap[s].hash, !.guard = Guard(snap[s]),
                            !.clean = Clean(snap["guard"], snap[s])] \in Bundles
    BY <1>b, <2>1, <2>2 DEF Bundles, Snapshotting
  <2> QED
    BY <1>a, <1>c, <2>3 DEF Manifest
<1>1. CASE View
  <2>1. snap[pc] \in Snapshots /\ pc \in Snapshotting
    BY <1>a, <1>1 DEF TypeOK, View
  <2>2. PICK r \in Snapshots : snap' = [snap EXCEPT ![pc] = r]
    <3>1. CASE ViewProgram
      BY <1>a, <2>1, <3>1 DEF ViewProgram, Take, TypeOK, Snapshots
    <3>2. CASE ViewStorage
      <4> DEFINE q == IF ReportsIn("storage") THEN writes ELSE Unknown
      <4>1. [snap[pc] EXCEPT !.generation = writes, !.sequence = q] \in Snapshots
        BY <1>a, <2>1 DEF Snapshots
      <4>2. snap' = [snap EXCEPT ![pc] = [snap[pc] EXCEPT !.generation = writes,
                                                          !.sequence = q]]
        BY <1>a, <2>1, <3>2 DEF ViewStorage, TypeOK
      <4> QED
        BY <4>1, <4>2
    <3>3. CASE ViewAuth
      <4>1. snap = [snap EXCEPT ![pc] = snap[pc]]
        BY <1>a DEF TypeOK
      <4> QED
        BY <1>a, <2>1, <3>3, <4>1 DEF ViewAuth, Take, TypeOK, Snapshots
    <3>4. CASE ViewVersion
      BY <1>a, <2>1, <3>4 DEF ViewVersion, Take, TypeOK, Snapshots
    <3> QED
      BY <1>1, <3>1, <3>2, <3>3, <3>4 DEF View
  <2>3. viewed' \in 0..4
    BY <1>a, <1>1 DEF View, ViewProgram, ViewStorage, ViewAuth, ViewVersion, TypeOK
  <2> QED
    BY <1>a, <1>1, <2>1, <2>2, <2>3 DEF View, TypeOK, circle, command
<1>2. CASE StartUpgrade
  BY <1>a, <1>2 DEF StartUpgrade, GoTo, circle, command, TypeOK, Steps,
     Snapshotting, Programs, Commands
<1>3. CASE Plan
  <2>1. cur \in Commands
    BY <1>a, <1>3 DEF Plan, Taken
  <2>2. bundle[cur] \in Bundles
    BY <2>1, <1>a
  <2>3. [bundle[cur] EXCEPT !.wasm = "partial"] \in Bundles
    BY <1>a, <1>b, <2>2 DEF Bundles
  <2>4. bundle' \in [Commands -> Bundles]
    BY <1>a, <1>3, <2>1, <2>3 DEF Plan
  <2> QED
    BY <1>a, <1>3, <2>4 DEF Plan, Taken, GoTo, TypeOK, Steps, Snapshotting, circle, command
<1>4. CASE SaveWasm
  <2>1. cur \in Commands
    BY <1>a, <1>4 DEF SaveWasm
  <2>2. bundle[cur] \in Bundles
    BY <2>1, <1>a
  <2>3. [bundle[cur] EXCEPT !.wasm = "whole"] \in Bundles
    BY <1>a, <1>b, <2>2 DEF Bundles
  <2>4. bundle' \in [Commands -> Bundles]
    BY <1>a, <1>4, <2>1, <2>3 DEF SaveWasm
  <2> QED
    BY <1>a, <1>4, <2>4 DEF SaveWasm, GoTo, TypeOK, Steps, Snapshotting, circle, command
<1>5. CASE TakeBackup
  <2>1. cur \in Commands
    BY <1>a, <1>5 DEF TakeBackup
  <2>2. bundle[cur] \in Bundles
    BY <2>1, <1>a
  <2>3. [bundle[cur] EXCEPT !.backup = writes] \in Bundles
    BY <1>a, <1>b, <2>2 DEF Bundles
  <2>4. bundle' \in [Commands -> Bundles]
    BY <1>a, <1>5, <2>1, <2>3 DEF TakeBackup
  <2> QED
    BY <1>a, <1>5, <2>4 DEF TakeBackup, GoTo, TypeOK, Steps, Snapshotting, circle, command
<1>6. CASE CheckGuard
  <2>1. cur \in Commands
    BY <1>a, <1>6 DEF CheckGuard, Taken
  <2>2. bundle[cur] \in Bundles
    BY <2>1, <1>a
  <2>3. [bundle[cur] EXCEPT !.status = "partial"] \in Bundles
    BY <1>a, <1>b, <2>2 DEF Bundles
  <2>4. bundle' \in [Commands -> Bundles]
    BY <1>a, <1>6, <2>1, <2>3 DEF CheckGuard
  <2> QED
    BY <1>a, <1>6, <2>4 DEF CheckGuard, Taken, GoTo, TypeOK, Steps, Snapshotting, circle, command
<1>7. CASE Prepare
  <2>1. cur \in Commands
    BY <1>a, <1>7 DEF Prepare
  <2>2. bundle[cur] \in Bundles
    BY <2>1, <1>a
  <2>3. [bundle[cur] EXCEPT !.status = "prepared", !.to = "new",
                            !.guard = Guard(snap["guard"])] \in Bundles
    BY <1>a, <1>b, <2>2 DEF Bundles
  <2>4. bundle' \in [Commands -> Bundles]
    BY <1>a, <1>7, <2>1, <2>3 DEF Prepare
  <2> QED
    BY <1>a, <1>7, <2>4 DEF Prepare, GoTo, TypeOK, Steps, Snapshotting, circle, command
<1>8. CASE RecordApplied
  <2>1. cur \in Commands
    BY <1>a, <1>8 DEF RecordApplied, Taken
  <2>2. bundle' \in [Commands -> Bundles]
    BY <1>8, <2>1, <1>c DEF RecordApplied
  <2> QED
    BY <1>a, <1>8, <2>2 DEF RecordApplied, GoTo, TypeOK, Steps, Snapshotting, circle, command
<1>9. CASE RecordComplete
  <2>1. cur \in Commands
    BY <1>a, <1>9 DEF RecordComplete, Taken
  <2>2. bundle' \in [Commands -> Bundles]
    BY <1>9, <2>1, <1>c DEF RecordComplete
  <2> QED
    BY <1>a, <1>9, <2>2 DEF RecordComplete, GoTo, TypeOK, Steps, Snapshotting, circle, command
<1>10. CASE WriteSmoke
  <2>1. cur \in Commands
    BY <1>a, <1>10 DEF WriteSmoke
  <2>2. [bundle[cur] EXCEPT !.smoked = TRUE] \in Bundles
    BY <2>1, <1>a DEF Bundles
  <2>3. bundle' \in [Commands -> Bundles]
    BY <1>a, <1>10, <2>1, <2>2 DEF WriteSmoke
  <2>4. writes' \in Counter
    BY <1>a, <1>10 DEF WriteSmoke, Counter
  <2> QED
    BY <1>a, <1>10, <2>3, <2>4 DEF WriteSmoke, GoTo, TypeOK, Steps, Snapshotting, command
<1>11. CASE RecordSmoke
  <2>1. cur \in Commands
    BY <1>a, <1>11 DEF RecordSmoke, Taken
  <2>2. bundle' \in [Commands -> Bundles]
    BY <1>11, <2>1, <1>c DEF RecordSmoke
  <2> QED
    BY <1>a, <1>11, <2>2 DEF RecordSmoke, GoTo, TypeOK, Steps, Snapshotting, circle, command
<1>12. CASE StartRollback
  BY <1>a, <1>12 DEF StartRollback, GoTo, circle, command, TypeOK, Steps,
     Snapshotting, Programs, Commands
<1>13. CASE Review
  BY <1>a, <1>13 DEF Review, Taken, GoTo, circle, command, TypeOK, Steps,
     Snapshotting, Programs, Commands
<1>14. CASE Recheck
  BY <1>a, <1>14 DEF Recheck, Taken, GoTo, circle, command, TypeOK, Steps,
     Snapshotting, Programs, Commands
<1>15. CASE Submit
  BY <1>a, <1>15 DEF Submit, GoTo, TypeOK, Steps, circle, command
<1>16. CASE Confirm
  BY <1>a, <1>16 DEF Confirm, GoTo, circle, command, TypeOK, Steps,
     Snapshotting, Programs, Commands
<1>17. CASE CheckInfo
  BY <1>a, <1>17 DEF CheckInfo, Code, GoTo, circle, command, TypeOK, Steps,
     Snapshotting, Programs, Commands
<1>18. CASE SaveMetadata
  BY <1>a, <1>18 DEF SaveMetadata, Taken, Code, GoTo, circle, command,
     TypeOK, Steps, Snapshotting, Programs, Commands
<1>19. CASE End
  <2>1. NoSnapshots \in [Snapshotting -> Snapshots]
    BY <1>a DEF NoSnapshots, Snapshots, Programs
  <2>2. {force', smoke', paused'} \subseteq BOOLEAN
    BY <1>a, <1>19 DEF End, TypeOK
  <2> QED
    BY <1>a, <1>19, <2>1, <2>2 DEF End, GoTo, TypeOK, Steps, Commands, circle
<1>20. CASE \E c \in Commands : ApplyUpdate(c)
  BY <1>a, <1>20 DEF ApplyUpdate, Code, circle, command, TypeOK, Steps,
     Snapshotting, Programs, Commands
<1>21. CASE \E c \in Commands : DropUpdate(c)
  BY <1>a, <1>21 DEF DropUpdate, circle, command, TypeOK, Steps,
     Snapshotting, Programs, Commands
<1>22. CASE Write
  <2>1. writes' \in Counter
    BY <1>a, <1>22 DEF Write, Counter
  <2> QED
    BY <1>a, <1>22, <2>1 DEF Write, TypeOK, command
<1>23. CASE UNCHANGED vars
  BY <1>a, <1>23 DEF vars, circle, command, TypeOK, Steps, Snapshotting,
     Programs, Commands
<1> QED
  BY <1>1, <1>2, <1>3, <1>4, <1>5, <1>6, <1>7, <1>8, <1>9, <1>10, <1>11,
     <1>12, <1>13, <1>14, <1>15, <1>16, <1>17, <1>18, <1>19, <1>20, <1>21,
     <1>22, <1>23 DEF Next, UpgradeStep, RollbackStep

-----------------------------------------------------------------------------
(* The command that runs                                                   *)

LEMMA RunningStep == ASSUME IInv, [Next]_vars PROVE Running'
<1> USE UpgradeAssumption DEF IInv, Running, OfUpgrade, OfRollback,
   Upgrading, RollingBack
<1>1. CASE View
  BY <1>1 DEF View, ViewProgram, ViewStorage, ViewAuth, ViewVersion, Take,
     circle, command
<1>2. CASE StartUpgrade
  BY <1>2 DEF StartUpgrade, GoTo, circle, command, TypeOK, Commands
<1>3. CASE Plan
  BY <1>3 DEF Plan, Taken, GoTo, circle, command
<1>4. CASE SaveWasm
  BY <1>4 DEF SaveWasm, GoTo, circle, command
<1>5. CASE TakeBackup
  BY <1>5 DEF TakeBackup, GoTo, circle, command
<1>6. CASE CheckGuard
  BY <1>6 DEF CheckGuard, Taken, GoTo, circle, command
<1>7. CASE Prepare
  BY <1>7 DEF Prepare, GoTo, circle, command
<1>8. CASE RecordApplied
  BY <1>8 DEF RecordApplied, Taken, Manifest, GoTo, circle, command
<1>9. CASE RecordComplete
  BY <1>9 DEF RecordComplete, Manifest, GoTo, circle, command
<1>10. CASE WriteSmoke
  BY <1>10 DEF WriteSmoke, GoTo, circle, command
<1>11. CASE RecordSmoke
  BY <1>11 DEF RecordSmoke, Taken, Manifest, GoTo, circle, command
<1>12. CASE StartRollback
  BY <1>12 DEF StartRollback, GoTo, circle, command, TypeOK, Commands
<1>13. CASE Review
  BY <1>13 DEF Review, Taken, GoTo, circle, command
<1>14. CASE Recheck
  BY <1>14 DEF Recheck, Taken, GoTo, circle, command
<1>15. CASE Submit
  BY <1>15 DEF Submit, GoTo, circle, command
<1>16. CASE Confirm
  BY <1>16 DEF Confirm, GoTo, circle, command
<1>17. CASE CheckInfo
  BY <1>17 DEF CheckInfo, GoTo, circle, command
<1>18. CASE SaveMetadata
  BY <1>18 DEF SaveMetadata, Taken, GoTo, circle, command
<1>19. CASE End
  BY <1>19 DEF End, GoTo, circle, command
<1>20. CASE \E c \in Commands : ApplyUpdate(c)
  BY <1>20 DEF ApplyUpdate, circle, command
<1>21. CASE \E c \in Commands : DropUpdate(c)
  BY <1>21 DEF DropUpdate, circle, command
<1>22. CASE Write
  BY <1>22 DEF Write, circle, command
<1>23. CASE UNCHANGED vars
  BY <1>23 DEF vars, circle, command
<1> QED
  BY <1>1, <1>2, <1>3, <1>4, <1>5, <1>6, <1>7, <1>8, <1>9, <1>10, <1>11,
     <1>12, <1>13, <1>14, <1>15, <1>16, <1>17, <1>18, <1>19, <1>20, <1>21,
     <1>22, <1>23 DEF Next, UpgradeStep, RollbackStep

-----------------------------------------------------------------------------
(* What has not begun                                                      *)

LEMMA NotYetStep == ASSUME IInv, [Next]_vars PROVE NotYet'
<1> USE UpgradeAssumption DEF IInv, NotYet, Running, OfUpgrade, OfRollback,
   Upgrading, RollingBack
<1>1. CASE View
  BY <1>1 DEF View, ViewProgram, ViewStorage, ViewAuth, ViewVersion, Take,
     circle, command
<1>2. CASE StartUpgrade
  <2>1. /\ cur \in Nat /\ cur' = cur + 1 /\ cur' \in Commands
        /\ kind'[cur'] = "upgrade" /\ pc' = "before" /\ viewed' = 0
        /\ UNCHANGED <<circle, update, bundle, snap, paused>>
    BY <1>2 DEF StartUpgrade, GoTo, TypeOK, Commands
  <2>2. \A c \in Commands : c >= cur' => c > cur
    BY <2>1 DEF Commands
  <2> QED
    BY <2>1, <2>2
<1>3. CASE Plan
  BY <1>3 DEF Plan, Taken, GoTo, circle, command, TypeOK
<1>4. CASE SaveWasm
  BY <1>4 DEF SaveWasm, GoTo, circle, command, TypeOK
<1>5. CASE TakeBackup
  BY <1>5 DEF TakeBackup, GoTo, circle, command, TypeOK
<1>6. CASE CheckGuard
  BY <1>6 DEF CheckGuard, Taken, GoTo, circle, command, TypeOK
<1>7. CASE Prepare
  BY <1>7 DEF Prepare, GoTo, circle, command, TypeOK
<1>8. CASE RecordApplied
  BY <1>8 DEF RecordApplied, Taken, Manifest, GoTo, circle, command, TypeOK
<1>9. CASE RecordComplete
  BY <1>9 DEF RecordComplete, Manifest, GoTo, circle, command, TypeOK
<1>10. CASE WriteSmoke
  BY <1>10 DEF WriteSmoke, GoTo, circle, command, TypeOK
<1>11. CASE RecordSmoke
  BY <1>11 DEF RecordSmoke, Taken, Manifest, GoTo, circle, command, TypeOK
<1>12. CASE StartRollback
  <2>1. /\ cur \in Nat /\ cur' = cur + 1 /\ cur' \in Commands
        /\ kind'[cur'] = "rollback" /\ pc' = "review" /\ viewed' = 0
        /\ UNCHANGED <<circle, update, bundle, snap, paused>>
    BY <1>12 DEF StartRollback, GoTo, TypeOK, Commands
  <2>2. \A c \in Commands : c >= cur' => c > cur
    BY <2>1 DEF Commands
  <2> QED
    BY <2>1, <2>2
<1>13. CASE Review
  BY <1>13 DEF Review, Taken, GoTo, circle, command
<1>14. CASE Recheck
  BY <1>14 DEF Recheck, Taken, GoTo, circle, command
<1>15. CASE Submit
  BY <1>15 DEF Submit, GoTo, circle, command, TypeOK
<1>16. CASE Confirm
  BY <1>16 DEF Confirm, GoTo, circle, command
<1>17. CASE CheckInfo
  BY <1>17 DEF CheckInfo, GoTo, circle, command
<1>18. CASE SaveMetadata
  BY <1>18 DEF SaveMetadata, Taken, GoTo, circle, command
<1>19. CASE End
  BY <1>19 DEF End, GoTo, circle, command
<1>20. CASE \E c \in Commands : ApplyUpdate(c)
  BY <1>20 DEF ApplyUpdate, circle, command
<1>21. CASE \E c \in Commands : DropUpdate(c)
  BY <1>21 DEF DropUpdate, circle, command
<1>22. CASE Write
  BY <1>22 DEF Write, circle, command
<1>23. CASE UNCHANGED vars
  BY <1>23 DEF vars, circle, command
<1> QED
  BY <1>1, <1>2, <1>3, <1>4, <1>5, <1>6, <1>7, <1>8, <1>9, <1>10, <1>11,
     <1>12, <1>13, <1>14, <1>15, <1>16, <1>17, <1>18, <1>19, <1>20, <1>21,
     <1>22, <1>23 DEF Next, UpgradeStep, RollbackStep

-----------------------------------------------------------------------------
(* The bundle of the command that runs                                     *)

LEMMA BundleSoFarStep == ASSUME IInv, [Next]_vars PROVE BundleSoFar'
<1> USE UpgradeAssumption DEF IInv, BundleSoFar, Running, OfUpgrade,
   OfRollback, Upgrading, RollingBack, Recorded
<1>1. CASE View
  BY <1>1 DEF View, ViewProgram, ViewStorage, ViewAuth, ViewVersion, Take,
     circle, command, TypeOK, Snapshotting, Snapshots, Bundles, Counter
<1>2. CASE StartUpgrade
  <2>1. /\ cur \in Nat /\ cur' = cur + 1 /\ cur' \in Commands
        /\ kind'[cur'] = "upgrade" /\ pc' = "before" /\ viewed' = 0
        /\ UNCHANGED <<circle, update, bundle, snap, paused>>
    BY <1>2 DEF StartUpgrade, GoTo, TypeOK, Commands
  <2>2. cur' > cur
    BY <2>1
  <2>3. bundle'[cur'] = NoBundle
    BY <2>1, <2>2 DEF NotYet
  <2> QED
    BY <2>1, <2>3 DEF NoBundle
<1>3. CASE Plan
  BY <1>3 DEF Plan, Taken, GoTo, circle, command, TypeOK, NotYet, NoBundle,
     Snapshotting, Bundles
<1>4. CASE SaveWasm
  BY <1>4 DEF SaveWasm, GoTo, circle, command, TypeOK
<1>5. CASE TakeBackup
  <2>1. cur \in Commands /\ Upgrading
    BY <1>5 DEF TakeBackup
  <2> QED
    BY <1>5, <2>1, BackupEffect DEF TakeBackup, GoTo, circle, command, SameWasm, SameManifest,
       SameSmoke
<1>6. CASE CheckGuard
  BY <1>6 DEF CheckGuard, Taken, GoTo, circle, command
<1>7. CASE Prepare
  BY <1>7 DEF Prepare, GoTo, circle, command, TypeOK
<1>8. CASE RecordApplied
  BY <1>8 DEF RecordApplied, Taken, Manifest, GoTo, circle, command, TypeOK
<1>9. CASE RecordComplete
  BY <1>9 DEF RecordComplete, Manifest, GoTo, circle, command, TypeOK
<1>10. CASE WriteSmoke
  BY <1>10 DEF WriteSmoke, GoTo, circle, command, TypeOK
<1>11. CASE RecordSmoke
  BY <1>11 DEF RecordSmoke, Taken, Manifest, GoTo, circle, command, TypeOK
<1>12. CASE StartRollback
  <2>1. /\ cur \in Nat /\ cur' = cur + 1 /\ cur' \in Commands
        /\ kind'[cur'] = "rollback" /\ pc' = "review" /\ viewed' = 0
        /\ UNCHANGED <<circle, update, bundle, snap, paused>>
    BY <1>12 DEF StartRollback, GoTo, TypeOK, Commands
  <2>2. cur' > cur
    BY <2>1
  <2>3. bundle'[cur'] = NoBundle
    BY <2>1, <2>2 DEF NotYet
  <2> QED
    BY <2>1, <2>3 DEF NoBundle
<1>13. CASE Review
  BY <1>13 DEF Review, Taken, GoTo, circle, command
<1>14. CASE Recheck
  BY <1>14 DEF Recheck, Taken, GoTo, circle, command
<1>15. CASE Submit
  BY <1>15 DEF Submit, GoTo, circle, command
<1>16. CASE Confirm
  BY <1>16 DEF Confirm, GoTo, circle, command
<1>17. CASE CheckInfo
  BY <1>17 DEF CheckInfo, GoTo, circle, command
<1>18. CASE SaveMetadata
  BY <1>18 DEF SaveMetadata, Taken, GoTo, circle, command
<1>19. CASE End
  BY <1>19 DEF End, GoTo, circle, command
<1>20. CASE \E c \in Commands : ApplyUpdate(c)
  BY <1>20 DEF ApplyUpdate, circle, command
<1>21. CASE \E c \in Commands : DropUpdate(c)
  BY <1>21 DEF DropUpdate, circle, command
<1>22. CASE Write
  BY <1>22 DEF Write, circle, command
<1>23. CASE UNCHANGED vars
  BY <1>23 DEF vars, circle, command
<1> QED
  BY <1>1, <1>2, <1>3, <1>4, <1>5, <1>6, <1>7, <1>8, <1>9, <1>10, <1>11,
     <1>12, <1>13, <1>14, <1>15, <1>16, <1>17, <1>18, <1>19, <1>20, <1>21,
     <1>22, <1>23 DEF Next, UpgradeStep, RollbackStep

-----------------------------------------------------------------------------
(* Counters that have been read                                            *)

LEMMA ReadBeforeStep == ASSUME IInv, [Next]_vars PROVE ReadBefore'
<1> USE UpgradeAssumption DEF IInv, ReadBefore, Running, OfUpgrade,
   Upgrading
<1>1. CASE View
  <2>1. \A s \in Snapshotting : snap'[s].generation <= writes
    BY <1>1, ViewEffect DEF View, TypeOK, Counter
  <2> QED
    BY <1>1, <2>1 DEF View, circle
<1>2. CASE StartUpgrade
  BY <1>2 DEF StartUpgrade, GoTo, circle, command
<1>3. CASE Plan
  BY <1>3, PlanEffect DEF Plan, circle, command, SameBackup, SameManifest
<1>4. CASE SaveWasm
  BY <1>4 DEF SaveWasm, GoTo, circle, command
<1>5. CASE TakeBackup
  BY <1>5, BackupEffect DEF TakeBackup, TypeOK, Counter, circle, command, SameBackup, SameManifest
<1>6. CASE CheckGuard
  BY <1>6 DEF CheckGuard, Taken, Unchanged, Guard, GoTo, circle, command
<1>7. CASE Prepare
  BY <1>7 DEF Prepare, Guard, GoTo, circle, command, TypeOK, Snapshotting
<1>8. CASE RecordApplied
  <2>1. snap["after"].generation <= writes
    BY DEF Snapshotting
  <2> QED
    BY <1>8, <2>1, ManifestEffect DEF RecordApplied, SameBackup, SameManifest, Guard, circle, command
<1>9. CASE RecordComplete
  <2>1. snap["after"].generation <= writes
    BY DEF Snapshotting
  <2> QED
    BY <1>9, <2>1, ManifestEffect DEF RecordComplete, SameBackup, SameManifest, Guard, circle, command
<1>10. CASE WriteSmoke
  <2>1. /\ writes' = writes + 1
        /\ UNCHANGED <<installedAt, snap>>
    BY <1>10 DEF WriteSmoke, command
  <2>2. \A c \in Commands : bundle'[c].guard = bundle[c].guard
    BY <1>10, SmokeEffect DEF SameManifest, SameBackup
  <2>3. \A c \in Commands : bundle'[c].backup = bundle[c].backup
    BY <1>10, SmokeEffect DEF SameManifest, SameBackup
  <2> QED
    BY <2>1, <2>2, <2>3, ReadBeforeGrows
<1>11. CASE RecordSmoke
  <2>1. snap["final"].generation <= writes
    BY DEF Snapshotting
  <2> QED
    BY <1>11, <2>1, ManifestEffect DEF RecordSmoke, SameBackup, SameManifest, Guard, circle, command
<1>12. CASE StartRollback
  BY <1>12 DEF StartRollback, GoTo, circle, command
<1>13. CASE Review
  BY <1>13 DEF Review, Taken, GoTo, circle, command
<1>14. CASE Recheck
  BY <1>14 DEF Recheck, Taken, GoTo, circle, command
<1>15. CASE Submit
  BY <1>15 DEF Submit, GoTo, circle, command
<1>16. CASE Confirm
  BY <1>16 DEF Confirm, GoTo, circle, command
<1>17. CASE CheckInfo
  BY <1>17 DEF CheckInfo, GoTo, circle, command
<1>18. CASE SaveMetadata
  BY <1>18 DEF SaveMetadata, Taken, GoTo, circle, command
<1>19. CASE End
  BY <1>19 DEF End, GoTo, circle, command, TypeOK, NoSnapshots,
     Snapshotting, Bundles, Snapshots, Guards, Counter, NoBundle
<1>20. CASE \E c \in Commands : ApplyUpdate(c)
  BY <1>20 DEF ApplyUpdate, circle, command, TypeOK, Snapshotting,
     Snapshots, Bundles, Counter
<1>21. CASE \E c \in Commands : DropUpdate(c)
  BY <1>21 DEF DropUpdate, circle, command
<1>22. CASE Write
  <2>1. /\ writes' = writes + 1
        /\ UNCHANGED <<installedAt, snap>>
    BY <1>22 DEF Write, command
  <2>2. \A c \in Commands : bundle'[c].guard = bundle[c].guard
    BY <1>22 DEF Write
  <2>3. \A c \in Commands : bundle'[c].backup = bundle[c].backup
    BY <1>22 DEF Write
  <2> QED
    BY <2>1, <2>2, <2>3, ReadBeforeGrows
<1>23. CASE UNCHANGED vars
  BY <1>23 DEF vars, circle, command
<1> QED
  BY <1>1, <1>2, <1>3, <1>4, <1>5, <1>6, <1>7, <1>8, <1>9, <1>10, <1>11,
     <1>12, <1>13, <1>14, <1>15, <1>16, <1>17, <1>18, <1>19, <1>20, <1>21,
     <1>22, <1>23 DEF Next, UpgradeStep, RollbackStep

-----------------------------------------------------------------------------
(* The backup and the two snapshots                                        *)

LEMMA BackupBetweenStep == ASSUME IInv, [Next]_vars PROVE BackupBetween'
<1> USE UpgradeAssumption DEF IInv, BackupBetween, Running, OfUpgrade,
   Upgrading
<1>1. CASE View
  <2>1. /\ pc \in Snapshotting
        /\ viewed \in 0..4 /\ viewed' = viewed + 1 /\ writes \in Nat
        /\ UNCHANGED <<circle, command, update, bundle, pc, saved, paused>>
    BY <1>1 DEF View, TypeOK, Counter
  <2>2. /\ pc # "guard" => snap'["guard"] = snap["guard"]
        /\ pc # "before" => snap'["before"] = snap["before"]
        /\ pc = "guard" /\ viewed = 1 => snap'["guard"].generation = writes
        /\ pc = "guard" /\ viewed # 1 =>
              snap'["guard"].generation = snap["guard"].generation
    BY <2>1, <1>1, ViewEffect DEF Snapshotting
  <2>3. Upgrading /\ bundle[cur].backup # Unknown => bundle[cur].backup <= writes
    BY DEF Upgrading, ReadBefore
  <2> QED
    BY <2>1, <2>2, <2>3 DEF circle, command
<1>2. CASE StartUpgrade
  <2>1. /\ cur \in Nat /\ cur' = cur + 1 /\ cur' \in Commands
        /\ kind'[cur'] = "upgrade" /\ pc' = "before" /\ viewed' = 0
        /\ UNCHANGED <<circle, update, bundle, snap, paused>>
    BY <1>2 DEF StartUpgrade, GoTo, TypeOK, Commands
  <2> QED
    BY <2>1
<1>3. CASE Plan
  BY <1>3 DEF Plan, Taken, GoTo, circle, command
<1>4. CASE SaveWasm
  BY <1>4 DEF SaveWasm, GoTo, circle, command
<1>5. CASE TakeBackup
  <2>1. snap["before"].generation <= writes
    BY DEF ReadBefore, Snapshotting
  <2>2. cur \in Commands /\ pc = "backup" /\ Upgrading
    BY <1>5 DEF TakeBackup
  <2>3. bundle'[cur].backup # Unknown => bundle'[cur].backup = writes
    BY <1>5, <2>2, BackupEffect DEF SameBackup, BundleSoFar
  <2> QED
    BY <1>5, <2>1, <2>2, <2>3 DEF TakeBackup, GoTo, circle, command
<1>6. CASE CheckGuard
  <2>1. /\ Upgrading /\ cur \in Commands /\ pc = "guard" /\ viewed = 4
        /\ snap["before"].generation = snap["guard"].generation
        /\ UNCHANGED <<circle, command, snap>>
    BY <1>6 DEF CheckGuard, Taken, Unchanged, Guard
  <2>2. bundle'[cur].backup = bundle[cur].backup
    BY <1>6, <2>1, GuardEffect DEF SameBackup
  <2>3. snap["guard"].generation \in Nat
    BY DEF TypeOK, Snapshots, Snapshotting, Counter
  <2>4. bundle[cur].backup # Unknown => bundle[cur].backup \in Nat
    BY <2>1 DEF TypeOK, Bundles, Counter
  <2> QED
    BY <2>1, <2>2, <2>3, <2>4 DEF command
<1>7. CASE Prepare
  BY <1>7 DEF Prepare, Guard, GoTo, circle, command, TypeOK
<1>8. CASE RecordApplied
  BY <1>8 DEF RecordApplied, Taken, Manifest, Guard, Clean, GoTo, circle,
     command, TypeOK
<1>9. CASE RecordComplete
  BY <1>9 DEF RecordComplete, Manifest, Guard, Clean, GoTo, circle, command,
     TypeOK
<1>10. CASE WriteSmoke
  BY <1>10 DEF WriteSmoke, GoTo, circle, command
<1>11. CASE RecordSmoke
  BY <1>11 DEF RecordSmoke, Taken, Manifest, Guard, Clean, GoTo, circle,
     command, TypeOK
<1>12. CASE StartRollback
  <2>1. /\ cur \in Nat /\ cur' = cur + 1 /\ cur' \in Commands
        /\ kind'[cur'] = "rollback" /\ pc' = "review" /\ viewed' = 0
        /\ UNCHANGED <<circle, update, bundle, snap, paused>>
    BY <1>12 DEF StartRollback, GoTo, TypeOK, Commands
  <2> QED
    BY <2>1
<1>13. CASE Review
  BY <1>13 DEF Review, Taken, GoTo, circle, command
<1>14. CASE Recheck
  BY <1>14 DEF Recheck, Taken, GoTo, circle, command
<1>15. CASE Submit
  BY <1>15 DEF Submit, GoTo, circle, command
<1>16. CASE Confirm
  BY <1>16 DEF Confirm, GoTo, circle, command
<1>17. CASE CheckInfo
  BY <1>17 DEF CheckInfo, GoTo, circle, command
<1>18. CASE SaveMetadata
  BY <1>18 DEF SaveMetadata, Taken, GoTo, circle, command
<1>19. CASE End
  BY <1>19 DEF End, GoTo, circle, command
<1>20. CASE \E c \in Commands : ApplyUpdate(c)
  BY <1>20 DEF ApplyUpdate, circle, command
<1>21. CASE \E c \in Commands : DropUpdate(c)
  BY <1>21 DEF DropUpdate, circle, command
<1>22. CASE Write
  BY <1>22 DEF Write, circle, command
<1>23. CASE UNCHANGED vars
  BY <1>23 DEF vars, circle, command
<1> QED
  BY <1>1, <1>2, <1>3, <1>4, <1>5, <1>6, <1>7, <1>8, <1>9, <1>10, <1>11,
     <1>12, <1>13, <1>14, <1>15, <1>16, <1>17, <1>18, <1>19, <1>20, <1>21,
     <1>22, <1>23 DEF Next, UpgradeStep, RollbackStep

-----------------------------------------------------------------------------
(* What a rollback goes by                                                 *)

LEMMA ReviewedStep == ASSUME IInv, [Next]_vars PROVE Reviewed'
<1> USE UpgradeAssumption DEF IInv, Reviewed, Running, RollingBack,
   OfUpgrade, OfRollback, Upgrading, Recorded
<1>1. CASE View
  BY <1>1 DEF View, ViewProgram, ViewStorage, ViewAuth, ViewVersion, Take,
     circle, command, TypeOK, Snapshotting, Snapshots, Bundles, Counter
<1>2. CASE StartUpgrade
  <2>1. /\ cur \in Nat /\ cur' = cur + 1 /\ cur' \in Commands
        /\ kind'[cur'] = "upgrade" /\ pc' = "before" /\ viewed' = 0
        /\ UNCHANGED <<circle, update, bundle, snap, paused>>
    BY <1>2 DEF StartUpgrade, GoTo, TypeOK, Commands
  <2> QED
    BY <1>2, <2>1 DEF StartUpgrade
<1>3. CASE Plan
  BY <1>3 DEF Plan, Taken, GoTo, circle, command
<1>4. CASE SaveWasm
  BY <1>4 DEF SaveWasm, GoTo, circle, command
<1>5. CASE TakeBackup
  BY <1>5 DEF TakeBackup, GoTo, circle, command
<1>6. CASE CheckGuard
  BY <1>6 DEF CheckGuard, Taken, Unchanged, Guard, GoTo, circle, command
<1>7. CASE Prepare
  BY <1>7 DEF Prepare, Guard, GoTo, circle, command
<1>8. CASE RecordApplied
  BY <1>8 DEF RecordApplied, Taken, Manifest, Guard, GoTo, circle, command
<1>9. CASE RecordComplete
  BY <1>9 DEF RecordComplete, Manifest, Guard, GoTo, circle, command
<1>10. CASE WriteSmoke
  BY <1>10 DEF WriteSmoke, GoTo, circle, command
<1>11. CASE RecordSmoke
  BY <1>11 DEF RecordSmoke, Taken, Manifest, Guard, GoTo, circle, command
<1>12. CASE StartRollback
  <2>1. /\ cur \in Nat /\ cur' = cur + 1 /\ cur' \in Commands
        /\ kind'[cur'] = "rollback" /\ pc' = "review" /\ viewed' = 0
        /\ UNCHANGED <<circle, update, bundle, snap, paused>>
    BY <1>12 DEF StartRollback, GoTo, TypeOK, Commands
  <2> QED
    BY <1>12, <2>1 DEF StartRollback
<1>13. CASE Review
  BY <1>13 DEF Review, Taken, WritesAfterUpgrade, Guard, GoTo, circle,
     command
<1>14. CASE Recheck
  BY <1>14 DEF Recheck, Taken, GoTo, circle, command
<1>15. CASE Submit
  BY <1>15 DEF Submit, GoTo, circle, command
<1>16. CASE Confirm
  BY <1>16 DEF Confirm, GoTo, circle, command
<1>17. CASE CheckInfo
  BY <1>17 DEF CheckInfo, Code, GoTo, circle, command
<1>18. CASE SaveMetadata
  BY <1>18 DEF SaveMetadata, Taken, GoTo, circle, command
<1>19. CASE End
  BY <1>19 DEF End, GoTo, circle, command
<1>20. CASE \E c \in Commands : ApplyUpdate(c)
  BY <1>20 DEF ApplyUpdate, Code, circle, command
<1>21. CASE \E c \in Commands : DropUpdate(c)
  BY <1>21 DEF DropUpdate, circle, command
<1>22. CASE Write
  BY <1>22 DEF Write, circle, command
<1>23. CASE UNCHANGED vars
  BY <1>23 DEF vars, circle, command
<1> QED
  BY <1>1, <1>2, <1>3, <1>4, <1>5, <1>6, <1>7, <1>8, <1>9, <1>10, <1>11,
     <1>12, <1>13, <1>14, <1>15, <1>16, <1>17, <1>18, <1>19, <1>20, <1>21,
     <1>22, <1>23 DEF Next, UpgradeStep, RollbackStep

-----------------------------------------------------------------------------
(* Writers that pause                                                      *)

LEMMA PausedStep == ASSUME IInv, [Next]_vars PROVE Paused'
<1> USE UpgradeAssumption DEF IInv, Paused, Running, OfUpgrade, OfRollback,
   Upgrading, RollingBack, Recorded
<1>1. CASE View
  <2>1. /\ pc \in Snapshotting
        /\ viewed \in 0..4 /\ viewed' = viewed + 1
        /\ UNCHANGED <<circle, command, update, bundle, pc, saved, paused>>
    BY <1>1 DEF View, TypeOK
  <2>2. \A s \in {"before", "review"} :
          /\ pc # s => snap'[s] = snap[s]
          /\ pc = s /\ viewed = 0 => snap'[s].hash = live
          /\ pc = s /\ viewed # 0 => snap'[s].hash = snap[s].hash
          /\ pc = s /\ viewed = 1 => snap'[s].generation = writes
          /\ pc = s /\ viewed # 1 => snap'[s].generation = snap[s].generation
    BY <2>1, <1>1, ViewEffect DEF Snapshotting
  <2> QED
    BY <2>1, <2>2 DEF circle, command
<1>2. CASE StartUpgrade
  <2>1. /\ cur \in Nat /\ cur' = cur + 1 /\ cur' \in Commands
        /\ kind'[cur'] = "upgrade" /\ pc' = "before" /\ viewed' = 0
        /\ UNCHANGED <<circle, update, bundle, snap, paused>>
    BY <1>2 DEF StartUpgrade, GoTo, TypeOK, Commands
  <2> QED
    BY <2>1 DEF circle
<1>3. CASE Plan
  BY <1>3, PlanEffect DEF Plan, Taken, GoTo, circle, command, SameManifest, SameSmoke
<1>4. CASE SaveWasm
  BY <1>4 DEF SaveWasm, GoTo, circle, command
<1>5. CASE TakeBackup
  BY <1>5, BackupEffect DEF TakeBackup, GoTo, circle, command, SameManifest, SameSmoke
<1>6. CASE CheckGuard
  BY <1>6 DEF CheckGuard, Taken, Unchanged, Guard, GoTo, circle, command
<1>7. CASE Prepare
  BY <1>7 DEF Prepare, Guard, GoTo, circle, command, TypeOK, Reviewed,
     ReadBefore, BundleSoFar, Snapshotting, Snapshots, Bundles, Guards,
     Programs, Counter
<1>8. CASE RecordApplied
  BY <1>8 DEF RecordApplied, Taken, Manifest, Guard, GoTo, circle, command,
     TypeOK, Reviewed, ReadBefore, BundleSoFar, Snapshotting, Snapshots,
     Bundles, Guards, Programs, Counter
<1>9. CASE RecordComplete
  BY <1>9 DEF RecordComplete, Manifest, Guard, GoTo, circle, command,
     TypeOK, Reviewed, ReadBefore, BundleSoFar, Snapshotting, Snapshots,
     Bundles, Guards, Programs, Counter
<1>10. CASE WriteSmoke
  BY <1>10 DEF WriteSmoke, GoTo, circle, command
<1>11. CASE RecordSmoke
  <2>1. /\ cur \in Commands /\ bundle'[cur].smoked /\ pc = "final" /\ pc' = "return"
        /\ UNCHANGED <<circle, command, update, snap, saved, paused>>
    BY <1>11, ManifestEffect DEF BundleSoFar, RecordSmoke, SameSmoke, Taken, GoTo
  <2> QED
    BY <1>11, <2>1, ManifestEffect DEF RecordSmoke, SameSmoke, SameManifest, circle, command
<1>12. CASE StartRollback
  <2>1. /\ cur \in Nat /\ cur' = cur + 1 /\ cur' \in Commands
        /\ kind'[cur'] = "rollback" /\ pc' = "review" /\ viewed' = 0
        /\ UNCHANGED <<circle, update, bundle, snap, paused>>
    BY <1>12 DEF StartRollback, GoTo, TypeOK, Commands
  <2> QED
    BY <2>1 DEF circle
<1>13. CASE Review
  BY <1>13 DEF Review, Taken, WritesAfterUpgrade, Guard, GoTo, circle,
     command
<1>14. CASE Recheck
  BY <1>14 DEF Recheck, Taken, GoTo, circle, command
<1>15. CASE Submit
  BY <1>15 DEF Submit, GoTo, circle, command
<1>16. CASE Confirm
  BY <1>16 DEF Confirm, GoTo, circle, command
<1>17. CASE CheckInfo
  BY <1>17 DEF CheckInfo, Code, GoTo, circle, command, TypeOK, Reviewed,
     ReadBefore, BundleSoFar, Snapshotting, Snapshots, Bundles, Guards,
     Programs, Counter
<1>18. CASE SaveMetadata
  BY <1>18 DEF SaveMetadata, Taken, GoTo, circle, command
<1>19. CASE End
  BY <1>19 DEF End, GoTo, circle, command
<1>20. CASE \E c \in Commands : ApplyUpdate(c)
  BY <1>20 DEF ApplyUpdate, Code, circle, command, TypeOK, Reviewed,
     ReadBefore, BundleSoFar, Snapshotting, Snapshots, Bundles, Guards,
     Programs, Counter
<1>21. CASE \E c \in Commands : DropUpdate(c)
  BY <1>21 DEF DropUpdate, circle, command
<1>22. CASE Write
  BY <1>22 DEF Write, circle, command
<1>23. CASE UNCHANGED vars
  BY <1>23 DEF vars, circle, command
<1> QED
  BY <1>1, <1>2, <1>3, <1>4, <1>5, <1>6, <1>7, <1>8, <1>9, <1>10, <1>11,
     <1>12, <1>13, <1>14, <1>15, <1>16, <1>17, <1>18, <1>19, <1>20, <1>21,
     <1>22, <1>23 DEF Next, UpgradeStep, RollbackStep

-----------------------------------------------------------------------------
(* Updates of the chain have a bundle                                      *)

LEMMA RecoverableUpdateStep == ASSUME IInv, [Next]_vars PROVE RecoverableUpdate'
<1> USE UpgradeAssumption DEF IInv, RecoverableUpdate, NotYet, BundleSoFar,
   Running, Upgrading, Recorded
<1>1. CASE View
  BY <1>1 DEF View, ViewProgram, ViewStorage, ViewAuth, ViewVersion, Take,
     circle, command
<1>2. CASE StartUpgrade
  BY <1>2 DEF StartUpgrade, GoTo, circle, command, TypeOK
<1>3. CASE Plan
  BY <1>3 DEF Plan, Taken, GoTo, circle, command, TypeOK
<1>4. CASE SaveWasm
  BY <1>4 DEF SaveWasm, GoTo, circle, command
<1>5. CASE TakeBackup
  BY <1>5 DEF TakeBackup, GoTo, circle, command, TypeOK
<1>6. CASE CheckGuard
  BY <1>6 DEF CheckGuard, Taken, GoTo, circle, command
<1>7. CASE Prepare
  BY <1>7 DEF Prepare, GoTo, circle, command, TypeOK
<1>8. CASE RecordApplied
  BY <1>8 DEF RecordApplied, Taken, Manifest, GoTo, circle, command, TypeOK
<1>9. CASE RecordComplete
  BY <1>9 DEF RecordComplete, Manifest, GoTo, circle, command, TypeOK
<1>10. CASE WriteSmoke
  BY <1>10 DEF WriteSmoke, GoTo, circle, command
<1>11. CASE RecordSmoke
  BY <1>11 DEF RecordSmoke, Taken, Manifest, GoTo, circle, command, TypeOK
<1>12. CASE StartRollback
  BY <1>12 DEF StartRollback, GoTo, circle, command
<1>13. CASE Review
  BY <1>13 DEF Review, Taken, GoTo, circle, command
<1>14. CASE Recheck
  BY <1>14 DEF Recheck, Taken, GoTo, circle, command
<1>15. CASE Submit
  BY <1>15 DEF Submit, GoTo, circle, command
<1>16. CASE Confirm
  BY <1>16 DEF Confirm, GoTo, circle, command
<1>17. CASE CheckInfo
  BY <1>17 DEF CheckInfo, GoTo, circle, command
<1>18. CASE SaveMetadata
  BY <1>18 DEF SaveMetadata, Taken, GoTo, circle, command
<1>19. CASE End
  BY <1>19 DEF End, GoTo, circle, command
<1>20. CASE \E c \in Commands : ApplyUpdate(c)
  BY <1>20 DEF ApplyUpdate, circle, command
<1>21. CASE \E c \in Commands : DropUpdate(c)
  BY <1>21 DEF DropUpdate, circle, command
<1>22. CASE Write
  BY <1>22 DEF Write, circle, command
<1>23. CASE UNCHANGED vars
  BY <1>23 DEF vars, circle, command
<1> QED
  BY <1>1, <1>2, <1>3, <1>4, <1>5, <1>6, <1>7, <1>8, <1>9, <1>10, <1>11,
     <1>12, <1>13, <1>14, <1>15, <1>16, <1>17, <1>18, <1>19, <1>20, <1>21,
     <1>22, <1>23 DEF Next, UpgradeStep, RollbackStep

-----------------------------------------------------------------------------
(* The backups of bundles                                                  *)

LEMMA BackupIsCurrentStep == ASSUME IInv, [Next]_vars PROVE BackupIsCurrent'
<1> USE UpgradeAssumption DEF IInv, BackupIsCurrent, Running, OfUpgrade,
   Upgrading
<1>1. CASE View
  BY <1>1 DEF View, ViewProgram, ViewStorage, ViewAuth, ViewVersion, Take,
     circle, command
<1>2. CASE StartUpgrade
  BY <1>2 DEF StartUpgrade, GoTo, circle, command
<1>3. CASE Plan
  BY <1>3, PlanEffect DEF SameBackup, SameManifest
<1>4. CASE SaveWasm
  BY <1>4 DEF SaveWasm, GoTo, circle, command
<1>5. CASE TakeBackup
  <2>1. cur \in Commands /\ pc = "backup" /\ Upgrading
    BY <1>5 DEF TakeBackup
  <2> QED
    BY <1>5, <2>1, BackupEffect DEF SameBackup, SameManifest, SameSmoke, BundleSoFar
<1>6. CASE CheckGuard
  BY <1>6 DEF CheckGuard, Taken, Unchanged, Guard, GoTo, circle, command
<1>7. CASE Prepare
  BY <1>7 DEF Prepare, Guard, GoTo, circle, command, TypeOK, BundleSoFar,
     BackupBetween, Snapshotting, Bundles, Snapshots, Guards, Counter
<1>8. CASE RecordApplied
  BY <1>8 DEF RecordApplied, Taken, Manifest, Guard, Clean, GoTo, circle,
     command, TypeOK, Bundles
<1>9. CASE RecordComplete
  BY <1>9 DEF RecordComplete, Manifest, Guard, Clean, GoTo, circle, command,
     TypeOK, Bundles
<1>10. CASE WriteSmoke
  BY <1>10 DEF WriteSmoke, GoTo, circle, command
<1>11. CASE RecordSmoke
  BY <1>11 DEF RecordSmoke, Taken, Manifest, Guard, Clean, GoTo, circle,
     command, TypeOK, Bundles
<1>12. CASE StartRollback
  BY <1>12 DEF StartRollback, GoTo, circle, command
<1>13. CASE Review
  BY <1>13 DEF Review, Taken, GoTo, circle, command
<1>14. CASE Recheck
  BY <1>14 DEF Recheck, Taken, GoTo, circle, command
<1>15. CASE Submit
  BY <1>15 DEF Submit, GoTo, circle, command
<1>16. CASE Confirm
  BY <1>16 DEF Confirm, GoTo, circle, command
<1>17. CASE CheckInfo
  BY <1>17 DEF CheckInfo, GoTo, circle, command
<1>18. CASE SaveMetadata
  BY <1>18 DEF SaveMetadata, Taken, GoTo, circle, command
<1>19. CASE End
  BY <1>19 DEF End, GoTo, circle, command
<1>20. CASE \E c \in Commands : ApplyUpdate(c)
  BY <1>20 DEF ApplyUpdate, circle, command
<1>21. CASE \E c \in Commands : DropUpdate(c)
  BY <1>21 DEF DropUpdate, circle, command
<1>22. CASE Write
  BY <1>22 DEF Write, circle, command
<1>23. CASE UNCHANGED vars
  BY <1>23 DEF vars, circle, command
<1> QED
  BY <1>1, <1>2, <1>3, <1>4, <1>5, <1>6, <1>7, <1>8, <1>9, <1>10, <1>11,
     <1>12, <1>13, <1>14, <1>15, <1>16, <1>17, <1>18, <1>19, <1>20, <1>21,
     <1>22, <1>23 DEF Next, UpgradeStep, RollbackStep

-----------------------------------------------------------------------------
(* The theorems                                                            *)

(* The invariant, for every number of commands and writes: bundles grow in *)
(* the order of the steps, and what was read is not newer than what is.    *)
THEOREM InvariantHolds == Spec => []IInv
<1>1. Init => IInv
  BY InitInv
<1>2. IInv /\ [Next]_vars => IInv'
  BY TypeStep, RunningStep, NotYetStep, BundleSoFarStep, ReadBeforeStep, BackupBetweenStep,
     ReviewedStep, PausedStep, RecoverableUpdateStep, BackupIsCurrentStep DEF IInv
<1> QED
  BY <1>1, <1>2, PTL DEF Spec

(* Type correctness of the upgrade. *)
THEOREM TypeCorrect == Spec => []TypeOK
<1>1. IInv => TypeOK
  BY DEF IInv
<1> QED
  BY <1>1, InvariantHolds, PTL

(* Every update that an upgrade has submitted has a manifest on disk that  *)
(* was complete before the submission.                                     *)
THEOREM AlwaysRecoverable == Spec => []RecoverableUpdate
<1>1. IInv => RecoverableUpdate
  BY DEF IInv
<1> QED
  BY <1>1, InvariantHolds, PTL

(* A backup beside a prepared or a clean manifest holds every write up to  *)
(* the state the manifest compares with.                                   *)
THEOREM BackupAlwaysCurrent == Spec => []BackupIsCurrent
<1>1. IInv => BackupIsCurrent
  BY DEF IInv
<1> QED
  BY <1>1, InvariantHolds, PTL

(* While writers pause, an unforced rollback of an upgrade without a smoke *)
(* write is submitted only if the engine it removes has written nothing.   *)
THEOREM PausedRollbackClean == Spec => PausedRollbackIsClean
<1>1. IInv /\ [Next]_vars =>
        (UnforcedRollback /\ paused /\ ~bundle[source].smoked => writes = installedAt)
  <2> SUFFICES ASSUME IInv, UnforcedRollback, paused, ~bundle[source].smoked
               PROVE  writes = installedAt
    OBVIOUS
  <2>1. /\ pc = "submit" /\ RollingBack /\ ~force /\ source \in Commands
    BY DEF IInv, Running, UnforcedRollback, Submit, RollingBack
  <2>2. /\ snap["review"].hash = bundle[source].to
        /\ writes = bundle[source].guard.generation
    BY <2>1 DEF IInv, Reviewed, Paused
  <2>3. live = bundle[source].to \/ installedAt = writes
    BY <2>1, <2>2 DEF IInv, Paused
  <2>4. bundle[source].status \in Recorded
    BY <2>1 DEF IInv, Reviewed
  <2>5. installedAt >= bundle[source].guard.generation \/ live # bundle[source].to
    BY <2>1, <2>4 DEF IInv, Paused
  <2>6. installedAt <= writes /\ installedAt \in Nat /\ writes \in Nat
    BY DEF IInv, TypeOK, Counter, ReadBefore
  <2> QED
    BY <2>2, <2>3, <2>5, <2>6
<1> QED
  BY <1>1, InvariantHolds, PTL DEF Spec, PausedRollbackIsClean
=============================================================================

---------------------------- MODULE StoreProofs ----------------------------
(***************************************************************************)
(* Theorems about the model store, the logins, the lookup of a balance and *)
(* the usage view.                                                         *)
(*                                                                         *)
(* The files of the model store implement CacheRegister, for any catalogs  *)
(* and any contents found on the disk.  The argument needs three facts     *)
(* that hold at every step of a save (StoreInv): a good primary is in the  *)
(* backup before it is touched, the entries a power loss may leave contain *)
(* the live ones, and a file that is recognised as a later version's is on *)
(* the disk only with no write after it.                                   *)
(*                                                                         *)
(* A load beside the saves reports what was readable while it ran.  After  *)
(* its first read this rests on the backup alone: on Unix a save only ever *)
(* copies into it what was readable; on Windows it removes it first, but   *)
(* only when the primary is good, which after a first read that found no   *)
(* good primary takes one save, and the removal a second.                  *)
(*                                                                         *)
(* A login is forgotten in the step that tells its end, so no poll that    *)
(* begins later gets further than the lookup: for any states, polls,       *)
(* failures and changes of the configuration.                              *)
(*                                                                         *)
(* A balance is read whole because what was read and what is behind it on  *)
(* the list together never hold less than when the reading began, wherever *)
(* a package is put in; what the totals hold is an induction over the list *)
(* (FoldTheorems).  A usage answer is right because a page that is read    *)
(* while the bill stands still is its own part of the bill, the parts      *)
(* together are the bill, and the loop over them keeps no id twice.        *)
(***************************************************************************)
EXTENDS ModelStore, Login, Balance, UsageQuery, SequenceTheorems, FiniteSetTheorems, TLAPS

(* Decoding yields a catalog, a refusal or an error.                       *)
LEMMA OutcomeValues ==
    ASSUME NEW k, NEW c \in Contents
    PROVE  OutcomeOf(k, c) \in Catalogs \union {Future, Nothing, Broken}
BY StoreAssumption DEF OutcomeOf, Decode, Unmarshals, decodeModelCatalogCache, decodeMetadataCache,
    validateModelCacheSchema, Contents, Bytes

(* What a save writes is decoded as what was saved.                        *)
LEMMA MarshalDecodes ==
    ASSUME NEW k, NEW v \in Catalogs
    PROVE  /\ Marshal(v) \in Contents
           /\ OutcomeOf(k, Marshal(v)) = v
<1>1. Marshal(v) \in Bytes
  BY DEF Marshal, Bytes
<1>2. Marshal(v) # Absent /\ Marshal(v) # Torn
  BY <1>1, StoreAssumption
<1>3. QED
  BY <1>1, <1>2, StoreAssumption DEF OutcomeOf, Decode, Unmarshals, decodeModelCatalogCache,
     decodeMetadataCache, validateModelCacheSchema, Contents, Marshal

(* There is nothing to read where there is no file.                        *)
LEMMA AbsentDecodes ==
    ASSUME NEW k
    PROVE  Absent \in Contents /\ OutcomeOf(k, Absent) = Nothing
BY DEF OutcomeOf, Contents

----------------------------------------------------------------------------
SavePart == <<platform, kind, primary, backup, disk, save>>

(* A load changes nothing of the store.                                    *)
LEMMA LoadsOnlyRead == LoadStep => UNCHANGED SavePart
BY DEF LoadStep, BeginLoad, ReadPrimary, ReadBackup, ReadFails, Return, SavePart, files

(* The files found at the start satisfy the invariant.                     *)
LEMMA StoreInvInit == Init => StoreInv
BY StoreAssumption DEF Init, StoreInv, StoreTypeOK, DiskCovers, CopyFirst, FutureUntouched,
   IdleSave, Steps

(* A step that leaves the store alone keeps the invariant.                 *)
LEMMA StoreInvFrame == StoreInv /\ UNCHANGED SavePart => StoreInv'
BY DEF SavePart, StoreInv, StoreTypeOK, DiskCovers, CopyFirst, FutureUntouched, Good, Outcome

(* The start of a save keeps the invariant.                                *)
LEMMA StoreInvBegin ==
    ASSUME StoreInv, NEW v \in Catalogs, BeginSave(v)
    PROVE  StoreInv'
BY StoreAssumption DEF BeginSave, files, StoreInv, StoreTypeOK, DiskCovers, CopyFirst,
   FutureUntouched, Good, Outcome, Steps

(* Writing the temporary file keeps it.                                    *)
LEMMA StoreInvTemp ==
    ASSUME StoreInv, writeSyncedModelCacheTemp
    PROVE  StoreInv'
BY DEF writeSyncedModelCacheTemp, Goto, files, StoreInv, StoreTypeOK, DiskCovers, CopyFirst,
   FutureUntouched, Good, Outcome, Steps

(* Reading both files establishes what the writes rely on.                 *)
LEMMA StoreInvRead ==
    ASSUME StoreInv, ReadCurrent
    PROVE  StoreInv'
BY StoreAssumption DEF ReadCurrent, refuses, afterRead, ReplaceBackup, ReplacePrimary, Goto,
   IdleSave, files, StoreInv, StoreTypeOK, DiskCovers, CopyFirst, FutureUntouched, Good,
   Outcome, Steps

(* A save may end anywhere.                                                *)
LEMMA StoreInvFail ==
    ASSUME StoreInv, FailSave
    PROVE  StoreInv'
BY DEF FailSave, IdleSave, files, StoreInv, StoreTypeOK, DiskCovers, CopyFirst,
   FutureUntouched, Good, Outcome, Steps

(* The sync leaves one entry per file.                                     *)
LEMMA StoreInvSync ==
    ASSUME StoreInv, syncModelCacheDirectory
    PROVE  StoreInv'
BY DEF syncModelCacheDirectory, IdleSave, StoreInv, StoreTypeOK, DiskCovers, CopyFirst,
   FutureUntouched, Good, Outcome, Steps

(* A power loss leaves one of the entries it may leave.                    *)
LEMMA StoreInvPowerLoss ==
    ASSUME StoreInv, PowerLoss
    PROVE  StoreInv'
BY DEF PowerLoss, IdleSave, StoreInv, StoreTypeOK, DiskCovers, CopyFirst,
   FutureUntouched, Good, Outcome, Steps

(* While a save writes, no file recognised as a later version's is there.  *)
LEMMA NoFutureWhileWriting ==
    ASSUME StoreInv, save.pc \in {"rmBackup", "mvBackup", "rmPrimary", "mvPrimary", "sync"}
    PROVE  \A c \in disk.primary \union disk.backup : OutcomeOf(kind, c) # Future
BY DEF StoreInv, StoreTypeOK, CopyFirst, FutureUntouched, Outcome

(* Windows removes the old backup while the primary is good.               *)
LEMMA StoreInvRemoveBackup ==
    ASSUME StoreInv, RemoveBackup
    PROVE  StoreInv'
<1>1. \A c \in disk.primary \union disk.backup : OutcomeOf(kind, c) # Future
  BY NoFutureWhileWriting DEF RemoveBackup
<1>2. StoreTypeOK'
  BY AbsentDecodes, StoreAssumption DEF RemoveBackup, SetBackup, MayStay, Goto, StoreInv, StoreTypeOK, Steps
<1>3. DiskCovers'
  BY DEF RemoveBackup, SetBackup, MayStay, StoreInv, StoreTypeOK, DiskCovers
<1>4. CopyFirst'
  BY AbsentDecodes, StoreAssumption DEF RemoveBackup, SetBackup, Goto, StoreInv, StoreTypeOK, CopyFirst, Good, Outcome
<1>5. FutureUntouched'
  BY <1>1, AbsentDecodes, StoreAssumption DEF RemoveBackup, SetBackup, MayStay, StoreInv, StoreTypeOK, DiskCovers,
     FutureUntouched, Outcome
<1>6. QED
  BY <1>2, <1>3, <1>4, <1>5 DEF StoreInv

(* The good primary is now in the backup.                                  *)
LEMMA StoreInvRenameBackup ==
    ASSUME StoreInv, RenameBackup
    PROVE  StoreInv'
<1>1. \A c \in disk.primary \union disk.backup : OutcomeOf(kind, c) # Future
  BY NoFutureWhileWriting DEF RenameBackup
<1>2. StoreTypeOK'
  BY StoreAssumption DEF RenameBackup, SetBackup, MayStay, Goto, ReplacePrimary, StoreInv, StoreTypeOK, Steps
<1>3. DiskCovers'
  BY DEF RenameBackup, SetBackup, MayStay, StoreInv, StoreTypeOK, DiskCovers
<1>4. CopyFirst'
  BY StoreAssumption DEF RenameBackup, SetBackup, Goto, ReplacePrimary, StoreInv, StoreTypeOK, CopyFirst, Good, Outcome
<1>5. FutureUntouched'
  BY <1>1, StoreAssumption DEF RenameBackup, SetBackup, MayStay, StoreInv, StoreTypeOK, DiskCovers,
     FutureUntouched, Outcome
<1>6. QED
  BY <1>2, <1>3, <1>4, <1>5 DEF StoreInv

(* Windows removes a primary that is in the backup or not good.            *)
LEMMA StoreInvRemovePrimary ==
    ASSUME StoreInv, RemovePrimary
    PROVE  StoreInv'
<1>1. \A c \in disk.primary \union disk.backup : OutcomeOf(kind, c) # Future
  BY NoFutureWhileWriting DEF RemovePrimary
<1>2. StoreTypeOK'
  BY AbsentDecodes, StoreAssumption DEF RemovePrimary, SetPrimary, MayStay, Goto, StoreInv, StoreTypeOK, Steps
<1>3. DiskCovers'
  <2>1. CASE platform = "unix"
    BY <2>1 DEF RemovePrimary, SetPrimary, MayStay, StoreInv, StoreTypeOK, DiskCovers
  <2>2. CASE platform = "windows"
    BY <2>2 DEF RemovePrimary, SetPrimary, MayStay, StoreInv, StoreTypeOK, DiskCovers
  <2>3. QED
    BY <2>1, <2>2 DEF StoreInv, StoreTypeOK
<1>4. CopyFirst'
  BY AbsentDecodes, StoreAssumption DEF RemovePrimary, SetPrimary, Goto, StoreInv, StoreTypeOK, CopyFirst, Good, Outcome
<1>5. FutureUntouched'
  BY <1>1, AbsentDecodes, StoreAssumption DEF RemovePrimary, SetPrimary, MayStay, StoreInv, StoreTypeOK, DiskCovers,
     FutureUntouched, Outcome
<1>6. QED
  BY <1>2, <1>3, <1>4, <1>5 DEF StoreInv

(* The primary is what the save writes.                                    *)
LEMMA StoreInvRenamePrimary ==
    ASSUME StoreInv, RenamePrimary
    PROVE  StoreInv'
<1>1. \A c \in disk.primary \union disk.backup : OutcomeOf(kind, c) # Future
  BY NoFutureWhileWriting DEF RenamePrimary
<1>2. StoreTypeOK'
  BY MarshalDecodes, StoreAssumption DEF RenamePrimary, SetPrimary, MayStay, Goto, StoreInv, StoreTypeOK, Steps
<1>3. DiskCovers'
  BY DEF RenamePrimary, SetPrimary, MayStay, StoreInv, StoreTypeOK, DiskCovers
<1>4. CopyFirst'
  BY MarshalDecodes, StoreAssumption DEF RenamePrimary, SetPrimary, Goto, StoreInv, StoreTypeOK, CopyFirst, Good, Outcome
<1>5. FutureUntouched'
  BY <1>1, MarshalDecodes, StoreAssumption DEF RenamePrimary, SetPrimary, MayStay, StoreInv, StoreTypeOK, DiskCovers,
     FutureUntouched, Outcome
<1>6. QED
  BY <1>2, <1>3, <1>4, <1>5 DEF StoreInv

(* Every step keeps the invariant.                                         *)
LEMMA StoreInvStep == StoreInv /\ [Next]_vars => StoreInv'
<1>1. SUFFICES ASSUME StoreInv, [Next]_vars PROVE StoreInv'
  OBVIOUS
<1>2. CASE SaveStep
  BY <1>1, <1>2, StoreInvBegin, StoreInvTemp, StoreInvRead, StoreInvRemoveBackup,
     StoreInvRenameBackup, StoreInvRemovePrimary, StoreInvRenamePrimary, StoreInvSync,
     StoreInvFail DEF SaveStep
<1>3. CASE LoadStep
  BY <1>1, <1>3, LoadsOnlyRead, StoreInvFrame
<1>4. CASE PowerLoss
  BY <1>1, <1>4, StoreInvPowerLoss
<1>5. CASE UNCHANGED vars
  BY <1>1, <1>5, StoreInvFrame DEF vars, files, SavePart
<1>6. QED
  BY <1>1, <1>2, <1>3, <1>4, <1>5 DEF Next

(* At every step of a save, a good primary is in the backup before it is   *)
(* touched, what a power loss may leave contains what is there, and no     *)
(* save touches files one of which it recognises as a later version's.     *)
THEOREM StoreCorrect == Spec => []StoreInv
BY StoreInvInit, StoreInvStep, PTL DEF Spec

----------------------------------------------------------------------------
(* No step of the plugin changes a file it recognises as a later version's, *)
(* nor the file beside it.                                                 *)
THEOREM FutureSafe == Spec => FutureKept
<1> DEFINE Keeps ==
       (Outcome(primary) = Future \/ Outcome(backup) = Future) => UNCHANGED <<primary, backup>>
<1>1. ASSUME StoreInv, [Next]_vars PROVE [Keeps]_vars
  <2>1. CASE SaveStep
    <3>1. CASE RemoveBackup \/ RenameBackup \/ RemovePrimary \/ RenamePrimary
      BY <1>1, <3>1 DEF RemoveBackup, RenameBackup, RemovePrimary, RenamePrimary, StoreInv, CopyFirst
    <3>2. CASE (\E v \in Catalogs : BeginSave(v)) \/ writeSyncedModelCacheTemp \/ ReadCurrent
                 \/ syncModelCacheDirectory \/ FailSave
      BY <3>2 DEF BeginSave, writeSyncedModelCacheTemp, ReadCurrent, syncModelCacheDirectory,
                  FailSave, files
    <3>3. QED
      BY <2>1, <3>1, <3>2 DEF SaveStep
  <2>2. CASE LoadStep
    BY <2>2, LoadsOnlyRead DEF SavePart
  <2>3. CASE PowerLoss
    BY <1>1, <2>3 DEF PowerLoss, StoreInv, DiskCovers, FutureUntouched
  <2>4. QED
    BY <1>1, <2>1, <2>2, <2>3 DEF Next
<1>2. QED
  BY <1>1, StoreCorrect, PTL DEF Spec, FutureKept

----------------------------------------------------------------------------
(* What may be read is what the two files may be.                          *)
LEMMA MayReadMember ==
    \A x : x \in MayRead <=>
        \E p \in disk.primary, b \in disk.backup :
            x = FirstOf(OutcomeOf(kind, p), OutcomeOf(kind, b))
BY DEF MayRead, Readable, Outcome

(* Replacing the backup by a good primary shows a reader nothing.          *)
LEMMA BackupStepInvisible ==
    ASSUME StoreInv, RemoveBackup \/ RenameBackup
    PROVE  /\ Readable(primary, backup)' = Readable(primary, backup)
           /\ MayRead' = MayRead
<1>1. OutcomeOf(kind, primary) \in Catalogs
  BY DEF StoreInv, CopyFirst, RemoveBackup, RenameBackup, Good, Outcome
<1>2. kind' = kind /\ primary' = primary /\ disk'.primary = disk.primary
  BY DEF RemoveBackup, RenameBackup, SetBackup
<1>3. Readable(primary, backup)' = Readable(primary, backup)
  BY <1>1, <1>2 DEF Readable, Outcome, FirstOf
<1>4. primary \in disk.primary /\ backup \in disk.backup
  BY DEF StoreInv, DiskCovers
<1>5. CASE platform = "unix" /\ RenameBackup
  <2>1. disk'.backup = disk.backup \union {primary}
    BY <1>5 DEF RenameBackup, SetBackup, MayStay
  <2>2. \A x : x \in MayRead' <=> x \in MayRead
    BY <1>1, <1>2, <1>4, <2>1, MayReadMember DEF FirstOf, MayRead, Readable, Outcome
  <2>3. QED
    BY <1>3, <2>2
<1>6. CASE platform = "windows"
  <2>1. disk.primary = {primary} /\ disk'.backup # {}
    BY <1>6 DEF StoreInv, DiskCovers, RemoveBackup, RenameBackup, SetBackup, MayStay
  <2>2. \A x : x \in MayRead' <=> x \in MayRead
    BY <1>1, <1>2, <1>4, <2>1 DEF FirstOf, MayRead, Readable, Outcome
  <2>3. QED
    BY <1>3, <2>2
<1>7. platform = "unix" => RenameBackup
  BY DEF StoreInv, CopyFirst, RemoveBackup
<1>8. QED
  BY <1>5, <1>6, <1>7 DEF StoreInv, StoreTypeOK

(* Nor does removing a primary that is in the backup or was not readable.  *)
LEMMA RemovePrimaryInvisible ==
    ASSUME StoreInv, RemovePrimary
    PROVE  /\ Readable(primary, backup)' = Readable(primary, backup)
           /\ MayRead' = MayRead
<1>1. /\ kind' = kind /\ primary' = Absent /\ backup' = backup
      /\ disk = [primary |-> {primary}, backup |-> {backup}]
      /\ disk' = [primary |-> {Absent}, backup |-> {backup}]
  BY DEF StoreInv, DiskCovers, CopyFirst, RemovePrimary, SetPrimary, MayStay
<1>2. /\ OutcomeOf(kind, Absent) = Nothing
      /\ OutcomeOf(kind, primary) \in Catalogs \union {Future, Nothing, Broken}
  BY AbsentDecodes, OutcomeValues DEF StoreInv, StoreTypeOK
<1>3. /\ OutcomeOf(kind, primary) \in Catalogs => backup = primary
      /\ OutcomeOf(kind, primary) # Future
  BY DEF StoreInv, CopyFirst, RemovePrimary, Good, Outcome
<1>4. FirstOf(Nothing, OutcomeOf(kind, backup)) =
          FirstOf(OutcomeOf(kind, primary), OutcomeOf(kind, backup))
  BY <1>2, <1>3, StoreAssumption DEF FirstOf
<1>5. Readable(primary, backup)' = Readable(primary, backup)
  BY <1>1, <1>2, <1>4 DEF Readable, Outcome
<1>6. \A x : x \in MayRead' <=> x \in MayRead
  BY <1>1, <1>2, <1>4 DEF MayRead, Readable, Outcome
<1>7. QED
  BY <1>5, <1>6

(* The rename of the primary is the moment the save takes effect.          *)
LEMMA RenamePrimaryTakes ==
    ASSUME StoreInv, RenamePrimary
    PROVE  Register!Take
<1>1. save.data \in Catalogs /\ save.data # NoSave /\ save'.data = save.data
  BY StoreAssumption DEF StoreInv, StoreTypeOK, RenamePrimary, Goto
<1>2. kind' = kind /\ OutcomeOf(kind, Marshal(save.data)) = save.data
  BY <1>1, MarshalDecodes DEF RenamePrimary
<1>3. primary' = Marshal(save.data)
  BY DEF RenamePrimary, SetPrimary
<1>4. Readable(primary, backup)' = save.data
  BY <1>1, <1>2, <1>3 DEF Readable, Outcome, FirstOf
<1>5. disk'.backup = disk.backup /\ backup \in disk.backup
  BY DEF RenamePrimary, SetPrimary, StoreInv, DiskCovers
<1>6. CASE platform = "unix"
  <2>1. disk'.primary = disk.primary \union {Marshal(save.data)}
    BY <1>6 DEF RenamePrimary, SetPrimary, MayStay
  <2>2. \A x : x \in MayRead' <=> x \in MayRead \/ x = save.data
    BY <1>1, <1>2, <1>5, <2>1 DEF FirstOf, MayRead, Readable, Outcome
  <2>3. MayRead' = MayRead \union {save.data}
    BY <2>2
  <2>4. QED
    BY <1>1, <1>4, <2>3 DEF Register!Take
<1>7. CASE platform = "windows"
  <2>1. disk'.primary = {Marshal(save.data)}
    BY <1>7 DEF RenamePrimary, SetPrimary, MayStay
  <2>2. \A x : x \in MayRead' <=> x = save.data
    BY <1>1, <1>2, <1>5, <2>1 DEF FirstOf, MayRead, Readable, Outcome
  <2>3. MayRead' = {save.data}
    BY <2>2
  <2>4. QED
    BY <1>1, <1>4, <2>3 DEF Register!Take
<1>8. QED
  BY <1>6, <1>7 DEF StoreInv, StoreTypeOK

(* The sync makes the save the only value a power loss can leave.          *)
LEMMA SyncCommits ==
    ASSUME StoreInv, syncModelCacheDirectory
    PROVE  Register!Commit
<1>1. save.data \in Catalogs /\ save.data # NoSave /\ save'.data = NoSave
  BY StoreAssumption DEF StoreInv, StoreTypeOK, syncModelCacheDirectory, IdleSave
<1>2. /\ primary = Marshal(save.data) /\ primary' = primary /\ backup' = backup /\ kind' = kind
      /\ disk' = [primary |-> {primary}, backup |-> {backup}]
  BY DEF StoreInv, CopyFirst, syncModelCacheDirectory
<1>3. Readable(primary, backup) = save.data
  BY <1>1, <1>2, MarshalDecodes DEF Readable, Outcome, FirstOf
<1>4. MayRead' = {Readable(primary, backup)}
  BY <1>2 DEF MayRead, Readable, Outcome
<1>5. Readable(primary, backup)' = Readable(primary, backup)
  BY <1>2 DEF Readable, Outcome
<1>6. QED
  BY <1>1, <1>3, <1>4, <1>5 DEF Register!Commit

(* A power loss leaves a value the register may leave.                     *)
LEMMA PowerLossMaps ==
    ASSUME StoreInv, PowerLoss
    PROVE  Register!PowerLoss
<1>1. PICK p \in disk.primary, b \in disk.backup :
          /\ primary' = p /\ backup' = b
          /\ disk' = [primary |-> {p}, backup |-> {b}]
  BY DEF PowerLoss
<1>2. kind' = kind /\ save'.data = NoSave
  BY DEF PowerLoss, IdleSave
<1>3. Readable(primary, backup)' \in MayRead
  BY <1>1, <1>2 DEF MayRead, Readable, Outcome
<1>4. MayRead' = {Readable(primary, backup)'}
  BY <1>1, <1>2 DEF MayRead, Readable, Outcome
<1>5. QED
  BY <1>2, <1>3, <1>4 DEF Register!PowerLoss

(* Steps that leave the files alone show a reader nothing.                 *)
LEMMA FilesKept ==
    ASSUME UNCHANGED <<kind, primary, backup, disk>>
    PROVE  Readable(primary, backup)' = Readable(primary, backup) /\ MayRead' = MayRead
BY DEF Readable, Outcome, MayRead

(* Every step of the store is a step of the register or invisible to it.   *)
LEMMA StepRefines == StoreInv /\ [Next]_vars => [Register!Next]_Register!vars
<1>1. SUFFICES ASSUME StoreInv, [Next]_vars PROVE [Register!Next]_Register!vars
  OBVIOUS
<1>2. CASE \E v \in Catalogs : BeginSave(v)
  <2>1. PICK v \in Catalogs : BeginSave(v)
    BY <1>2
  <2>2. save.data = NoSave /\ save'.data = v
    BY <1>1, <2>1 DEF StoreInv, StoreTypeOK, BeginSave
  <2>3. QED
    BY <2>1, <2>2, FilesKept DEF BeginSave, files, Register!Next, Register!Begin
<1>3. CASE writeSyncedModelCacheTemp
  BY <1>3, FilesKept DEF writeSyncedModelCacheTemp, Goto, files, Register!vars
<1>4. CASE ReadCurrent \/ FailSave
  <2>1. save.data # NoSave /\ (save'.data = NoSave \/ save'.data = save.data)
    BY <1>1, <1>4 DEF StoreInv, StoreTypeOK, ReadCurrent, FailSave, IdleSave, Goto
  <2>2. UNCHANGED <<kind, primary, backup, disk>>
    BY <1>4 DEF ReadCurrent, FailSave, files
  <2>3. QED
    BY <2>1, <2>2, FilesKept DEF Register!Next, Register!GiveUp, Register!vars
<1>5. CASE RemoveBackup \/ RenameBackup
  BY <1>1, <1>5, BackupStepInvisible DEF RemoveBackup, RenameBackup, Goto, Register!vars
<1>6. CASE RemovePrimary
  BY <1>1, <1>6, RemovePrimaryInvisible DEF RemovePrimary, Goto, Register!vars
<1>7. CASE RenamePrimary
  BY <1>1, <1>7, RenamePrimaryTakes DEF Register!Next
<1>8. CASE syncModelCacheDirectory
  BY <1>1, <1>8, SyncCommits DEF Register!Next
<1>9. CASE PowerLoss
  BY <1>1, <1>9, PowerLossMaps DEF Register!Next
<1>10. CASE LoadStep \/ UNCHANGED vars
  <2>1. UNCHANGED SavePart
    BY <1>10, LoadsOnlyRead DEF vars, files, SavePart
  <2>2. QED
    BY <2>1, FilesKept DEF SavePart, Register!vars
<1>11. QED
  BY <1>1, <1>2, <1>3, <1>4, <1>5, <1>6, <1>7, <1>8, <1>9, <1>10 DEF Next, SaveStep

(* The files found at the start are an initial register.                   *)
LEMMA InitRefines == Init => Register!Init
<1>1. SUFFICES ASSUME Init PROVE Register!Init
  OBVIOUS
<1>2. MayRead = {Readable(primary, backup)} /\ save.data = NoSave
  BY <1>1 DEF Init, MayRead, IdleSave
<1>3. Readable(primary, backup) \in Catalogs \union {Future, Nothing}
  BY DEF Readable, FirstOf
<1>4. QED
  BY <1>2, <1>3 DEF Register!Init

(* For all catalogs, contents on the disk, failures and power losses, the  *)
(* two files and the steps of a save implement the register: a reader sees *)
(* the value of one save or the next, never less.                          *)
THEOREM StoreImplementsRegister == Spec => ImplementsRegister
BY StoreCorrect, InitRefines, StepRefines, PTL DEF Spec, ImplementsRegister, Register!Spec

----------------------------------------------------------------------------
(* What the second read of a load reports.                                 *)
Reported(c) == IF Outcome(c) \in Catalogs \union {Future} THEN Outcome(c) ELSE Nothing

LoadTypeOK ==
    load \in [pc : {"idle", "primary", "backup", "done"}, found : {load.found},
             seen : {load.seen}, saves : Nat, failed : BOOLEAN]

(* A running load has noted what is readable now, and counts the save      *)
(* under way.                                                              *)
LoadObserves ==
    load.pc # "idle" =>
        /\ Readable(primary, backup) \in load.seen
        /\ save.pc # "idle" => load.saves >= 1

(* After a first read that succeeded the backup holds something that was   *)
(* readable.                                                               *)
(* One save alone makes the primary good at its end, and not again touches *)
(* the backup.                                                             *)
BetweenReads ==
    load.pc = "backup" /\ ~load.failed =>
        /\ platform = "unix" \/ load.saves <= 1 => Reported(backup) \in load.seen
        /\ load.saves <= 1 =>
              ~Good(primary) \/ (load.saves = 1 /\ save.pc \in {"idle", "sync"})

LoadInv == LoadTypeOK /\ LoadObserves /\ BetweenReads /\ LoadLinearizes

(* A step that changes no file, and no load but for its count of saves.    *)
LEMMA LoadKept ==
    ASSUME StoreInv, LoadInv, UNCHANGED <<platform, kind, primary, backup>>,
           \/ load' = load
           \/ load.pc # "idle" /\ load' = [load EXCEPT !.saves = @ + 1],
           load.pc # "idle" /\ save'.pc # "idle" => load'.saves >= 1,
           load.pc = "backup" /\ ~load.failed /\ load'.saves <= 1 =>
              ~Good(primary) \/ (load'.saves = 1 /\ save'.pc \in {"idle", "sync"})
    PROVE  LoadInv'
<1>1. /\ Readable(primary, backup)' = Readable(primary, backup)
      /\ Reported(backup)' = Reported(backup) /\ Good(primary)' = Good(primary)
  BY DEF Readable, Reported, Good, Outcome
<1>2. load.saves \in Nat  BY DEF LoadInv, LoadTypeOK
<1>3. /\ LoadTypeOK' /\ load'.pc = load.pc /\ load'.seen = load.seen
      /\ load'.found = load.found /\ load'.saves \in {load.saves, load.saves + 1}
      /\ load'.failed = load.failed
  BY <1>2 DEF LoadInv, LoadTypeOK
<1>4. load'.saves <= 1 => load.saves <= 1  BY <1>2, <1>3
<1>5. LoadObserves'  BY <1>1, <1>3 DEF LoadInv, LoadObserves
<1>6. BetweenReads'  BY <1>1, <1>3, <1>4 DEF LoadInv, BetweenReads
<1>7. LoadLinearizes'  BY <1>1, <1>3, <1>4 DEF LoadInv, LoadLinearizes
<1> QED  BY <1>3, <1>5, <1>6, <1>7 DEF LoadInv

(* A step of a save that changes a file.                                   *)
LEMMA LoadObserved ==
    ASSUME StoreInv, LoadInv, UNCHANGED <<platform, kind>>, Observe,
           save.pc # "idle",
           load.pc = "backup" /\ ~load.failed /\ (platform = "unix" \/ load.saves <= 1) =>
              Reported(backup)' \in load'.seen,
           load.pc = "backup" /\ ~load.failed /\ load.saves <= 1 =>
              ~Good(primary)' \/ (load.saves = 1 /\ save'.pc \in {"idle", "sync"})
    PROVE  LoadInv'
<1>1. CASE load.pc = "idle"
  <2>1. load' = load  BY <1>1 DEF Observe
  <2> QED  BY <1>1, <2>1 DEF LoadInv, LoadTypeOK, LoadObserves, BetweenReads, LoadLinearizes
<1>2. CASE load.pc # "idle"
  <2>1. load' = [load EXCEPT !.seen = @ \union {Readable(primary', backup')}]
    BY <1>2 DEF Observe
  <2>2. /\ LoadTypeOK' /\ load'.pc = load.pc /\ load'.found = load.found
        /\ load'.saves = load.saves /\ load'.failed = load.failed
        /\ load'.seen = load.seen \union {Readable(primary', backup')}
    BY <2>1 DEF LoadInv, LoadTypeOK
  <2>3. Readable(primary, backup)' = Readable(primary', backup')
    BY DEF Readable, Outcome
  <2>4. LoadObserves'  BY <1>2, <2>2, <2>3 DEF LoadInv, LoadObserves
  <2>5. BetweenReads'  BY <2>2 DEF LoadInv, BetweenReads
  <2>6. LoadLinearizes'  BY <2>2 DEF LoadInv, LoadLinearizes
  <2> QED  BY <2>2, <2>4, <2>5, <2>6 DEF LoadInv
<1> QED  BY <1>1, <1>2

(* The steps of a save.                                                    *)
LEMMA LoadInvSave ==
    ASSUME StoreInv, LoadInv, SaveStep PROVE LoadInv'
<1>1. load.saves \in Nat  BY DEF LoadInv, LoadTypeOK
<1>2. ASSUME NEW v \in Catalogs, BeginSave(v) PROVE LoadInv'
  <2>1. /\ save.pc = "idle" /\ UNCHANGED <<platform, kind, primary, backup>>
        /\ \/ load' = load /\ load.pc = "idle"
           \/ load.pc # "idle" /\ load' = [load EXCEPT !.saves = @ + 1]
    BY <1>2 DEF BeginSave, files
  <2>2. load.pc # "idle" => load'.saves = load.saves + 1
    BY <2>1 DEF LoadInv, LoadTypeOK
  <2>3. load.pc = "backup" /\ ~load.failed /\ load'.saves <= 1 => ~Good(primary)
    BY <1>1, <2>2 DEF LoadInv, BetweenReads
  <2> QED  BY <1>1, <2>1, <2>2, <2>3, LoadKept
<1>3. CASE writeSyncedModelCacheTemp \/ FailSave \/ syncModelCacheDirectory
  <2>1. /\ UNCHANGED <<platform, kind, primary, backup, load>>
        /\ save.pc # "idle"
        /\ (save'.pc = "read" /\ save.pc = "temp") \/ save'.pc = "idle"
    BY <1>3 DEF writeSyncedModelCacheTemp, FailSave, syncModelCacheDirectory, files, Goto, IdleSave
  <2>2. load.pc # "idle" => load.saves >= 1  BY <2>1 DEF LoadInv, LoadObserves
  <2>3. load.pc = "backup" /\ ~load.failed /\ load.saves <= 1 =>
          ~Good(primary) \/ (load.saves = 1 /\ save'.pc \in {"idle", "sync"})
    BY <2>1 DEF LoadInv, BetweenReads
  <2> QED  BY <2>1, <2>2, <2>3, LoadKept
<1>4. CASE ReadCurrent
  <2>1. UNCHANGED <<platform, kind, primary, backup, load>> /\ save.pc = "read"
    BY <1>4 DEF ReadCurrent, files
  <2>2. load.pc # "idle" => load.saves >= 1  BY <2>1 DEF LoadInv, LoadObserves
  <2>3. load.pc = "backup" /\ ~load.failed /\ load.saves <= 1 => ~Good(primary)
    BY <2>1 DEF LoadInv, BetweenReads
  <2> QED  BY <2>1, <2>2, <2>3, LoadKept
<1>5. CASE RemoveBackup
  <2>1. /\ UNCHANGED <<platform, kind>> /\ Observe /\ save.pc = "rmBackup"
    BY <1>5 DEF RemoveBackup
  <2>2. Good(primary) /\ platform = "windows"
    BY <2>1 DEF StoreInv, CopyFirst
  <2>3. ~(load.pc = "backup" /\ ~load.failed /\ load.saves <= 1)
    BY <2>1, <2>2 DEF LoadInv, BetweenReads
  <2>4. platform # "unix"  BY <2>2
  <2> QED  BY <2>1, <2>3, <2>4, LoadObserved
<1>6. CASE RenameBackup
  <2>1. /\ UNCHANGED <<platform, kind, primary>> /\ Observe /\ save.pc = "mvBackup"
        /\ backup' = primary
    BY <1>6 DEF RenameBackup, SetBackup
  <2>2. Good(primary)  BY <2>1 DEF StoreInv, CopyFirst
  <2>3. ~(load.pc = "backup" /\ ~load.failed /\ load.saves <= 1)
    BY <2>1, <2>2 DEF LoadInv, BetweenReads
  <2>4. ASSUME load.pc = "backup" PROVE Reported(backup)' \in load'.seen
    <3>1. Reported(backup)' = Readable(primary', backup')
      BY <2>1, <2>2 DEF Reported, Readable, FirstOf, Good, Outcome
    <3>2. load' = [load EXCEPT !.seen = @ \union {Readable(primary', backup')}]
      BY <2>1, <2>4 DEF Observe
    <3>3. Readable(primary', backup') \in load'.seen
      BY <3>2 DEF LoadInv, LoadTypeOK
    <3> QED  BY <3>1, <3>3
  <2> QED  BY <2>1, <2>3, <2>4, LoadObserved
<1>7. CASE RemovePrimary \/ RenamePrimary
  <2>1. /\ UNCHANGED <<platform, kind, backup>> /\ Observe
        /\ save.pc \in {"rmPrimary", "mvPrimary"}
        /\ primary' = Absent \/ save'.pc = "sync"
    BY <1>7 DEF RemovePrimary, RenamePrimary, SetPrimary, Goto
  <2>2. Reported(backup)' = Reported(backup)  BY <2>1 DEF Reported, Outcome
  <2>3. load.seen \subseteq load'.seen
    BY <2>1 DEF Observe, LoadInv, LoadTypeOK
  <2>4. load.pc # "idle" => load.saves >= 1  BY <2>1 DEF LoadInv, LoadObserves
  <2>5. primary' = Absent => ~Good(primary)'
    BY <2>1, AbsentDecodes, StoreAssumption DEF Good, Outcome
  <2>6. load.pc = "backup" /\ ~load.failed /\ (platform = "unix" \/ load.saves <= 1) =>
          Reported(backup)' \in load'.seen
    BY <2>2, <2>3 DEF LoadInv, BetweenReads
  <2>7. load.pc = "backup" /\ ~load.failed /\ load.saves <= 1 =>
          ~Good(primary)' \/ (load.saves = 1 /\ save'.pc \in {"idle", "sync"})
    BY <1>1, <2>1, <2>4, <2>5
  <2> QED  BY <2>1, <2>6, <2>7, LoadObserved
<1> QED  BY <1>2, <1>3, <1>4, <1>5, <1>6, <1>7 DEF SaveStep

(* The steps of the load itself.                                           *)
LEMMA LoadInvLoad ==
    ASSUME StoreInv, LoadInv, LoadStep PROVE LoadInv'
<1>1. UNCHANGED <<platform, kind, primary, backup, save>>
  BY LoadsOnlyRead DEF SavePart
<1>2. /\ Readable(primary, backup)' = Readable(primary, backup)
      /\ Reported(backup)' = Reported(backup) /\ Good(primary)' = Good(primary)
  BY <1>1 DEF Readable, Reported, Good, Outcome
<1>3. CASE BeginLoad
  <2>1. /\ LoadTypeOK' /\ load'.pc = "primary"
        /\ load'.seen = {Readable(primary, backup)}
        /\ save.pc # "idle" => load'.saves = 1
    BY <1>3 DEF BeginLoad, LoadTypeOK
  <2> QED  BY <1>1, <1>2, <2>1 DEF LoadInv, LoadObserves, BetweenReads, LoadLinearizes
<1>4. CASE Return
  <2>1. LoadTypeOK' /\ load'.pc = "idle"
    BY <1>4 DEF Return, LoadTypeOK, IdleLoad
  <2> QED  BY <2>1 DEF LoadInv, LoadObserves, BetweenReads, LoadLinearizes
<1>5. CASE ReadPrimary
  <2> DEFINE to == IF triesBackup(primary) THEN "backup" ELSE "done"
  <2>1. /\ load.pc = "primary"
        /\ load' = [load EXCEPT !.pc = to, !.found = Reported(primary)]
    BY <1>5 DEF ReadPrimary, Reported
  <2>2. to \in {"backup", "done"}  OBVIOUS
  <2>3. to = "backup" <=> Outcome(primary) \notin Catalogs \union {Future}
    BY DEF triesBackup
  <2> HIDE DEF to
  <2>4. /\ LoadTypeOK' /\ load'.pc = to /\ load'.seen = load.seen
        /\ load'.saves = load.saves /\ load'.found = Reported(primary)
        /\ load'.failed = load.failed
    BY <2>1, <2>2 DEF LoadInv, LoadTypeOK
  <2>5. Readable(primary, backup) \in load.seen
    BY <2>1 DEF LoadInv, LoadObserves
  <2>6. LoadObserves'
    BY <1>1, <1>2, <2>1, <2>4 DEF LoadInv, LoadObserves
  <2>7. ASSUME to = "backup" PROVE Reported(backup) \in load.seen /\ ~Good(primary)
    BY <2>3, <2>5, <2>7 DEF Reported, Readable, FirstOf, Good
  <2>8. ASSUME to = "done" PROVE Reported(primary) \in load.seen
    BY <2>3, <2>5, <2>8 DEF Reported, Readable, FirstOf
  <2>9. BetweenReads'  BY <1>2, <2>4, <2>7 DEF BetweenReads
  <2>10. LoadLinearizes'  BY <2>2, <2>4, <2>8 DEF LoadLinearizes
  <2> QED  BY <2>4, <2>6, <2>9, <2>10 DEF LoadInv
<1>6. CASE ReadBackup
  <2>1. /\ load.pc = "backup"
        /\ load' = [load EXCEPT !.pc = "done", !.found = Reported(backup)]
    BY <1>6 DEF ReadBackup, Reported
  <2>2. /\ LoadTypeOK' /\ load'.pc = "done" /\ load'.seen = load.seen
        /\ load'.saves = load.saves /\ load'.found = Reported(backup)
        /\ load'.failed = load.failed
    BY <2>1 DEF LoadInv, LoadTypeOK
  <2>3. LoadObserves' /\ BetweenReads'
    BY <1>1, <1>2, <2>1, <2>2 DEF LoadInv, LoadObserves, BetweenReads
  <2>4. LoadLinearizes'
    BY <1>1, <2>1, <2>2 DEF LoadInv, BetweenReads, LoadLinearizes
  <2> QED  BY <2>2, <2>3, <2>4 DEF LoadInv
<1>7. CASE ReadFails
  <2>1. /\ load.pc \in {"primary", "backup"}
        /\ load' = [load EXCEPT !.pc = IF load.pc = "primary" THEN "backup" ELSE "done", !.failed = TRUE]
    BY <1>7 DEF ReadFails
  <2>2. /\ LoadTypeOK' /\ load'.failed /\ load'.seen = load.seen /\ load'.saves = load.saves
    BY <2>1 DEF LoadInv, LoadTypeOK
  <2>3. LoadObserves'
    BY <1>1, <1>2, <2>1, <2>2 DEF LoadInv, LoadObserves
  <2> QED  BY <2>2, <2>3 DEF LoadInv, BetweenReads, LoadLinearizes
<1> QED  BY <1>3, <1>4, <1>5, <1>6, <1>7 DEF LoadStep

(* Every step.                                                             *)
LEMMA LoadInvStep == StoreInv /\ LoadInv /\ [Next]_vars => LoadInv'
<1> SUFFICES ASSUME StoreInv, LoadInv, [Next]_vars PROVE LoadInv'  OBVIOUS
<1>1. CASE SaveStep  BY <1>1, LoadInvSave
<1>2. CASE LoadStep  BY <1>2, LoadInvLoad
<1>3. CASE PowerLoss
  BY <1>3 DEF PowerLoss, IdleLoad, LoadInv, LoadTypeOK, LoadObserves, BetweenReads, LoadLinearizes
<1>4. CASE UNCHANGED vars
  BY <1>4 DEF vars, files, LoadInv, LoadTypeOK, LoadObserves, BetweenReads, LoadLinearizes,
     Readable, Reported, Good, Outcome
<1> QED  BY <1>1, <1>2, <1>3, <1>4 DEF Next

(* For any catalogs, any files found and any number of saves, failures and *)
(* power losses: loadModelCache, which takes no lock, reports what was     *)
(* readable at some moment while it ran, if it could read; on Windows if   *)
(* no second save overlaps it.                                             *)
THEOREM LoadCorrect == Spec => []LoadLinearizes
<1>1. Init => LoadInv
  BY DEF Init, IdleLoad, LoadInv, LoadTypeOK, LoadObserves, BetweenReads, LoadLinearizes
<1>2. LoadInv => LoadLinearizes  BY DEF LoadInv
<1> QED  BY <1>1, <1>2, LoadInvStep, StoreCorrect, PTL DEF Spec

----------------------------------------------------------------------------
(* Logins                                                                  *)

PollSteps == {"start", "found", "token", "account", "done"}
PollAnswers == {"none", "unknown", "pending", "error", "success"}
PollRecords == [pc : PollSteps, state : States \union {NoState}, late : BOOLEAN, answer : PollAnswers]

LoginTypeOK ==
    /\ issued \subseteq States /\ loginStates \subseteq issued /\ expired \subseteq issued
    /\ finished \subseteq issued /\ verdict \subseteq issued
    /\ proxyMode \in {"inherit", "blocked"}
    /\ poll \in [Polls -> PollRecords]
    /\ upsets \in Nat

(* A login whose end was told is no longer kept, so a poll that comes      *)
(* later finds nothing and goes no further.                                *)
EndedIsGone ==
    /\ verdict \intersect loginStates = {}
    /\ \A p \in Polls : poll[p].late => poll[p].answer = "unknown" /\ poll[p].pc = "done"

(* A poll under way has a login that was issued and no answer yet; at its  *)
(* second request the user is done.                                        *)
PollUnderWay ==
    \A p \in Polls :
        /\ poll[p].pc \in {"found", "token", "account"} => poll[p].state \in issued
        /\ poll[p].pc = "account" \/ poll[p].answer = "success" => poll[p].state \in finished

(* No login vanishes before its end.                                       *)
NoneVanishes == (issued \ expired) \ verdict \subseteq loginStates

LoginInv == LoginTypeOK /\ EndedIsGone /\ PollUnderWay /\ NoneVanishes

(* The first poll has neither login nor verdict.                           *)
LEMMA LoginInvInit == LoginInit => LoginInv
BY LoginAssumption DEF LoginInit, Waiting, LoginInv, LoginTypeOK, EndedIsGone, PollUnderWay,
   NoneVanishes, PollRecords, PollSteps, PollAnswers

(* A new login has a state that nobody has heard of.                       *)
LEMMA LoginInvStart ==
    ASSUME LoginInv, handleStartLogin
    PROVE  LoginInv'
BY DEF handleStartLogin, Upset, LoginInv, LoginTypeOK, EndedIsGone, PollUnderWay,
   NoneVanishes, PollSteps, PollAnswers

(* A poll that begins after the end finds no login.                        *)
LEMMA LoginInvLookup ==
    ASSUME LoginInv, NEW p \in Polls, PollLookup(p)
    PROVE  LoginInv'
BY DEF PollLookup, LoginInv, LoginTypeOK, EndedIsGone, PollUnderWay,
   NoneVanishes, PollRecords, PollSteps, PollAnswers

(* A poll that answers is done, with the login it asked about.             *)
LEMMA AnsweredEffect ==
    ASSUME LoginTypeOK, NEW p \in Polls, NEW answer \in PollAnswers, Answered(p, answer)
    PROVE  /\ poll' \in [Polls -> PollRecords]
           /\ poll'[p].pc = "done" /\ poll'[p].answer = answer
           /\ poll'[p].state = poll[p].state /\ poll'[p].late = poll[p].late
           /\ \A q \in Polls : q # p => poll'[q] = poll[q]
<1> DEFINE rec == [poll[p] EXCEPT !.pc = "done", !.answer = answer]
<1>1. poll[p] \in PollRecords /\ "done" \in PollSteps
  BY DEF LoginTypeOK, PollSteps
<1>2. rec \in PollRecords
  BY <1>1 DEF PollRecords
<1>3. rec.pc = "done" /\ rec.answer = answer /\ rec.state = poll[p].state /\ rec.late = poll[p].late
  BY <1>1 DEF PollRecords
<1>4. poll' = [poll EXCEPT ![p] = rec]
  BY DEF Answered
<1> HIDE DEF rec
<1> QED
  BY <1>2, <1>3, <1>4 DEF LoginTypeOK

(* A poll that moves on keeps its login.                                   *)
LEMMA PollMoveEffect ==
    ASSUME LoginTypeOK, NEW p \in Polls, NEW pc \in PollSteps, poll' = [poll EXCEPT ![p].pc = pc]
    PROVE  /\ poll' \in [Polls -> PollRecords]
           /\ poll'[p].pc = pc /\ poll'[p].answer = poll[p].answer
           /\ poll'[p].state = poll[p].state /\ poll'[p].late = poll[p].late
           /\ \A q \in Polls : q # p => poll'[q] = poll[q]
BY DEF LoginTypeOK, PollRecords

(* A poll under way does not come late.                                    *)
LEMMA UnderWayInTime ==
    ASSUME LoginInv, NEW p \in Polls, poll[p].pc \in {"found", "token", "account"}
    PROVE  ~poll[p].late /\ poll[p].state \in issued
BY DEF LoginInv, EndedIsGone, PollUnderWay

(* The end of a login forgets it and is told once.                         *)
LEMMA EndsKeeps ==
    ASSUME LoginInv, NEW p \in Polls, NEW answer \in {"error", "success"}, Ends(p, answer),
           poll[p].pc \in {"found", "token", "account"},
           answer = "success" => poll[p].state \in finished,
           upsets' \in Nat, UNCHANGED <<expired, issued, finished, proxyMode>>
    PROVE  LoginInv'
<1>1. answer \in PollAnswers /\ LoginTypeOK
  BY DEF PollAnswers, LoginInv
<1>2. /\ poll' \in [Polls -> PollRecords] /\ poll'[p].pc = "done" /\ poll'[p].answer = answer
      /\ poll'[p].state = poll[p].state /\ poll'[p].late = poll[p].late
      /\ \A q \in Polls : q # p => poll'[q] = poll[q]
  BY <1>1, AnsweredEffect DEF Ends
<1>3. ~poll[p].late /\ poll[p].state \in issued
  BY UnderWayInTime
<1>4. loginStates' = loginStates \ {poll[p].state} /\ verdict' = verdict \union {poll[p].state}
  BY DEF Ends
<1>5. LoginTypeOK'
  BY <1>1, <1>2, <1>3, <1>4 DEF LoginTypeOK
<1>6. EndedIsGone'
  BY <1>2, <1>3, <1>4 DEF LoginInv, EndedIsGone
<1>7. PollUnderWay'
  BY <1>2 DEF LoginInv, PollUnderWay
<1>8. NoneVanishes'
  BY <1>4 DEF LoginInv, NoneVanishes
<1> QED
  BY <1>5, <1>6, <1>7, <1>8 DEF LoginInv

(* A step of a poll under way that ends nothing.                           *)
LEMMA GoesOnKeeps ==
    ASSUME LoginInv, NEW p \in Polls, poll[p].pc \in {"found", "token"},
           poll' \in [Polls -> PollRecords], poll'[p].late = poll[p].late,
           poll'[p].state = poll[p].state, \A q \in Polls : q # p => poll'[q] = poll[q],
           poll'[p].answer # "success" \/ poll'[p].answer = poll[p].answer,
           poll'[p].pc = "account" => poll[p].state \in finished,
           UNCHANGED <<loginStates, verdict, expired, issued, finished, proxyMode, upsets>>
    PROVE  LoginInv'
<1>1. ~poll[p].late /\ poll[p].state \in issued
  BY UnderWayInTime
<1>2. LoginTypeOK'
  BY DEF LoginInv, LoginTypeOK
<1>3. EndedIsGone'
  BY <1>1 DEF LoginInv, EndedIsGone
<1>4. PollUnderWay'
  BY <1>1 DEF LoginInv, PollUnderWay
<1>5. NoneVanishes'
  BY DEF LoginInv, NoneVanishes
<1> QED
  BY <1>2, <1>3, <1>4, <1>5 DEF LoginInv

(* A poll that is refused ends its login.                                  *)
LEMMA LoginInvCheck ==
    ASSUME LoginInv, NEW p \in Polls, PollCheck(p)
    PROVE  LoginInv'
<1>1. LoginTypeOK /\ poll[p].pc = "found" /\ upsets' \in Nat /\ "token" \in PollSteps
  BY DEF PollCheck, LoginInv, LoginTypeOK, PollSteps
<1>2. CASE Ends(p, "error")
  BY <1>1, <1>2, EndsKeeps DEF PollCheck
<1>3. CASE poll' = [poll EXCEPT ![p].pc = "token"] /\ UNCHANGED <<loginStates, verdict>>
  <2>1. /\ poll' \in [Polls -> PollRecords] /\ poll'[p].pc = "token" /\ poll'[p].answer = poll[p].answer
        /\ poll'[p].state = poll[p].state /\ poll'[p].late = poll[p].late
        /\ \A q \in Polls : q # p => poll'[q] = poll[q]
    BY <1>1, <1>3, PollMoveEffect
  <2> QED
    BY <1>1, <1>3, <2>1, GoesOnKeeps DEF PollCheck
<1> QED
  BY <1>2, <1>3 DEF PollCheck

(* Only a user who is done brings the poll to its second request.          *)
LEMMA LoginInvToken ==
    ASSUME LoginInv, NEW p \in Polls, PollToken(p)
    PROVE  LoginInv'
<1>1. /\ LoginTypeOK /\ poll[p].pc = "token" /\ upsets' \in Nat
      /\ "account" \in PollSteps /\ "pending" \in PollAnswers
  BY DEF PollToken, Upset, LoginInv, LoginTypeOK, PollSteps, PollAnswers
<1>2. CASE Ends(p, "error")
  BY <1>1, <1>2, EndsKeeps DEF PollToken
<1>3. CASE Answered(p, "pending") /\ UNCHANGED <<upsets, loginStates, verdict>>
  <2>1. /\ poll' \in [Polls -> PollRecords] /\ poll'[p].pc = "done" /\ poll'[p].answer = "pending"
        /\ poll'[p].state = poll[p].state /\ poll'[p].late = poll[p].late
        /\ \A q \in Polls : q # p => poll'[q] = poll[q]
    BY <1>1, <1>3, AnsweredEffect
  <2> QED
    BY <1>1, <1>3, <2>1, GoesOnKeeps DEF PollToken
<1>4. CASE /\ poll[p].state \in finished /\ poll' = [poll EXCEPT ![p].pc = "account"]
           /\ UNCHANGED <<upsets, loginStates, verdict>>
  <2>1. /\ poll' \in [Polls -> PollRecords] /\ poll'[p].pc = "account" /\ poll'[p].answer = poll[p].answer
        /\ poll'[p].state = poll[p].state /\ poll'[p].late = poll[p].late
        /\ \A q \in Polls : q # p => poll'[q] = poll[q]
    BY <1>1, <1>4, PollMoveEffect
  <2> QED
    BY <1>1, <1>4, <2>1, GoesOnKeeps DEF PollToken
<1> QED
  BY <1>2, <1>3, <1>4 DEF PollToken

(* The second request ends the login, well or badly.                       *)
LEMMA LoginInvAccount ==
    ASSUME LoginInv, NEW p \in Polls, PollAccount(p)
    PROVE  LoginInv'
<1>1. poll[p].pc = "account" /\ upsets' \in Nat /\ UNCHANGED <<expired, issued, finished, proxyMode>>
  BY DEF PollAccount, Upset, LoginInv, LoginTypeOK
<1>2. poll[p].state \in finished
  BY <1>1 DEF LoginInv, PollUnderWay
<1>3. PICK answer \in {"error", "success"} : Ends(p, answer)
  BY DEF PollAccount, AccountFails
<1> QED
  BY <1>1, <1>2, <1>3, EndsKeeps

(* The janitor, the clock, the configuration and the user touch no poll.   *)
LEMMA LoginInvRest ==
    ASSUME LoginInv,
           PruneLogins \/ ExpireLogin \/ configure \/ UserLogsIn \/ UNCHANGED loginVars
    PROVE  LoginInv'
<1>1. CASE PruneLogins
  BY <1>1 DEF PruneLogins, LoginInv, LoginTypeOK, EndedIsGone, PollUnderWay,
     NoneVanishes, PollSteps, PollAnswers
<1>2. CASE ExpireLogin
  BY <1>2 DEF ExpireLogin, LoginInv, LoginTypeOK, EndedIsGone, PollUnderWay,
     NoneVanishes, PollSteps, PollAnswers
<1>3. CASE configure
  BY <1>3 DEF configure, configureProxy, Upset, LoginInv, LoginTypeOK, EndedIsGone, PollUnderWay,
     NoneVanishes, PollSteps, PollAnswers
<1>4. CASE UserLogsIn
  BY <1>4 DEF UserLogsIn, LoginInv, LoginTypeOK, EndedIsGone, PollUnderWay,
     NoneVanishes, PollSteps, PollAnswers
<1>5. CASE UNCHANGED loginVars
  BY <1>5 DEF loginVars, LoginInv, LoginTypeOK, EndedIsGone, PollUnderWay,
     NoneVanishes, PollSteps, PollAnswers
<1> QED
  BY <1>1, <1>2, <1>3, <1>4, <1>5

(* The inductive invariant of the logins: every action of Login keeps it.  *)
THEOREM LoginCorrect == LoginSpec => []LoginInv
<1>1. LoginInv /\ [LoginNext]_loginVars => LoginInv'
  <2> SUFFICES ASSUME LoginInv, [LoginNext]_loginVars
               PROVE  LoginInv'
    OBVIOUS
  <2>1. CASE handleStartLogin
    BY <2>1, LoginInvStart
  <2>2. ASSUME NEW p \in Polls, PollLookup(p) \/ PollCheck(p) \/ PollToken(p) \/ PollAccount(p)
        PROVE  LoginInv'
    BY <2>2, LoginInvLookup, LoginInvCheck, LoginInvToken, LoginInvAccount
  <2>3. CASE \/ PruneLogins \/ ExpireLogin \/ configure \/ UserLogsIn
             \/ AllPolled \/ BlockedForGood \/ UNCHANGED loginVars
    BY <2>3, LoginInvRest DEF AllPolled, BlockedForGood
  <2> QED
    BY <2>1, <2>2, <2>3 DEF LoginNext
<1> QED
  BY <1>1, LoginInvInit, PTL DEF LoginSpec

(* A poll that tells the end of a login has the last word, and no login    *)
(* vanishes before its end, however polls, janitor, clock, user and        *)
(* configuration interleave (handlePollLogin in oauth.go).                 *)
THEOREM VerdictCorrect == LoginSpec => []VerdictFinal
<1>1. LoginInv => VerdictFinal
  BY DEF LoginInv, EndedIsGone, PollUnderWay, NoneVanishes, VerdictFinal
<1> QED
  BY <1>1, LoginCorrect, PTL

----------------------------------------------------------------------------
(* Balances                                                                *)

(* The two loops over the packages: the totals, and what is left.          *)
Totals == INSTANCE FoldTheorems WITH op <- Plus
Rest == INSTANCE FoldTheorems WITH op <- PlusLeft

(* The loops of the module are those of the theorems about folds.          *)
LEMMA LoopsAreFolds ==
    ASSUME NEW list
    PROVE  /\ FoldLeft(Plus, NoTotals, list) = Totals!Folded(NoTotals, list)
           /\ LeftIn(list) = Rest!Folded(0, list)
<1>1. FoldLeft(Plus, NoTotals, list) = Totals!Folded(NoTotals, list)
  BY DEF Totals!Folded, FoldLeft, MapThenFoldSet, Max, Totals!MapThenFoldSet, Totals!Highest
<1>2. LeftIn(list) = Rest!Folded(0, list)
  BY DEF LeftIn, Rest!Folded, FoldLeft, MapThenFoldSet, Max, Rest!MapThenFoldSet, Rest!Highest
<1> QED
  BY <1>1, <1>2

Parts == [remain : Nat, used : Nat, size : Int]
Sums == [remain : Int, used : Int, size : Int, packs : Int]

(* Whatever its figures say, a package counts for what it has left, and    *)
(* nothing it counts for is negative but its size.                         *)
LEMMA PartOfPackage ==
    ASSUME NEW p \in Packages
    PROVE  /\ packageRemainUsed(p) \in Parts
           /\ packageRemainUsed(p).remain = Left(p)
           /\ Left(p) \in Nat
<1>1. CASE p.cycleSize > 0
  BY <1>1 DEF Packages, Parts, packageRemainUsed, cycleOf, Part, Left, AtLeast, AtMost
<1>2. CASE p.cycleSize <= 0 /\ (p.cycleRemain > 0 \/ p.cycleUsed > 0)
  BY <1>2 DEF Packages, Parts, packageRemainUsed, unsizedCycleOf, Part, Left, AtLeast, AtMost
<1>3. CASE p.cycleSize <= 0 /\ ~(p.cycleRemain > 0 \/ p.cycleUsed > 0)
  BY <1>3 DEF Packages, Parts, packageRemainUsed, lifetimeOf, Part, Left, AtLeast, AtMost
<1> QED
  BY <1>1, <1>2, <1>3 DEF Packages

(* s is the beginning of t.                                                *)
Begins(s, t) == Len(s) <= Len(t) /\ \A i \in 1..Len(s) : s[i] = t[i]

(* What is left never shrinks along a list, so the beginning of a list has *)
(* no more than the list, and no package more than all of them.            *)
LEMMA LeftGrows ==
    ASSUME NEW t \in Seq(Packages)
    PROVE  /\ LeftIn(t) \in Nat
           /\ \A s \in Seq(Packages) : Begins(s, t) => LeftIn(s) \in Nat /\ LeftIn(s) <= LeftIn(t)
           /\ \A i \in DOMAIN t : Left(t[i]) <= LeftIn(t)
<1>1. Len(t) \in Nat /\ DOMAIN t = 1..Len(t) /\ \A i \in 1..Len(t) : t[i] \in Packages
  OBVIOUS
<1>2. PICK h : Rest!Trace(0, t, h, Len(t)) /\ Rest!Folded(0, t) = h[Len(t)]
  BY <1>1, Rest!FoldTrace
<1>3. h[0] = 0 /\ \A i \in 1..Len(t) : h[i] = h[i - 1] + Left(t[i])
  BY <1>2 DEF Rest!Trace, PlusLeft
<1> DEFINE P == {n \in Nat : n <= Len(t) =>
                   h[n] \in Nat /\ \A i \in 0..n : h[i] \in Nat /\ h[i] <= h[n] /\ (i > 0 => Left(t[i]) <= h[n])}
<1>4. 0 \in P
  BY <1>3
<1>5. ASSUME NEW n \in P
      PROVE  n + 1 \in P
  <2> SUFFICES ASSUME n + 1 <= Len(t)
               PROVE  /\ h[n + 1] \in Nat
                      /\ \A i \in 0..(n + 1) : /\ h[i] \in Nat /\ h[i] <= h[n + 1]
                                               /\ i > 0 => Left(t[i]) <= h[n + 1]
    OBVIOUS
  <2>1. /\ h[n] \in Nat
        /\ \A i \in 0..n : h[i] \in Nat /\ h[i] <= h[n] /\ (i > 0 => Left(t[i]) <= h[n])
    BY <1>1
  <2>2. n + 1 \in 1..Len(t) /\ (n + 1) - 1 = n
    BY <1>1
  <2>3. h[n + 1] = h[n] + Left(t[n + 1]) /\ Left(t[n + 1]) \in Nat
    BY <1>1, <1>3, <2>2, PartOfPackage
  <2>4. \A i \in 0..(n + 1) : i \in 0..n \/ i = n + 1
    OBVIOUS
  <2>5. \A i \in 0..n : i > 0 => Left(t[i]) \in Nat
    BY <1>1, PartOfPackage
  <2> QED
    BY SMTT(40), <2>1, <2>3, <2>4, <2>5
<1> HIDE DEF P
<1>6. P = Nat
  <2>1. P \in SUBSET Nat
    BY DEF P
  <2> QED
    BY <1>4, <1>5, <2>1, Rest!SetInduction
<1>7. /\ h[Len(t)] \in Nat
      /\ \A i \in 0..Len(t) : h[i] \in Nat /\ h[i] <= h[Len(t)] /\ (i > 0 => Left(t[i]) <= h[Len(t)])
  BY <1>1, <1>6 DEF P
<1>8. ASSUME NEW s \in Seq(Packages), Begins(s, t)
      PROVE  LeftIn(s) \in Nat /\ LeftIn(s) <= LeftIn(t)
  <2>1. Len(s) \in Nat /\ DOMAIN s = 1..Len(s) /\ Len(s) \in 0..Len(t) /\ \A i \in 1..Len(s) : s[i] = t[i]
    BY <1>1, <1>8 DEF Begins
  <2>2. Rest!Trace(0, s, h, Len(s))
    BY <1>1, <1>2, <2>1 DEF Rest!Trace
  <2>3. Rest!Folded(0, s) = h[Len(s)]
    BY <2>1, <2>2, Rest!FoldOfTrace
  <2> QED
    BY <1>2, <1>7, <2>1, <2>3, LoopsAreFolds
<1> QED
  BY <1>1, <1>2, <1>7, <1>8, LoopsAreFolds

(* What is left in two lists is left in both together.                     *)
LEMMA LeftOfBoth ==
    ASSUME NEW s \in Seq(Packages), NEW t \in Seq(Packages)
    PROVE  LeftIn(s \o t) = LeftIn(s) + LeftIn(t) /\ LeftIn(s) \in Nat /\ LeftIn(t) \in Nat
<1> DEFINE b == LeftIn(s)
<1>1. b \in Nat /\ LeftIn(t) \in Nat
  BY LeftGrows
<1>2. Len(t) \in Nat /\ DOMAIN t = 1..Len(t) /\ \A i \in 1..Len(t) : Left(t[i]) \in Nat
  BY PartOfPackage
<1>3. LeftIn(s \o t) = Rest!Folded(b, t)
  BY LoopsAreFolds, Rest!FoldConcat
<1> HIDE DEF b
<1>4. PICK h : Rest!Trace(0, t, h, Len(t)) /\ Rest!Folded(0, t) = h[Len(t)]
  BY <1>2, Rest!FoldTrace
<1>5. h[0] = 0 /\ \A i \in 1..Len(t) : h[i] = h[i - 1] + Left(t[i])
  BY <1>4 DEF Rest!Trace, PlusLeft
<1> DEFINE P == {n \in Nat : n <= Len(t) => h[n] \in Nat}
           k == [i \in 0..Len(t) |-> b + h[i]]
<1>6. 0 \in P
  BY <1>5
<1>7. ASSUME NEW n \in P
      PROVE  n + 1 \in P
  <2> SUFFICES ASSUME n + 1 <= Len(t)
               PROVE  h[n + 1] \in Nat
    OBVIOUS
  <2>1. n + 1 \in 1..Len(t) /\ (n + 1) - 1 = n /\ h[n] \in Nat
    BY <1>2
  <2> QED
    BY <1>2, <1>5, <2>1
<1> HIDE DEF P
<1>8. P = Nat
  <2>1. P \in SUBSET Nat
    BY DEF P
  <2> QED
    BY <1>6, <1>7, <2>1, Rest!SetInduction
<1>9. \A i \in 0..Len(t) : h[i] \in Nat
  BY <1>2, <1>8 DEF P
<1>10. Rest!Trace(b, t, k, Len(t))
  <2>1. k[0] = b
    BY <1>1, <1>2, <1>5
  <2>2. ASSUME NEW i \in 1..Len(t)
        PROVE  k[i] = k[i - 1] + Left(t[i])
    <3>1. i \in 0..Len(t) /\ i - 1 \in 0..Len(t)
      BY <1>2
    <3>2. k[i] = b + h[i] /\ k[i - 1] = b + h[i - 1] /\ h[i] = h[i - 1] + Left(t[i])
      BY <1>5, <3>1
    <3> HIDE DEF k
    <3> QED
      BY <1>1, <1>2, <1>9, <3>1, <3>2
  <2> HIDE DEF k
  <2> QED
    BY <2>1, <2>2 DEF Rest!Trace, PlusLeft
<1>11. Rest!Folded(b, t) = k[Len(t)]
  <2> HIDE DEF k
  <2> QED
    BY <1>2, <1>10, Rest!FoldOfTrace
<1>12. k[Len(t)] = b + LeftIn(t)
  BY <1>2, <1>4, LoopsAreFolds
<1> QED
  BY <1>1, <1>3, <1>11, <1>12 DEF b

(* What is left in a list of one package.                                  *)
LEMMA LeftOfOne ==
    ASSUME NEW p \in Packages
    PROVE  <<p>> \in Seq(Packages) /\ LeftIn(<<p>>) \in Nat /\ Len(<<p>>) = 1 /\ <<p>>[1] = p
<1>1. <<p>> \in Seq(Packages) /\ Len(<<p>>) = 1 /\ <<p>>[1] = p
  OBVIOUS
<1> QED
  BY <1>1, LeftGrows

(* A package before a list.                                                *)
LEMMA OneBefore ==
    ASSUME NEW p \in Packages, NEW t \in Seq(Packages)
    PROVE  /\ <<p>> \o t \in Seq(Packages) /\ Len(<<p>> \o t) = Len(t) + 1
           /\ \A i \in 1..(Len(t) + 1) : (<<p>> \o t)[i] = IF i <= 1 THEN p ELSE t[i - 1]
<1> DEFINE one == <<p>>
<1>1. one \in Seq(Packages) /\ Len(one) = 1 /\ one[1] = p /\ Len(t) \in Nat
  BY LeftOfOne
<1> HIDE DEF one
<1>2. /\ one \o t \in Seq(Packages) /\ Len(one \o t) = Len(one) + Len(t)
      /\ \A i \in 1..(Len(one) + Len(t)) : (one \o t)[i] = IF i <= Len(one) THEN one[i] ELSE t[i - Len(one)]
  BY <1>1, ConcatProperties
<1>3. ASSUME NEW i \in 1..(Len(t) + 1)
      PROVE  (one \o t)[i] = IF i <= 1 THEN p ELSE t[i - 1]
  <2>1. i \in 1..(Len(one) + Len(t)) /\ (i <= 1 => i = 1)
    BY <1>1
  <2> QED
    BY <1>1, <1>2, <2>1
<1> QED
  BY <1>1, <1>2, <1>3 DEF one

(* The packages of a list behind the first n.                              *)
Behind(t, n) == SubSeq(t, n + 1, Len(t))

(* They begin with the next ones.                                          *)
LEMMA BehindSplits ==
    ASSUME NEW t \in Seq(Packages), NEW n \in 0..Len(t), NEW m \in n..Len(t)
    PROVE  /\ Behind(t, n) \in Seq(Packages)
           /\ SubSeq(t, n + 1, m) \in Seq(Packages)
           /\ Behind(t, n) = SubSeq(t, n + 1, m) \o Behind(t, m)
<1> DEFINE whole == Behind(t, n)
           front == SubSeq(t, n + 1, m)
           back == Behind(t, m)
<1>1. Len(t) \in Nat /\ n \in Nat /\ m \in Nat /\ n <= m /\ m <= Len(t)
  OBVIOUS
<1>2. /\ whole \in Seq(Packages) /\ Len(whole) = Len(t) - n
      /\ \A i \in 1..(Len(t) - n) : whole[i] = t[n + i]
  BY <1>1, SubSeqProperties DEF Behind
<1>3. /\ front \in Seq(Packages) /\ Len(front) = m - n
      /\ \A i \in 1..(m - n) : front[i] = t[n + i]
  BY <1>1, SubSeqProperties
<1>4. /\ back \in Seq(Packages) /\ Len(back) = Len(t) - m
      /\ \A i \in 1..(Len(t) - m) : back[i] = t[m + i]
  BY <1>1, SubSeqProperties DEF Behind
<1> HIDE DEF whole, front, back
<1>5. /\ front \o back \in Seq(Packages) /\ Len(front \o back) = Len(t) - n
      /\ \A i \in 1..(Len(t) - n) : (front \o back)[i] = IF i <= m - n THEN front[i] ELSE back[i - (m - n)]
  BY <1>1, <1>3, <1>4, ConcatProperties
<1>6. ASSUME NEW i \in 1..(Len(t) - n)
      PROVE  whole[i] = (front \o back)[i]
  <2>1. whole[i] = t[n + i] /\ (front \o back)[i] = IF i <= m - n THEN front[i] ELSE back[i - (m - n)]
    BY <1>2, <1>5
  <2>2. CASE i <= m - n
    <3>1. i \in 1..(m - n)
      BY <1>1, <2>2
    <3>2. front[i] = t[n + i]
      BY <1>3, <3>1
    <3> QED
      BY <2>1, <2>2, <3>2
  <2>3. CASE ~(i <= m - n)
    <3>1. i - (m - n) \in 1..(Len(t) - m) /\ m + (i - (m - n)) = n + i
      BY <1>1, <2>3
    <3>2. back[i - (m - n)] = t[n + i]
      BY <1>4, <3>1
    <3> QED
      BY <2>1, <2>3, <3>2
  <2> QED
    BY <2>2, <2>3
<1>7. whole = front \o back
  BY <1>2, <1>5, <1>6, SeqEqual
<1> QED
  BY <1>2, <1>3, <1>7 DEF whole, front, back

(* Wherever a package is put into a list, what was before it stays, and    *)
(* behind the first n there is no less than before.                        *)
LEMMA LeftAfterGrant ==
    ASSUME NEW t \in Seq(Packages), NEW i \in 0..Len(t), NEW p \in Packages, NEW n \in 0..Len(t)
    PROVE  LET longer == InsertAt(t, i + 1, p)
           IN  /\ longer \in Seq(Packages) /\ Len(longer) = Len(t) + 1
               /\ \A j \in 1..i : longer[j] = t[j]
               /\ LeftIn(Behind(t, n)) <= LeftIn(Behind(longer, n))
               /\ LeftIn(Behind(t, n)) \in Nat /\ LeftIn(Behind(longer, n)) \in Nat
<1> DEFINE front == SubSeq(t, 1, i)
           back == Behind(t, i)
           longer == InsertAt(t, i + 1, p)
<1>1. Len(t) \in Nat /\ i \in Nat /\ n \in Nat /\ i <= Len(t) /\ n <= Len(t)
  OBVIOUS
<1>2. front \in Seq(Packages) /\ Len(front) = i /\ \A j \in 1..i : front[j] = t[j]
  BY <1>1, SubSeqProperties
<1>3. /\ back \in Seq(Packages) /\ Len(back) = Len(t) - i
      /\ \A j \in 1..(Len(t) - i) : back[j] = t[i + j]
  BY <1>1, SubSeqProperties DEF Behind
<1>4. longer = (front \o <<p>>) \o back
  <2>1. (i + 1) - 1 = i
    BY <1>1
  <2> QED
    BY Zenon, <2>1 DEF InsertAt, Behind
<1> HIDE DEF front, back, longer
<1>5. /\ longer \in Seq(Packages) /\ Len(longer) = Len(t) + 1
      /\ \A j \in 1..i : longer[j] = t[j]
      /\ longer[i + 1] = p
      /\ \A j \in (i + 2)..(Len(t) + 1) : longer[j] = t[j - 1]
  <2> DEFINE middle == front \o <<p>>
  <2>1. /\ middle \in Seq(Packages) /\ Len(middle) = i + 1
        /\ \A j \in 1..i : middle[j] = t[j]
        /\ middle[i + 1] = p
    BY <1>1, <1>2, LeftOfOne, ConcatProperties
  <2> HIDE DEF middle
  <2>2. /\ longer \in Seq(Packages) /\ Len(longer) = Len(t) + 1
        /\ \A j \in 1..(Len(t) + 1) : longer[j] = IF j <= i + 1 THEN middle[j] ELSE back[j - (i + 1)]
    BY <1>1, <1>3, <1>4, <2>1, ConcatProperties DEF middle
  <2>3. ASSUME NEW j \in (i + 2)..(Len(t) + 1)
        PROVE  longer[j] = t[j - 1]
    <3>1. j - (i + 1) \in 1..(Len(t) - i) /\ i + (j - (i + 1)) = j - 1 /\ j \in 1..(Len(t) + 1) /\ ~(j <= i + 1)
      BY <1>1
    <3>2. back[j - (i + 1)] = t[j - 1]
      BY <1>3, <3>1
    <3> QED
      BY <2>2, <3>1, <3>2
  <2>4. \A j \in 1..i : longer[j] = t[j]
    BY <1>1, <2>1, <2>2
  <2>5. longer[i + 1] = p
    BY <1>1, <2>1, <2>2
  <2> QED
    BY <2>2, <2>3, <2>4, <2>5
<1>6. /\ Behind(t, n) \in Seq(Packages) /\ Len(Behind(t, n)) = Len(t) - n
      /\ \A j \in 1..(Len(t) - n) : Behind(t, n)[j] = t[n + j]
  BY <1>1, SubSeqProperties DEF Behind
<1>7. /\ Behind(longer, n) \in Seq(Packages) /\ Len(Behind(longer, n)) = (Len(t) + 1) - n
      /\ \A j \in 1..((Len(t) + 1) - n) : Behind(longer, n)[j] = longer[n + j]
  BY <1>1, <1>5, SubSeqProperties DEF Behind
<1>8. LeftIn(Behind(t, n)) \in Nat /\ LeftIn(Behind(longer, n)) \in Nat
  BY <1>6, <1>7, LeftGrows
<1>9. CASE n <= i
  <2> DEFINE before == SubSeq(t, n + 1, i)
  <2>1. before \in Seq(Packages) /\ Len(before) = i - n /\ \A j \in 1..(i - n) : before[j] = t[n + j]
    BY <1>1, <1>9, SubSeqProperties
  <2>2. Behind(t, n) = before \o back
    BY <1>1, <1>9, BehindSplits DEF back
  <2>3. SubSeq(longer, n + 1, i) = before
    <3> DEFINE same == SubSeq(longer, n + 1, i)
    <3>1. same \in Seq(Packages) /\ Len(same) = i - n /\ \A j \in 1..(i - n) : same[j] = longer[n + j]
      BY <1>1, <1>5, <1>9, SubSeqProperties
    <3>2. \A j \in 1..(i - n) : n + j \in 1..i
      BY <1>1, <1>9
    <3> HIDE DEF same, before
    <3>3. \A j \in 1..(i - n) : same[j] = before[j]
      BY <1>5, <2>1, <3>1, <3>2
    <3>4. same = before
      BY <2>1, <3>1, <3>3, SeqEqual
    <3> QED
      BY <3>4 DEF same
  <2>4. Behind(longer, i) = <<p>> \o back
    <3> DEFINE rest == Behind(longer, i)
               other == <<p>> \o back
    <3>1. /\ rest \in Seq(Packages) /\ Len(rest) = (Len(t) + 1) - i
          /\ \A j \in 1..((Len(t) + 1) - i) : rest[j] = longer[i + j]
      BY <1>1, <1>5, SubSeqProperties DEF Behind
    <3>2. /\ other \in Seq(Packages) /\ Len(other) = (Len(t) + 1) - i
          /\ \A j \in 1..((Len(t) + 1) - i) : other[j] = IF j <= 1 THEN p ELSE back[j - 1]
      BY <1>1, <1>3, OneBefore
    <3> HIDE DEF rest, other
    <3>3. ASSUME NEW j \in 1..((Len(t) + 1) - i)
          PROVE  rest[j] = other[j]
      <4>1. CASE j = 1
        <5>1. rest[1] = longer[i + 1] /\ other[1] = p
          BY <1>1, <3>1, <3>2
        <5> QED
          BY <1>5, <4>1, <5>1
      <4>2. CASE j # 1
        <5>1. j - 1 \in 1..(Len(t) - i) /\ i + j \in (i + 2)..(Len(t) + 1) /\ (i + j) - 1 = i + (j - 1)
              /\ ~(j <= 1)
          BY <1>1, <4>2
        <5>2. longer[i + j] = t[i + (j - 1)] /\ back[j - 1] = t[i + (j - 1)]
          BY <1>3, <1>5, <5>1
        <5> QED
          BY <3>1, <3>2, <5>1, <5>2
      <4> QED
        BY <4>1, <4>2
    <3>4. rest = other
      BY <3>1, <3>2, <3>3, SeqEqual
    <3> QED
      BY <3>4 DEF rest, other
  <2>5. Behind(longer, n) = before \o (<<p>> \o back)
    <3>1. n \in 0..Len(longer) /\ i \in n..Len(longer)
      BY <1>1, <1>5, <1>9
    <3>2. Behind(longer, n) = SubSeq(longer, n + 1, i) \o Behind(longer, i)
      BY <1>5, <3>1, BehindSplits
    <3> QED
      BY <2>3, <2>4, <3>2
  <2> HIDE DEF before
  <2>6. <<p>> \in Seq(Packages) /\ LeftIn(<<p>>) \in Nat
    BY LeftOfOne
  <2>7. LeftIn(<<p>> \o back) = LeftIn(<<p>>) + LeftIn(back) /\ LeftIn(back) \in Nat
        /\ <<p>> \o back \in Seq(Packages)
    BY <1>3, <2>6, LeftOfBoth, ConcatProperties
  <2>8. LeftIn(Behind(t, n)) = LeftIn(before) + LeftIn(back) /\ LeftIn(before) \in Nat
    BY <1>3, <2>1, <2>2, LeftOfBoth
  <2>9. LeftIn(Behind(longer, n)) = LeftIn(before) + LeftIn(<<p>> \o back)
    BY <2>1, <2>5, <2>7, LeftOfBoth
  <2>10. LeftIn(Behind(t, n)) <= LeftIn(Behind(longer, n))
    BY <2>6, <2>7, <2>8, <2>9
  <2> QED
    BY <1>5, <1>8, <2>10 DEF longer
<1>10. CASE n > i
  <2> DEFINE q == longer[n + 1]
             rest == Behind(t, n)
             other == <<q>> \o rest
  <2>1. q \in Packages
    <3>1. n + 1 \in 1..Len(longer)
      BY <1>1, <1>5
    <3> QED
      BY <1>5, <3>1
  <2>2. /\ other \in Seq(Packages) /\ Len(other) = (Len(t) + 1) - n
        /\ \A j \in 1..((Len(t) + 1) - n) : other[j] = IF j <= 1 THEN q ELSE rest[j - 1]
    BY <1>1, <1>6, <2>1, OneBefore
  <2>3. ASSUME NEW j \in 1..((Len(t) + 1) - n)
        PROVE  Behind(longer, n)[j] = other[j]
    <3> HIDE DEF other, rest
    <3>1. CASE j = 1
      BY <1>1, <1>7, <2>2, <3>1
    <3>2. CASE j # 1
      <4>1. j - 1 \in 1..(Len(t) - n) /\ n + j \in (i + 2)..(Len(t) + 1) /\ (n + j) - 1 = n + (j - 1)
            /\ ~(j <= 1)
        BY <1>1, <1>10, <3>2
      <4>2. longer[n + j] = t[n + (j - 1)] /\ rest[j - 1] = t[n + (j - 1)]
        BY <1>5, <1>6, <4>1 DEF rest
      <4> QED
        BY <1>7, <2>2, <4>1, <4>2
    <3> QED
      BY <3>1, <3>2
  <2> HIDE DEF q, other
  <2>4. Behind(longer, n) = other
    BY <1>7, <2>2, <2>3, SeqEqual
  <2>5. LeftIn(other) = LeftIn(<<q>>) + LeftIn(rest) /\ LeftIn(<<q>>) \in Nat
    BY <1>6, <2>1, LeftOfOne, LeftOfBoth DEF other
  <2>6. LeftIn(Behind(t, n)) <= LeftIn(Behind(longer, n))
    BY <1>8, <2>4, <2>5
  <2> QED
    BY <1>5, <1>8, <2>6 DEF longer
<1> QED
  BY <1>1, <1>9, <1>10

(* One package more in the totals.                                         *)
LEMMA PlusPackage ==
    ASSUME NEW sum \in Sums, sum.used >= 0, NEW p \in Packages
    PROVE  /\ Plus(sum, p) \in Sums
           /\ Plus(sum, p).remain = sum.remain + Left(p)
           /\ Plus(sum, p).used >= 0
<1> DEFINE part == packageRemainUsed(p)
           next == [remain |-> sum.remain + part.remain, used |-> sum.used + part.used,
                    size |-> sum.size + part.size, packs |-> sum.packs + 1]
<1>1. part \in Parts /\ part.remain = Left(p)
  BY PartOfPackage
<1>2. Plus(sum, p) = next
  BY DEF Plus
<1> HIDE DEF part
<1>3. /\ sum.remain + part.remain \in Int /\ sum.used + part.used \in Int
      /\ sum.size + part.size \in Int /\ sum.packs + 1 \in Int
  BY <1>1 DEF Sums, Parts
<1>4. sum.used + part.used >= 0
  BY <1>1 DEF Sums, Parts
<1>5. next \in Sums /\ next.remain = sum.remain + part.remain /\ next.used >= 0
  BY <1>3, <1>4 DEF Sums
<1> HIDE DEF next
<1> QED
  BY <1>1, <1>2, <1>5

(* The totals of a list: what remains is what its packages have left.      *)
LEMMA TotalsOfList ==
    ASSUME NEW t \in Seq(Packages), NEW sum, sum = FoldLeft(Plus, NoTotals, t)
    PROVE  sum \in Sums /\ sum.remain = LeftIn(t) /\ sum.used >= 0
<1>1. Len(t) \in Nat /\ DOMAIN t = 1..Len(t) /\ \A i \in 1..Len(t) : t[i] \in Packages
  OBVIOUS
<1>2. PICK h : Totals!Trace(NoTotals, t, h, Len(t)) /\ Totals!Folded(NoTotals, t) = h[Len(t)]
  BY <1>1, Totals!FoldTrace
<1>3. PICK k : Rest!Trace(0, t, k, Len(t)) /\ Rest!Folded(0, t) = k[Len(t)]
  BY <1>1, Rest!FoldTrace
<1> DEFINE P == {n \in Nat : n <= Len(t) => h[n] \in Sums /\ h[n].remain = k[n] /\ h[n].used >= 0}
<1>4. 0 \in P
  <2>1. h[0] = NoTotals /\ k[0] = 0
    BY <1>2, <1>3 DEF Totals!Trace, Rest!Trace
  <2> QED
    BY <2>1 DEF NoTotals, Sums
<1>5. ASSUME NEW n \in P
      PROVE  n + 1 \in P
  <2> SUFFICES ASSUME n + 1 <= Len(t)
               PROVE  h[n + 1] \in Sums /\ h[n + 1].remain = k[n + 1] /\ h[n + 1].used >= 0
    OBVIOUS
  <2>1. h[n] \in Sums /\ h[n].remain = k[n] /\ h[n].used >= 0
    BY <1>1
  <2>2. n + 1 \in 1..Len(t) /\ (n + 1) - 1 = n
    BY <1>1
  <2>3. h[n + 1] = Plus(h[n], t[n + 1]) /\ k[n + 1] = k[n] + Left(t[n + 1])
    BY <1>2, <1>3, <2>2 DEF Totals!Trace, Rest!Trace, PlusLeft
  <2>4. t[n + 1] \in Packages
    BY <1>1, <2>2
  <2> QED
    BY <2>1, <2>3, <2>4, PlusPackage
<1> HIDE DEF P
<1>6. P = Nat
  <2>1. P \in SUBSET Nat
    BY DEF P
  <2> QED
    BY <1>4, <1>5, <2>1, Rest!SetInduction
<1> QED
  BY <1>1, <1>2, <1>3, <1>6, LoopsAreFolds DEF P

(* What is reported of a list: nothing of it is lost, and the spending is  *)
(* never understated, also when the backend names a larger capacity.       *)
LEMMA FoldedReports ==
    ASSUME NEW t \in Seq(Packages), NEW d \in Int, NEW sum, sum = folded(t, d)
    PROVE  sum \in Sums /\ sum.remain = LeftIn(t) /\ sum.used >= sum.size - sum.remain
<1> DEFINE plain == FoldLeft(Plus, NoTotals, t)
           sized == IF plain.size > 0 THEN reconciled(plain) ELSE plain
<1>1. plain \in Sums /\ plain.remain = LeftIn(t) /\ plain.used >= 0 /\ LeftIn(t) \in Nat
  BY TotalsOfList, LeftGrows
<1>2. sum = IF d > sized.size THEN reconciled([sized EXCEPT !.size = d]) ELSE sized
  BY DEF folded
<1> HIDE DEF plain
<1>3. sized \in Sums /\ sized.remain = LeftIn(t) /\ sized.used >= sized.size - sized.remain
  BY <1>1 DEF Sums, reconciled, AtLeast
<1> HIDE DEF sized
<1> DEFINE floored == [sized EXCEPT !.size = d]
<1>4. floored \in Sums /\ floored.remain = LeftIn(t)
  BY <1>3 DEF Sums
<1>5. CASE d > sized.size
  <2> HIDE DEF floored
  <2>1. sum = reconciled(floored)
    BY <1>2, <1>5 DEF floored
  <2> QED
    BY <1>4, <2>1 DEF Sums, reconciled, AtLeast
<1> QED
  BY <1>2, <1>3, <1>5

----------------------------------------------------------------------------
LookupRecords ==
    [pc : {"start", "read", "done", "failed"}, page : Nat \ {0}, attempts : Nat, all : Seq(Packages),
     totalCount : Nat, dosage : Int, sum : Sums]

BalanceTypeOK ==
    /\ account \in Holders /\ lookup \in LookupRecords /\ listed \in Seq(Packages)
    /\ grown \in SUBSET {"read", "counted"}

(* The pages before page n are read.                                       *)
ReadUpTo(packs, all, n) == Len(all) = (n - 1) * pageSize /\ Len(all) <= Len(packs)

(* What was read and what is still to be read hold all there was.          *)
NothingSkipped == LeftIn(listed) <= LeftIn(lookup.all) + LeftIn(Behind(account.packs, Len(lookup.all)))

(* The number the backend told is that of the list the reading began with. *)
CountHolds ==
    /\ lookup.totalCount = Len(listed)
    /\ Begins(listed, account.packs) /\ Begins(lookup.all, account.packs)

(* The reading goes on where it stopped, in a list that only grows.        *)
PagesInOrder ==
    /\ lookup.pc \in {"start", "read"} =>
         /\ ReadUpTo(account.packs, lookup.all, lookup.page)
         /\ lookup.page = 1 => grown = {} /\ lookup.totalCount = 0
         /\ "read" \notin grown => Begins(lookup.all, account.packs)
    /\ lookup.pc = "start" => lookup.page = 1
    /\ lookup.pc = "read" => ByPackages
    /\ lookup.pc = "read" /\ lookup.page # 1 =>
         /\ NothingSkipped
         /\ lookup.totalCount # 0 =>
              Len(lookup.all) < lookup.totalCount /\ ("counted" \notin grown => CountHolds)

(* What the answer holds, beside what was listed and what is there now.    *)
AllRead ==
    Finished /\ ByPackages =>
        /\ \E d \in Int : lookup.sum = folded(lookup.all, d)
        /\ "counted" \notin grown => LeftIn(listed) <= LeftIn(lookup.all)
        /\ "read" \notin grown => LeftIn(lookup.all) <= LeftIn(account.packs)

EnterpriseTold ==
    Finished /\ ~ByPackages => (isCreditsExhausted(lookup.sum) => account.limit - account.credit < 4)

BalanceInv == BalanceTypeOK /\ PagesInOrder /\ AllRead /\ EnterpriseTold

(* The lookup begins with nothing read.                                    *)
LEMMA BalanceInvInit == BalanceInit => BalanceInv
<1> SUFFICES ASSUME NEW a \in Accounts, BalanceStart(a)
             PROVE  BalanceInv
  BY DEF BalanceInit
<1>1. account \in Holders /\ lookup \in LookupRecords /\ listed \in Seq(Packages) /\ grown = {}
  BY BalanceAssumption DEF BalanceStart, LookupRecords, NoTotals, Sums
<1>2. /\ lookup.pc = "start" /\ lookup.page = 1 /\ lookup.all = <<>> /\ lookup.totalCount = 0
      /\ account.packs \in Seq(Packages)
  BY <1>1 DEF BalanceStart, Holders
<1>3. ReadUpTo(account.packs, lookup.all, lookup.page) /\ Begins(lookup.all, account.packs)
  BY <1>2, BalanceAssumption DEF ReadUpTo, Begins
<1> QED
  BY <1>1, <1>2, <1>3 DEF BalanceInv, BalanceTypeOK, PagesInOrder, AllRead, EnterpriseTold, Finished

(* The figures of an enterprise: less than a credit is left when what they *)
(* are rounded to is used up.                                              *)
LEMMA EnterpriseRounds ==
    ASSUME NEW limit \in Nat, NEW credit \in Nat,
           AtLeast(rounded(limit) - rounded(credit), 0) <= 0
    PROVE  limit - credit < 4
<1>1. rounded(limit) \in Int /\ rounded(credit) \in Int
  BY DEF rounded
<1>2. rounded(limit) <= rounded(credit)
  BY <1>1 DEF AtLeast
<1> QED
  BY <1>2 DEF rounded

(* The enterprise endpoint answers, fails or leads to the list.            *)
LEMMA BalanceInvFetch ==
    ASSUME BalanceInv, fetchUserResource
    PROVE  BalanceInv'
<1> USE DEF BalanceInv
<1>1. UNCHANGED <<account, listed, grown>> /\ lookup.pc = "start" /\ account \in Holders /\ lookup \in LookupRecords
  BY DEF fetchUserResource, BalanceTypeOK
<1>2. CASE ReadList /\ ByPackages
  <2>1. /\ lookup' \in LookupRecords /\ lookup'.pc = "read" /\ lookup'.page = lookup.page
        /\ lookup'.all = lookup.all /\ lookup'.totalCount = lookup.totalCount
    BY <1>1, <1>2 DEF ReadList, LookupRecords
  <2> QED
    BY <1>1, <1>2, <2>1 DEF BalanceTypeOK, PagesInOrder, AllRead, EnterpriseTold, Finished, ByPackages
<1>3. CASE Fail
  <2>1. lookup' \in LookupRecords /\ lookup'.pc = "failed"
    BY <1>1, <1>3 DEF Fail, LookupRecords
  <2> QED
    BY <1>1, <2>1 DEF BalanceTypeOK, PagesInOrder, AllRead, EnterpriseTold, Finished
<1>4. CASE ~ByPackages /\ parseEnterpriseCredits /\ ~Fail
  <2> DEFINE sum == [remain |-> AtLeast(rounded(account.limit) - rounded(account.credit), 0),
                     used |-> rounded(account.credit), size |-> rounded(account.limit), packs |-> 1]
  <2>1. account.limit \in Nat /\ account.credit \in Nat
    BY <1>1 DEF Holders
  <2>2. lookup' = [lookup EXCEPT !.pc = "done", !.sum = sum]
    BY <1>4 DEF parseEnterpriseCredits, Done
  <2>3. rounded(account.limit) \in Int /\ rounded(account.credit) \in Int
    BY <2>1 DEF rounded
  <2>4. sum \in Sums /\ sum.remain = AtLeast(rounded(account.limit) - rounded(account.credit), 0)
    BY <2>3 DEF Sums, AtLeast
  <2> HIDE DEF sum
  <2>5. lookup' \in LookupRecords /\ lookup'.pc = "done" /\ lookup'.sum = sum
    BY <1>1, <2>2, <2>4 DEF LookupRecords
  <2>6. isCreditsExhausted(sum) => account.limit - account.credit < 4
    BY <2>1, <2>4, EnterpriseRounds DEF isCreditsExhausted
  <2> QED
    BY <1>1, <1>4, <2>5, <2>6 DEF BalanceTypeOK, PagesInOrder, AllRead, EnterpriseTold, Finished, ByPackages
<1> QED
  BY <1>1, <1>2, <1>3, <1>4 DEF fetchUserResource, fetchEnterpriseCreditsCN, ByPackages, Holders

(* A call that fails is repeated or ends the lookup.                       *)
LEMMA BalanceInvFails ==
    ASSUME BalanceInv, CallFails
    PROVE  BalanceInv'
<1> USE DEF BalanceInv
<1>1. UNCHANGED <<account, listed, grown>> /\ lookup.pc = "read" /\ lookup \in LookupRecords
  BY DEF CallFails, BalanceTypeOK
<1>2. CASE Fail
  <2>1. lookup' \in LookupRecords /\ lookup'.pc = "failed"
    BY <1>1, <1>2 DEF Fail, LookupRecords
  <2> QED
    BY <1>1, <2>1 DEF BalanceTypeOK, PagesInOrder, AllRead, EnterpriseTold, Finished
<1>3. CASE lookup' = [lookup EXCEPT !.attempts = @ + 1]
  <2>1. /\ lookup' \in LookupRecords /\ lookup'.pc = "read" /\ lookup'.page = lookup.page
        /\ lookup'.all = lookup.all /\ lookup'.totalCount = lookup.totalCount
    BY <1>1, <1>3 DEF LookupRecords
  <2> QED
    BY <1>1, <2>1 DEF BalanceTypeOK, PagesInOrder, AllRead, EnterpriseTold, Finished, ByPackages,
       NothingSkipped, CountHolds
<1> QED
  BY <1>2, <1>3 DEF CallFails

(* Wherever a package is granted, what is still to be read does not shrink, *)
(* and what comes before it stays where it was.                            *)
LEMMA BalanceInvGrant ==
    ASSUME BalanceInv, Grant
    PROVE  BalanceInv'
<1> USE DEF BalanceInv
<1>1. UNCHANGED <<lookup, listed>> /\ lookup.pc = "read" /\ account \in Holders /\ Granted \in Packages
  BY BalanceAssumption DEF Grant, BalanceTypeOK
<1>2. PICK i \in 0..Len(account.packs) :
        /\ account' = [account EXCEPT !.grants = @ + 1, !.packs = InsertAt(@, i + 1, Granted)]
        /\ grown' = grown \union {part \in {"read", "counted"} :
                        i < IF part = "read" THEN Len(lookup.all) ELSE lookup.totalCount}
  BY DEF Grant
<1> DEFINE packs == account.packs
           longer == InsertAt(packs, i + 1, Granted)
           count == account.grants + 1
           n == Len(lookup.all)
<1>3. /\ packs \in Seq(Packages) /\ lookup.all \in Seq(Packages) /\ listed \in Seq(Packages)
      /\ lookup.totalCount \in Nat /\ i \in 0..Len(packs) /\ count \in Nat
  BY <1>1, <1>2 DEF BalanceTypeOK, Holders, LookupRecords
<1>4. ReadUpTo(packs, lookup.all, lookup.page) /\ n \in 0..Len(packs)
  BY <1>1, <1>3 DEF PagesInOrder, ReadUpTo
<1>5. /\ longer \in Seq(Packages) /\ Len(longer) = Len(packs) + 1
      /\ \A j \in 1..i : longer[j] = packs[j]
      /\ LeftIn(Behind(packs, n)) <= LeftIn(Behind(longer, n))
      /\ LeftIn(Behind(packs, n)) \in Nat /\ LeftIn(Behind(longer, n)) \in Nat
  <2> HIDE DEF n
  <2> QED
    BY <1>1, <1>3, <1>4, LeftAfterGrant
<1>6. account' \in Holders /\ account'.packs = longer /\ account'.enterprise = account.enterprise
  <2>1. account' = [account EXCEPT !.grants = count, !.packs = longer]
    BY <1>2
  <2> HIDE DEF longer, count
  <2> QED
    BY <1>1, <1>3, <1>5, <2>1 DEF Holders
<1>7. /\ grown' \in SUBSET {"read", "counted"} /\ grown \subseteq grown'
      /\ "read" \notin grown' => n <= i
      /\ "counted" \notin grown' => lookup.totalCount <= i
  BY <1>1, <1>2, <1>3 DEF BalanceTypeOK
<1>8. lookup.page = 1 => grown' = {}
  <2> SUFFICES ASSUME lookup.page = 1
               PROVE  grown' = {}
    OBVIOUS
  <2>1. grown = {} /\ lookup.totalCount = 0
    BY <1>1 DEF PagesInOrder
  <2>2. n = 0
    BY <1>4, BalanceAssumption DEF ReadUpTo
  <2> QED
    BY <1>2, <1>3, <2>1, <2>2
<1>9. \A s \in Seq(Packages) : Begins(s, packs) /\ Len(s) <= i => Begins(s, longer)
  <2> HIDE DEF longer, packs
  <2> QED
    BY <1>3, <1>5 DEF Begins
<1>10. ReadUpTo(longer, lookup.all, lookup.page)
  BY <1>3, <1>4, <1>5 DEF ReadUpTo
<1>11. LeftIn(listed) \in Nat /\ LeftIn(lookup.all) \in Nat
  BY <1>3, LeftGrows
<1> HIDE DEF longer
<1>12. NothingSkipped => NothingSkipped'
  BY <1>1, <1>5, <1>6, <1>11 DEF NothingSkipped
<1>13. CountHolds /\ n < lookup.totalCount /\ "counted" \notin grown' => CountHolds'
  BY <1>1, <1>3, <1>6, <1>7, <1>9 DEF CountHolds
<1>14. ByPackages /\ ByPackages'
  BY <1>1, <1>6 DEF PagesInOrder, ByPackages
<1>15. BalanceTypeOK'
  BY <1>1, <1>6, <1>7 DEF BalanceTypeOK
<1>16. PagesInOrder'
  BY <1>1, <1>3, <1>6, <1>7, <1>8, <1>9, <1>10, <1>12, <1>13, <1>14 DEF PagesInOrder
<1> QED
  BY <1>1, <1>14, <1>15, <1>16 DEF AllRead, EnterpriseTold, Finished

Continued(packs, all, read, page, n) ==
    /\ Begins(all, packs) => Begins(read, packs)
    /\ Len(page) < pageSize => Len(read) = Len(packs)
    /\ Len(page) >= pageSize => Len(read) = n * pageSize
    /\ Len(read) <= Len(packs)
    /\ LeftIn(read) + LeftIn(Behind(packs, Len(read))) = LeftIn(all) + LeftIn(Behind(packs, Len(all)))

(* A page continues what was read: it reaches as far as a whole page or to *)
(* the end of the list, whichever comes first, and what is left moves from *)
(* what is to be read to what was read.                                    *)
LEMMA PageContinues ==
    ASSUME NEW packs \in Seq(Packages), NEW all \in Seq(Packages), NEW n \in Nat \ {0},
           ReadUpTo(packs, all, n),
           NEW page, page = PageOf(packs, n)
    PROVE  page \in Seq(Packages) /\ all \o page \in Seq(Packages) /\ Continued(packs, all, all \o page, page, n)
<1> DEFINE from == Len(all)
           to == AtMost(n * pageSize, Len(packs))
<1>1. /\ pageSize \in Nat /\ pageSize > 0 /\ from \in Nat /\ Len(packs) \in Nat /\ from <= Len(packs)
      /\ n * pageSize = from + pageSize
  BY BalanceAssumption DEF ReadUpTo
<1>2. to \in Nat /\ to <= Len(packs) /\ from <= to /\ (to = from + pageSize \/ (to = Len(packs) /\ to < from + pageSize))
  BY <1>1 DEF AtMost
<1>3. page = SubSeq(packs, from + 1, to)
  BY DEF PageOf, ReadUpTo
<1> HIDE DEF from, to
<1>4. /\ page \in Seq(Packages) /\ Len(page) = to - from
      /\ \A i \in 1..(to - from) : page[i] = packs[from + i]
  BY <1>1, <1>2, <1>3, SubSeqProperties
<1>5. /\ all \o page \in Seq(Packages) /\ Len(all \o page) = from + Len(page)
      /\ \A i \in 1..(from + Len(page)) : (all \o page)[i] = IF i <= from THEN all[i] ELSE page[i - from]
  BY <1>4, ConcatProperties DEF from
<1>6. ASSUME Begins(all, packs), NEW i \in 1..to
      PROVE  (all \o page)[i] = packs[i]
  <2>1. CASE i <= from
    BY <1>1, <1>2, <1>4, <1>5, <1>6, <2>1 DEF Begins, from
  <2>2. CASE i > from
    <3>1. i - from \in 1..(to - from) /\ from + (i - from) = i
      BY <1>1, <1>2, <2>2
    <3>2. page[i - from] = packs[i]
      BY <1>4, <3>1
    <3>3. i \in 1..(from + Len(page)) /\ ~(i <= from)
      BY <1>1, <1>2, <1>4, <2>2
    <3>4. (all \o page)[i] = page[i - from]
      BY <1>5, <3>3
    <3> QED
      BY <3>2, <3>4
  <2>3. i <= from \/ i > from
    BY <1>1, <1>2
  <2> QED
    BY <2>1, <2>2, <2>3
<1>7. Behind(packs, from) = page \o Behind(packs, to) /\ Behind(packs, to) \in Seq(Packages)
  <2>1. from \in 0..Len(packs) /\ to \in from..Len(packs) /\ to \in 0..Len(packs) /\ to \in to..Len(packs)
    BY <1>1, <1>2
  <2> QED
    BY <1>3, <2>1, BehindSplits
<1>8. /\ LeftIn(all \o page) = LeftIn(all) + LeftIn(page)
      /\ LeftIn(Behind(packs, from)) = LeftIn(page) + LeftIn(Behind(packs, to))
      /\ LeftIn(all) \in Nat /\ LeftIn(page) \in Nat /\ LeftIn(Behind(packs, to)) \in Nat
  BY <1>4, <1>7, LeftOfBoth
<1>9. Len(all \o page) = to
  BY <1>1, <1>2, <1>4, <1>5
<1>10. LeftIn(all \o page) + LeftIn(Behind(packs, to)) = LeftIn(all) + LeftIn(Behind(packs, from))
  BY <1>8
<1>11. Begins(all, packs) => Begins(all \o page, packs)
  BY <1>2, <1>6, <1>9 DEF Begins
<1> QED
  BY <1>1, <1>2, <1>4, <1>5, <1>9, <1>10, <1>11 DEF Continued, from

(* Behind the end of a list there is nothing, before its beginning nothing *)
(* was read.                                                               *)
LEMMA BehindEnds ==
    ASSUME NEW t \in Seq(Packages)
    PROVE  LeftIn(<<>>) = 0 /\ LeftIn(Behind(t, Len(t))) = 0 /\ Behind(t, 0) = t
<1>1. LeftIn(<<>>) = 0
  BY LoopsAreFolds, Rest!FoldEmpty
<1>2. Len(t) \in Nat
  OBVIOUS
<1>3. Behind(t, Len(t)) = <<>>
  BY <1>2 DEF Behind
<1>4. Behind(t, 0) = t
  BY <1>2 DEF Behind
<1> QED
  BY <1>1, <1>3, <1>4

(* The next page is read, and after the last one the totals are told.      *)
LEMMA BalanceInvRead ==
    ASSUME BalanceInv, ReadPackages
    PROVE  BalanceInv'
<1> USE DEF BalanceInv
<1> DEFINE packs == account.packs
           page == PageOf(packs, lookup.page)
           all == lookup.all \o page
           first == lookup.page = 1
           totalCount == IF ~first THEN lookup.totalCount ELSE IF account.tells THEN Len(packs) ELSE 0
           dosage == IF first THEN account.dosage ELSE lookup.dosage
<1>1. /\ lookup.pc = "read" /\ account \in Holders /\ lookup \in LookupRecords /\ ByPackages
      /\ UNCHANGED <<account, grown>> /\ listed' = IF first THEN packs ELSE listed
      /\ grown \in SUBSET {"read", "counted"}
  BY DEF ReadPackages, BalanceTypeOK, PagesInOrder
<1>2. /\ packs \in Seq(Packages) /\ lookup.all \in Seq(Packages) /\ lookup.page \in Nat \ {0}
      /\ account.dosage \in Int /\ lookup.dosage \in Int /\ lookup.totalCount \in Nat
      /\ listed \in Seq(Packages) /\ Len(packs) \in Nat
  BY <1>1 DEF BalanceTypeOK, Holders, LookupRecords
<1>3. ReadUpTo(packs, lookup.all, lookup.page) /\ ("read" \notin grown => Begins(lookup.all, packs))
  BY <1>1 DEF PagesInOrder
<1>4. page \in Seq(Packages) /\ all \in Seq(Packages) /\ Continued(packs, lookup.all, all, page, lookup.page)
  BY <1>2, <1>3, PageContinues
<1>5. /\ listed' \in Seq(Packages)
      /\ LeftIn(listed') <= LeftIn(lookup.all) + LeftIn(Behind(packs, Len(lookup.all)))
  <2>1. CASE first
    <3>1. lookup.all = <<>> /\ Len(lookup.all) = 0
      BY <1>2, <1>3, <2>1, BalanceAssumption DEF ReadUpTo
    <3>2. Behind(packs, Len(lookup.all)) = packs /\ LeftIn(lookup.all) = 0 /\ LeftIn(packs) \in Nat
      BY <1>2, <3>1, BehindEnds, LeftGrows
    <3> QED
      BY <1>1, <1>2, <2>1, <3>2
  <2>2. CASE ~first
    BY <1>1, <1>2, <2>2 DEF PagesInOrder, NothingSkipped
  <2> QED
    BY <2>1, <2>2
<1>6. /\ totalCount \in Nat /\ dosage \in Int
      /\ totalCount # 0 /\ "counted" \notin grown =>
           totalCount = Len(listed') /\ Begins(listed', packs) /\ Begins(all, packs)
  <2>1. CASE first
    <3>1. grown = {}
      BY <1>1, <2>1 DEF PagesInOrder
    <3>2. Begins(all, packs)
      BY <1>3, <1>4, <3>1 DEF Continued
    <3> HIDE DEF all
    <3> QED
      BY <1>1, <1>2, <2>1, <3>2 DEF Begins
  <2>2. CASE ~first
    <3>1. totalCount = lookup.totalCount /\ listed' = listed
      BY <1>1, <2>2
    <3>2. lookup.totalCount # 0 /\ "counted" \notin grown => CountHolds
      BY <1>1, <2>2 DEF PagesInOrder
    <3>3. Begins(lookup.all, packs) => Begins(all, packs)
      BY <1>4 DEF Continued
    <3> HIDE DEF all
    <3> QED
      BY <1>2, <3>1, <3>2, <3>3 DEF CountHolds
  <2> QED
    BY <2>1, <2>2
<1>7. lookup' = IF isLast(page, totalCount, Len(all))
                  THEN [lookup EXCEPT !.pc = "done", !.all = all, !.sum = folded(all, dosage)]
                  ELSE [lookup EXCEPT !.page = @ + 1, !.attempts = 0, !.all = all,
                                      !.totalCount = totalCount, !.dosage = dosage]
  BY DEF ReadPackages
<1> HIDE DEF packs, page, all, first, totalCount, dosage
<1>8. /\ LeftIn(all) \in Nat /\ LeftIn(listed') \in Nat /\ LeftIn(packs) \in Nat
      /\ Len(all) \in Nat /\ Len(page) \in Nat
      /\ LeftIn(listed') <= LeftIn(all) + LeftIn(Behind(packs, Len(all)))
      /\ "read" \notin grown => Begins(all, packs)
  BY <1>2, <1>3, <1>4, <1>5, LeftGrows DEF Continued
<1>9. CASE isLast(page, totalCount, Len(all))
  <2>1. folded(all, dosage) \in Sums
    BY <1>4, <1>6, FoldedReports
  <2>2. /\ lookup' \in LookupRecords /\ lookup'.pc = "done" /\ lookup'.all = all
        /\ lookup'.sum = folded(all, dosage)
    BY <1>1, <1>4, <1>7, <1>9, <2>1 DEF LookupRecords
  <2>3. "counted" \notin grown => LeftIn(listed') <= LeftIn(all)
    <3>1. CASE Len(page) < pageSize
      <4>1. Len(all) = Len(packs)
        BY <1>4, <3>1 DEF Continued
      <4>2. LeftIn(Behind(packs, Len(all))) = 0
        BY <1>2, <4>1, BehindEnds
      <4> QED
        BY <1>8, <4>2
    <3>2. CASE totalCount > 0 /\ totalCount <= Len(all) /\ "counted" \notin grown
      <4>1. Begins(listed', packs) /\ Begins(all, packs) /\ Len(listed') <= Len(all)
        BY <1>6, <3>2
      <4>2. Begins(listed', all)
        BY <1>2, <1>4, <1>5, <4>1 DEF Begins
      <4> QED
        BY <1>4, <1>5, <4>2, LeftGrows
    <3> QED
      BY <1>9, <3>1, <3>2 DEF isLast
  <2>4. "read" \notin grown => LeftIn(all) <= LeftIn(packs)
    BY <1>2, <1>4, <1>8, LeftGrows
  <2>5. AllRead'
    BY <1>1, <1>6, <2>2, <2>3, <2>4 DEF AllRead, packs
  <2> QED
    BY <1>1, <1>5, <2>2, <2>5 DEF BalanceTypeOK, PagesInOrder, EnterpriseTold, Finished, ByPackages
<1>10. CASE ~isLast(page, totalCount, Len(all))
  <2>1. /\ lookup' \in LookupRecords /\ lookup'.pc = "read" /\ lookup'.all = all
        /\ lookup'.page = lookup.page + 1 /\ lookup'.totalCount = totalCount
    <3> DEFINE number == lookup.page + 1
    <3>1. number \in Nat \ {0}
      BY <1>2
    <3>2. lookup' = [lookup EXCEPT !.page = number, !.attempts = 0, !.all = all,
                                   !.totalCount = totalCount, !.dosage = dosage]
      BY <1>7, <1>10
    <3> HIDE DEF number
    <3>3. /\ lookup' \in LookupRecords /\ lookup'.pc = "read" /\ lookup'.all = all
          /\ lookup'.page = number /\ lookup'.totalCount = totalCount
      BY <1>1, <1>4, <1>6, <3>1, <3>2 DEF LookupRecords
    <3> QED
      BY <3>3 DEF number
  <2>2. ReadUpTo(packs, all, lookup.page + 1)
    BY <1>2, <1>4, <1>8, <1>10, BalanceAssumption DEF isLast, ReadUpTo, Continued
  <2>3. totalCount # 0 => Len(all) < totalCount
    BY <1>6, <1>8, <1>10 DEF isLast
  <2>4. NothingSkipped'
    BY <1>1, <1>8, <2>1 DEF NothingSkipped, packs
  <2>5. totalCount # 0 /\ "counted" \notin grown => CountHolds'
    BY <1>1, <1>6, <2>1 DEF CountHolds, packs
  <2>6. lookup'.page # 1
    BY <1>2, <2>1
  <2>7. account'.packs = packs /\ ByPackages'
    BY <1>1 DEF packs, ByPackages
  <2>8. PagesInOrder'
    BY <1>1, <1>8, <2>1, <2>2, <2>3, <2>4, <2>5, <2>6, <2>7 DEF PagesInOrder
  <2> QED
    BY <1>1, <1>5, <2>1, <2>7, <2>8 DEF BalanceTypeOK, AllRead, EnterpriseTold, Finished
<1> QED
  BY <1>9, <1>10

(* The invariant says what the property of the run says.                   *)
LEMMA BalanceInvSuffices == BalanceInv => BalanceIsWhole
<1> SUFFICES ASSUME BalanceInv, Finished
             PROVE  IF ByPackages
                      THEN /\ lookup.sum.used >= lookup.sum.size - lookup.sum.remain
                           /\ "counted" \notin grown =>
                                /\ lookup.sum.remain >= LeftIn(listed)
                                /\ isCreditsExhausted(lookup.sum) => \A i \in DOMAIN listed : Left(listed[i]) = 0
                           /\ "read" \notin grown => lookup.sum.remain <= LeftIn(account.packs)
                      ELSE isCreditsExhausted(lookup.sum) => account.limit - account.credit < 4
  BY DEF BalanceIsWhole
<1>1. account.packs \in Seq(Packages) /\ lookup.all \in Seq(Packages) /\ listed \in Seq(Packages)
  BY DEF BalanceInv, BalanceTypeOK, Holders, LookupRecords
<1>2. CASE ByPackages
  <2>1. PICK d \in Int : lookup.sum = folded(lookup.all, d)
    BY <1>2 DEF BalanceInv, AllRead
  <2>2. lookup.sum.remain = LeftIn(lookup.all) /\ lookup.sum.used >= lookup.sum.size - lookup.sum.remain
    BY <1>1, <2>1, FoldedReports
  <2>3. /\ "counted" \notin grown => LeftIn(listed) <= LeftIn(lookup.all)
        /\ "read" \notin grown => LeftIn(lookup.all) <= LeftIn(account.packs)
    BY <1>2 DEF BalanceInv, AllRead
  <2>4. /\ LeftIn(listed) \in Nat /\ LeftIn(lookup.all) \in Nat /\ LeftIn(account.packs) \in Nat
        /\ \A i \in DOMAIN listed : Left(listed[i]) <= LeftIn(listed)
    BY <1>1, LeftGrows
  <2>5. \A i \in DOMAIN listed : Left(listed[i]) \in Nat
    BY <1>1, PartOfPackage
  <2>6. "counted" \notin grown /\ lookup.sum.remain <= 0 => \A i \in DOMAIN listed : Left(listed[i]) = 0
    BY <2>2, <2>3, <2>4, <2>5
  <2>7. /\ "counted" \notin grown => lookup.sum.remain >= LeftIn(listed)
        /\ "read" \notin grown => lookup.sum.remain <= LeftIn(account.packs)
    BY <2>2, <2>3, <2>4
  <2> QED
    BY <1>2, <2>2, <2>6, <2>7 DEF isCreditsExhausted
<1>3. CASE ~ByPackages
  BY <1>3 DEF BalanceInv, EnterpriseTold
<1> QED
  BY <1>2, <1>3

(* Whatever the packages, the size of a page, the failures and wherever    *)
(* packages are granted: a balance that is reported never understates what *)
(* was spent; it holds every package of the list the reading began with,   *)
(* so that nobody is called exhausted who had a credit left, unless a grant *)
(* came among the packages whose number the backend told; and it holds none *)
(* twice, unless a grant came before what was read                         *)
(* (fetchPersonalUserResourceWithCallback and packageRemainUsed).          *)
THEOREM BalanceCorrect == BalanceSpec => []BalanceIsWhole
<1>1. BalanceInv /\ [BalanceNext]_balanceVars => BalanceInv'
  <2> SUFFICES ASSUME BalanceInv, [BalanceNext]_balanceVars
               PROVE  BalanceInv'
    OBVIOUS
  <2>1. CASE UNCHANGED balanceVars
    BY <2>1 DEF balanceVars, BalanceInv, BalanceTypeOK, PagesInOrder, AllRead, EnterpriseTold, Finished,
       ByPackages, NothingSkipped, CountHolds
  <2> QED
    BY <2>1, BalanceInvFetch, BalanceInvFails, BalanceInvRead, BalanceInvGrant DEF BalanceNext, LookedUp
<1> QED
  BY <1>1, BalanceInvInit, BalanceInvSuffices, PTL DEF BalanceSpec

----------------------------------------------------------------------------
(* Usage                                                                   *)

(* The two loops over the rows of a bill.                                  *)
Kept == INSTANCE FoldTheorems WITH op <- withRow
Whole == INSTANCE FoldTheorems WITH op <- Joined

(* They, too, are loops of the theorems about folds.                        *)
LEMMA UsageLoopsAreFolds ==
    ASSUME NEW list
    PROVE  /\ FoldLeft(withRow, <<>>, list) = Kept!Folded(<<>>, list)
           /\ FoldLeft(Joined, <<>>, list) = Whole!Folded(<<>>, list)
<1>1. FoldLeft(withRow, <<>>, list) = Kept!Folded(<<>>, list)
  BY DEF Kept!Folded, FoldLeft, MapThenFoldSet, Max, Kept!MapThenFoldSet, Kept!Highest
<1>2. FoldLeft(Joined, <<>>, list) = Whole!Folded(<<>>, list)
  BY DEF Whole!Folded, FoldLeft, MapThenFoldSet, Max, Whole!MapThenFoldSet, Whole!Highest
<1> QED
  BY <1>1, <1>2

(* No row with an id is in the list twice.                                 *)
Once(rows) == \A i, j \in DOMAIN rows : rows[i] = rows[j] /\ rows[i] \notin NoRequestID => i = j

(* Whatever the pages hold, no row with an id is kept twice,               *)
LEMMA RowsKeptOnce ==
    ASSUME NEW t \in Seq(Int), NEW kept, kept = FoldLeft(withRow, <<>>, t)
    PROVE  kept \in Seq(Int) /\ Once(kept)
<1> DEFINE A == {s \in Seq(Int) : Once(s)}
<1>1. Len(t) \in Nat /\ DOMAIN t = 1..Len(t) /\ \A i \in 1..Len(t) : t[i] \in Int
  OBVIOUS
<1>2. <<>> \in A
  BY DEF Once
<1>3. ASSUME NEW s \in A, NEW i \in 1..Len(t)
      PROVE  withRow(s, t[i]) \in A
  <2>1. s \in Seq(Int) /\ Once(s) /\ t[i] \in Int
    BY <1>1
  <2>2. CASE t[i] \notin NoRequestID /\ Contains(s, t[i])
    BY <2>2 DEF withRow
  <2>3. CASE ~(t[i] \notin NoRequestID /\ Contains(s, t[i]))
    <3> DEFINE a == Append(s, t[i])
    <3>1. withRow(s, t[i]) = a
      BY <2>3 DEF withRow
    <3>2. /\ a \in Seq(Int) /\ DOMAIN a = 1..(Len(s) + 1) /\ DOMAIN s = 1..Len(s) /\ Len(s) \in Nat
          /\ \A j \in 1..Len(s) : a[j] = s[j]
          /\ a[Len(s) + 1] = t[i]
      BY <2>1
    <3>3. t[i] \notin NoRequestID => \A j \in 1..Len(s) : s[j] # t[i]
      BY <2>3 DEF Contains
    <3> HIDE DEF a
    <3>4. \A j \in DOMAIN a : j \in 1..Len(s) \/ j = Len(s) + 1
      BY <3>2
    <3>5. Once(a)
      BY <2>1, <3>2, <3>3, <3>4 DEF Once
    <3> QED
      BY <3>1, <3>2, <3>5
  <2> QED
    BY <2>2, <2>3
<1> HIDE DEF A
<1>4. Kept!Folded(<<>>, t) \in A
  BY <1>1, <1>2, <1>3, Kept!FoldInvariant
<1> QED
  BY <1>4, UsageLoopsAreFolds DEF A

(* and rows that all differ are all kept.                                  *)
LEMMA AllRowsKept ==
    ASSUME NEW t \in Seq(Int), Distinct(t)
    PROVE  FoldLeft(withRow, <<>>, t) = t
<1> DEFINE n == Len(t)
           h == [k \in 0..n |-> SubSeq(t, 1, k)]
<1>1. n \in Nat /\ DOMAIN t = 1..n /\ \A i \in 1..n : t[i] \in Int
  OBVIOUS
<1>2. ASSUME NEW k \in 0..n
      PROVE  /\ SubSeq(t, 1, k) \in Seq(Int) /\ Len(SubSeq(t, 1, k)) = k
             /\ \A i \in 1..k : SubSeq(t, 1, k)[i] = t[i]
  BY <1>1
<1>3. h[0] = <<>>
  BY <1>1, <1>2
<1>4. ASSUME NEW k \in 1..n
      PROVE  h[k] = withRow(h[k - 1], t[k])
  <2> DEFINE s == SubSeq(t, 1, k - 1)
  <2>1. /\ k \in 0..n /\ k - 1 \in 0..n
        /\ s \in Seq(Int) /\ Len(s) = k - 1 /\ \A i \in 1..(k - 1) : s[i] = t[i] /\ i \in DOMAIN t /\ i # k
    BY <1>1, <1>2
  <2>2. ~Contains(s, t[k])
    <3> HIDE DEF s
    <3> QED  BY <1>1, <2>1 DEF Contains, Distinct
  <2>3. h[k] = SubSeq(t, 1, k) /\ h[k - 1] = s
    BY <2>1
  <2>4. SubSeq(t, 1, k) = Append(s, t[k])
    BY <1>1, <2>1, <1>2
  <2> HIDE DEF s, h
  <2> QED
    BY <2>2, <2>3, <2>4 DEF withRow
<1>5. h[n] = t
  BY <1>1, <1>2
<1> HIDE DEF h, n
<1>6. Kept!Trace(<<>>, t, h, n)
  BY <1>3, <1>4 DEF Kept!Trace
<1>7. Kept!Folded(<<>>, t) = h[n]
  BY <1>1, <1>6, Kept!FoldOfTrace
<1> QED
  BY <1>5, <1>7, UsageLoopsAreFolds

(* The end of page p of so many rows.                                      *)
PageEnd(rows, p) == IF p * usagePageSize < Len(rows) THEN p * usagePageSize ELSE Len(rows)

(* A page is the rows between the end of the one before and its own.       *)
LEMMA PageOfRows ==
    ASSUME NEW rows \in Seq(Int), NEW p \in Nat \ {0}
    PROVE  /\ PageEnd(rows, p) \in 0..Len(rows) /\ PageEnd(rows, p - 1) \in 0..Len(rows)
           /\ PageEnd(rows, p - 1) <= PageEnd(rows, p)
           /\ fetchUsagePage(rows, p) \in Seq(Int)
           /\ fetchUsagePage(rows, p) = SubSeq(rows, PageEnd(rows, p - 1) + 1, PageEnd(rows, p))
<1> DEFINE from == (p - 1) * usagePageSize
           to == p * usagePageSize
<1>1. from \in Nat /\ to \in Nat /\ from < to
  BY SMTT(40), UsageAssumption
<1>2. /\ PageEnd(rows, p) = IF to < Len(rows) THEN to ELSE Len(rows)
      /\ PageEnd(rows, p - 1) = IF from < Len(rows) THEN from ELSE Len(rows)
      /\ fetchUsagePage(rows, p) = SubSeq(rows, from + 1, PageEnd(rows, p))
  BY DEF PageEnd, fetchUsagePage
<1> HIDE DEF from, to
<1>3. /\ PageEnd(rows, p) \in 0..Len(rows) /\ PageEnd(rows, p - 1) \in 0..Len(rows)
      /\ PageEnd(rows, p - 1) <= PageEnd(rows, p)
  BY <1>1, <1>2
<1>4. CASE from < Len(rows)
  <2>1. PageEnd(rows, p - 1) = from
    BY <1>2, <1>4
  <2>2. \A e \in 0..Len(rows) : SubSeq(rows, from + 1, e) \in Seq(Int)
    BY <1>1
  <2> QED
    BY <1>2, <1>3, <2>1, <2>2
<1>5. CASE from >= Len(rows)
  <2>1. PageEnd(rows, p) = Len(rows) /\ PageEnd(rows, p - 1) = Len(rows)
    BY <1>1, <1>2, <1>5
  <2>2. SubSeq(rows, from + 1, Len(rows)) = <<>> /\ SubSeq(rows, Len(rows) + 1, Len(rows)) = <<>>
    BY <1>1, <1>5
  <2>3. fetchUsagePage(rows, p) = <<>>
    BY <1>2, <2>1, <2>2
  <2>4. SubSeq(rows, PageEnd(rows, p - 1) + 1, PageEnd(rows, p)) = <<>>
    BY <2>1, <2>2
  <2>5. <<>> \in Seq(Int)
    OBVIOUS
  <2> QED
    BY <1>3, <2>3, <2>4, <2>5
<1> QED
  BY <1>1, <1>4, <1>5

(* Pages are rows, whatever was billed between them,                       *)
LEMMA PagesAreRows ==
    ASSUME NEW pages, NEW n \in Nat, DOMAIN pages = 1..n, \A p \in 1..n : pages[p] \in Seq(Int)
    PROVE  FoldLeft(Joined, <<>>, pages) \in Seq(Int)
<1>1. <<>> \in Seq(Int)
  OBVIOUS
<1>2. \A s \in Seq(Int) : \A p \in 1..n : Joined(s, pages[p]) \in Seq(Int)
  BY DEF Joined
<1>3. Whole!Folded(<<>>, pages) \in Seq(Int)
  BY <1>1, <1>2, Whole!FoldInvariant
<1> QED
  BY <1>3, UsageLoopsAreFolds

(* and the pages of one bill are the bill.                                 *)
LEMMA PagesAreTheBill ==
    ASSUME NEW rows \in Seq(Int), NEW pages, NEW n \in Nat, DOMAIN pages = 1..n,
           \A p \in 1..n : pages[p] = fetchUsagePage(rows, p), PageEnd(rows, n) = Len(rows)
    PROVE  FoldLeft(Joined, <<>>, pages) = rows
<1> DEFINE h == [k \in 0..n |-> SubSeq(rows, 1, PageEnd(rows, k))]
<1>1. Len(rows) \in Nat /\ DOMAIN rows = 1..Len(rows)
  OBVIOUS
<1>2. h[0] = <<>>
  <2>1. PageEnd(rows, 0) = 0
    BY <1>1, UsageAssumption DEF PageEnd
  <2> QED
    BY <2>1
<1>3. ASSUME NEW k \in 1..n
      PROVE  h[k] = Joined(h[k - 1], pages[k])
  <2>1. /\ PageEnd(rows, k) \in 0..Len(rows) /\ PageEnd(rows, k - 1) \in 0..Len(rows)
        /\ PageEnd(rows, k - 1) <= PageEnd(rows, k)
        /\ pages[k] = SubSeq(rows, PageEnd(rows, k - 1) + 1, PageEnd(rows, k))
    <3>1. k \in Nat \ {0} /\ pages[k] = fetchUsagePage(rows, k)
      OBVIOUS
    <3> QED
      BY <3>1, PageOfRows
  <2>2. \A i, j \in 0..Len(rows) : i <= j => SubSeq(rows, 1, j) = SubSeq(rows, 1, i) \o SubSeq(rows, i + 1, j)
    <3> SUFFICES ASSUME NEW i \in 0..Len(rows), NEW j \in 0..Len(rows), i <= j
                 PROVE  SubSeq(rows, 1, j) = SubSeq(rows, 1, i) \o SubSeq(rows, i + 1, j)
      OBVIOUS
    <3> QED
      BY SMTT(40), <1>1
  <2>3. h[k] = SubSeq(rows, 1, PageEnd(rows, k)) /\ h[k - 1] = SubSeq(rows, 1, PageEnd(rows, k - 1))
    <3>1. k \in 0..n /\ k - 1 \in 0..n
      OBVIOUS
    <3> QED
      BY <3>1
  <2> HIDE DEF h
  <2> QED
    BY <2>1, <2>2, <2>3 DEF Joined
<1>4. h[n] = rows
  BY <1>1
<1> HIDE DEF h
<1>5. Whole!Trace(<<>>, pages, h, n)
  BY <1>2, <1>3 DEF Whole!Trace
<1>6. Whole!Folded(<<>>, pages) = h[n]
  BY <1>5, Whole!FoldOfTrace
<1> QED
  BY <1>4, <1>6, UsageLoopsAreFolds
----------------------------------------------------------------------------
FetchPoints == {"none", "load", "first", "pages", "read", "failed"}

FetchShape(f) ==
    f \in [pc : FetchPoints, endpoint : {f.endpoint}, pages : {f.pages}, since : {f.since},
           shifted : BOOLEAN, counted : {f.counted}]

pageCount(total) == (total + usagePageSize - 1) \div usagePageSize

(* While its pages are read: each is rows of some time, and unless the     *)
(* bill moved meanwhile, its own part of the bill as it is and was.        *)
PagesOK(f, rows) ==
    /\ f.since \in Seq(Int) /\ Distinct(f.since)
    /\ DOMAIN f.pages = 1..pageCount(Len(f.since))
    /\ \A p \in DOMAIN f.pages : f.pages[p] \in Seq(Int) \union {Unread, Failed}
    /\ ~f.shifted => /\ rows = f.since
                     /\ \A p \in DOMAIN f.pages : f.pages[p] \in {Unread, Failed, fetchUsagePage(rows, p)}

(* When they are read: no row with an id is there twice, and all rows are  *)
(* there if the bill stood still.                                          *)
ReadOK(f) ==
    /\ f.since \in Seq(Int) /\ Distinct(f.since)
    /\ f.counted \in Seq(Int) /\ Once(f.counted)
    /\ ~f.shifted => f.counted = f.since

FetchOK(f, rows) ==
    /\ FetchShape(f)
    /\ f.pc = "pages" => PagesOK(f, rows)
    /\ f.pc = "read" => ReadOK(f)

(* The rows of a bill differ, and no row that is still to come is on it.   *)
BillOK(rows) ==
    /\ rows \in Seq(Int) /\ Distinct(rows)
    /\ \A i \in DOMAIN rows : rows[i] > MaxBilled \/ rows[i] <= billed

AnswerOK(a) == a \notin {NoAnswer, BadGateway} => \A u \in Payers : RightlyCounted(a[u])

QueryShape(r) == r \in [pc : {r.pc}, answer : {r.answer}]

BillsOK == billed \in Nat /\ bill = [u \in Payers |-> bill[u]] /\ \A u \in Payers : BillOK(bill[u])

FetchesOK == fetch = [u \in Payers |-> fetch[u]] /\ \A u \in Payers : FetchOK(fetch[u], bill[u])

AnswersOK ==
    /\ query = [q \in Queries |-> query[q]]
    /\ \A q \in Queries : QueryShape(query[q]) /\ AnswerOK(query[q].answer)
    /\ usageCache # NoAnswer => /\ usageCache \in [answer : {usageCache.answer}, expired : BOOLEAN]
                                /\ AnswerOK(usageCache.answer)

UsageInv == BillsOK /\ FetchesOK /\ AnswersOK

Enough(t, s) == LET n == (t + s - 1) \div s IN n \in Nat /\ n * s >= t

(* The pages asked for reach to the end of the bill.                       *)
LEMMA PagesReach ==
    ASSUME NEW rows \in Seq(Int)
    PROVE  pageCount(Len(rows)) \in Nat /\ PageEnd(rows, pageCount(Len(rows))) = Len(rows)
<1>1. \A t \in Nat, s \in Nat \ {0} : Enough(t, s)
  BY DEF Enough
<1>2. Len(rows) \in Nat /\ usagePageSize \in Nat \ {0}
  BY UsageAssumption
<1>3. Enough(Len(rows), usagePageSize)
  BY <1>1, <1>2
<1>4. pageCount(Len(rows)) \in Nat /\ pageCount(Len(rows)) * usagePageSize >= Len(rows)
  BY <1>3 DEF pageCount, Enough
<1> DEFINE reach == pageCount(Len(rows)) * usagePageSize
<1>5. reach \in Nat /\ reach >= Len(rows)
  BY <1>2, <1>4
<1>6. PageEnd(rows, pageCount(Len(rows))) = IF reach < Len(rows) THEN reach ELSE Len(rows)
  BY DEF PageEnd
<1> HIDE DEF reach
<1> QED
  BY <1>2, <1>4, <1>5, <1>6

(* A fetch that starts over, for the next endpoint or not at all.          *)
LEMMA NextEndpointOK ==
    ASSUME NEW f, NEW rows, FetchShape(f)
    PROVE  FetchOK(NextEndpoint(f), rows)
<1>1. CASE f.endpoint = candidates
  <2> DEFINE g == [f EXCEPT !.pc = "failed"]
  <2>1. FetchShape(g) /\ g.pc = "failed"
    BY DEF FetchShape, FetchPoints
  <2> HIDE DEF g
  <2>2. NextEndpoint(f) = g
    BY <1>1 DEF NextEndpoint, g
  <2> QED
    BY <2>1, <2>2 DEF FetchOK
<1>2. CASE f.endpoint # candidates
  <2> DEFINE g == [NoFetch EXCEPT !.pc = "first", !.endpoint = f.endpoint + 1]
  <2>1. FetchShape(g) /\ g.pc = "first"
    BY DEF FetchShape, FetchPoints, NoFetch
  <2> HIDE DEF g
  <2>2. NextEndpoint(f) = g
    BY <1>2 DEF NextEndpoint, g
  <2> QED
    BY <2>1, <2>2 DEF FetchOK
<1> QED
  BY <1>1, <1>2

(* How often a row of a list is counted.                                   *)
LEMMA CountOfRow ==
    ASSUME NEW rows \in Seq(Int), NEW row, NEW n, n = Cardinality({i \in DOMAIN rows : rows[i] = row})
    PROVE  /\ Once(rows) /\ row \notin NoRequestID => n <= 1
           /\ Distinct(rows) => n = IF row \in ToSet(rows) THEN 1 ELSE 0
<1> DEFINE at == {i \in DOMAIN rows : rows[i] = row}
<1>1. at = {} => n = 0
  BY FS_EmptySet
<1>2. \A i : at = {i} => n = 1
  BY FS_Singleton
<1>3. row \in ToSet(rows) <=> at # {}
  BY DEF ToSet
<1>4. (Once(rows) /\ row \notin NoRequestID) \/ Distinct(rows) => at = {} \/ \E i : at = {i}
  BY DEF Once, Distinct
<1>5. at = {} \/ (\E i : at = {i}) => n = IF row \in ToSet(rows) THEN 1 ELSE 0
  <2> HIDE DEF at
  <2>1. CASE at = {}
    BY <1>1, <1>3, <2>1
  <2>2. CASE \E i : at = {i}
    <3>1. PICK i : at = {i}
      BY <2>2
    <3>2. at # {} /\ n = 1
      BY <1>2, <3>1
    <3> QED
      BY <1>3, <3>2
  <2> QED
    BY <2>1, <2>2
<1>6. \A k \in {0, 1} : k <= 1
  OBVIOUS
<1> HIDE DEF at
<1> QED
  BY <1>4, <1>5, <1>6

(* What is read well is counted well.                                      *)
LEMMA AggregateRight ==
    ASSUME NEW f, NEW rows, FetchOK(f, rows), f.pc \in {"read", "failed"}
    PROVE  RightlyCounted(aggregateUsage(f))
<1>1. CASE f.pc = "failed"
  BY <1>1 DEF aggregateUsage, RightlyCounted
<1>2. CASE f.pc = "read"
  <2> DEFINE a == aggregateUsage(f)
  <2>1. ReadOK(f)
    BY <1>2 DEF FetchOK
  <2>2. /\ DOMAIN a.count = ToSet(f.counted) \union ToSet(f.since)
        /\ \A row \in DOMAIN a.count : a.count[row] = Cardinality({i \in DOMAIN f.counted : f.counted[i] = row})
        /\ a.since = ToSet(f.since) /\ a.shifted = f.shifted
    BY <1>2 DEF aggregateUsage
  <2> HIDE DEF a
  <2>3. \A row \in DOMAIN a.count \ NoRequestID : a.count[row] <= 1
    BY <2>1, <2>2, CountOfRow DEF ReadOK
  <2>4. ASSUME ~a.shifted, NEW row \in DOMAIN a.count
        PROVE  a.count[row] = IF row \in a.since THEN 1 ELSE 0
    BY <2>1, <2>2, <2>4, CountOfRow DEF ReadOK
  <2>5. RightlyCounted(a)
    BY <2>3, <2>4 DEF RightlyCounted
  <2> QED
    BY <2>5 DEF a
<1> QED
  BY <1>1, <1>2
(* A fetch that has not begun.                                             *)
LEMMA NoFetchOK ==
    ASSUME NEW pt \in FetchPoints \ {"pages", "read"}, NEW rows
    PROVE  FetchOK([NoFetch EXCEPT !.pc = pt], rows) /\ FetchOK(NoFetch, rows)
<1> DEFINE f == [NoFetch EXCEPT !.pc = pt]
<1>1. FetchShape(f) /\ f.pc = pt /\ FetchShape(NoFetch) /\ NoFetch.pc = "none"
  BY DEF FetchShape, FetchPoints, NoFetch
<1> HIDE DEF f
<1>2. FetchOK(f, rows) /\ FetchOK(NoFetch, rows)
  BY <1>1 DEF FetchOK
<1> QED
  BY <1>2 DEF f

(* It holds at the start.                                                  *)
LEMMA UsageInvInit == UsageInit => UsageInv
<1> SUFFICES ASSUME UsageInit PROVE UsageInv
  OBVIOUS
<1>1. BillsOK
  <2>1. bill \in [Payers -> Seq(Int)] /\ bill \in Bills /\ billed = 0
    BY UsageAssumption DEF UsageInit
  <2>2. ASSUME NEW u \in Payers PROVE BillOK(bill[u])
    BY <2>1, UsageAssumption DEF BillOK
  <2> QED
    BY <2>1, <2>2 DEF BillsOK
<1>2. FetchesOK
  <2>1. fetch = [u \in Payers |-> NoFetch]
    BY DEF UsageInit
  <2>2. \A u \in Payers : FetchOK(NoFetch, bill[u])
    <3>1. "none" \in FetchPoints \ {"pages", "read"}
      BY DEF FetchPoints
    <3> QED
      BY <3>1, NoFetchOK
  <2> QED
    BY <2>1, <2>2 DEF FetchesOK
<1>3. AnswersOK
  BY DEF UsageInit, AnswersOK, QueryShape, AnswerOK
<1> QED
  BY <1>1, <1>2, <1>3 DEF UsageInv

(* A step of the reading of one bill.                                      *)
LEMMA OneFetchMoves ==
    ASSUME FetchesOK, NEW u \in Payers, NEW f, FetchOK(f, bill[u]),
           fetch' = [fetch EXCEPT ![u] = f], UNCHANGED bill
    PROVE  FetchesOK'
<1>1. \A v \in Payers : fetch'[v] = IF v = u THEN f ELSE fetch[v]
  BY DEF FetchesOK
<1>2. fetch' = [v \in Payers |-> fetch'[v]]
  BY DEF FetchesOK
<1>3. \A v \in Payers : FetchOK(fetch'[v], bill'[v])
  BY <1>1 DEF FetchesOK
<1> QED
  BY <1>2, <1>3 DEF FetchesOK

(* The credential is read, or is not.                                      *)
LEMMA BundleStep ==
    ASSUME UsageInv, NEW u \in Payers, hostAuthGetBundle(u)
    PROVE  FetchesOK'
<1>1. FetchShape(fetch[u]) /\ FetchesOK
  BY DEF UsageInv, FetchesOK, FetchOK
<1>2. PICK pt \in {"first", "failed"} : fetch' = [fetch EXCEPT ![u].pc = pt]
  BY DEF hostAuthGetBundle
<1> DEFINE f == [fetch[u] EXCEPT !.pc = pt]
<1>3. FetchShape(f) /\ f.pc = pt
  BY <1>1 DEF FetchShape, FetchPoints
<1>4. fetch' = [fetch EXCEPT ![u] = f] /\ UNCHANGED bill
  BY <1>2 DEF hostAuthGetBundle
<1> HIDE DEF f
<1>5. FetchOK(f, bill[u])
  BY <1>3 DEF FetchOK
<1> QED
  BY <1>1, <1>4, <1>5, OneFetchMoves

(* The first page: the whole bill, or the first of the pages.              *)
LEMMA FirstPageStep ==
    ASSUME UsageInv, NEW u \in Payers, firstPage(u)
    PROVE  FetchesOK'
<1> DEFINE rows == bill[u]
           page == fetchUsagePage(rows, 1)
           total == Len(rows)
           read == [fetch[u] EXCEPT !.since = rows, !.shifted = FALSE]
           whole == [read EXCEPT !.pc = "read", !.counted = page]
           pages == [p \in 1..pageCount(total) |-> IF p = 1 THEN page ELSE Unread]
           begun == [read EXCEPT !.pc = "pages", !.pages = pages]
<1>1. /\ FetchesOK /\ FetchShape(fetch[u])
      /\ rows \in Seq(Int) /\ Distinct(rows) /\ total \in Nat
      /\ page \in Seq(Int)
  <2>1. FetchesOK /\ FetchShape(fetch[u]) /\ rows \in Seq(Int) /\ Distinct(rows)
    BY DEF UsageInv, FetchesOK, FetchOK, BillsOK, BillOK
  <2>2. 1 \in Nat \ {0}
    OBVIOUS
  <2>3. page \in Seq(Int)
    BY <2>1, <2>2, PageOfRows
  <2> QED
    BY <2>1, <2>3
<1>2. UNCHANGED bill
  BY DEF firstPage
<1>3. \/ fetch' = [fetch EXCEPT ![u] = NextEndpoint(fetch[u])]
      \/ (Len(page) < usagePageSize \/ Len(page) >= total) /\ fetch' = [fetch EXCEPT ![u] = whole]
      \/ fetch' = [fetch EXCEPT ![u] = begun]
  BY DEF firstPage, pageCount
<1>4. CASE fetch' = [fetch EXCEPT ![u] = NextEndpoint(fetch[u])]
  <2>1. FetchOK(NextEndpoint(fetch[u]), bill[u])
    BY <1>1, NextEndpointOK
  <2> QED
    BY <1>1, <1>2, <1>4, <2>1, OneFetchMoves
<1>5. CASE (Len(page) < usagePageSize \/ Len(page) >= total) /\ fetch' = [fetch EXCEPT ![u] = whole]
  <2>1. FetchShape(whole) /\ whole.pc = "read" /\ whole.since = rows /\ whole.counted = page
    BY <1>1 DEF FetchShape, FetchPoints
  <2>2. page = rows
    <3>1. /\ usagePageSize \in Nat \ {0}
          /\ page = SubSeq(rows, 1, IF usagePageSize < total THEN usagePageSize ELSE total)
      <4>1. usagePageSize \in Nat \ {0} /\ (1 - 1) * usagePageSize = 0 /\ 1 * usagePageSize = usagePageSize
        BY UsageAssumption
      <4>2. page = SubSeq(rows, (1 - 1) * usagePageSize + 1,
                          IF 1 * usagePageSize < total THEN 1 * usagePageSize ELSE total)
        BY DEF fetchUsagePage
      <4>3. (1 - 1) * usagePageSize + 1 = 1 /\ 1 * usagePageSize = usagePageSize
        BY <4>1
      <4> HIDE DEF page, rows, total
      <4> QED
        BY ONLY <4>1, <4>2, <4>3, Zenon
    <3>2. CASE usagePageSize < total
      <4>1. Len(page) = usagePageSize
        BY <1>1, <3>1, <3>2
      <4> QED
        BY <1>1, <1>5, <3>1, <3>2, <4>1
    <3>3. CASE usagePageSize >= total
      <4>1. page = SubSeq(rows, 1, Len(rows))
        BY <1>1, <3>1, <3>3
      <4>2. \A t \in Seq(Int) : SubSeq(t, 1, Len(t)) = t
        OBVIOUS
      <4> QED
        BY <1>1, <4>1, <4>2
    <3> QED
      BY <1>1, <3>1, <3>2, <3>3
  <2> HIDE DEF whole, page, rows
  <2>3. Once(rows)
    BY <1>1 DEF Once, Distinct
  <2>4. FetchOK(whole, rows)
    BY <1>1, <2>1, <2>2, <2>3 DEF FetchOK, ReadOK
  <2> QED
    BY <1>1, <1>2, <1>5, <2>4, OneFetchMoves DEF rows
<1>6. CASE fetch' = [fetch EXCEPT ![u] = begun]
  <2>1. FetchShape(begun) /\ begun.pc = "pages" /\ begun.since = rows /\ begun.pages = pages
    BY <1>1 DEF FetchShape, FetchPoints
  <2>2. /\ DOMAIN pages = 1..pageCount(total)
        /\ \A p \in DOMAIN pages : pages[p] \in {Unread, fetchUsagePage(rows, p)} /\ pages[p] \in Seq(Int) \union {Unread}
    BY <1>1
  <2> HIDE DEF begun, pages, page
  <2>3. PagesOK(begun, rows)
    BY <1>1, <2>1, <2>2 DEF PagesOK
  <2>4. FetchOK(begun, rows)
    BY <2>1, <2>3 DEF FetchOK
  <2> QED
    BY <1>1, <1>2, <1>6, <2>4, OneFetchMoves
<1> QED
  BY <1>3, <1>4, <1>5, <1>6

(* One of the other pages, as the bill is then.                            *)
LEMMA OtherPageStep ==
    ASSUME UsageInv, NEW u \in Payers, otherPage(u)
    PROVE  FetchesOK'
<1>1. FetchesOK /\ FetchShape(fetch[u]) /\ fetch[u].pc = "pages" /\ PagesOK(fetch[u], bill[u]) /\ bill[u] \in Seq(Int)
  BY DEF otherPage, UsageInv, FetchesOK, FetchOK, BillsOK, BillOK
<1>2. PICK p \in DOMAIN fetch[u].pages : \E page \in {fetchUsagePage(bill[u], p), Failed} :
         fetch' = [fetch EXCEPT ![u].pages[p] = page]
  BY DEF otherPage
<1>3. PICK page \in {fetchUsagePage(bill[u], p), Failed} : fetch' = [fetch EXCEPT ![u].pages[p] = page]
  BY <1>2
<1> DEFINE pages == [fetch[u].pages EXCEPT ![p] = page]
           f == [fetch[u] EXCEPT !.pages = pages]
<1>4. fetch' = [fetch EXCEPT ![u] = f] /\ UNCHANGED bill
  BY <1>3 DEF otherPage
<1>5. DOMAIN fetch[u].pages = 1..pageCount(Len(fetch[u].since)) /\ pageCount(Len(fetch[u].since)) \in Nat
  BY <1>1, PagesReach DEF PagesOK
<1>6. p \in Nat \ {0}
  BY <1>5
<1>7. page \in Seq(Int) \union {Failed}
  BY <1>1, <1>3, <1>6, PageOfRows
<1>8. DOMAIN pages = DOMAIN fetch[u].pages /\ \A i \in DOMAIN pages : pages[i] = IF i = p THEN page ELSE fetch[u].pages[i]
  OBVIOUS
<1>9. FetchShape(f) /\ f.pc = "pages" /\ f.since = fetch[u].since /\ f.shifted = fetch[u].shifted /\ f.pages = pages
  BY <1>1 DEF FetchShape, FetchPoints
<1> HIDE DEF f, pages
<1>10. PagesOK(f, bill[u])
  BY <1>1, <1>3, <1>7, <1>8, <1>9 DEF PagesOK
<1>11. FetchOK(f, bill[u])
  BY <1>9, <1>10 DEF FetchOK
<1> QED
  BY <1>1, <1>4, <1>11, OneFetchMoves

(* All pages together.                                                     *)
LEMMA CollectStep ==
    ASSUME UsageInv, NEW u \in Payers, collect(u)
    PROVE  FetchesOK'
<1> DEFINE old == fetch[u]
           pages == old.pages
           joined == FoldLeft(Joined, <<>>, pages)
           kept == FoldLeft(withRow, <<>>, joined)
           f == [old EXCEPT !.pc = "read", !.counted = kept, !.pages = <<>>]
<1>1. FetchesOK /\ FetchShape(old) /\ old.pc = "pages" /\ PagesOK(old, bill[u]) /\ UNCHANGED bill
  BY DEF collect, UsageInv, FetchesOK, FetchOK
<1>2. CASE \E p \in DOMAIN pages : pages[p] = Failed
  <2>1. fetch' = [fetch EXCEPT ![u] = NextEndpoint(old)]
    BY <1>2 DEF collect
  <2>2. FetchOK(NextEndpoint(old), bill[u])
    BY <1>1, NextEndpointOK
  <2> QED
    BY <1>1, <2>1, <2>2, OneFetchMoves
<1>3. CASE ~ \E p \in DOMAIN pages : pages[p] = Failed
  <2>1. fetch' = [fetch EXCEPT ![u] = f]
    BY <1>3 DEF collect
  <2>2. FetchShape(f) /\ f.pc = "read" /\ f.since = old.since /\ f.shifted = old.shifted /\ f.counted = kept
    BY <1>1 DEF FetchShape, FetchPoints
  <2> DEFINE n == pageCount(Len(old.since))
  <2>3. /\ old.since \in Seq(Int) /\ Distinct(old.since)
        /\ n \in Nat /\ DOMAIN pages = 1..n /\ PageEnd(old.since, n) = Len(old.since)
    BY <1>1, PagesReach DEF PagesOK
  <2>4. \A p \in DOMAIN pages : pages[p] # Unread /\ pages[p] # Failed
    BY <1>3 DEF collect
  <2>5. /\ \A p \in 1..n : pages[p] \in Seq(Int)
        /\ ~old.shifted => \A p \in 1..n : pages[p] = fetchUsagePage(old.since, p)
    BY <1>1, <2>3, <2>4 DEF PagesOK
  <2> HIDE DEF pages, n, f
  <2>6. joined \in Seq(Int)
    BY <2>3, <2>5, PagesAreRows
  <2>7. ~old.shifted => joined = old.since
    BY <2>3, <2>5, PagesAreTheBill
  <2> HIDE DEF joined
  <2>8. kept \in Seq(Int) /\ Once(kept)
    BY <2>6, RowsKeptOnce
  <2>9. ~old.shifted => kept = old.since
    BY <2>3, <2>7, AllRowsKept
  <2> HIDE DEF kept
  <2>10. FetchOK(f, bill[u])
    BY <2>2, <2>3, <2>8, <2>9 DEF FetchOK, ReadOK
  <2> QED
    BY <1>1, <2>1, <2>10, OneFetchMoves
<1> QED
  BY <1>2, <1>3

(* A row is billed: it is a new one, and a reading under way is told.      *)
LEMMA BillRowStep ==
    ASSUME UsageInv, NEW u \in Payers, BillRow(u)
    PROVE  BillsOK' /\ FetchesOK'
<1> DEFINE row == billed + 1
           rows == <<row>> \o bill[u]
           f == [fetch[u] EXCEPT !.shifted = fetch[u].shifted \/ fetch[u].pc = "pages"]
<1>1. /\ billed \in Nat /\ billed < MaxBilled /\ MaxBilled \in Nat /\ billed' = row
      /\ bill' = [bill EXCEPT ![u] = rows] /\ fetch' = [fetch EXCEPT ![u] = f]
  BY UsageAssumption DEF BillRow, UsageInv, BillsOK
<1>2. \A v \in Payers : BillOK(bill[v])
  BY DEF UsageInv, BillsOK
<1>3. /\ rows \in Seq(Int) /\ DOMAIN rows = 1..(Len(bill[u]) + 1) /\ rows[1] = row
      /\ DOMAIN bill[u] = 1..Len(bill[u]) /\ Len(bill[u]) \in Nat
      /\ \A i \in 2..(Len(bill[u]) + 1) : rows[i] = bill[u][i - 1]
  BY <1>1, <1>2 DEF BillOK
<1>4. \A i \in DOMAIN rows : i = 1 \/ (i \in 2..(Len(bill[u]) + 1) /\ i - 1 \in DOMAIN bill[u])
  BY <1>3
<1>5. \A i \in DOMAIN bill[u] : bill[u][i] \in Int /\ (bill[u][i] > MaxBilled \/ bill[u][i] <= billed)
  BY <1>2 DEF BillOK
<1>6. \A v \in Payers : bill'[v] = IF v = u THEN rows ELSE bill[v]
  BY <1>1 DEF UsageInv, BillsOK
<1> HIDE DEF rows
<1>7. \A i \in DOMAIN rows : rows[i] > MaxBilled \/ rows[i] <= row
  <2> TAKE i \in DOMAIN rows
  <2>1. CASE i = 1
    BY <1>1, <1>3, <2>1
  <2>2. CASE i # 1
    <3>1. rows[i] = bill[u][i - 1] /\ i - 1 \in DOMAIN bill[u]
      BY <1>3, <1>4, <2>2
    <3> QED
      BY <1>1, <1>5, <3>1
  <2> QED
    BY <2>1, <2>2
<1>8. \A i \in DOMAIN bill[u] : bill[u][i] # row
  BY <1>1, <1>5
<1>9. Distinct(rows)
  <2> SUFFICES ASSUME NEW i \in DOMAIN rows, NEW j \in DOMAIN rows, rows[i] = rows[j]
               PROVE  i = j
    BY DEF Distinct
  <2>1. CASE i = 1 /\ j # 1
    BY <1>3, <1>4, <1>8, <2>1
  <2>2. CASE i # 1 /\ j = 1
    BY <1>3, <1>4, <1>8, <2>2
  <2>3. CASE i # 1 /\ j # 1
    <3>1. bill[u][i - 1] = bill[u][j - 1] /\ i - 1 \in DOMAIN bill[u] /\ j - 1 \in DOMAIN bill[u]
      BY <1>3, <1>4, <2>3
    <3>2. i - 1 = j - 1
      BY <1>2, <3>1 DEF BillOK, Distinct
    <3> QED
      BY <1>3, <3>2
  <2> QED
    BY <2>1, <2>2, <2>3
<1>10. ASSUME NEW v \in Payers
       PROVE  BillOK(bill[v])' 
  <2>1. CASE v = u
    BY <1>1, <1>3, <1>6, <1>7, <1>9, <2>1 DEF BillOK
  <2>2. CASE v # u
    <3>1. \A i \in DOMAIN bill[v] : bill[v][i] \in Int /\ (bill[v][i] > MaxBilled \/ bill[v][i] <= row)
      BY <1>1, <1>2 DEF BillOK
    <3> QED
      BY <1>1, <1>2, <1>6, <2>2, <3>1 DEF BillOK
  <2> QED
    BY <2>1, <2>2
<1>11. BillsOK'
  <2>1. bill' = [v \in Payers |-> bill'[v]]
    BY <1>1 DEF UsageInv, BillsOK
  <2> QED
    BY <1>1, <1>10, <2>1 DEF BillsOK
<1>12. FetchOK(fetch[u], bill[u]) /\ fetch = [v \in Payers |-> fetch[v]]
  BY DEF UsageInv, FetchesOK
<1>13. /\ FetchShape(f) /\ f.pc = fetch[u].pc /\ f.since = fetch[u].since /\ f.pages = fetch[u].pages
       /\ f.counted = fetch[u].counted /\ f.shifted = (fetch[u].shifted \/ fetch[u].pc = "pages")
  BY <1>12 DEF FetchOK, FetchShape, FetchPoints
<1>14. \A v \in Payers : fetch'[v] = IF v = u THEN f ELSE fetch[v]
  BY <1>1, <1>12
<1> HIDE DEF f
<1>15. FetchOK(f, rows)
  <2>1. CASE f.pc = "pages"
    BY <1>12, <1>13, <2>1 DEF FetchOK, PagesOK
  <2>2. CASE f.pc # "pages"
    BY <1>12, <1>13, <2>2 DEF FetchOK, ReadOK
  <2> QED
    BY <2>1, <2>2
<1>16. \A v \in Payers : FetchOK(fetch'[v], bill'[v])
  BY <1>6, <1>14, <1>15 DEF UsageInv, FetchesOK
<1>17. fetch' = [v \in Payers |-> fetch'[v]]
  BY <1>1, <1>12
<1> QED
  BY <1>11, <1>16, <1>17 DEF FetchesOK
(* A query moves on, with an answer that is right or with the one it has.  *)
LEMMA OneQueryMoves ==
    ASSUME AnswersOK, NEW q \in Queries, NEW r, QueryShape(r), AnswerOK(r.answer),
           query' = [query EXCEPT ![q] = r], UNCHANGED usageCache
    PROVE  AnswersOK'
<1>1. \A v \in Queries : query'[v] = IF v = q THEN r ELSE query[v]
  BY DEF AnswersOK
<1>2. query' = [v \in Queries |-> query'[v]]
  BY DEF AnswersOK
<1>3. \A v \in Queries : QueryShape(query'[v]) /\ AnswerOK(query'[v].answer)
  BY <1>1 DEF AnswersOK
<1> QED
  BY <1>2, <1>3 DEF AnswersOK

(* A query keeps its answer while it waits its turn.                       *)
LEMMA QueryStays ==
    ASSUME AnswersOK, NEW q \in Queries, NEW pt,
           query' = [query EXCEPT ![q].pc = pt], UNCHANGED usageCache
    PROVE  AnswersOK'
<1> DEFINE r == [query[q] EXCEPT !.pc = pt]
<1>1. QueryShape(r) /\ r.answer = query[q].answer
  BY DEF AnswersOK, QueryShape
<1>2. query' = [query EXCEPT ![q] = r] /\ AnswerOK(query[q].answer)
  BY DEF AnswersOK
<1> HIDE DEF r
<1> QED
  BY <1>1, <1>2, OneQueryMoves

(* The answer out of the cache, or the way to the flight.                  *)
LEMMA CachedStep ==
    ASSUME UsageInv, NEW q \in Queries, cachedUsage(q)
    PROVE  AnswersOK'
<1>1. AnswersOK /\ UNCHANGED usageCache
  BY DEF UsageInv, cachedUsage
<1>2. CASE q \notin Refreshing /\ usageCache # NoAnswer /\ ~usageCache.expired
  <2> DEFINE r == [pc |-> "done", answer |-> usageCache.answer]
  <2>1. query' = [query EXCEPT ![q] = r] /\ QueryShape(r) /\ r.answer = usageCache.answer
    BY <1>2 DEF cachedUsage, QueryShape
  <2>2. AnswerOK(usageCache.answer)
    BY <1>1, <1>2 DEF AnswersOK
  <2> HIDE DEF r
  <2> QED
    BY <1>1, <2>1, <2>2, OneQueryMoves
<1>3. CASE ~(q \notin Refreshing /\ usageCache # NoAnswer /\ ~usageCache.expired)
  <2>1. query' = [query EXCEPT ![q].pc = "begin"]
    BY <1>3 DEF cachedUsage
  <2> QED
    BY <1>1, <2>1, QueryStays
<1> QED
  BY <1>2, <1>3

(* The flight begins, with all fetches or without the list of accounts.    *)
LEMMA FreshStep ==
    ASSUME UsageInv, NEW q \in Queries, handleUsageQueryFresh(q)
    PROVE  AnswersOK' /\ FetchesOK'
<1>1. AnswersOK /\ FetchesOK /\ UNCHANGED <<bill, usageCache>>
  BY DEF UsageInv, handleUsageQueryFresh
<1>2. CASE /\ query' = [query EXCEPT ![q].pc = "fetch"]
           /\ fetch' = [u \in Payers |-> [NoFetch EXCEPT !.pc = "load"]]
  <2>1. "load" \in FetchPoints \ {"pages", "read"}
    BY DEF FetchPoints
  <2>2. \A u \in Payers : FetchOK([NoFetch EXCEPT !.pc = "load"], bill'[u])
    BY <2>1, NoFetchOK
  <2>3. FetchesOK'
    BY <1>2, <2>2 DEF FetchesOK
  <2> QED
    BY <1>1, <1>2, <2>3, QueryStays
<1>3. CASE query' = [query EXCEPT ![q] = [pc |-> "finish", answer |-> BadGateway]] /\ UNCHANGED fetch
  <2> DEFINE r == [pc |-> "finish", answer |-> BadGateway]
  <2>1. QueryShape(r) /\ AnswerOK(r.answer)
    BY DEF QueryShape, AnswerOK
  <2>2. query' = [query EXCEPT ![q] = r]
    BY <1>3
  <2> HIDE DEF r
  <2>3. AnswersOK'
    BY <1>1, <2>1, <2>2, OneQueryMoves
  <2>4. FetchesOK'
    BY <1>1, <1>3 DEF FetchesOK
  <2> QED
    BY <2>3, <2>4
<1> QED
  BY <1>2, <1>3 DEF handleUsageQueryFresh

(* The answer of the flight is right for every account.                    *)
LEMMA StoreStep ==
    ASSUME UsageInv, NEW q \in Queries, storeUsageCache(q)
    PROVE  AnswersOK' /\ FetchesOK'
<1> DEFINE answer == [u \in Payers |-> aggregateUsage(fetch[u])]
           r == [pc |-> "finish", answer |-> answer]
<1>1. /\ \A u \in Payers : fetch[u].pc \in {"read", "failed"}
      /\ usageCache' = [answer |-> answer, expired |-> FALSE]
      /\ query' = [query EXCEPT ![q] = r]
      /\ fetch' = [u \in Payers |-> NoFetch] /\ UNCHANGED bill
  BY DEF storeUsageCache
<1>2. \A u \in Payers : RightlyCounted(answer[u])
  BY <1>1, AggregateRight DEF UsageInv, FetchesOK
<1> HIDE DEF answer
<1>3. AnswerOK(answer)
  BY <1>2 DEF AnswerOK
<1>4. QueryShape(r) /\ r.answer = answer
  BY DEF QueryShape
<1> HIDE DEF r
<1>5. \A v \in Queries : query'[v] = IF v = q THEN r ELSE query[v]
  BY <1>1 DEF UsageInv, AnswersOK
<1>6. \A v \in Queries : QueryShape(query'[v]) /\ AnswerOK(query'[v].answer)
  BY <1>3, <1>4, <1>5 DEF UsageInv, AnswersOK
<1>7. query' = [v \in Queries |-> query'[v]]
  BY <1>1 DEF UsageInv, AnswersOK
<1>8. usageCache' \in [answer : {usageCache'.answer}, expired : BOOLEAN] /\ AnswerOK(usageCache'.answer)
  BY <1>1, <1>3
<1>9. FetchesOK'
  <2>1. "none" \in FetchPoints \ {"pages", "read"}
    BY DEF FetchPoints
  <2>2. \A u \in Payers : FetchOK(NoFetch, bill'[u])
    BY <2>1, NoFetchOK
  <2> QED
    BY <1>1, <2>2 DEF FetchesOK
<1> QED
  BY <1>6, <1>7, <1>8, <1>9 DEF AnswersOK

(* Who waited gets the answer of the flight.                               *)
LEMMA FinishStep ==
    ASSUME UsageInv, NEW q \in Queries, finishUsageFlight(q)
    PROVE  AnswersOK'
<1> DEFINE r == [pc |-> "done", answer |-> query[q].answer]
<1>1. /\ query' = [v \in Queries |-> IF v = q \/ query[v].pc = "wait" THEN r ELSE query[v]]
      /\ UNCHANGED usageCache /\ AnswersOK
  BY DEF finishUsageFlight, UsageInv
<1>2. QueryShape(r) /\ r.answer = query[q].answer /\ AnswerOK(query[q].answer)
  BY <1>1 DEF QueryShape, AnswersOK
<1> HIDE DEF r
<1>3. \A v \in Queries : QueryShape(query'[v]) /\ AnswerOK(query'[v].answer)
  BY <1>1, <1>2 DEF AnswersOK
<1>4. query' = [v \in Queries |-> query'[v]]
  BY <1>1
<1> QED
  BY <1>1, <1>3, <1>4 DEF AnswersOK

(* A step that leaves bills, fetches or answers alone keeps what holds of  *)
(* them.                                                                   *)
LEMMA UsageFrame ==
    ASSUME UsageInv
    PROVE  /\ UNCHANGED <<bill, billed>> => BillsOK'
           /\ UNCHANGED <<bill, fetch>> => FetchesOK'
           /\ UNCHANGED <<query, usageCache>> => AnswersOK'
<1>1. ASSUME UNCHANGED <<bill, billed>> PROVE BillsOK'
  BY <1>1 DEF UsageInv, BillsOK, BillOK
<1>2. ASSUME UNCHANGED <<bill, fetch>> PROVE FetchesOK'
  BY <1>2 DEF UsageInv, FetchesOK
<1>3. ASSUME UNCHANGED <<query, usageCache>> PROVE AnswersOK'
  BY <1>3 DEF UsageInv, AnswersOK
<1> QED
  BY <1>1, <1>2, <1>3

(* For any number of accounts, queries, failures and rows billed           *)
(* meanwhile, with pages of any size: no request with an id is counted     *)
(* twice, and a bill that stood still while it was read is counted whole   *)
(* (fetchUsageRecords and aggregateUsage in wb_usage.go).                  *)
THEOREM CountedCorrect == UsageSpec => []CountedOnce
<1>1. UsageInv /\ [UsageNext]_usageVars => UsageInv'
  <2> SUFFICES ASSUME UsageInv, [UsageNext]_usageVars PROVE UsageInv'
    OBVIOUS
  <2>1. ASSUME NEW q \in Queries, cachedUsage(q) PROVE UsageInv'
    BY <2>1, CachedStep, UsageFrame DEF cachedUsage, UsageInv
  <2>2. ASSUME NEW q \in Queries, beginUsageFlight(q) PROVE UsageInv'
    <3>1. AnswersOK /\ UNCHANGED <<bill, billed, usageCache, fetch>>
      BY <2>2 DEF beginUsageFlight, UsageInv
    <3>2. \E pt \in {"list", "wait"} : query' = [query EXCEPT ![q].pc = pt]
      BY <2>2 DEF beginUsageFlight
    <3>3. AnswersOK'
      BY <3>1, <3>2, QueryStays
    <3> QED
      BY <3>1, <3>3, UsageFrame DEF UsageInv
  <2>3. ASSUME NEW q \in Queries, handleUsageQueryFresh(q) PROVE UsageInv'
    BY <2>3, FreshStep, UsageFrame DEF handleUsageQueryFresh, UsageInv
  <2>4. ASSUME NEW q \in Queries, storeUsageCache(q) PROVE UsageInv'
    <3>1. UNCHANGED <<bill, billed>>
      BY <2>4 DEF storeUsageCache
    <3> QED
      BY <2>4, <3>1, StoreStep, UsageFrame DEF UsageInv
  <2>5. ASSUME NEW q \in Queries, finishUsageFlight(q) PROVE UsageInv'
    BY <2>5, FinishStep, UsageFrame DEF finishUsageFlight, UsageInv
  <2>6. ASSUME NEW u \in Payers, hostAuthGetBundle(u) PROVE UsageInv'
    BY <2>6, BundleStep, UsageFrame DEF hostAuthGetBundle, UsageInv
  <2>7. ASSUME NEW u \in Payers, firstPage(u) PROVE UsageInv'
    <3>1. UNCHANGED <<bill, billed, usageCache, query>>
      BY <2>7 DEF firstPage
    <3> QED
      BY <2>7, <3>1, FirstPageStep, UsageFrame DEF UsageInv
  <2>8. ASSUME NEW u \in Payers, otherPage(u) PROVE UsageInv'
    <3>1. UNCHANGED <<bill, billed, usageCache, query>>
      BY <2>8 DEF otherPage
    <3> QED
      BY <2>8, <3>1, OtherPageStep, UsageFrame DEF UsageInv
  <2>9. ASSUME NEW u \in Payers, collect(u) PROVE UsageInv'
    <3>1. UNCHANGED <<bill, billed, usageCache, query>>
      BY <2>9 DEF collect
    <3> QED
      BY <2>9, <3>1, CollectStep, UsageFrame DEF UsageInv
  <2>10. ASSUME NEW u \in Payers, BillRow(u) PROVE UsageInv'
    <3>1. UNCHANGED <<usageCache, query>>
      BY <2>10 DEF BillRow
    <3> QED
      BY <2>10, <3>1, BillRowStep, UsageFrame DEF UsageInv
  <2>11. CASE ExpireUsage
    <3> DEFINE c == [usageCache EXCEPT !.expired = TRUE]
    <3>1. /\ usageCache \in [answer : {usageCache.answer}, expired : BOOLEAN] /\ AnswerOK(usageCache.answer)
          /\ usageCache' = c /\ UNCHANGED <<bill, billed, fetch, query>>
      BY <2>11 DEF ExpireUsage, UsageInv, AnswersOK
    <3>2. c \in [answer : {usageCache.answer}, expired : BOOLEAN] /\ c.answer = usageCache.answer
      BY <3>1
    <3> HIDE DEF c
    <3>3. AnswersOK'
      BY <3>1, <3>2 DEF UsageInv, AnswersOK
    <3> QED
      BY <3>1, <3>3, UsageFrame DEF UsageInv
  <2>12. CASE UNCHANGED usageVars
    BY <2>12, UsageFrame DEF usageVars, UsageInv
  <2> QED
    BY <2>1, <2>2, <2>3, <2>4, <2>5, <2>6, <2>7, <2>8, <2>9, <2>10, <2>11, <2>12 DEF UsageNext, AllAnswered
<1>2. UsageInv => CountedOnce
  BY DEF UsageInv, AnswersOK, AnswerOK, CountedOnce
<1> QED
  BY <1>1, <1>2, UsageInvInit, PTL DEF UsageSpec
=============================================================================

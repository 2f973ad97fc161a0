---------------------------- MODULE ModelStore ----------------------------
(***************************************************************************)
(* One cache file of the model store (model_store.go) with its backup:     *)
(* saves are serialised by the lock of the identity or of the metadata     *)
(* (model_readiness.go), loads run beside them, the process may die and    *)
(* the machine may lose power at any step.                                 *)
(*                                                                         *)
(* On Unix a rename replaces a directory entry at once, and until the      *)
(* directory is synced a power loss may leave any entry written since.  On *)
(* Windows the replaced file is removed first and nothing is synced; there *)
(* only the death of the process is modelled.                              *)
(***************************************************************************)
EXTENDS Naturals, FiniteSets

CONSTANTS Catalogs,    \* what the readiness flow saves
          Unsound,     \* facts that do not pass validation
          Torn,        \* bytes that are not JSON
          Absent,      \* there is no file
          Found,       \* contents that may lie on the disk at the start
          Future, Nothing, Broken,   \* outcomes of decoding and of loading
          NoSave,
          MaxOverlap   \* bound: saves counted during one load

(* fits: every field that this version knows has the type it expects.      *)
Bytes == [schema : 0..2, fits : BOOLEAN, owner : {"self", "other"},
          facts : Catalogs \union {Unsound}]

Contents == Bytes \union {Torn, Absent}

ASSUME StoreAssumption ==
    /\ Found \subseteq Contents
    /\ Unsound \notin Catalogs /\ NoSave \notin Catalogs
    /\ {Future, Nothing, Broken} \intersect Catalogs = {}
    /\ Future # Nothing /\ Future # Broken /\ Nothing # Broken
    /\ Torn \notin Bytes /\ Absent \notin Bytes /\ Torn # Absent
    /\ MaxOverlap \in Nat

VARIABLES
    platform,         \* "unix" or "windows"
    kind,             \* "catalog" or "metadata"
    primary, backup,  \* the two files, as the running system sees them
    disk,             \* per file, the entries a power loss may leave
    save,             \* the save under way: its step and what it writes
    load              \* the load under way; history: what was readable since it began,
                      \* the saves beside it, whether a read failed

files == <<primary, backup, disk>>
vars == <<platform, kind, files, save, load>>

----------------------------------------------------------------------------
(* Decoding.  The whole file is unmarshalled before its schema is looked   *)
(* at, so a later version is recognised only if it kept the types of the   *)
(* fields it shares with this one.                                         *)
Unmarshals(raw) == raw # Torn /\ raw.fits

validateModelCacheSchema(raw) ==
    IF raw.schema > 1 THEN Future ELSE IF raw.schema = 1 THEN Nothing ELSE Broken

decodeModelCatalogCache(raw) ==
    IF ~Unmarshals(raw) THEN Broken
    ELSE IF validateModelCacheSchema(raw) # Nothing THEN validateModelCacheSchema(raw)
    ELSE IF raw.owner # "self" \/ raw.facts = Unsound THEN Broken
    ELSE raw.facts

decodeMetadataCache(raw) ==
    IF ~Unmarshals(raw) THEN Broken
    ELSE IF validateModelCacheSchema(raw) # Nothing THEN validateModelCacheSchema(raw)
    ELSE IF raw.facts = Unsound THEN Broken
    ELSE raw.facts

Decode(k, raw) ==
    IF k = "catalog" THEN decodeModelCatalogCache(raw) ELSE decodeMetadataCache(raw)

(* Marshalling a validated cache. *)
Marshal(v) == [schema |-> 1, fits |-> TRUE, owner |-> "self", facts |-> v]

OutcomeOf(k, c) == IF c = Absent THEN Nothing ELSE Decode(k, c)

Outcome(c) == OutcomeOf(kind, c)
Good(c) == Outcome(c) \in Catalogs

(* What a load reports that finds these two files. *)
FirstOf(p, b) ==
    IF p \in Catalogs \union {Future} THEN p
    ELSE IF b \in Catalogs \union {Future} THEN b
    ELSE Nothing

Readable(p, b) == FirstOf(Outcome(p), Outcome(b))

----------------------------------------------------------------------------
Steps == {"idle", "temp", "read", "rmBackup", "mvBackup", "rmPrimary", "mvPrimary", "sync"}
IdleSave == [pc |-> "idle", data |-> NoSave]
IdleLoad == [pc |-> "idle", found |-> Nothing, seen |-> {}, saves |-> 0, failed |-> FALSE]

Init ==
    /\ platform \in {"unix", "windows"}
    /\ kind \in {"catalog", "metadata"}
    /\ primary \in Found /\ backup \in Found
    /\ disk = [primary |-> {primary}, backup |-> {backup}]
    /\ save = IdleSave
    /\ load = IdleLoad

(* The entries a power loss may leave after one more change of a file. *)
MayStay(entries, new) == IF platform = "unix" THEN entries \union {new} ELSE {new}

SetPrimary(new) ==
    /\ primary' = new
    /\ disk' = [primary |-> MayStay(disk.primary, new), backup |-> disk.backup]
    /\ UNCHANGED backup

SetBackup(new) ==
    /\ backup' = new
    /\ disk' = [primary |-> disk.primary, backup |-> MayStay(disk.backup, new)]
    /\ UNCHANGED primary

Goto(pc) == save' = [pc |-> pc, data |-> save.data]

(* A load under way notes what was readable at every moment of its life.   *)
Observe ==
    load' = IF load.pc = "idle" THEN load
            ELSE [load EXCEPT !.seen = @ \union {Readable(primary', backup')}]

(* replaceModelCacheFile: Windows removes the destination first. *)
ReplaceBackup == IF platform = "windows" THEN "rmBackup" ELSE "mvBackup"
ReplacePrimary == IF platform = "windows" THEN "rmPrimary" ELSE "mvPrimary"

(* saveModels, saveMetadata: the cache was validated. *)
BeginSave(v) ==
    /\ save.pc = "idle"
    /\ save' = [pc |-> "temp", data |-> v]
    /\ load' = IF load.pc = "idle" THEN load ELSE [load EXCEPT !.saves = @ + 1]
    /\ load.saves < MaxOverlap
    /\ UNCHANGED <<platform, kind, files>>

(* The new contents go to a synced temporary file: nothing is visible yet. *)
writeSyncedModelCacheTemp ==
    /\ save.pc = "temp"
    /\ Goto("read")
    /\ UNCHANGED <<platform, kind, files, load>>

(* Mutants: only the primary is asked for its version; a good primary is   *)
(* replaced without a copy of it.                                          *)
refusesPrimaryOnly == Outcome(primary) = Future
afterReadNoBackup == ReplacePrimary

(* A file recognised as a later version's is never replaced, be it the backup. *)
refuses == Future \in {Outcome(primary), Outcome(backup)}
afterRead == IF Good(primary) THEN ReplaceBackup ELSE ReplacePrimary

(* writeModelCacheAtomic reads both files. *)
ReadCurrent ==
    /\ save.pc = "read"
    /\ IF refuses THEN save' = IdleSave ELSE Goto(afterRead)
    /\ UNCHANGED <<platform, kind, files, load>>

RemoveBackup ==
    /\ save.pc = "rmBackup"
    /\ SetBackup(Absent)
    /\ Goto("mvBackup")
    /\ Observe
    /\ UNCHANGED <<platform, kind>>

RenameBackup ==
    /\ save.pc = "mvBackup"
    /\ SetBackup(primary)
    /\ Goto(ReplacePrimary)
    /\ Observe
    /\ UNCHANGED <<platform, kind>>

RemovePrimary ==
    /\ save.pc = "rmPrimary"
    /\ SetPrimary(Absent)
    /\ Goto("mvPrimary")
    /\ Observe
    /\ UNCHANGED <<platform, kind>>

RenamePrimary ==
    /\ save.pc = "mvPrimary"
    /\ SetPrimary(Marshal(save.data))
    /\ Goto("sync")
    /\ Observe
    /\ UNCHANGED <<platform, kind>>

(* Does nothing on Windows. *)
syncModelCacheDirectory ==
    /\ save.pc = "sync"
    /\ disk' = [primary |-> {primary}, backup |-> {backup}]
    /\ save' = IdleSave
    /\ UNCHANGED <<platform, kind, primary, backup, load>>

(* Any call of the file system may fail, and the process may die: the save *)
(* ends where it is, and what it wrote to temporary files is removed or    *)
(* never read.                                                             *)
FailSave ==
    /\ save.pc # "idle"
    /\ save' = IdleSave
    /\ UNCHANGED <<platform, kind, files, load>>

PowerLoss ==
    /\ \E p \in disk.primary, b \in disk.backup :
          /\ primary' = p /\ backup' = b
          /\ disk' = [primary |-> {p}, backup |-> {b}]
    /\ save' = IdleSave
    /\ load' = IdleLoad
    /\ UNCHANGED <<platform, kind>>

----------------------------------------------------------------------------
(* loadModelCache: the primary, then the backup. *)
BeginLoad ==
    /\ load.pc = "idle"
    /\ load' = [pc |-> "primary", found |-> Nothing, seen |-> {Readable(primary, backup)},
                saves |-> IF save.pc = "idle" THEN 0 ELSE 1, failed |-> FALSE]
    /\ UNCHANGED <<platform, kind, files, save>>

(* Mutant: a primary that cannot be decoded ends the load. *)
triesBackupOnlyIfAbsent(c) == c = Absent

triesBackup(c) == Outcome(c) \notin Catalogs \union {Future}

ReadPrimary ==
    /\ load.pc = "primary"
    /\ load' = [load EXCEPT !.pc = IF triesBackup(primary) THEN "backup" ELSE "done",
                            !.found = IF Outcome(primary) \in Catalogs \union {Future}
                                        THEN Outcome(primary) ELSE Nothing]
    /\ UNCHANGED <<platform, kind, files, save>>

(* A file that is there and cannot be read is passed over. *)
ReadFails ==
    /\ load.pc \in {"primary", "backup"}
    /\ load' = [load EXCEPT !.pc = IF load.pc = "primary" THEN "backup" ELSE "done", !.failed = TRUE]
    /\ UNCHANGED <<platform, kind, files, save>>

ReadBackup ==
    /\ load.pc = "backup"
    /\ load' = [load EXCEPT !.pc = "done",
                            !.found = IF Outcome(backup) \in Catalogs \union {Future}
                                        THEN Outcome(backup) ELSE Nothing]
    /\ UNCHANGED <<platform, kind, files, save>>

Return ==
    /\ load.pc = "done"
    /\ load' = IdleLoad
    /\ UNCHANGED <<platform, kind, files, save>>

----------------------------------------------------------------------------
SaveStep ==
    \/ \E v \in Catalogs : BeginSave(v)
    \/ writeSyncedModelCacheTemp \/ ReadCurrent
    \/ RemoveBackup \/ RenameBackup \/ RemovePrimary \/ RenamePrimary
    \/ syncModelCacheDirectory \/ FailSave

LoadStep == BeginLoad \/ ReadPrimary \/ ReadBackup \/ ReadFails \/ Return

Next == SaveStep \/ LoadStep \/ PowerLoss

Spec == Init /\ [][Next]_vars

----------------------------------------------------------------------------
(* The save and its files, whatever the load does. *)
StoreTypeOK ==
    /\ platform \in {"unix", "windows"}
    /\ kind \in {"catalog", "metadata"}
    /\ primary \in Contents /\ backup \in Contents
    /\ disk \in [primary : SUBSET Contents, backup : SUBSET Contents]
    /\ save \in [pc : Steps, data : Catalogs \union {NoSave}]
    /\ save.pc = "idle" <=> save.data = NoSave

(* What a power loss may leave includes what is there; without a sync it   *)
(* is nothing else.                                                        *)
DiskCovers ==
    /\ primary \in disk.primary /\ backup \in disk.backup
    /\ platform = "windows" => disk = [primary |-> {primary}, backup |-> {backup}]

(* A good primary is copied before it is touched, and a file recognised as *)
(* a later version's stops the save before it touches either.              *)
CopyFirst ==
    /\ save.pc \in {"rmBackup", "rmPrimary"} => platform = "windows"
    /\ save.pc \in {"rmBackup", "mvBackup"} => Good(primary)
    /\ save.pc \in {"rmPrimary", "mvPrimary"} /\ Good(primary) => backup = primary
    /\ save.pc = "sync" => primary = Marshal(save.data)
    /\ save.pc \in {"rmBackup", "mvBackup", "rmPrimary", "mvPrimary", "sync"} =>
         Outcome(primary) # Future /\ Outcome(backup) # Future

(* A file recognised as a later version's may only be there from the start, *)
(* with no write after it.                                                 *)
FutureUntouched ==
    (\E c \in disk.primary \union disk.backup : Outcome(c) = Future) =>
        disk = [primary |-> {primary}, backup |-> {backup}]

StoreInv == StoreTypeOK /\ DiskCovers /\ CopyFirst /\ FutureUntouched

(***************************************************************************)
(* The two files and the steps of a save implement a register: no order of *)
(* steps, failures and power losses shows a reader anything but the value  *)
(* of a save, the one under way or one since the last that was synced, and *)
(* a save that dies between the backup and the primary loses neither       *)
(* (writeModelCacheAtomic, replaceModelCacheFile, loadModelCache).         *)
(***************************************************************************)
MayRead == {Readable(p, b) : p \in disk.primary, b \in disk.backup}

Register == INSTANCE CacheRegister WITH
    Values <- Catalogs \union {Future, Nothing},
    value <- Readable(primary, backup),
    recent <- MayRead,
    pending <- save.data

ImplementsRegister == Register!Spec

(* A file that is recognised as a later version's (errFutureModelCacheSchema *)
(* in writeModelCacheAtomic) is never replaced, removed or rotated away,   *)
(* and nor is the file beside it, be the recognised one only the backup.   *)
(* One of a later version that changed the type of a field it shares with  *)
(* this one is not recognised, and the next save replaces it.              *)
FutureKept ==
    [][(Outcome(primary) = Future \/ Outcome(backup) = Future) => UNCHANGED <<primary, backup>>]_vars

(* A load, which takes no lock and reads the two files one after the       *)
(* other, reports what was readable at some moment while it ran, if both   *)
(* reads succeed: one that cannot read the primary falls back to an older  *)
(* backup.  On Windows this needs that no second save overlaps the load:   *)
(* one save may remove the primary before the first read and the next one  *)
(* the backup before the second (loadModelCache beside                     *)
(* replaceModelCacheFile).                                                 *)
LoadLinearizes ==
    load.pc = "done" /\ ~load.failed /\ (platform = "unix" \/ load.saves <= 1)
        => load.found \in load.seen

=============================================================================

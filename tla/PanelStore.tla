---------------------------- MODULE PanelStore ----------------------------
(***************************************************************************)
(* The panel's record of requests, credits and tasks (panel_store.go): a   *)
(* capped list of rows per stream in memory, read from its file on first   *)
(* use and written back by one flusher.  The mutex is free while files are *)
(* written, so rows are appended beside a flush.  A row is the number of   *)
(* its append.                                                             *)
(***************************************************************************)
EXTENDS Integers, Sequences

CONSTANTS
    Streams,
    panelStoreMaxRows,   \* rows kept per stream
    FilesAtStart,        \* what may lie on the disk
    NoFile, Corrupt, NoRows,
    MaxAppends,          \* bound: rows appended
    MaxFaults            \* bound: failed reads and writes, and crashes

VARIABLES
    rows,                \* stream -> rows in memory, or NoRows
    loaded, dirty,
    flusher,             \* idle, or its snapshot and the files still to write
    file,                \* stream -> NoFile, Corrupt or the rows in it
    appended, faults,
    record               \* history: what each stream should hold; reads that failed; appends beside a flush

panelVars == <<rows, loaded, dirty, flusher, file, appended, faults, record>>

ASSUME PanelAssumption ==
    /\ panelStoreMaxRows \in Nat \ {0}
    /\ {MaxAppends, MaxFaults} \subseteq Nat
    /\ FilesAtStart \subseteq Seq(Int) \union {NoFile, Corrupt}
    /\ \A mark \in {NoFile, Corrupt, NoRows} : mark \notin Seq(Int)

Idle == [pc |-> "idle", snapshot |-> [s \in Streams |-> NoRows], failed |-> FALSE]

Held(content) == IF content \in {NoFile, Corrupt, NoRows} THEN <<>> ELSE content

newPanelStore ==
    /\ rows = [s \in Streams |-> NoRows]
    /\ loaded = [s \in Streams |-> FALSE]
    /\ dirty = FALSE
    /\ flusher = Idle

PanelInit ==
    /\ newPanelStore
    /\ file \in [Streams -> FilesAtStart]
    /\ appended = 0 /\ faults = 0
    /\ record = [due |-> [s \in Streams |-> Held(file[s])], unread |-> {}, raced |-> {}]

(* The newest rows, as many as are kept. *)
trimmed(list) ==
    SubSeq(list, IF Len(list) > panelStoreMaxRows THEN Len(list) - panelStoreMaxRows + 1 ELSE 1, Len(list))

(* loadLocked: a missing file counts as read, one that cannot be read or   *)
(* parsed does not and is tried again at the next use; a file that is read *)
(* replaces what is in memory.                                             *)
reads(s, fails) == ~loaded[s] /\ ~fails /\ file[s] # Corrupt

loadLocked(s, fails) ==
    /\ fails => ~loaded[s] /\ file[s] # NoFile /\ faults < MaxFaults
    /\ faults' = IF fails THEN faults + 1 ELSE faults
    /\ loaded' = [loaded EXCEPT ![s] = @ \/ reads(s, fails)]

RowsAfterLoad(s, fails) ==
    IF reads(s, fails) /\ file[s] # NoFile THEN trimmed(file[s]) ELSE rows[s]

NotRead(s, fails) ==
    IF ~loaded[s] /\ ~reads(s, fails) THEN record.unread \union {s} ELSE record.unread

(* append: load, add the row, trim. *)
append(s) ==
    /\ appended < MaxAppends
    /\ appended' = appended + 1
    /\ dirty' = TRUE
    /\ \E fails \in BOOLEAN :
          /\ loadLocked(s, fails)
          /\ rows' = [rows EXCEPT ![s] = trimmed(Append(Held(RowsAfterLoad(s, fails)), appended'))]
          /\ record' = [due |-> [record.due EXCEPT ![s] = Append(@, appended')],
                        unread |-> NotRead(s, fails),
                        raced |-> IF flusher.pc = "idle" THEN record.raced ELSE record.raced \union {s}]
    /\ UNCHANGED <<flusher, file>>

(* list and stats only load. *)
list(s) ==
    /\ ~loaded[s]
    /\ \E fails \in BOOLEAN :
          /\ loadLocked(s, fails)
          /\ rows' = [rows EXCEPT ![s] = RowsAfterLoad(s, fails)]
          /\ record' = [record EXCEPT !.unread = NotRead(s, fails)]
    /\ UNCHANGED <<dirty, flusher, file, appended>>

(* A tick with nothing to write. *)
IdleFlush == flusher.pc = "idle" /\ ~dirty /\ UNCHANGED panelVars

(* Flush copies all streams under the mutex, *)
BeginFlush ==
    /\ flusher.pc = "idle" /\ dirty
    /\ flusher' = [pc |-> "write", snapshot |-> rows, failed |-> FALSE]
    /\ record' = [record EXCEPT !.raced = {}]
    /\ UNCHANGED <<rows, loaded, dirty, file, appended, faults>>

(* writes them without it, each file whole or not at all, *)
writePanelJSON(s) ==
    /\ flusher.pc = "write" /\ flusher.snapshot[s] # NoRows
    /\ \/ /\ file' = [file EXCEPT ![s] = flusher.snapshot[s]]
          /\ flusher' = [flusher EXCEPT !.snapshot[s] = NoRows]
          /\ UNCHANGED faults
       \/ /\ faults < MaxFaults /\ faults' = faults + 1
          /\ flusher' = [flusher EXCEPT !.snapshot[s] = NoRows, !.failed = TRUE]
          /\ UNCHANGED file
    /\ UNCHANGED <<rows, loaded, dirty, appended, record>>

(* Mutant: a failed write does not arm the next tick. *)
dirtyAfterNever(failed) == FALSE

(* and clears the mark, also for rows appended meanwhile, unless a write   *)
(* failed.                                                                 *)
dirtyAfter(failed) == failed

EndFlush ==
    /\ flusher.pc = "write" /\ \A s \in Streams : flusher.snapshot[s] = NoRows
    /\ dirty' = dirtyAfter(flusher.failed)
    /\ flusher' = Idle
    /\ UNCHANGED <<rows, loaded, file, appended, faults, record>>

(* The process dies: what is not in a file is gone. *)
PanelCrash ==
    /\ faults < MaxFaults /\ faults' = faults + 1
    /\ rows' = [s \in Streams |-> NoRows]
    /\ loaded' = [s \in Streams |-> FALSE]
    /\ dirty' = FALSE /\ flusher' = Idle
    /\ record' = [due |-> [s \in Streams |-> Held(file[s])], unread |-> {}, raced |-> {}]
    /\ UNCHANGED <<file, appended>>

PanelNext ==
    \/ \E s \in Streams : append(s) \/ list(s) \/ writePanelJSON(s)
    \/ IdleFlush \/ BeginFlush \/ EndFlush \/ PanelCrash

PanelSpec == PanelInit /\ [][PanelNext]_panelVars

----------------------------------------------------------------------------
(* Once nothing is marked for writing, every row is in its file, in order  *)
(* and up to the cap, through failed writes of any stream and the rows of  *)
(* earlier lives; excepted are streams whose file could not be read, and   *)
(* rows appended while a flush was writing, which wait for the next append *)
(* (append, loadLocked and Flush in panel_store.go).                       *)
SettledRowsOnDisk ==
    ~dirty => \A s \in Streams \ (record.unread \union record.raced) :
                  trimmed(Held(file[s])) = trimmed(record.due[s])

=============================================================================

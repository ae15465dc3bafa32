---------------------------- MODULE AutotuneStore ----------------------------
(***************************************************************************)
(* crates/vrb-autotune: processes that record benchmark results in memory  *)
(* and save them to, and load them from, one file.  save writes a          *)
(* temporary file named after the process id, renames it over the file,    *)
(* and when that fails removes the file and renames again.  Any system     *)
(* call may fail, and a process may crash between two of them.             *)
(***************************************************************************)
EXTENDS Integers, Sequences, SequencesExt

CONSTANTS
  Savers,      \* threads that save, and load, the file
  ProcessOf,   \* saver -> the id of the process it runs in
  Keys,        \* TuningKeys: [context, backend, operation]; a context stands for an
               \* environment fingerprint and a workload shape
  Medians,     \* the median_microseconds that benchmarks give
  Earlier,     \* databases that the file may hold from before: whatever load accepts
  MaxRecords,  \* bound: records made
  NoFile,
  Torn         \* what a file holds while fs::write is under way, or after it failed

\* Two threads of one process that save at once write and rename one temporary file:
\* the callers have to see to it that only one does.
ASSUME OneSaverPerProcess ==
  \A s, u \in Savers : ProcessOf[s] = ProcessOf[u] => s = u

Records == [key : Keys, us : Nat]

\* load and save validate every record; neither looks for two records of one key.
Databases == Seq(Records)

ASSUME EarlierAreDatabases == Earlier \subseteq Databases
ASSUME FilesAreTold ==
  NoFile # Torn /\ {NoFile, Torn} \cap Databases = {} /\ NoFile \notin Nat
ASSUME BoundsAreNatural == MaxRecords \in Nat /\ Medians \subseteq Nat

Processes == {ProcessOf[s] : s \in Savers}

VARIABLES
  db,         \* saver -> its AutotuneDatabase: a sequence of [key, us]
  doing,      \* saver -> where it is in save
  file,       \* what the path holds: NoFile, Torn or a database
  temporary,  \* process -> what its temporary path holds
  made,       \* records made so far, bounded
  \* History
  stored,     \* there has been a file
  spoiled     \* a save failed, or crashed, having removed the file

store == <<db, doing, file, temporary, made, stored, spoiled>>

-----------------------------------------------------------------------------
(* The database in memory *)

\* Mutant: a new measurement is only appended.
Appended(records, r) == Append(records, r)

\* AutotuneDatabase::record replaces the first record of the key.
Upsert(records, r) ==
  IF \E i \in DOMAIN records : records[i].key = r.key
  THEN LET i == SelectInSeq(records, LAMBDA s : s.key = r.key)
       IN [records EXCEPT ![i] = r]
  ELSE Append(records, r)

\* AutotuneDatabase::lookup: the first record of the key, or NoFile.
Lookup(records, key) ==
  LET i == SelectInSeq(records, LAMBDA s : s.key = key)
  IN IF i = 0 THEN NoFile ELSE records[i].us

-----------------------------------------------------------------------------
(* Files *)

\* Mutant: one temporary name for everybody.
OneTemporary(s) == CHOOSE p \in Processes : TRUE

\* temporary_path names the process, not the save.
TemporaryOf(s) == ProcessOf[s]

WriteTemporary(s, contents) == temporary' = [temporary EXCEPT ![TemporaryOf(s)] = contents]

\* Mutant: the temporary file is cleaned up whenever the rename failed.
CleanedUp(s) == WriteTemporary(s, NoFile)

\* The second rename needs the temporary file.
KeptForRetry(s) == UNCHANGED temporary

Init ==
  /\ db = [s \in Savers |-> << >>]
  /\ doing = [s \in Savers |-> "idle"]
  /\ file \in Earlier \cup {NoFile}
  /\ temporary = [p \in Processes |-> NoFile]
  /\ made = 0
  /\ stored = (file # NoFile) /\ spoiled = FALSE

Record(s, r) ==
  /\ doing[s] = "idle" /\ made < MaxRecords
  /\ db' = [db EXCEPT ![s] = Upsert(db[s], r)]
  /\ made' = made + 1
  /\ UNCHANGED <<doing, file, temporary, stored, spoiled>>

\* A file that is not a database, or holds an invalid record, is refused.
Load(s) ==
  /\ doing[s] = "idle" /\ file \notin {NoFile, Torn}
  /\ db' = [db EXCEPT ![s] = file]
  /\ UNCHANGED <<doing, file, temporary, made, stored, spoiled>>

\* fs::write truncates or creates the temporary file first; a save that cannot even do
\* that, or finds an invalid record, changes nothing.
BeginSave(s) ==
  /\ doing[s] = "idle"
  /\ doing' = [doing EXCEPT ![s] = "writing"]
  /\ WriteTemporary(s, Torn)
  /\ UNCHANGED <<db, file, made, stored, spoiled>>

Written(s) ==
  /\ doing[s] = "writing"
  /\ doing' = [doing EXCEPT ![s] = "renaming"]
  /\ WriteTemporary(s, db[s])
  /\ UNCHANGED <<db, file, made, stored, spoiled>>

\* The disk is full, say; the torn temporary file stays.
WriteFails(s) ==
  /\ doing[s] = "writing"
  /\ doing' = [doing EXCEPT ![s] = "idle"]
  /\ UNCHANGED <<db, file, temporary, made, stored, spoiled>>

\* The first rename, and the one after the removal.
Rename(s) ==
  /\ doing[s] \in {"renaming", "retrying"} /\ temporary[TemporaryOf(s)] # NoFile
  /\ file' = temporary[TemporaryOf(s)]
  /\ WriteTemporary(s, NoFile)
  /\ doing' = [doing EXCEPT ![s] = "idle"]
  /\ stored' = TRUE
  /\ UNCHANGED <<db, made, spoiled>>

\* The first rename fails; path.exists() decides what to do.
RenameFails(s) ==
  /\ doing[s] = "renaming"
  /\ IF file # NoFile
     THEN doing' = [doing EXCEPT ![s] = "removing"] /\ KeptForRetry(s)
     ELSE /\ doing' = [doing EXCEPT ![s] = "idle"]
          /\ UNCHANGED temporary \/ WriteTemporary(s, NoFile)
  /\ UNCHANGED <<db, file, made, stored, spoiled>>

RemoveFile(s) ==
  /\ doing[s] = "removing" /\ file # NoFile
  /\ file' = NoFile
  /\ doing' = [doing EXCEPT ![s] = "retrying"]
  /\ UNCHANGED <<db, temporary, made, stored, spoiled>>

\* The file is in use, or another process removed it meanwhile.
RemoveFails(s) ==
  /\ doing[s] = "removing"
  /\ doing' = [doing EXCEPT ![s] = "idle"]
  /\ UNCHANGED <<db, file, temporary, made, stored, spoiled>>

RetryFails(s) ==
  /\ doing[s] = "retrying"
  /\ doing' = [doing EXCEPT ![s] = "idle"]
  /\ spoiled' = TRUE
  /\ UNCHANGED <<db, file, temporary, made, stored>>

\* A crash loses the memory; a process that starts later may get the same id.
Crash(p) ==
  /\ db' = [s \in Savers |-> IF ProcessOf[s] = p THEN << >> ELSE db[s]]
  /\ doing' = [s \in Savers |-> IF ProcessOf[s] = p THEN "idle" ELSE doing[s]]
  /\ spoiled' = (spoiled \/ \E s \in Savers : ProcessOf[s] = p /\ doing[s] = "retrying")
  /\ UNCHANGED <<file, temporary, made, stored>>

StoreNext ==
  \/ \E p \in Processes : Crash(p)
  \/ \E s \in Savers :
       \/ \E k \in Keys, us \in Medians : Record(s, [key |-> k, us |-> us])
       \/ Load(s)
       \/ BeginSave(s) \/ Written(s) \/ WriteFails(s)
       \/ Rename(s) \/ RenameFails(s)
       \/ RemoveFile(s) \/ RemoveFails(s) \/ RetryFails(s)

-----------------------------------------------------------------------------
(* Properties *)

\* The types of the databases and the files: sequences of valid records.
TypeOK ==
  /\ db \in [Savers -> Databases]
  /\ doing \in [Savers -> {"idle", "writing", "renaming", "removing", "retrying"}]
  /\ file \in {NoFile, Torn} \cup Databases
  /\ temporary \in [Processes -> {NoFile, Torn} \cup Databases]
  /\ made \in 0 .. MaxRecords
  /\ {stored, spoiled} \subseteq BOOLEAN

\* A reader finds no file or a whole database, whenever it looks and whoever crashed
\* where: save never lets the path hold a partly written file.  The temporary name
\* must differ between savers for that: it holds the process id only.
LoadsAreWhole == file # Torn

\* Once there is a file there is one for ever, except while the saver that removed it
\* has the whole new database to rename in its place, or after that went wrong.
StoreSurvives ==
  stored /\ file = NoFile =>
    \/ spoiled
    \/ \E s \in Savers :
         doing[s] = "retrying" /\ temporary[TemporaryOf(s)] \notin {NoFile, Torn}

\* The measurement of a key that counts for plans: performance_table_for lets the later
\* record replace the earlier one.  NoFile where there is none.
Measurement(records, key) ==
  LET i == SelectLastInSeq(records, LAMBDA s : s.key = key)
  IN IF i = 0 THEN NoFile ELSE records[i].us

HoldsTwice(records, key) ==
  \E i, j \in DOMAIN records : i # j /\ records[i].key = key /\ records[j].key = key

\* The key has two records in the memory of a process, in the file or in a temporary one.
DuplicatedSomewhere(key) ==
  \/ \E s \in Savers : HoldsTwice(db[s], key)
  \/ \E d \in {file} \cup {temporary[p] : p \in Processes} :
       d \notin {NoFile, Torn} /\ HoldsTwice(d, key)

\* What lookup says of a key and what plans are made by differ only where a file that was
\* found already had two records of it: no record, save, load or crash of any process
\* brings a second one about.
LookupTellsWhatCounts ==
  [][\A key \in Keys :
       \/ DuplicatedSomewhere(key)'
       \/ \E s \in Savers : Lookup(db'[s], key) # Measurement(db'[s], key)
       => DuplicatedSomewhere(key)]_store

=============================================================================

------------------------- MODULE TunedPlanningProofs -------------------------
(***************************************************************************)
(* The safety of TunedPlanning for any savers, keys, benchmarks, crashes,  *)
(* backends and requests.                                                  *)
(*                                                                         *)
(* The tuning file: a saver past fs::write has a whole database at its     *)
(* temporary path, and keeps it to the end of save, because every other    *)
(* saver writes to the path of another process.  So what a rename puts at  *)
(* the file's path is whole, and a saver that removed the file still has   *)
(* what will replace it.                                                   *)
(*                                                                         *)
(* Routing: a backend that a route found was up when it was probed, and    *)
(* one that was up all the time has been found or is still to be probed.   *)
(* So the answer was there, and nothing faster was there all the time.     *)
(*                                                                         *)
(* Planning: each layer of the planner holds, for every backend that can   *)
(* run its request, the least cost of a way that ends there.  By induction *)
(* over the layers no assignment costs less than the state of its last     *)
(* backend, and the walk back builds one that costs just that.  A chain of *)
(* one request then has the router's choice as its plan.                   *)
(***************************************************************************)
EXTENDS TunedPlanning, DataInduction, TLAPS

-----------------------------------------------------------------------------
(* The tuning file *)

PastWriting(s) == doing[s] \in {"renaming", "removing", "retrying"}

\* The strengthening.
WholeTemporaries == \A s \in Savers : PastWriting(s) => temporary[TemporaryOf(s)] \in Databases

StoreInv == TypeOK /\ WholeTemporaries /\ LoadsAreWhole /\ StoreSurvives

LEMMA DatabasesAreFiles == \A d \in Databases : d \notin {NoFile, Torn}
BY FilesAreTold

LEMMA OwnTemporary ==
  ASSUME NEW s \in Savers
  PROVE  /\ TemporaryOf(s) \in Processes
         /\ \A u \in Savers : TemporaryOf(u) = TemporaryOf(s) => u = s
BY OneSaverPerProcess DEF TemporaryOf, Processes

\* The first and the last of some positions are among them.
LEMMA EndsExist ==
  ASSUME NEW n \in Nat, NEW S \in SUBSET (1 .. n), S # {}
  PROVE  Min(S) \in S /\ Max(S) \in S /\ LastOf(S) = Max(S)
<1>1. \E i \in S : \A j \in S : i <= j
  <2>1. S \in SUBSET Nat
    OBVIOUS
  <2>2. QED
    BY <2>1, LeastNatural
<1>2. \E i \in S : \A j \in S : j <= i
  <2> DEFINE T == {n - i : i \in S}
  <2>1. T \in SUBSET Nat /\ T # {}
    <3>1. \A i \in S : i \in 1 .. n /\ n - i \in Nat
      OBVIOUS
    <3>2. QED
      BY <3>1
  <2>2. PICK m \in T : \A k \in T : m <= k
    BY <2>1, LeastNatural
  <2>3. PICK k \in S : m = n - k
    BY <2>2
  <2>4. \A j \in S : j <= k
    <3>1. \A j \in S : n - j \in T
      OBVIOUS
    <3> HIDE DEF T
    <3>2. \A j \in S : n - k <= n - j
      BY <2>2, <2>3, <3>1
    <3>3. QED
      BY <3>2
  <2>5. QED
    BY <2>4
<1>3. Min(S) \in S
  BY <1>1, Zenon DEF Min
<1>4. Max(S) \in S /\ \A j \in S : j <= Max(S)
  <2>1. \E x \in S : \A y \in S : x >= y
    BY <1>2
  <2>2. Max(S) \in S /\ \A y \in S : Max(S) >= y
    BY <2>1, Zenon DEF Max
  <2>3. QED
    BY <2>2
<1>5. LastOf(S) \in S /\ \A j \in S : j <= LastOf(S)
  BY <1>2, Zenon DEF LastOf
<1>6. LastOf(S) = Max(S)
  <2>1. PICK x, y : x = LastOf(S) /\ y = Max(S)
    OBVIOUS
  <2>2. x \in 1 .. n /\ y \in 1 .. n /\ x <= y /\ y <= x
    BY <1>4, <1>5, <2>1
  <2>3. QED
    BY <2>1, <2>2
<1>7. QED
  BY <1>3, <1>4, <1>6

Positions(d, key) == {i \in 1 .. Len(d) : d[i].key = key}

\* lookup takes the first record of a key, plans go by the last.
LEMMA FirstAndLast ==
  ASSUME NEW d \in Databases, NEW key
  PROVE  IF Positions(d, key) = {} THEN Lookup(d, key) = NoFile /\ Measurement(d, key) = NoFile
         ELSE /\ Lookup(d, key) = d[Min(Positions(d, key))].us
              /\ Measurement(d, key) = d[Max(Positions(d, key))].us
              /\ Measurement(d, key) \in Nat
<1> DEFINE P == Positions(d, key)
           first == SelectInSeq(d, LAMBDA s : s.key = key)
           last == SelectLastInSeq(d, LAMBDA s : s.key = key)
<1>1. d \in Seq(Records) /\ P \in SUBSET (1 .. Len(d))
  BY DEF Databases, Positions
<1>2. first = IF P # {} THEN Min(P) ELSE 0
  BY DEF SelectInSeq, Positions
<1>3. last = IF P # {} THEN Max(P) ELSE 0
  BY DEF SelectLastInSeq, Positions
<1>4. Lookup(d, key) = IF first = 0 THEN NoFile ELSE d[first].us
  BY DEF Lookup
<1>5. Measurement(d, key) = IF last = 0 THEN NoFile ELSE d[last].us
  BY DEF Measurement
<1> HIDE DEF P, first, last
<1>6. CASE P = {}
  BY <1>2, <1>3, <1>4, <1>5, <1>6 DEF P
<1>7. CASE P # {}
  <2>1. Min(P) \in 1 .. Len(d) /\ Max(P) \in 1 .. Len(d)
    <3>1. Len(d) \in Nat
      BY <1>1
    <3>2. Min(P) \in P /\ Max(P) \in P
      BY <1>1, <1>7, <3>1, EndsExist
    <3>3. QED
      BY <1>1, <3>2
  <2>2. d[Max(P)].us \in Nat
    <3>1. d[Max(P)] \in Records
      BY <1>1, <2>1
    <3>2. QED
      BY <3>1 DEF Records
  <2>3. QED
    BY <1>2, <1>3, <1>4, <1>5, <1>7, <2>1, <2>2 DEF P
<1>8. QED
  BY <1>6, <1>7

\* Where a key has one record it does not matter which end is taken.
LEMMA OneRecordIsAgreedOn ==
  ASSUME NEW d \in Databases, NEW key, Lookup(d, key) # Measurement(d, key)
  PROVE  HoldsTwice(d, key)
<1> DEFINE P == Positions(d, key)
<1>1. P # {} /\ d[Min(P)].us # d[Max(P)].us
  BY FirstAndLast
<1>2. P \in SUBSET (1 .. Len(d)) /\ Len(d) \in Nat
  BY DEF Databases, Positions
<1>3. Min(P) \in P /\ Max(P) \in P
  BY <1>1, <1>2, EndsExist
<1>4. QED
  BY <1>1, <1>3 DEF HoldsTwice, Positions, Databases

\* record adds no second record of any key.
LEMMA UpsertKeepsKeysApart ==
  ASSUME NEW d \in Databases, NEW r \in Records
  PROVE  /\ Upsert(d, r) \in Databases
         /\ \A key : HoldsTwice(Upsert(d, r), key) => HoldsTwice(d, key)
<1>1. d \in Seq(Records)
  BY DEF Databases
<1>2. CASE \E i \in DOMAIN d : d[i].key = r.key
  <2> DEFINE P == Positions(d, r.key)
             at == SelectInSeq(d, LAMBDA s : s.key = r.key)
  <2>1. P \in SUBSET (1 .. Len(d)) /\ Len(d) \in Nat /\ P # {}
    BY <1>1, <1>2 DEF Positions
  <2>2. at = Min(P)
    BY <2>1 DEF SelectInSeq, Positions
  <2>3. at \in 1 .. Len(d) /\ d[at].key = r.key
    BY <2>1, <2>2, EndsExist DEF Positions
  <2>4. Upsert(d, r) = [d EXCEPT ![at] = r]
    BY <1>2 DEF Upsert
  <2> HIDE DEF at
  <2>5. [d EXCEPT ![at] = r] \in Seq(Records)
    BY <1>1, <2>3
  <2>6. \A i \in DOMAIN d : [d EXCEPT ![at] = r][i].key = d[i].key
    BY <1>1, <2>3
  <2>7. \A key : HoldsTwice([d EXCEPT ![at] = r], key) => HoldsTwice(d, key)
    BY <1>1, <2>3, <2>6 DEF HoldsTwice
  <2>8. QED
    BY <2>4, <2>5, <2>7 DEF Databases
<1>3. CASE ~ \E i \in DOMAIN d : d[i].key = r.key
  <2>1. Upsert(d, r) = Append(d, r)
    BY <1>3 DEF Upsert
  <2>2. Append(d, r) \in Seq(Records) /\ DOMAIN Append(d, r) = 1 .. Len(d) + 1
    BY <1>1
  <2>3. ASSUME NEW key, HoldsTwice(Append(d, r), key) PROVE HoldsTwice(d, key)
    <3>1. PICK i, j \in 1 .. Len(d) + 1 :
                 i # j /\ Append(d, r)[i].key = key /\ Append(d, r)[j].key = key
      BY <2>2, <2>3 DEF HoldsTwice
    <3>2. i \in 1 .. Len(d) /\ j \in 1 .. Len(d) /\ d[i].key = key /\ d[j].key = key
      BY <1>1, <1>3, <3>1
    <3>3. QED
      BY <1>1, <3>1, <3>2 DEF HoldsTwice
  <2>4. QED
    BY <2>1, <2>2, <2>3 DEF Databases
<1>4. QED
  BY <1>2, <1>3

LEMMA InitEstablishes == Init => StoreInv
<1> SUFFICES ASSUME Init PROVE StoreInv
  OBVIOUS
<1>1. << >> \in Databases
  BY DEF Databases
<1>2. file = NoFile \/ file \in Databases
  BY EarlierAreDatabases DEF Init
<1>3. file # Torn
  BY <1>2, DatabasesAreFiles, FilesAreTold
<1>4. TypeOK
  <2>1. db \in [Savers -> Databases] /\ file \in {NoFile} \cup Databases
    BY <1>1, <1>2 DEF Init
  <2>2. temporary \in [Processes -> {NoFile, Torn} \cup Databases]
    BY DEF Init
  <2>3. made \in 0 .. MaxRecords
    BY BoundsAreNatural DEF Init
  <2>4. stored \in BOOLEAN /\ spoiled \in BOOLEAN
    BY Zenon DEF Init
  <2>5. doing \in [Savers -> {"idle", "writing", "renaming", "removing", "retrying"}]
    BY DEF Init
  <2>6. QED
    BY <2>1, <2>2, <2>3, <2>4, <2>5 DEF TypeOK
<1>5. WholeTemporaries /\ LoadsAreWhole /\ StoreSurvives
  BY <1>3 DEF Init, WholeTemporaries, PastWriting, LoadsAreWhole, StoreSurvives
<1>6. QED
  BY <1>4, <1>5 DEF StoreInv

LEMMA CrashPreserves ==
  ASSUME StoreInv, NEW p \in Processes, Crash(p)
  PROVE  StoreInv'
<1> USE DEF StoreInv, Crash
<1>1. TypeOK'
  <2>1. << >> \in Databases
    BY DEF Databases
  <2>2. QED
    BY <2>1 DEF TypeOK
<1>2. WholeTemporaries'
  BY DEF TypeOK, WholeTemporaries, PastWriting, TemporaryOf
<1>3. LoadsAreWhole'
  BY DEF LoadsAreWhole
<1>4. StoreSurvives'
  <2>1. CASE \E s \in Savers : ProcessOf[s] = p /\ doing[s] = "retrying"
    BY <2>1 DEF StoreSurvives
  <2>2. CASE ~ \E s \in Savers : ProcessOf[s] = p /\ doing[s] = "retrying"
    BY <2>2 DEF StoreSurvives, TypeOK, TemporaryOf
  <2>3. QED
    BY <2>1, <2>2
<1>5. QED
  BY <1>1, <1>2, <1>3, <1>4

\* Steps in memory.
LEMMA MemoryPreserves ==
  ASSUME StoreInv, NEW s \in Savers,
         Load(s) \/ \E k \in Keys, us \in Medians : Record(s, [key |-> k, us |-> us])
  PROVE  StoreInv'
<1>1. PICK d \in Databases : db' = [db EXCEPT ![s] = d]
  <2>1. CASE Load(s)
    BY <2>1 DEF Load, StoreInv, TypeOK
  <2>2. ASSUME NEW k \in Keys, NEW us \in Medians, Record(s, [key |-> k, us |-> us])
        PROVE  Upsert(db[s], [key |-> k, us |-> us]) \in Databases
    <3>1. [key |-> k, us |-> us] \in Records /\ db[s] \in Databases
      BY BoundsAreNatural DEF Records, StoreInv, TypeOK
    <3>2. QED
      BY <3>1, UpsertKeepsKeysApart
  <2>3. QED
    BY <2>1, <2>2 DEF Record
<1>2. made' \in 0 .. MaxRecords /\ UNCHANGED <<doing, file, temporary, stored, spoiled>>
  <2>1. made \in 0 .. MaxRecords
    BY DEF StoreInv, TypeOK
  <2>2. CASE Load(s)
    BY <2>1, <2>2 DEF Load
  <2>3. CASE \E k \in Keys, us \in Medians : Record(s, [key |-> k, us |-> us])
    BY <2>1, <2>3, BoundsAreNatural DEF Record
  <2>4. QED
    BY <2>2, <2>3
<1>3. TypeOK'
  BY <1>1, <1>2 DEF StoreInv, TypeOK
<1>4. QED
  BY <1>2, <1>3
     DEF StoreInv, WholeTemporaries, PastWriting, LoadsAreWhole, StoreSurvives, TemporaryOf

\* Steps that write the saver's own temporary file, up to the rename.
LEMMA WritingPreserves ==
  ASSUME StoreInv, NEW s \in Savers, BeginSave(s) \/ Written(s) \/ WriteFails(s)
  PROVE  StoreInv'
<1> USE DEF StoreInv
<1>1. TemporaryOf(s) \in Processes /\ \A u \in Savers : TemporaryOf(u) = TemporaryOf(s) => u = s
  BY OwnTemporary
<1>2. \A u \in Savers : TemporaryOf(u) \in Processes /\ TemporaryOf(u)' = TemporaryOf(u)
  BY OwnTemporary DEF TemporaryOf
<1>3. CASE BeginSave(s)
  BY <1>1, <1>2, <1>3
     DEF BeginSave, WriteTemporary, TypeOK, WholeTemporaries, PastWriting, LoadsAreWhole,
         StoreSurvives
<1>4. CASE Written(s)
  <2>1. db[s] \in Databases
    BY DEF TypeOK
  <2>2. QED
    BY <1>1, <1>2, <1>4, <2>1
     DEF Written, WriteTemporary, TypeOK, WholeTemporaries, PastWriting, LoadsAreWhole,
         StoreSurvives
<1>5. CASE WriteFails(s)
  BY <1>1, <1>2, <1>5
     DEF WriteFails, TypeOK, WholeTemporaries, PastWriting, LoadsAreWhole, StoreSurvives
<1>6. QED
  BY <1>3, <1>4, <1>5

LEMMA RenamePreserves ==
  ASSUME StoreInv, NEW s \in Savers, Rename(s)
  PROVE  StoreInv'
<1> USE DEF StoreInv, Rename, WriteTemporary
<1>1. TemporaryOf(s) \in Processes /\ \A u \in Savers : TemporaryOf(u) = TemporaryOf(s) => u = s
  BY OwnTemporary
<1>2. \A u \in Savers : TemporaryOf(u) \in Processes /\ TemporaryOf(u)' = TemporaryOf(u)
  BY OwnTemporary DEF TemporaryOf
<1>3. file' \in Databases
  BY DEF WholeTemporaries, PastWriting
<1>4. file' \notin {NoFile, Torn}
  BY <1>3, DatabasesAreFiles
<1>5. TypeOK'
  BY <1>1, <1>3 DEF TypeOK
<1>6. WholeTemporaries'
  BY <1>1, <1>2 DEF TypeOK, WholeTemporaries, PastWriting
<1>7. LoadsAreWhole' /\ StoreSurvives'
  BY <1>4 DEF LoadsAreWhole, StoreSurvives
<1>8. QED
  BY <1>5, <1>6, <1>7

\* Steps of the fallback.
LEMMA FallbackPreserves ==
  ASSUME StoreInv, NEW s \in Savers,
         RenameFails(s) \/ RemoveFile(s) \/ RemoveFails(s) \/ RetryFails(s)
  PROVE  StoreInv'
<1> USE DEF StoreInv
<1>1. TemporaryOf(s) \in Processes /\ \A u \in Savers : TemporaryOf(u) = TemporaryOf(s) => u = s
  BY OwnTemporary
<1>2. \A u \in Savers : TemporaryOf(u) \in Processes /\ TemporaryOf(u)' = TemporaryOf(u)
  BY OwnTemporary DEF TemporaryOf
<1>3. CASE RenameFails(s)
  <2>1. TypeOK'
    BY <1>1, <1>3 DEF RenameFails, WriteTemporary, KeptForRetry, TypeOK
  <2>2. WholeTemporaries' /\ LoadsAreWhole'
    BY <1>1, <1>2, <1>3
       DEF RenameFails, WriteTemporary, KeptForRetry, TypeOK, WholeTemporaries, PastWriting,
           LoadsAreWhole
  <2>3. StoreSurvives'
    BY <1>1, <1>2, <1>3
       DEF RenameFails, WriteTemporary, KeptForRetry, TypeOK, StoreSurvives
  <2>4. QED
    BY <2>1, <2>2, <2>3
<1>4. CASE RemoveFile(s)
  <2>1. temporary[TemporaryOf(s)] \in Databases
    BY <1>4 DEF RemoveFile, WholeTemporaries, PastWriting
  <2>2. temporary[TemporaryOf(s)] \notin {NoFile, Torn}
    BY <2>1, DatabasesAreFiles
  <2>3. StoreSurvives'
    <3>1. doing'[s] = "retrying" /\ temporary'[TemporaryOf(s)'] \notin {NoFile, Torn}
      BY <1>2, <1>4, <2>2 DEF RemoveFile, TypeOK
    <3>2. QED
      BY <3>1 DEF StoreSurvives
  <2>4. QED
    BY <1>1, <1>2, <1>4, <2>3, FilesAreTold
       DEF RemoveFile, TypeOK, WholeTemporaries, PastWriting, LoadsAreWhole
<1>5. CASE RemoveFails(s)
  BY <1>1, <1>2, <1>5
     DEF RemoveFails, TypeOK, WholeTemporaries, PastWriting, LoadsAreWhole, StoreSurvives
<1>6. CASE RetryFails(s)
  BY <1>1, <1>2, <1>6
     DEF RetryFails, TypeOK, WholeTemporaries, PastWriting, LoadsAreWhole, StoreSurvives
<1>7. QED
  BY <1>3, <1>4, <1>5, <1>6

\* Deciding and routing read the store and leave it alone.
LEMMA NextPreserves == StoreInv /\ [Next]_vars => StoreInv'
<1> SUFFICES ASSUME StoreInv, [Next]_vars PROVE StoreInv'
  OBVIOUS
<1>1. CASE StoreNext
  BY <1>1, CrashPreserves, MemoryPreserves, WritingPreserves, RenamePreserves, FallbackPreserves
     DEF StoreNext
<1>2. CASE UNCHANGED store
  BY <1>2
     DEF store, StoreInv, TypeOK, WholeTemporaries, PastWriting, LoadsAreWhole, StoreSurvives,
         TemporaryOf
<1>3. StoreNext \/ UNCHANGED store
  BY DEF Next, Decide, Forget, StartRuntime, vars, store
<1>4. QED
  BY <1>1, <1>2, <1>3

\* AutotuneDatabase's records and files keep their types, for any number of processes, keys
\* and records.
THEOREM TypeCorrect == Spec => []TypeOK
<1>1. TunedInit => StoreInv
  BY InitEstablishes DEF TunedInit
<1>2. StoreInv => TypeOK
  BY DEF StoreInv
<1>3. QED
  BY <1>1, <1>2, NextPreserves, PTL DEF Spec

\* load never finds a partly written file, whatever save was interrupted.
THEOREM FilesAreWhole == Spec => []LoadsAreWhole
<1>1. TunedInit => StoreInv
  BY InitEstablishes DEF TunedInit
<1>2. StoreInv => LoadsAreWhole
  BY DEF StoreInv
<1>3. QED
  BY <1>1, <1>2, NextPreserves, PTL DEF Spec

\* save never loses the database it replaces, unless its own last rename goes wrong.
THEOREM FileIsKept == Spec => []StoreSurvives
<1>1. TunedInit => StoreInv
  BY InitEstablishes DEF TunedInit
<1>2. StoreInv => StoreSurvives
  BY DEF StoreInv
<1>3. QED
  BY <1>1, <1>2, NextPreserves, PTL DEF Spec

\* The databases that the processes, the file and the temporary files hold.
LEMMA NothingIsDuplicated ==
  ASSUME NEW key
  PROVE  ~DuplicatedSomewhere(key) <=>
           /\ \A s \in Savers : ~HoldsTwice(db[s], key)
           /\ \A d \in {file} \cup {temporary[p] : p \in Processes} :
                d \notin {NoFile, Torn} => ~HoldsTwice(d, key)
BY Zenon DEF DuplicatedSomewhere

\* No step puts a second record of a key anywhere.
LEMMA NoStepDuplicates ==
  ASSUME StoreInv, StoreNext, NEW key, ~DuplicatedSomewhere(key)
  PROVE  ~DuplicatedSomewhere(key)'
<1> DEFINE Clean(d) == d \notin {NoFile, Torn} => ~HoldsTwice(d, key)
           AllClean == /\ \A s \in Savers : ~HoldsTwice(db'[s], key)
                       /\ Clean(file') /\ \A p \in Processes : Clean(temporary'[p])
<1>1. /\ \A s \in Savers : ~HoldsTwice(db[s], key)
      /\ Clean(file) /\ \A p \in Processes : Clean(temporary[p])
  BY NothingIsDuplicated, Zenon
<1>2. ~HoldsTwice(<< >>, key)
  BY DEF HoldsTwice
<1>3. ASSUME AllClean PROVE ~DuplicatedSomewhere(key)'
  <2>1. DuplicatedSomewhere(key)' <=>
          \/ \E s \in Savers : HoldsTwice(db'[s], key)
          \/ \E d \in {file'} \cup {temporary'[p] : p \in Processes} :
               d \notin {NoFile, Torn} /\ HoldsTwice(d, key)
    BY Zenon DEF DuplicatedSomewhere, HoldsTwice
  <2>2. QED
    BY <1>3, <2>1
<1>4. Clean(NoFile) /\ Clean(Torn) /\ \A s \in Savers : Clean(db[s])
  BY <1>1
<1>5. db \in [Savers -> Databases] /\ DOMAIN temporary = Processes
  BY DEF StoreInv, TypeOK
<1>6. \A s \in Savers : TemporaryOf(s) \in Processes
  BY OwnTemporary
<1>7. ASSUME NEW p \in Processes, Crash(p) PROVE AllClean
  BY <1>1, <1>2, <1>7 DEF Crash
<1>8. ASSUME NEW s \in Savers, NEW r \in Records, Record(s, r) PROVE AllClean
  <2>1. ~HoldsTwice(Upsert(db[s], r), key)
    BY <1>1, <1>5, UpsertKeepsKeysApart
  <2>2. QED
    BY <1>1, <1>5, <1>8, <2>1 DEF Record
<1>9. ASSUME NEW s \in Savers, Load(s) PROVE AllClean
  BY <1>1, <1>5, <1>9 DEF Load
<1>10. ASSUME NEW s \in Savers,
              \/ BeginSave(s) \/ Written(s) \/ WriteFails(s) \/ Rename(s) \/ RenameFails(s)
              \/ RemoveFile(s) \/ RemoveFails(s) \/ RetryFails(s)
       PROVE  AllClean
  <2>1. UNCHANGED db
    BY <1>10
       DEF BeginSave, Written, WriteFails, Rename, RenameFails, RemoveFile, RemoveFails, RetryFails
  <2>2. file' = file \/ file' = NoFile \/ file' = temporary[TemporaryOf(s)]
    BY <1>10
       DEF BeginSave, Written, WriteFails, Rename, RenameFails, RemoveFile, RemoveFails, RetryFails
  <2>3. \/ UNCHANGED temporary
        \/ \E d \in {NoFile, Torn, db[s]} : WriteTemporary(s, d)
    BY <1>10
       DEF BeginSave, Written, WriteFails, Rename, RenameFails, RemoveFile, RemoveFails, RetryFails,
           KeptForRetry
  <2> HIDE DEF Clean
  <2>4. Clean(file')
    BY <1>1, <1>4, <1>6, <2>2
  <2>5. \A p \in Processes : Clean(temporary'[p])
    BY <1>1, <1>4, <1>5, <2>3 DEF WriteTemporary
  <2>6. QED
    BY <1>1, <2>1, <2>4, <2>5
<1>11. \A k \in Keys, us \in Medians : [key |-> k, us |-> us] \in Records
  BY BoundsAreNatural DEF Records
<1> HIDE DEF AllClean
<1>12. QED
  BY <1>3, <1>7, <1>8, <1>9, <1>10, <1>11 DEF StoreNext

\* AutotuneDatabase: no step of any process gives a key a second record, so lookup and
\* performance_table_for differ only about a key that a found file already held twice, for
\* any files, processes, keys and records.
THEOREM LookupTellsWhatIsPlannedBy == Spec => LookupTellsWhatCounts
<1> DEFINE Kept == \A key \in Keys :
                     \/ DuplicatedSomewhere(key)'
                     \/ \E s \in Savers : Lookup(db'[s], key) # Measurement(db'[s], key)
                     => DuplicatedSomewhere(key)
<1>1. TunedInit => StoreInv
  BY InitEstablishes DEF TunedInit
<1>2. StoreInv /\ [Next]_vars => [Kept]_store
  <2> SUFFICES ASSUME StoreInv, Next, NEW key, ~DuplicatedSomewhere(key), store' # store
               PROVE  /\ ~DuplicatedSomewhere(key)'
                      /\ \A s \in Savers : Lookup(db'[s], key) = Measurement(db'[s], key)
    BY DEF vars
  <2>1. StoreNext
    BY DEF Next, Decide, Forget, StartRuntime
  <2>2. ~DuplicatedSomewhere(key)'
    BY <2>1, NoStepDuplicates
  <2>3. \A s \in Savers : db'[s] \in Databases
    <3>1. StoreInv'
      BY NextPreserves
    <3>2. QED
      BY <3>1 DEF StoreInv, TypeOK
  <2>4. \A s \in Savers : ~HoldsTwice(db'[s], key)
    BY <2>2, Zenon DEF DuplicatedSomewhere, HoldsTwice
  <2>5. \A s \in Savers : Lookup(db'[s], key) = Measurement(db'[s], key)
    BY <2>3, <2>4, OneRecordIsAgreedOn
  <2>6. QED
    BY <2>2, <2>5
<1>3. QED
  BY <1>1, <1>2, NextPreserves, PTL DEF Spec, LookupTellsWhatCounts

-----------------------------------------------------------------------------
(* Routing *)

Tables == [Backends -> [Operations -> Nat \cup {None}]]

\* b comes before c in an order by cost and then by name.
Before(cost, b, c) == cost[b] < cost[c] \/ (cost[b] = cost[c] /\ b <= c)

\* Iterator::min_by finds one.
LEMMA FirstMinimumIsLeast ==
  ASSUME NEW D, D # {}, D \subseteq Backends, NEW cost \in [D -> Nat]
  PROVE  FirstMinimum(cost) \in D /\ \A c \in D : Before(cost, FirstMinimum(cost), c)
<1>1. PICK v \in {cost[b] : b \in D} : \A u \in {cost[b] : b \in D} : v <= u
  <2>1. {cost[b] : b \in D} \subseteq Nat /\ {cost[b] : b \in D} # {}
    OBVIOUS
  <2>2. QED
    BY <2>1, LeastNatural
<1>2. PICK b \in {d \in D : cost[d] = v} : \A c \in {d \in D : cost[d] = v} : b <= c
  <2>1. {d \in D : cost[d] = v} \subseteq Nat /\ {d \in D : cost[d] = v} # {}
    BY <1>1, BackendsAreNumbers
  <2>2. QED
    BY <2>1, LeastNatural
<1>3. b \in D /\ \A c \in D : cost[b] < cost[c] \/ (cost[b] = cost[c] /\ b <= c)
  BY <1>1, <1>2
<1>4. DOMAIN cost = D
  OBVIOUS
<1>5. QED
  BY <1>3, <1>4, Zenon DEF FirstMinimum, Before

\* There is only one.
LEMMA FirstMinimumIsUnique ==
  ASSUME NEW D, D \subseteq Backends, NEW cost \in [D -> Nat],
         NEW b \in D, \A c \in D : Before(cost, b, c)
  PROVE  FirstMinimum(cost) = b
<1> DEFINE m == FirstMinimum(cost)
<1>1. m \in D /\ \A c \in D : Before(cost, m, c)
  BY FirstMinimumIsLeast, Zenon
<1> HIDE DEF m
<1>2. Before(cost, m, b) /\ Before(cost, b, m) /\ m \in Nat /\ b \in Nat
  BY <1>1, BackendsAreNumbers
<1>3. m = b
  BY <1>1, <1>2 DEF Before
<1>4. QED
  BY <1>3 DEF m

\* What FastestCompatible::select answers.
LEMMA RouteIsFastest ==
  ASSUME NEW available \in SUBSET Backends, NEW table \in Tables,
         NEW request, request.operation \in Operations
  PROVE  LET compatible == Compatible(request, available)
             answer == Route(request, available, table)
             Us(b) == table[b][request.operation]
         IN IF compatible = {} THEN answer = None
            ELSE /\ answer \in compatible /\ answer # None
                 /\ \A b \in compatible :
                      \/ /\ Us(answer) # None
                         /\ Us(b) # None =>
                              \/ Us(answer) < Us(b)
                              \/ Us(answer) = Us(b) /\ answer <= b
                      \/ Us(answer) = None /\ Us(b) = None /\ Rank[answer] <= Rank[b]
<1> DEFINE compatible == Compatible(request, available)
           answer == Route(request, available, table)
           Us(b) == table[b][request.operation]
           median == [b \in compatible |-> MedianUs(table, b, request.operation)]
           measured == {b \in compatible : median[b] # None}
<1>1. compatible \subseteq Backends /\ \A b \in compatible : Us(b) \in Nat \cup {None}
  BY DEF Compatible, Tables
<1>2. \A b \in compatible : b # None
  BY <1>1, BackendsAreNumbers
<1>3. \A b \in compatible : median[b] = Us(b)
  BY DEF MedianUs
<1>4. answer = IF compatible = {} THEN None
               ELSE IF measured # {} THEN FirstMinimum([b \in measured |-> median[b]])
               ELSE FirstMinimum([b \in compatible |-> Rank[b]])
  BY DEF Route
<1> HIDE DEF compatible, answer, median
<1>5. CASE compatible # {} /\ measured # {}
  <2> DEFINE cost == [b \in measured |-> median[b]]
  <2>1. cost \in [measured -> Nat] /\ measured \subseteq Backends /\ answer = FirstMinimum(cost)
    BY <1>1, <1>3, <1>4, <1>5
  <2>2. \A b \in measured : cost[b] = Us(b) /\ Us(b) # None
    BY <1>3
  <2> HIDE DEF cost
  <2>3. answer \in measured /\ \A c \in measured : Before(cost, answer, c)
    BY <1>5, <2>1, FirstMinimumIsLeast
  <2>4. \A b \in compatible : Us(b) # None => b \in measured
    BY <1>3
  <2>5. answer \in compatible /\ answer # None /\ Us(answer) # None
    BY <1>2, <2>2, <2>3
  <2>6. ASSUME NEW b \in compatible, Us(b) # None
        PROVE  Us(answer) < Us(b) \/ (Us(answer) = Us(b) /\ answer <= b)
    BY <2>2, <2>3, <2>4, <2>6 DEF Before
  <2> HIDE DEF measured, Us
  <2>7. QED
    BY <1>5, <2>5, <2>6 DEF compatible, answer, Us
<1>6. CASE compatible # {} /\ measured = {}
  <2> DEFINE cost == [b \in compatible |-> Rank[b]]
  <2>1. cost \in [compatible -> Nat] /\ answer = FirstMinimum(cost)
    BY <1>1, <1>4, <1>6, RanksAreNumbers
  <2>2. \A b \in compatible : cost[b] = Rank[b] /\ Us(b) = None /\ Rank[b] \in Nat
    BY <1>1, <1>3, <1>6, RanksAreNumbers
  <2> HIDE DEF cost
  <2>3. answer \in compatible /\ \A c \in compatible : Before(cost, answer, c)
    BY <1>1, <1>6, <2>1, FirstMinimumIsLeast
  <2>4. answer \in compatible /\ answer # None /\ Us(answer) = None
    BY <1>2, <2>2, <2>3
  <2>5. ASSUME NEW b \in compatible
        PROVE  Us(answer) = None /\ Us(b) = None /\ Rank[answer] <= Rank[b]
    <3>1. cost[b] = Rank[b] /\ cost[answer] = Rank[answer] /\ Before(cost, answer, b)
      BY <2>2, <2>3
    <3>2. Rank[b] \in Nat /\ Rank[answer] \in Nat
      BY <2>2, <2>3
    <3>3. Rank[answer] <= Rank[b]
      BY <3>1, <3>2 DEF Before
    <3>4. QED
      BY <2>2, <2>4, <3>3
  <2> HIDE DEF measured, Us
  <2>6. QED
    BY <1>6, <2>4, <2>5 DEF compatible, answer, Us
<1>7. QED
  BY <1>4, <1>5, <1>6 DEF compatible, answer

\* AutotuneDatabase::performance_table_for projects the measurement that counts.
LEMMA TableIsMeasured ==
  ASSUME NEW d \in Databases, NEW context
  PROVE  /\ PerformanceTableFor(d, context) \in Tables
         /\ \A b \in Backends, o \in Operations :
              LET said == Measurement(d, [context |-> context, backend |-> b, operation |-> o])
              IN PerformanceTableFor(d, context)[b][o] = IF said = NoFile THEN None ELSE said
<1> DEFINE table == PerformanceTableFor(d, context)
           KeyOf(b, o) == [context |-> context, backend |-> b, operation |-> o]
           At(key) == Positions(d, key)
           Entry(b, o) == IF At(KeyOf(b, o)) = {} THEN None ELSE d[LastOf(At(KeyOf(b, o)))].us
<1>1. table = [b \in Backends |-> [o \in Operations |-> Entry(b, o)]]
  <2>1. DOMAIN d = 1 .. Len(d)
    BY DEF Databases
  <2>2. \A key : {i \in DOMAIN d : d[i].key = key} = At(key)
    BY <2>1 DEF Positions
  <2>3. QED
    BY <2>2, Zenon DEF PerformanceTableFor
<1>2. ASSUME NEW b \in Backends, NEW o \in Operations
      PROVE  /\ Entry(b, o) = IF Measurement(d, KeyOf(b, o)) = NoFile THEN None
                                ELSE Measurement(d, KeyOf(b, o))
             /\ Entry(b, o) \in Nat \cup {None}
  <2>1. PICK key : key = KeyOf(b, o)
    OBVIOUS
  <2>2. At(key) \in SUBSET (1 .. Len(d)) /\ Len(d) \in Nat
    BY DEF Positions, Databases
  <2>3. IF At(key) = {} THEN Measurement(d, key) = NoFile
        ELSE Measurement(d, key) = d[Max(At(key))].us /\ Measurement(d, key) \in Nat
    BY FirstAndLast
  <2>4. At(key) # {} => LastOf(At(key)) = Max(At(key))
    BY <2>2, EndsExist
  <2>5. QED
    BY <2>1, <2>3, <2>4, FilesAreTold
<1> HIDE DEF Entry, table
<1>3. table \in Tables
  BY <1>1, <1>2 DEF Tables
<1>4. \A b \in Backends, o \in Operations : table[b][o] = Entry(b, o)
  BY <1>1
<1>5. QED
  BY <1>2, <1>3, <1>4 DEF table

-----------------------------------------------------------------------------
(* The runtime's route: what was probed found is among what was up. *)

RuntimeType ==
  /\ up \subseteq Backends
  /\ runtime # None =>
       /\ runtime \in [built : BOOLEAN, backends : SUBSET Backends, table : Tables]

RouteType ==
  route # None =>
    /\ runtime # None /\ runtime.built
    /\ route \in [request : RequestsAsked, left : SUBSET runtime.backends,
                  found : SUBSET runtime.backends, done : BOOLEAN, answer : Backends \cup {None}]

\* A backend that is up all the time has answered its probe or is still to be probed.
Probed ==
  route # None =>
    /\ route.found \subseteq seen /\ up \cap runtime.backends \subseteq seen
    /\ steady \subseteq up /\ steady \subseteq route.found \cup route.left

Selected ==
  route # None /\ route.done =>
    route.left = {} /\ route.answer = Route(route.request, route.found, runtime.table)

RouteInv == RuntimeType /\ RouteType /\ Probed /\ Selected

LEMMA FirstIsElement ==
  ASSUME NEW S, NEW c \in Seq(S), c # << >>
  PROVE  c[1] \in S
OBVIOUS

LEMMA RequestsAreTyped == \A request \in RequestsAsked : request.operation \in Operations
<1> SUFFICES ASSUME NEW w \in Workloads PROVE w.chain[1].operation \in Operations
  BY DEF RequestsAsked
<1>1. w.chain[1] \in [operation : Operations, needs : SUBSET STRING]
  BY WorkloadsAreTyped, FirstIsElement
<1>2. QED
  BY <1>1

LEMMA RouteAnswers ==
  ASSUME NEW available \in SUBSET Backends, NEW table \in Tables, NEW request \in RequestsAsked
  PROVE  Route(request, available, table) \in Backends \cup {None}
<1>1. request.operation \in Operations
  BY RequestsAreTyped
<1>2. Compatible(request, available) \subseteq Backends
  BY DEF Compatible
<1>3. QED
  BY <1>1, <1>2, RouteIsFastest

\* Building, asking, probing one backend, selecting, and devices that come and go.
LEMMA RuntimeStepPreserves ==
  ASSUME RouteInv, RuntimeNext(RequestsAsked)
  PROVE  RouteInv'
<1> USE DEF RouteInv, RuntimeType, RouteType, Probed, Selected
<1>1. ASSUME NEW b \in Backends, AddBackend(b) PROVE RouteInv'
  BY <1>1 DEF AddBackend, NoRuntime
<1>2. ASSUME NEW b \in Backends, DeviceComesOrGoes(b) PROVE RouteInv'
  BY <1>2 DEF DeviceComesOrGoes
<1>3. CASE Build
  BY <1>3 DEF Build
<1>4. CASE DropRuntime
  BY <1>4 DEF DropRuntime, NoRuntime
<1>5. ASSUME NEW request \in RequestsAsked, BeginRoute(request) PROVE RouteInv'
  BY <1>5 DEF BeginRoute
<1>6. ASSUME NEW answers \in BOOLEAN, ProbeNext(answers) PROVE RouteInv'
  <2> DEFINE b == CHOOSE x \in route.left : \A y \in route.left : x <= y
  <2>1. b \in route.left
    <3>1. route.left \in SUBSET Nat /\ route.left # {}
      BY <1>6, BackendsAreNumbers DEF ProbeNext
    <3>2. \E x \in route.left : \A y \in route.left : x <= y
      BY <3>1, LeastNatural
    <3>3. QED
      BY <3>2
  <2>2. /\ route' = [route EXCEPT !.left = @ \ {b}, !.found = @ \cup FoundBy(b, answers)]
        /\ steady' = IF answers THEN steady ELSE steady \ {b}
        /\ UNCHANGED <<runtime, up, seen>> /\ route # None
    BY <1>6 DEF ProbeNext
  <2> HIDE DEF b
  <2>3. FoundBy(b, answers) \subseteq {b} \cap up /\ (b \in up /\ answers => b \in FoundBy(b, answers))
    BY DEF FoundBy
  <2>4. ~route.done
    BY <2>1, <2>2
  <2>5. route'.request = route.request /\ route'.done = FALSE
    BY <2>2, <2>4
  <2>6. RouteType'
    BY <2>1, <2>2, <2>3
  <2>7. Probed'
    BY <2>1, <2>2, <2>3
  <2>8. QED
    BY <2>2, <2>5, <2>6, <2>7
<1>7. CASE SelectFound
  <2>1. Route(route.request, route.found, runtime.table) \in Backends \cup {None}
    BY <1>7, RouteAnswers DEF SelectFound
  <2>2. QED
    BY <1>7, <2>1 DEF SelectFound
<1>8. CASE RouteReturns
  BY <1>8 DEF RouteReturns
<1>9. QED
  BY <1>1, <1>2, <1>3, <1>4, <1>5, <1>6, <1>7, <1>8 DEF RuntimeNext

LEMMA RouteInvPreserved == StoreInv /\ RouteInv /\ [Next]_vars => RouteInv'
<1> SUFFICES ASSUME StoreInv, RouteInv, [Next]_vars PROVE RouteInv'
  OBVIOUS
<1>1. CASE RuntimeNext(RequestsAsked)
  BY <1>1, RuntimeStepPreserves
<1>2. ASSUME NEW s \in Savers, StartRuntime(s) PROVE RouteInv'
  <2>1. db[s] \in Databases
    BY DEF StoreInv, TypeOK
  <2>2. EmptyTable \in Tables /\ PerformanceTableFor(db[s], Here) \in Tables
    BY <2>1, TableIsMeasured DEF EmptyTable, Tables
  <2>3. PICK table \in Tables : NewBuilder(table)
    BY <1>2, <2>2 DEF StartRuntime
  <2>4. QED
    BY <2>3 DEF NewBuilder, RouteInv, RuntimeType, RouteType, Probed, Selected
<1>3. CASE UNCHANGED runtimeVars
  BY <1>3 DEF runtimeVars, RouteInv, RuntimeType, RouteType, Probed, Selected
<1>4. QED
  BY <1>1, <1>2, <1>3 DEF Next, Decide, Forget, vars

LEMMA RouteInvImplies == RouteInv => RouteWasRight
<1> DEFINE request == route.request
           found == route.found
           Us(b) == runtime.table[b][request.operation]
           able == {b \in steady : Supports(b, request)}
<1> SUFFICES ASSUME RouteInv, route # None, route.done
    PROVE IF route.answer = None THEN able = {}
          ELSE /\ route.answer \in seen /\ Supports(route.answer, request)
               /\ \A b \in able \ {route.answer} :
                    \/ /\ Us(route.answer) # None
                       /\ Us(b) # None =>
                            \/ Us(route.answer) < Us(b)
                            \/ Us(route.answer) = Us(b) /\ route.answer < b
                    \/ Us(route.answer) = None /\ Us(b) = None /\ Rank[route.answer] <= Rank[b]
  BY DEF RouteWasRight
<1>1. /\ found \in SUBSET Backends /\ runtime.table \in Tables
      /\ request.operation \in Operations
      /\ route.answer = Route(request, found, runtime.table)
  BY RequestsAreTyped DEF RouteInv, RuntimeType, RouteType, Selected
<1>2. found \subseteq seen /\ steady \subseteq found
  BY DEF RouteInv, Probed, Selected
<1>3. able \subseteq Compatible(request, found)
  BY <1>2 DEF Compatible
<1>4. \A b \in Compatible(request, found) : b \in found /\ b \in Nat /\ Supports(b, request)
  BY <1>1, BackendsAreNumbers DEF Compatible
<1> DEFINE compatible == Compatible(request, found)
           answer == Route(request, found, runtime.table)
<1>5. IF compatible = {} THEN answer = None
      ELSE /\ answer \in compatible /\ answer # None
           /\ \A b \in compatible :
                \/ /\ Us(answer) # None
                   /\ Us(b) # None =>
                        \/ Us(answer) < Us(b)
                        \/ Us(answer) = Us(b) /\ answer <= b
                \/ Us(answer) = None /\ Us(b) = None /\ Rank[answer] <= Rank[b]
  BY <1>1, RouteIsFastest
<1> HIDE DEF compatible, answer, request, found, able, Us
<1>6. CASE compatible = {}
  BY <1>1, <1>3, <1>5, <1>6 DEF compatible, answer
<1>7. CASE compatible # {}
  <2>1. /\ answer # None /\ answer = route.answer /\ answer \in compatible
    BY <1>1, <1>5, <1>7 DEF answer
  <2>2. answer \in seen /\ Supports(answer, request) /\ answer \in Nat
    BY <1>2, <1>4, <2>1 DEF compatible
  <2>3. ASSUME NEW b \in able \ {answer}
        PROVE \/ /\ Us(answer) # None
                 /\ Us(b) # None =>
                      \/ Us(answer) < Us(b)
                      \/ Us(answer) = Us(b) /\ answer < b
              \/ Us(answer) = None /\ Us(b) = None /\ Rank[answer] <= Rank[b]
    <3>1. b \in compatible /\ b \in Nat /\ b # answer
      BY <1>3, <1>4 DEF compatible
    <3>2. answer <= b => answer < b
      BY <2>2, <3>1
    <3>3. QED
      BY <1>5, <1>7, <3>1, <3>2
  <2>4. QED
    BY <2>1, <2>2, <2>3
<1>8. QED
  BY <1>6, <1>7

\* Runtime::route probes one backend after the other, and what it answers is still right
\* of the backends that were up throughout, for any backends, tables and requests.
THEOREM RouteIsRight == Spec => []RouteWasRight
<1>1. TunedInit => StoreInv /\ RouteInv
  BY InitEstablishes
     DEF TunedInit, RuntimeInit, RouteInv, RuntimeType, RouteType, Probed, Selected
<1>2. StoreInv /\ RouteInv /\ [Next]_vars => (StoreInv /\ RouteInv)'
  BY NextPreserves, RouteInvPreserved
<1>3. QED
  BY <1>1, <1>2, RouteInvImplies, PTL DEF Spec

-----------------------------------------------------------------------------
(* Planning: the layers, and the walk back through them *)

\* One layer, from the layer before.
LayerStep(chain, available, table, layer, i) ==
  [b \in Compatible(chain[i], available) |->
     LET cost == OperatorCost(b, chain[i], table)
     IN IF i = 1 THEN FirstState(cost) ELSE StateAfter(layer[i - 1], b, cost)]

LayerRecursion(chain, available, table, layer) ==
  layer = [i \in 1 .. Len(chain) |-> LayerStep(chain, available, table, layer, i)]

LEMMA LayersAreRecursive ==
  ASSUME NEW chain, NEW available, NEW table
  PROVE  Layers(chain, available, table) =
           CHOOSE layer : LayerRecursion(chain, available, table, layer)
BY DEF Layers, LayerRecursion, LayerStep

\* CostAwarePlanner::plan goes forward through the chain.
LEMMA LayersExist ==
  ASSUME NEW chain, Len(chain) \in Nat, NEW available, NEW table
  PROVE  LayerRecursion(chain, available, table, Layers(chain, available, table))
<1> DEFINE n == Len(chain)
           Step(layer, i) == LayerStep(chain, available, table, layer, i)
           Reached == {k \in Nat : k <= n => \E g : g = [i \in 1 .. k |-> Step(g, i)]}
<1>1. 0 \in Reached
  <2>1. \A g : [i \in 1 .. 0 |-> Step(g, i)] = << >>
    OBVIOUS
  <2>2. \E g : g = [i \in 1 .. 0 |-> Step(g, i)]
    BY <2>1
  <2>3. QED
    BY <2>2
<1>2. ASSUME NEW k \in Nat, k \in Reached PROVE k + 1 \in Reached
  <2>1. SUFFICES ASSUME k + 1 <= n PROVE \E g : g = [i \in 1 .. (k + 1) |-> Step(g, i)]
    OBVIOUS
  <2>2. PICK g : g = [i \in 1 .. k |-> Step(g, i)]
    BY <1>2, <2>1
  <2> DEFINE h == [i \in 1 .. (k + 1) |-> Step(g, i)]
  <2>3. \A i \in 1 .. k : h[i] = g[i]
    BY <2>2
  <2>4. \A i \in 1 .. (k + 1) : Step(h, i) = Step(g, i)
    <3> SUFFICES ASSUME NEW i \in 1 .. (k + 1) PROVE Step(h, i) = Step(g, i)
      OBVIOUS
    <3>1. i # 1 => h[i - 1] = g[i - 1]
      BY <2>3
    <3> HIDE DEF h
    <3>2. QED
      BY <3>1 DEF LayerStep
  <2> HIDE DEF Step
  <2>5. h = [i \in 1 .. (k + 1) |-> Step(h, i)]
    BY <2>4
  <2>6. QED
    BY <2>5
<1> HIDE DEF Reached
<1>3. Nat \subseteq Reached
  BY <1>1, <1>2, NatSetInduction
<1>4. \E g : LayerRecursion(chain, available, table, g)
  BY <1>3 DEF Reached, LayerRecursion
<1>5. QED
  BY <1>4, LayersAreRecursive, Zenon

\* One choice, from the choice after.
ChoiceStep(layers, n, chosen, i) ==
  IF i = n THEN FirstMinimum([b \in DOMAIN layers[n] |-> layers[n][b].total])
  ELSE layers[i + 1][chosen[i + 1]].previous

ChoiceRecursion(layers, n, chosen) == chosen = [i \in 1 .. n |-> ChoiceStep(layers, n, chosen, i)]

WayBack(layers, n) == CHOOSE chosen : ChoiceRecursion(layers, n, chosen)

LEMMA ReconstructedIsRecursive ==
  ASSUME NEW layers, NEW n
  PROVE  Reconstructed(layers, n) =
           [i \in 1 .. n |->
              [backend |-> WayBack(layers, n)[i],
               operator |-> layers[i][WayBack(layers, n)[i]].operator,
               transition |-> layers[i][WayBack(layers, n)[i]].transition,
               cumulative |-> layers[i][WayBack(layers, n)[i]].total]]
BY DEF Reconstructed, WayBack, ChoiceRecursion, ChoiceStep

\* reconstruct goes back through the layers.
LEMMA WayBackExists ==
  ASSUME NEW layers, NEW n \in Nat
  PROVE  ChoiceRecursion(layers, n, WayBack(layers, n))
<1> DEFINE Step(chosen, i) == ChoiceStep(layers, n, chosen, i)
           Reached == {k \in Nat : k < n => \E g : g = [i \in (n - k) .. n |-> Step(g, i)]}
<1>1. 0 \in Reached
  <2> DEFINE h == [i \in (n - 0) .. n |-> Step(<< >>, i)]
  <2>1. \A i \in (n - 0) .. n : Step(h, i) = Step(<< >>, i)
    BY DEF ChoiceStep
  <2> HIDE DEF Step
  <2>2. h = [i \in (n - 0) .. n |-> Step(h, i)]
    BY <2>1
  <2>3. QED
    BY <2>2
<1>2. ASSUME NEW k \in Nat, k \in Reached PROVE k + 1 \in Reached
  <2>1. SUFFICES ASSUME k + 1 < n PROVE \E g : g = [i \in (n - (k + 1)) .. n |-> Step(g, i)]
    OBVIOUS
  <2>2. PICK g : g = [i \in (n - k) .. n |-> Step(g, i)]
    BY <1>2, <2>1
  <2> DEFINE h == [i \in (n - (k + 1)) .. n |-> Step(g, i)]
  <2>3. \A i \in (n - k) .. n : h[i] = g[i]
    BY <2>2
  <2>4. \A i \in (n - (k + 1)) .. n : Step(h, i) = Step(g, i)
    <3> SUFFICES ASSUME NEW i \in (n - (k + 1)) .. n PROVE Step(h, i) = Step(g, i)
      OBVIOUS
    <3>1. i # n => i + 1 \in (n - k) .. n
      OBVIOUS
    <3> HIDE DEF h
    <3>2. i # n => h[i + 1] = g[i + 1]
      BY <2>3, <3>1
    <3>3. QED
      BY <3>2 DEF ChoiceStep
  <2> HIDE DEF Step
  <2>5. h = [i \in (n - (k + 1)) .. n |-> Step(h, i)]
    BY <2>4
  <2>6. QED
    BY <2>5
<1> HIDE DEF Reached
<1>3. Nat \subseteq Reached
  BY <1>1, <1>2, NatSetInduction
<1>4. \E g : ChoiceRecursion(layers, n, g)
  <2>1. CASE n = 0
    <3>1. \A g : [i \in 1 .. n |-> ChoiceStep(layers, n, g, i)] = << >>
      BY <2>1
    <3>2. QED
      BY <3>1 DEF ChoiceRecursion
  <2>2. CASE n # 0
    <3>1. n - 1 \in Reached /\ n - 1 < n /\ n - (n - 1) = 1
      BY <1>3, <2>2
    <3>2. QED
      BY <3>1 DEF Reached, ChoiceRecursion
  <2>3. QED
    BY <2>1, <2>2
<1>5. QED
  BY <1>4, Zenon DEF WayBack

-----------------------------------------------------------------------------
(* Planning: the layers hold the least totals *)

Plannable(chain, available, table) ==
  /\ chain \in Seq([operation : Operations, needs : SUBSET STRING]) /\ chain # << >>
  /\ available \subseteq Backends /\ table \in Tables

Runnable(chain, available) == \A i \in 1 .. Len(chain) : Compatible(chain[i], available) # {}

LEMMA ChangesAreNatural == \A a, b : TransitionCost(a, b) \in Nat
BY CostsAreNumbers DEF TransitionCost

LEMMA CostsAreNatural ==
  ASSUME NEW chain, NEW available, NEW table, Plannable(chain, available, table)
  PROVE  /\ Len(chain) \in Nat \ {0} /\ DOMAIN chain = 1 .. Len(chain)
         /\ \A i \in 1 .. Len(chain) :
              /\ Compatible(chain[i], available) \subseteq Backends
              /\ chain[i].operation \in Operations
              /\ \A b \in Backends : OperatorCost(b, chain[i], table) \in Nat
<1> DEFINE R == [operation : Operations, needs : SUBSET STRING]
<1>1. /\ chain \in Seq(R) /\ chain # << >>
      /\ available \subseteq Backends /\ table \in Tables
  BY DEF Plannable
<1>2. \A r \in R : r.operation \in Operations
  OBVIOUS
<1> HIDE DEF R
<1>3. Len(chain) \in Nat \ {0} /\ DOMAIN chain = 1 .. Len(chain)
  BY <1>1
<1>4. ASSUME NEW i \in 1 .. Len(chain)
      PROVE  chain[i].operation \in Operations
  <2>1. chain[i] \in R
    BY <1>1
  <2>2. QED
    BY <1>2, <2>1
<1>5. ASSUME NEW b \in Backends, NEW request, request.operation \in Operations
      PROVE  OperatorCost(b, request, table) \in Nat
  <2>1. table[b][request.operation] \in Nat \cup {None}
    BY <1>1, <1>5 DEF Tables
  <2>2. UnmeasuredUs + RankPenaltyUs * Rank[b] \in Nat
    <3>1. Rank[b] \in Nat /\ UnmeasuredUs \in Nat /\ RankPenaltyUs \in Nat
      BY RanksAreNumbers, CostsAreNumbers
    <3>2. QED
      BY <3>1
  <2>3. QED
    BY <2>1, <2>2 DEF OperatorCost, MedianUs
<1>6. QED
  BY <1>1, <1>3, <1>4, <1>5 DEF Compatible

\* One layer: a state for every compatible backend.
IsLayer(D, layer) == DOMAIN layer = D /\ \A a \in D : layer[a].total \in Nat

\* One state: the predecessor is the best there is.
IsLeast(D, before, b, cost, state) ==
  /\ state.previous \in D /\ state.total \in Nat
  /\ state.total = before[state.previous].total + TransitionCost(state.previous, b) + cost
  /\ \A c \in D : before[state.previous].total + TransitionCost(state.previous, b)
                    <= before[c].total + TransitionCost(c, b)

LEMMA FirstStateCosts == \A cost : FirstState(cost).total = cost
BY DEF FirstState

LEMMA StateAfterIsLeast ==
  ASSUME NEW D, D \subseteq Backends, D # {}, NEW before, IsLayer(D, before),
         NEW b, NEW cost \in Nat
  PROVE  IsLeast(D, before, b, cost, StateAfter(before, b, cost))
<1> DEFINE way == [a \in D |-> before[a].total + TransitionCost(a, b)]
           best == BestBefore(before, b)
<1>1. way \in [D -> Nat] /\ best = FirstMinimum(way)
  BY ChangesAreNatural DEF BestBefore, IsLayer
<1>2. \A a \in D : way[a] = before[a].total + TransitionCost(a, b)
  OBVIOUS
<1> HIDE DEF way
<1>3. best \in D /\ \A c \in D : Before(way, best, c)
  BY <1>1, FirstMinimumIsLeast
<1>4. \A c \in D : way[best] <= way[c]
  BY <1>1, <1>3 DEF Before
<1>5. /\ StateAfter(before, b, cost).previous = best
      /\ StateAfter(before, b, cost).total = before[best].total + TransitionCost(best, b) + cost
  BY DEF StateAfter
<1> HIDE DEF best
<1>6. before[best].total + TransitionCost(best, b) + cost \in Nat
  BY <1>3, ChangesAreNatural DEF IsLayer
<1>7. QED
  BY <1>2, <1>3, <1>4, <1>5, <1>6 DEF IsLeast

\* What the layers of a chain that can run are.
LayersRight(chain, available, table, layers) ==
  \A i \in 1 .. Len(chain) :
    /\ IsLayer(Compatible(chain[i], available), layers[i])
    /\ \A b \in Compatible(chain[i], available) :
         IF i = 1 THEN layers[i][b].total = OperatorCost(b, chain[i], table)
         ELSE IsLeast(Compatible(chain[i - 1], available), layers[i - 1], b,
                      OperatorCost(b, chain[i], table), layers[i][b])

LEMMA LayersAreRight ==
  ASSUME NEW chain, NEW available, NEW table,
         Plannable(chain, available, table), Runnable(chain, available)
  PROVE  LayersRight(chain, available, table, Layers(chain, available, table))
<1> DEFINE n == Len(chain)
           L == Layers(chain, available, table)
           C(i) == Compatible(chain[i], available)
           Cost(i, b) == OperatorCost(b, chain[i], table)
<1>1. /\ n \in Nat \ {0} /\ \A i \in 1 .. n : C(i) # {} /\ C(i) \subseteq Backends
      /\ \A i \in 1 .. n : \A b \in C(i) : Cost(i, b) \in Nat
  BY CostsAreNatural DEF Runnable
<1>2. L = [i \in 1 .. n |-> LayerStep(chain, available, table, L, i)]
  BY <1>1, LayersExist DEF LayerRecursion
<1> HIDE DEF n, L, C, Cost
<1>3. ASSUME NEW i \in 1 .. n
      PROVE  /\ DOMAIN L[i] = C(i)
             /\ \A b \in C(i) :
                  L[i][b] = IF i = 1 THEN FirstState(Cost(i, b))
                            ELSE StateAfter(L[i - 1], b, Cost(i, b))
  <2>1. L[i] = [b \in C(i) |-> IF i = 1 THEN FirstState(Cost(i, b))
                               ELSE StateAfter(L[i - 1], b, Cost(i, b))]
    BY <1>2 DEF LayerStep, C, Cost
  <2>2. QED
    BY <2>1
<1> DEFINE T == {i \in 1 .. n : IsLayer(C(i), L[i])}
<1>4. \A b \in C(1) : L[1][b].total = Cost(1, b)
  <2>1. 1 \in 1 .. n
    BY <1>1
  <2>2. \A b \in C(1) : L[1][b] = FirstState(Cost(1, b))
    BY <1>3, <2>1
  <2>3. QED
    BY <2>2, FirstStateCosts
<1>5. ASSUME NEW i \in 1 .. n, i # 1, i - 1 \in T, NEW b \in C(i)
      PROVE  IsLeast(C(i - 1), L[i - 1], b, Cost(i, b), L[i][b])
  <2>1. i - 1 \in 1 .. n /\ L[i][b] = StateAfter(L[i - 1], b, Cost(i, b)) /\ Cost(i, b) \in Nat
    BY <1>1, <1>3, <1>5
  <2>2. C(i - 1) \subseteq Backends /\ C(i - 1) # {} /\ IsLayer(C(i - 1), L[i - 1])
    BY <1>1, <1>5, <2>1
  <2>3. QED
    BY <2>1, <2>2, StateAfterIsLeast
<1>6. 1 .. n \subseteq T
  <2>1. 1 \in T
    BY <1>1, <1>3, <1>4 DEF IsLayer
  <2>2. ASSUME NEW i \in 1 .. n, i \in T, i < n PROVE i + 1 \in T
    <3>1. i + 1 \in 1 .. n /\ i + 1 # 1 /\ (i + 1) - 1 = i
      BY <1>1, <2>2
    <3>2. \A b \in C(i + 1) : L[i + 1][b].total \in Nat
      BY <1>5, <2>2, <3>1 DEF IsLeast
    <3>3. QED
      BY <1>3, <3>1, <3>2 DEF IsLayer
  <2> HIDE DEF T
  <2>3. QED
    BY <1>1, <2>1, <2>2, UpwardInduction
<1>7. ASSUME NEW i \in 1 .. n
      PROVE  /\ IsLayer(C(i), L[i])
             /\ \A b \in C(i) : IF i = 1 THEN L[i][b].total = Cost(i, b)
                                ELSE IsLeast(C(i - 1), L[i - 1], b, Cost(i, b), L[i][b])
  <2>1. i # 1 => i - 1 \in T
    <3>1. i # 1 => i - 1 \in 1 .. n
      BY <1>1
    <3> HIDE DEF T
    <3>2. QED
      BY <1>6, <3>1
  <2>2. IsLayer(C(i), L[i])
    BY <1>6
  <2> HIDE DEF T
  <2>3. QED
    BY <1>4, <1>5, <2>1, <2>2
<1>8. QED
  BY <1>7 DEF LayersRight, n, L, C, Cost

-----------------------------------------------------------------------------
(* Planning: no assignment costs less *)

\* f gives every request of the chain a backend that can run it.
Assigned(chain, available, f) ==
  /\ f \in [1 .. Len(chain) -> Backends]
  /\ \A i \in 1 .. Len(chain) : f[i] \in Compatible(chain[i], available)

\* What the requests up to k cost one by one.
StepCost(chain, table, f, i) ==
  OperatorCost(f[i], chain[i], table) + (IF i = 1 THEN 0 ELSE TransitionCost(f[i - 1], f[i]))

StepCosts(chain, table, f, k) == [i \in 1 .. k |-> StepCost(chain, table, f, i)]

CostSoFar(chain, table, f, k) == SumFunction(StepCosts(chain, table, f, k))

LEMMA CostsAddUp ==
  ASSUME NEW chain, NEW available, NEW table, Plannable(chain, available, table),
         NEW f, Assigned(chain, available, f)
  PROVE  /\ CostSoFar(chain, table, f, 1) = OperatorCost(f[1], chain[1], table)
         /\ \A k \in 1 .. Len(chain) :
              /\ CostSoFar(chain, table, f, k) \in Nat
              /\ k # 1 => CostSoFar(chain, table, f, k) =
                           CostSoFar(chain, table, f, k - 1) + TransitionCost(f[k - 1], f[k])
                             + OperatorCost(f[k], chain[k], table)
<1> DEFINE n == Len(chain)
           Step(i) == StepCost(chain, table, f, i)
           Rows(k) == StepCosts(chain, table, f, k)
<1>1. n \in Nat \ {0} /\ f \in [1 .. n -> Backends]
  BY CostsAreNatural DEF Assigned
<1>2. \A i \in 1 .. n : Step(i) \in Nat /\ OperatorCost(f[i], chain[i], table) \in Nat
  BY <1>1, CostsAreNatural, ChangesAreNatural DEF StepCost
<1>3. ASSUME NEW k \in Nat, k + 1 <= n
      PROVE  SumFunction(Rows(k + 1)) = Step(k + 1) + SumFunction(Rows(k)) /\ SumFunction(Rows(k)) \in Nat
  <2>1. Rows(k + 1)[k + 1] = Step(k + 1)
    BY DEF StepCosts
  <2>2. OneMoreRow(Rows(k + 1), Rows(k), k)
    <3>1. \A i \in 1 .. (k + 1) : i \in 1 .. n
      BY <1>1, <1>3
    <3> HIDE DEF Step
    <3>2. Rows(k) = [i \in 1 .. k |-> Step(i)] /\ Rows(k + 1) = [i \in 1 .. (k + 1) |-> Step(i)]
      BY DEF StepCosts, Step
    <3> HIDE DEF Rows
    <3>3. QED
      BY <1>2, <3>1, <3>2 DEF OneMoreRow
  <2> HIDE DEF Rows, Step
  <2>3. QED
    BY <2>1, <2>2, SumOfOneMore
<1>4. SumFunction(Rows(0)) = 0
  <2>1. Rows(0) = [i \in 1 .. 0 |-> 0]
    BY DEF StepCosts
  <2>2. IsFiniteSet(1 .. 0)
    BY FS_Interval
  <2>3. SumFunction([i \in 1 .. 0 |-> 0]) = 0
    BY <2>2, SumOfZeros
  <2> HIDE DEF Rows
  <2>4. QED
    BY <2>1, <2>3
<1> HIDE DEF Rows, n
<1>5. SumFunction(Rows(1)) = OperatorCost(f[1], chain[1], table)
  <2>1. SumFunction(Rows(0 + 1)) = Step(0 + 1) + SumFunction(Rows(0))
    BY <1>1, <1>3
  <2>2. Step(1) = OperatorCost(f[1], chain[1], table) + 0 /\ OperatorCost(f[1], chain[1], table) \in Nat
    BY <1>1, <1>2 DEF StepCost
  <2> HIDE DEF Step
  <2>3. QED
    BY <1>4, <2>1, <2>2
<1>6. ASSUME NEW k \in 1 .. n
      PROVE  /\ SumFunction(Rows(k)) \in Nat
             /\ k # 1 => SumFunction(Rows(k)) =
                          SumFunction(Rows(k - 1)) + TransitionCost(f[k - 1], f[k])
                            + OperatorCost(f[k], chain[k], table)
  <2>1. k - 1 \in Nat /\ (k - 1) + 1 = k /\ k <= n
    BY <1>1
  <2>2. SumFunction(Rows(k)) = Step(k) + SumFunction(Rows(k - 1)) /\ SumFunction(Rows(k - 1)) \in Nat
    BY <1>3, <2>1
  <2>3. Step(k) \in Nat /\ OperatorCost(f[k], chain[k], table) \in Nat
    BY <1>2
  <2>4. k # 1 => Step(k) = OperatorCost(f[k], chain[k], table) + TransitionCost(f[k - 1], f[k])
    BY DEF StepCost
  <2> HIDE DEF Step
  <2>5. QED
    BY <2>2, <2>3, <2>4, ChangesAreNatural
<1>7. QED
  BY <1>5, <1>6 DEF CostSoFar, Rows, n

\* The first layer, where nothing went before.
LEMMA FirstLayerCosts ==
  ASSUME NEW chain, Len(chain) \in Nat \ {0}, NEW available, NEW table, NEW layers,
         LayersRight(chain, available, table, layers)
  PROVE  \A b \in Compatible(chain[1], available) :
           layers[1][b].total = OperatorCost(b, chain[1], table)
<1>1. 1 \in 1 .. Len(chain)
  OBVIOUS
<1>2. QED
  BY <1>1 DEF LayersRight

\* The layers bound what any assignment costs from below.
LEMMA NoCheaperWay ==
  ASSUME NEW chain, NEW available, NEW table, Plannable(chain, available, table),
         NEW layers, LayersRight(chain, available, table, layers),
         NEW f, Assigned(chain, available, f)
  PROVE  \A k \in 1 .. Len(chain) : layers[k][f[k]].total <= CostSoFar(chain, table, f, k)
<1> DEFINE n == Len(chain)
           Far(k) == CostSoFar(chain, table, f, k)
           T == {k \in 1 .. n : layers[k][f[k]].total <= Far(k)}
<1>1. n \in Nat \ {0} /\ \A k \in 1 .. n : f[k] \in Compatible(chain[k], available) /\ f[k] \in Backends
  BY CostsAreNatural DEF Assigned
<1>2. 1 \in T
  <2>1. 1 \in 1 .. n /\ Far(1) \in Nat /\ Far(1) = OperatorCost(f[1], chain[1], table)
    BY <1>1, CostsAddUp
  <2>2. layers[1][f[1]].total = OperatorCost(f[1], chain[1], table)
    BY <1>1, <2>1 DEF LayersRight
  <2>3. QED
    BY <2>1, <2>2
<1>3. ASSUME NEW i \in 1 .. n, i \in T, i < n PROVE i + 1 \in T
  <2>1. i + 1 \in 1 .. n /\ i + 1 # 1 /\ (i + 1) - 1 = i
    BY <1>1, <1>3
  <2>2. PICK a, b : a = f[i] /\ b = f[i + 1]
    OBVIOUS
  <2>3. PICK cost : cost = OperatorCost(b, chain[i + 1], table)
    OBVIOUS
  <2>4. /\ Far(i + 1) = Far(i) + TransitionCost(a, b) + cost
        /\ Far(i) \in Nat /\ Far(i + 1) \in Nat
    BY <2>1, <2>2, <2>3, CostsAddUp
  <2>5. IsLeast(Compatible(chain[i], available), layers[i], b, cost, layers[i + 1][b])
    <3>1. b \in Compatible(chain[i + 1], available)
      BY <1>1, <2>1, <2>2
    <3>2. QED
      BY <2>1, <2>3, <3>1 DEF LayersRight
  <2>6. layers[i][a].total \in Nat /\ a \in Compatible(chain[i], available)
    BY <1>1, <2>2 DEF LayersRight, IsLayer
  <2>7. IsLayer(Compatible(chain[i], available), layers[i])
    BY DEF LayersRight
  <2>8. cost \in Nat
    BY <1>1, <2>1, <2>2, <2>3, CostsAreNatural
  <2> HIDE DEF Far
  <2>9. layers[i][a].total <= Far(i)
    BY <1>3, <2>2
  <2>10. layers[i + 1][b].total <= layers[i][a].total + TransitionCost(a, b) + cost
    <3>1. PICK p : p = layers[i + 1][b].previous
      OBVIOUS
    <3>2. /\ layers[i + 1][b].total = layers[i][p].total + TransitionCost(p, b) + cost
          /\ layers[i][p].total + TransitionCost(p, b) <= layers[i][a].total + TransitionCost(a, b)
          /\ layers[i][p].total \in Nat
      BY <2>5, <2>6, <2>7, <3>1 DEF IsLeast, IsLayer
    <3>3. PICK before, alternative : /\ before = layers[i][p].total + TransitionCost(p, b)
                                     /\ alternative = layers[i][a].total + TransitionCost(a, b)
      OBVIOUS
    <3>4. before \in Nat /\ alternative \in Nat /\ before <= alternative
      <4>1. before \in Nat
        BY <3>2, <3>3, ChangesAreNatural
      <4>2. alternative \in Nat
        BY <2>6, <3>3, ChangesAreNatural
      <4>3. QED
        BY <3>2, <3>3, <4>1, <4>2
    <3>5. before + cost <= alternative + cost
      BY <2>8, <3>4
    <3>6. QED
      BY <3>2, <3>3, <3>5
  <2>11. layers[i + 1][b].total \in Nat
    BY <2>5 DEF IsLeast
  <2>12. layers[i + 1][b].total <= Far(i + 1)
    <3>1. PICK x, y, change : x = layers[i][a].total /\ y = Far(i) /\ change = TransitionCost(a, b)
      OBVIOUS
    <3>2. x \in Nat /\ y \in Nat /\ change \in Nat /\ x <= y
      BY <2>4, <2>6, <2>9, <3>1, ChangesAreNatural
    <3>3. x + change + cost <= y + change + cost
      BY <2>8, <3>2
    <3>4. x + change + cost \in Nat /\ y + change + cost \in Nat
      BY <2>8, <3>2
    <3>5. QED
      BY <2>4, <2>10, <2>11, <3>1, <3>3, <3>4
  <2>13. QED
    BY <2>1, <2>2, <2>12
<1> HIDE DEF T
<1>4. 1 .. n \subseteq T
  BY <1>1, <1>2, <1>3, UpwardInduction
<1>5. QED
  BY <1>4 DEF T

\* The walk back through the layers costs what the last layer says.
LEMMA WayBackCostsItsTotal ==
  ASSUME NEW chain, NEW available, NEW table, Plannable(chain, available, table),
         NEW layers, LayersRight(chain, available, table, layers), Runnable(chain, available)
  PROVE  LET n == Len(chain)
             chosen == WayBack(layers, n)
         IN /\ Assigned(chain, available, chosen)
            /\ \A k \in 1 .. n : layers[k][chosen[k]].total = CostSoFar(chain, table, chosen, k)
            /\ \A b \in Compatible(chain[n], available) :
                 layers[n][chosen[n]].total <= layers[n][b].total
<1> DEFINE n == Len(chain)
           chosen == WayBack(layers, n)
           C(i) == Compatible(chain[i], available)
           T == {k \in 1 .. n : chosen[k] \in C(k)}
           Far(k) == CostSoFar(chain, table, chosen, k)
           R == {k \in 1 .. n : layers[k][chosen[k]].total = Far(k)}
<1>1. n \in Nat \ {0} /\ \A i \in 1 .. n : C(i) \subseteq Backends /\ C(i) # {}
  BY CostsAreNatural DEF Runnable
<1>2. chosen = [i \in 1 .. n |-> ChoiceStep(layers, n, chosen, i)]
  BY <1>1, WayBackExists DEF ChoiceRecursion
<1>3. \A i \in 1 .. n : IsLayer(C(i), layers[i])
  BY DEF LayersRight
<1>4. \A i \in 1 .. n : \A b \in C(i) :
        i # 1 => IsLeast(C(i - 1), layers[i - 1], b, OperatorCost(b, chain[i], table), layers[i][b])
  BY DEF LayersRight
<1>5. \A b \in C(1) : layers[1][b].total = OperatorCost(b, chain[1], table)
  BY <1>1, FirstLayerCosts
<1> HIDE DEF chosen, C, n
<1>6. \A i \in 1 .. n : i < n => chosen[i] = layers[i + 1][chosen[i + 1]].previous
  <2>1. \A i \in 1 .. n : chosen[i] = ChoiceStep(layers, n, chosen, i)
    BY <1>2
  <2>2. \A i \in 1 .. n : i < n => i # n
    BY <1>1
  <2>3. QED
    BY <2>1, <2>2 DEF ChoiceStep
<1>7. /\ chosen[n] \in C(n)
      /\ \A b \in C(n) : layers[n][chosen[n]].total <= layers[n][b].total
  <2> DEFINE cost == [b \in DOMAIN layers[n] |-> layers[n][b].total]
  <2>1. n \in 1 .. n
    BY <1>1
  <2>2. chosen[n] = FirstMinimum(cost)
    BY <1>2, <2>1 DEF ChoiceStep
  <2>3. cost \in [C(n) -> Nat] /\ \A b \in C(n) : cost[b] = layers[n][b].total
    BY <1>3, <2>1 DEF IsLayer
  <2> HIDE DEF cost
  <2>4. chosen[n] \in C(n) /\ \A c \in C(n) : Before(cost, chosen[n], c)
    BY <1>1, <2>1, <2>2, <2>3, FirstMinimumIsLeast
  <2>5. \A c \in C(n) : cost[chosen[n]] <= cost[c]
    BY <2>3, <2>4 DEF Before
  <2>6. QED
    BY <2>3, <2>4, <2>5
<1>8. 1 .. n \subseteq T
  <2>1. n \in T
    BY <1>1, <1>7
  <2>2. ASSUME NEW i \in 1 .. n, i + 1 \in T, i < n PROVE i \in T
    <3>1. i + 1 \in 1 .. n /\ i + 1 # 1 /\ (i + 1) - 1 = i /\ chosen[i + 1] \in C(i + 1)
      BY <1>1, <2>2
    <3>2. layers[i + 1][chosen[i + 1]].previous \in C(i)
      BY <1>4, <3>1 DEF IsLeast
    <3>3. QED
      BY <1>6, <2>2, <3>2
  <2> HIDE DEF T
  <2>3. QED
    BY <1>1, <2>1, <2>2, DownwardInduction
<1>9. Assigned(chain, available, chosen)
  <2>1. chosen \in [1 .. n -> Backends] /\ \A i \in 1 .. n : chosen[i] \in C(i)
    BY <1>1, <1>2, <1>8
  <2>2. QED
    BY <2>1 DEF Assigned, C, n
<1>10. \A k \in 1 .. n :
         k # 1 => Far(k) = Far(k - 1) + TransitionCost(chosen[k - 1], chosen[k])
                             + OperatorCost(chosen[k], chain[k], table)
  BY <1>9, CostsAddUp DEF n
<1>11. Far(1) = OperatorCost(chosen[1], chain[1], table)
  BY <1>9, CostsAddUp
<1> HIDE DEF Far
<1>12. 1 .. n \subseteq R
  <2>1. 1 \in R
    BY <1>1, <1>5, <1>8, <1>11
  <2>2. ASSUME NEW i \in 1 .. n, i \in R, i < n PROVE i + 1 \in R
    <3>1. i + 1 \in 1 .. n /\ i + 1 # 1 /\ (i + 1) - 1 = i
      BY <1>1, <2>2
    <3>2. PICK a, b : a = chosen[i] /\ b = chosen[i + 1]
      OBVIOUS
    <3>3. b \in C(i + 1) /\ layers[i + 1][b].previous = a
      BY <1>6, <1>8, <2>2, <3>1, <3>2
    <3>4. layers[i + 1][b].total =
            layers[i][a].total + TransitionCost(a, b) + OperatorCost(b, chain[i + 1], table)
      BY <1>4, <3>1, <3>3 DEF IsLeast
    <3>5. layers[i][a].total = Far(i)
      BY <2>2, <3>2
    <3>6. Far(i + 1) = Far(i) + TransitionCost(a, b) + OperatorCost(b, chain[i + 1], table)
      BY <1>10, <3>1, <3>2
    <3>7. QED
      BY <3>1, <3>2, <3>4, <3>5, <3>6
  <2> HIDE DEF R
  <2>3. QED
    BY <1>1, <2>1, <2>2, UpwardInduction
<1>13. \A k \in 1 .. n : layers[k][chosen[k]].total = Far(k)
  BY <1>12
<1>14. QED
  BY <1>7, <1>9, <1>13 DEF Far, n, chosen, C

\* CostAwarePlanner::plan of a chain that can run.
LEMMA PlanIsLeast ==
  ASSUME NEW chain, NEW available, NEW table, Plannable(chain, available, table),
         Runnable(chain, available)
  PROVE  LET n == Len(chain)
             plan == Plan(chain, available, table)
             chosen == [i \in 1 .. n |-> plan.steps[i].backend]
         IN /\ Assigned(chain, available, chosen)
            /\ plan.total = CostSoFar(chain, table, chosen, n)
            /\ \A f : Assigned(chain, available, f) => plan.total <= CostSoFar(chain, table, f, n)
<1> DEFINE n == Len(chain)
           layers == Layers(chain, available, table)
           choices == WayBack(layers, n)
           plan == Plan(chain, available, table)
           chosen == [i \in 1 .. n |-> plan.steps[i].backend]
<1>1. n \in Nat \ {0} /\ chain # << >> /\ DOMAIN chain = 1 .. n
  BY CostsAreNatural DEF Plannable
<1>2. LayersRight(chain, available, table, layers)
  BY LayersAreRight
<1>3. plan = [steps |-> Reconstructed(layers, n), total |-> Reconstructed(layers, n)[n].cumulative]
  BY <1>1 DEF Plan, Runnable
<1> HIDE DEF plan
<1>4. /\ \A i \in 1 .. n : plan.steps[i].backend = choices[i]
      /\ plan.total = layers[n][choices[n]].total
  <2>1. Reconstructed(layers, n) =
          [i \in 1 .. n |->
             [backend |-> choices[i], operator |-> layers[i][choices[i]].operator,
              transition |-> layers[i][choices[i]].transition,
              cumulative |-> layers[i][choices[i]].total]]
    BY ReconstructedIsRecursive
  <2> HIDE DEF layers, choices, n
  <2>2. QED
    BY <1>1, <1>3, <2>1
<1>5. /\ Assigned(chain, available, choices)
      /\ layers[n][choices[n]].total = CostSoFar(chain, table, choices, n)
      /\ \A b \in Compatible(chain[n], available) : layers[n][choices[n]].total <= layers[n][b].total
  <2>1. n \in 1 .. n
    BY <1>1
  <2> HIDE DEF layers
  <2>2. QED
    BY <1>2, <2>1, WayBackCostsItsTotal
<1> HIDE DEF layers, choices
<1>6. chosen = choices
  BY <1>4, <1>5 DEF Assigned
<1> HIDE DEF chosen
<1>7. ASSUME NEW f, Assigned(chain, available, f)
      PROVE  plan.total <= CostSoFar(chain, table, f, n)
  <2>1. n \in 1 .. n /\ f[n] \in Compatible(chain[n], available)
    BY <1>1, <1>7 DEF Assigned
  <2>2. layers[n][f[n]].total <= CostSoFar(chain, table, f, n)
    BY <1>2, <1>7, <2>1, NoCheaperWay
  <2>3. layers[n][choices[n]].total <= layers[n][f[n]].total
    BY <1>5, <2>1
  <2>4. /\ layers[n][f[n]].total \in Nat /\ layers[n][choices[n]].total \in Nat
        /\ CostSoFar(chain, table, f, n) \in Nat
    <3>1. choices[n] \in Compatible(chain[n], available)
      BY <1>5, <2>1 DEF Assigned
    <3>2. IsLayer(Compatible(chain[n], available), layers[n])
      BY <1>2, <2>1 DEF LayersRight
    <3>3. CostSoFar(chain, table, f, n) \in Nat
      BY <1>7, <2>1, CostsAddUp
    <3>4. QED
      BY <2>1, <3>1, <3>2, <3>3 DEF IsLayer
  <2> HIDE DEF n
  <2>5. QED
    BY <1>4, <2>2, <2>3, <2>4
<1>8. QED
  BY <1>4, <1>5, <1>6, <1>7 DEF plan, chosen

-----------------------------------------------------------------------------
(* Planning: decisions *)

\* The last decision is what the decider's database gives, which has not changed since.
DecisionInv ==
  decision # None => \E s \in Savers, w \in Workloads : decision = Decision(s, w)

LEMMA DecisionInvPreserved == DecisionInv /\ [Next]_vars => DecisionInv'
<1> SUFFICES ASSUME DecisionInv, [Next]_vars, decision' # None PROVE DecisionInv'
  BY DEF DecisionInv
<1>1. CASE db' = db /\ decision' = decision
  BY <1>1 DEF DecisionInv, Decision
<1>2. ASSUME NEW s \in Savers, Decide(s) PROVE DecisionInv'
  BY <1>2 DEF Decide, store, DecisionInv, Decision
<1>3. CASE decision = None /\ UNCHANGED decision
  BY <1>3
<1>4. CASE Forget
  BY <1>4 DEF Forget
<1>5. QED
  BY <1>1, <1>2, <1>3, <1>4 DEF Next, StartRuntime, vars, store

\* The reference that PlanIsOptimal measures by is what the planner goes by.
LEMMA ReferenceIsPlanned ==
  ASSUME NEW s \in Savers, db[s] \in Databases, decision.by = s,
         NEW b \in Backends, NEW request, request.operation \in Operations
  PROVE  LET table == PerformanceTableFor(db[s], Here)
         IN /\ ReferenceCost(b, request) = OperatorCost(b, request, table)
            /\ Measured(b, request) # NoFile <=> table[b][request.operation] # None
<1> DEFINE o == request.operation
           key == [context |-> Here, backend |-> b, operation |-> o]
           said == Measurement(db[s], key)
           median == PerformanceTableFor(db[s], Here)[b][o]
<1>1. said = NoFile \/ said \in Nat
  BY FirstAndLast
<1>2. median = IF said = NoFile THEN None ELSE said
  BY TableIsMeasured
<1>3. Measured(b, request) = said
  BY DEF Measured
<1> HIDE DEF said, median
<1>4. said # NoFile <=> median # None
  BY <1>1, <1>2, BackendsAreNumbers, FilesAreTold
<1>5. said # NoFile => median = said
  BY <1>2
<1>6. QED
  BY <1>3, <1>4, <1>5 DEF ReferenceCost, OperatorCost, MedianUs, median

LEMMA ChangesAreReferences == \A a, b : ReferenceChange(a, b) = TransitionCost(a, b)
BY DEF ReferenceChange, TransitionCost

\* The database of a saver whose decision it is.
Decided(s, w) == s \in Savers /\ w \in Workloads /\ db[s] \in Databases /\ decision = Decision(s, w)

LEMMA DecisionsArePlannable ==
  ASSUME NEW s, NEW w, Decided(s, w)
  PROVE  LET table == PerformanceTableFor(db[s], Here)
         IN /\ decision.by = s /\ decision.chain = w.chain /\ decision.available = w.available
            /\ decision.plan = Plan(w.chain, w.available, table)
            /\ decision.routes = [i \in DOMAIN w.chain |-> Route(w.chain[i], w.available, table)]
            /\ Plannable(w.chain, w.available, table)
<1>1. PerformanceTableFor(db[s], Here) \in Tables
  BY TableIsMeasured DEF Decided
<1>2. Plannable(w.chain, w.available, PerformanceTableFor(db[s], Here))
  BY <1>1, WorkloadsAreTyped DEF Plannable, Decided
<1>3. decision = Decision(s, w)
  BY DEF Decided
<1>4. QED
  BY <1>2, <1>3 DEF Decision

LEMMA TotalsAreReferences ==
  ASSUME NEW s, NEW w, Decided(s, w), NEW f, Assigned(w.chain, w.available, f)
  PROVE  ReferenceTotal(w.chain, f) =
           CostSoFar(w.chain, PerformanceTableFor(db[s], Here), f, Len(w.chain))
<1> DEFINE chain == w.chain
           table == PerformanceTableFor(db[s], Here)
           n == Len(chain)
           Row(i) == ReferenceCost(f[i], chain[i])
                       + (IF i = 1 THEN 0 ELSE ReferenceChange(f[i - 1], f[i]))
<1>1. Plannable(chain, w.available, table) /\ decision.by = s /\ s \in Savers /\ db[s] \in Databases
  BY DecisionsArePlannable DEF Decided
<1> HIDE DEF chain, table
<1>2. DOMAIN chain = 1 .. n /\ \A i \in 1 .. n : chain[i].operation \in Operations
  BY <1>1, CostsAreNatural
<1>3. \A i \in 1 .. n : f[i] \in Backends
  BY DEF Assigned, chain
<1>4. \A i \in 1 .. n : ReferenceCost(f[i], chain[i]) = OperatorCost(f[i], chain[i], table)
  BY <1>1, <1>2, <1>3, ReferenceIsPlanned DEF table
<1>5. \A i \in 1 .. n : Row(i) = StepCost(chain, table, f, i)
  BY <1>4, ChangesAreReferences DEF StepCost
<1>6. ReferenceTotal(chain, f) = SumFunction([i \in DOMAIN chain |-> Row(i)])
  BY DEF ReferenceTotal
<1> HIDE DEF Row, n
<1>7. [i \in DOMAIN chain |-> Row(i)] = StepCosts(chain, table, f, n)
  BY <1>2, <1>5 DEF StepCosts
<1>8. QED
  BY <1>6, <1>7 DEF CostSoFar, chain, table, n

\* The choices that PlanIsOptimal compares with.
LEMMA AssignmentsAreAssigned ==
  ASSUME NEW chain, NEW available, NEW table, Plannable(chain, available, table)
  PROVE  /\ \A f : f \in Assignments(chain, available) <=> Assigned(chain, available, f)
         /\ Assignments(chain, available) = {} <=> ~Runnable(chain, available)
<1> DEFINE n == Len(chain)
           C(i) == Compatible(chain[i], available)
<1>1. DOMAIN chain = 1 .. n /\ available \subseteq Backends
  BY CostsAreNatural DEF Plannable
<1>2. \A i, b : b \in C(i) <=> b \in available /\ Supports(b, chain[i])
  BY DEF Compatible
<1> HIDE DEF C, n
<1>3. ASSUME NEW f
      PROVE  f \in Assignments(chain, available) <=> Assigned(chain, available, f)
  <2>1. f \in Assignments(chain, available) <=>
          f \in [1 .. n -> available] /\ \A i \in 1 .. n : Supports(f[i], chain[i])
    BY <1>1 DEF Assignments
  <2>2. Assigned(chain, available, f) <=> f \in [1 .. n -> Backends] /\ \A i \in 1 .. n : f[i] \in C(i)
    BY DEF Assigned, C, n
  <2>3. QED
    BY <1>1, <1>2, <2>1, <2>2
<1>4. ASSUME Runnable(chain, available) PROVE Assignments(chain, available) # {}
  <2> DEFINE f == [i \in 1 .. n |-> CHOOSE b \in C(i) : TRUE]
  <2>1. \A i \in 1 .. n : f[i] \in C(i)
    BY <1>4 DEF Runnable, C, n
  <2>2. Assigned(chain, available, f)
    <3>1. f \in [1 .. n -> Backends]
      BY <1>1, <1>2, <2>1
    <3> HIDE DEF f
    <3>2. QED
      BY <2>1, <3>1 DEF Assigned, C, n
  <2>3. QED
    BY <1>3, <2>2
<1>5. ASSUME ~Runnable(chain, available) PROVE Assignments(chain, available) = {}
  <2>1. PICK i \in 1 .. n : C(i) = {}
    BY <1>5 DEF Runnable, C, n
  <2>2. \A f : ~Assigned(chain, available, f)
    BY <2>1 DEF Assigned, C, n
  <2>3. QED
    BY <1>3, <2>2
<1>6. QED
  BY <1>3, <1>4, <1>5

LEMMA DecisionIsOptimal ==
  ASSUME NEW s, NEW w, Decided(s, w)
  PROVE  PlanIsOptimal
<1> DEFINE chain == w.chain
           available == w.available
           table == PerformanceTableFor(db[s], Here)
           n == Len(chain)
           plan == Plan(chain, available, table)
           choices == Assignments(chain, available)
           chosen == [i \in 1 .. n |-> plan.steps[i].backend]
<1>1. /\ decision.chain = chain /\ decision.available = available /\ decision.plan = plan
      /\ Plannable(chain, available, table)
  BY DecisionsArePlannable
<1>2. /\ \A f : Assigned(chain, available, f) =>
               ReferenceTotal(chain, f) = CostSoFar(chain, table, f, n)
  BY TotalsAreReferences
<1> HIDE DEF chain, available, table, plan
<1>3. DOMAIN chain = 1 .. n /\ chain # << >>
  BY <1>1, CostsAreNatural DEF Plannable
<1>4. /\ \A f : f \in choices <=> Assigned(chain, available, f)
      /\ choices = {} <=> ~Runnable(chain, available)
  BY <1>1, AssignmentsAreAssigned
<1>5. CASE choices = {}
  <2>1. plan = None
    BY <1>3, <1>4, <1>5 DEF Runnable, Plan, plan
  <2>2. QED
    BY <1>1, <1>5, <2>1 DEF PlanIsOptimal
<1>6. CASE choices # {}
  <2>1. /\ Assigned(chain, available, chosen)
        /\ plan.total = CostSoFar(chain, table, chosen, n)
        /\ \A f : Assigned(chain, available, f) => plan.total <= CostSoFar(chain, table, f, n)
    BY <1>1, <1>4, <1>6, PlanIsLeast DEF plan
  <2>2. chosen = [i \in DOMAIN decision.chain |-> decision.plan.steps[i].backend]
    BY <1>1, <1>3
  <2> HIDE DEF chosen, choices
  <2>3. /\ chosen \in choices /\ ReferenceTotal(chain, chosen) = plan.total
        /\ \A f \in choices : plan.total <= ReferenceTotal(chain, f)
    BY <1>2, <1>4, <2>1
  <2>4. QED
    BY <1>1, <1>6, <2>2, <2>3 DEF PlanIsOptimal, choices
<1>7. QED
  BY <1>5, <1>6

LEMMA DecidedOrNone ==
  ASSUME StoreInv, DecisionInv, decision # None
  PROVE  \E s, w : Decided(s, w)
<1>1. PICK s \in Savers, w \in Workloads : decision = Decision(s, w)
  BY DEF DecisionInv
<1>2. db[s] \in Databases
  BY DEF StoreInv, TypeOK
<1>3. QED
  BY <1>1, <1>2 DEF Decided

LEMMA DecisionsFollow == TunedInit => StoreInv /\ DecisionInv
BY InitEstablishes DEF TunedInit, DecisionInv

\* CostAwarePlanner::plan: no choice of compatible backends costs less than the plan, its
\* total is what its steps cost by the measurements, and only a chain that cannot run has
\* none, for any chain, backends, costs and measurements.
THEOREM PlansAreOptimal == Spec => []PlanIsOptimal
<1>1. StoreInv /\ DecisionInv /\ [Next]_vars => (StoreInv /\ DecisionInv)'
  BY NextPreserves, DecisionInvPreserved
<1>2. StoreInv /\ DecisionInv => PlanIsOptimal
  <2>1. CASE decision = None
    BY <2>1 DEF PlanIsOptimal
  <2>2. CASE decision # None
    BY <2>2, DecidedOrNone, DecisionIsOptimal
  <2>3. QED
    BY <2>1, <2>2
<1>3. QED
  BY <1>1, <1>2, DecisionsFollow, PTL DEF Spec

\* A plan of one request is on the backend that costs least.
LEMMA SinglePlan ==
  ASSUME NEW chain, NEW available, NEW table, Plannable(chain, available, table),
         Len(chain) = 1, Compatible(chain[1], available) # {}
  PROVE  Plan(chain, available, table).steps[1].backend =
           FirstMinimum([b \in Compatible(chain[1], available) |-> OperatorCost(b, chain[1], table)])
<1> DEFINE layers == Layers(chain, available, table)
           C == Compatible(chain[1], available)
           Cost(b) == OperatorCost(b, chain[1], table)
<1>1. Runnable(chain, available) /\ chain # << >> /\ DOMAIN chain = 1 .. 1
  BY CostsAreNatural DEF Runnable, Plannable
<1>2. Plan(chain, available, table) =
        [steps |-> Reconstructed(layers, 1), total |-> Reconstructed(layers, 1)[1].cumulative]
  BY <1>1 DEF Plan, Runnable
<1>3. Reconstructed(layers, 1)[1].backend = WayBack(layers, 1)[1]
  BY ReconstructedIsRecursive
<1>4. WayBack(layers, 1)[1] = FirstMinimum([b \in DOMAIN layers[1] |-> layers[1][b].total])
  BY WayBackExists DEF ChoiceRecursion, ChoiceStep
<1>5. DOMAIN layers[1] = C /\ \A b \in C : layers[1][b].total = Cost(b)
  BY <1>1, LayersAreRight DEF LayersRight, IsLayer
<1> HIDE DEF layers, C, Cost
<1>6. [b \in DOMAIN layers[1] |-> layers[1][b].total] = [b \in C |-> Cost(b)]
  BY <1>5
<1>7. QED
  BY <1>2, <1>3, <1>4, <1>6 DEF C, Cost

\* A penalty that is not zero orders backends by their kind.
LEMMA PenaltyOrders ==
  ASSUME RankPenaltyUs # 0, NEW b \in Backends, NEW c \in Backends, Rank[b] < Rank[c]
  PROVE  UnmeasuredUs + RankPenaltyUs * Rank[b] < UnmeasuredUs + RankPenaltyUs * Rank[c]
<1>1. PICK p, u, x, y : p = RankPenaltyUs /\ u = UnmeasuredUs /\ x = Rank[b] /\ y = Rank[c]
  OBVIOUS
<1>2. p \in Nat \ {0} /\ u \in Nat /\ x \in Nat /\ y \in Nat /\ x < y
  BY <1>1, CostsAreNumbers, RanksAreNumbers
<1>3. PICK d \in Nat : y = x + d /\ d # 0
  <2>1. y - x \in Nat /\ y = x + (y - x) /\ y - x # 0
    BY <1>2
  <2>2. QED
    BY <2>1
<1>4. p * y = p * x + p * d
  BY <1>2, <1>3
<1>5. p * d \in Nat \ {0} /\ p * x \in Nat
  BY <1>2, <1>3
<1>6. u + p * x < u + p * y
  BY <1>2, <1>4, <1>5
<1>7. QED
  BY <1>1, <1>6

\* Where nothing was measured the cost is least for the preferred kind.
LEMMA UnmeasuredOrder ==
  ASSUME RankPenaltyUs # 0, NEW D, D \subseteq Backends, D # {}
  PROVE  FirstMinimum([b \in D |-> UnmeasuredUs + RankPenaltyUs * Rank[b]])
           = FirstMinimum([b \in D |-> Rank[b]])
<1> DEFINE Cost(b) == UnmeasuredUs + RankPenaltyUs * Rank[b]
           cost == [b \in D |-> Cost(b)]
           rank == [b \in D |-> Rank[b]]
           m == FirstMinimum(rank)
<1>1. \A b \in D : Rank[b] \in Nat /\ Cost(b) \in Nat
  BY RanksAreNumbers, CostsAreNumbers
<1>2. \A b, c \in D : Rank[b] < Rank[c] => Cost(b) < Cost(c)
  BY PenaltyOrders
<1>3. \A b, c \in D : Rank[b] = Rank[c] => Cost(b) = Cost(c)
  OBVIOUS
<1> HIDE DEF Cost
<1>4. rank \in [D -> Nat] /\ cost \in [D -> Nat]
  BY <1>1
<1>5. \A b \in D : rank[b] = Rank[b] /\ cost[b] = Cost(b)
  OBVIOUS
<1> HIDE DEF rank, cost
<1>6. m \in D /\ \A c \in D : Before(rank, m, c)
  BY <1>4, FirstMinimumIsLeast
<1> HIDE DEF m
<1>7. \A c \in D : Before(cost, m, c)
  BY <1>2, <1>3, <1>5, <1>6 DEF Before
<1>8. FirstMinimum(cost) = m
  BY <1>4, <1>6, <1>7, FirstMinimumIsUnique
<1>9. QED
  BY <1>8 DEF cost, rank, m, Cost

LEMMA DecisionAgrees ==
  ASSUME NEW s, NEW w, Decided(s, w), Len(w.chain) = 1
  PROVE  PlannerAgreesWithRouter
<1> DEFINE chain == w.chain
           available == w.available
           table == PerformanceTableFor(db[s], Here)
           request == chain[1]
           compatible == Compatible(request, available)
           measured == {b \in compatible : Measured(b, request) # NoFile}
           Us(b) == table[b][request.operation]
           Cost(b) == OperatorCost(b, request, table)
<1>1. /\ decision.chain = chain /\ decision.available = available
      /\ decision.plan = Plan(chain, available, table)
      /\ decision.routes = [i \in DOMAIN chain |-> Route(chain[i], available, table)]
      /\ Plannable(chain, available, table)
      /\ decision.by = s /\ s \in Savers /\ db[s] \in Databases
  BY DecisionsArePlannable DEF Decided
<1>2. Len(chain) = 1
  OBVIOUS
<1> HIDE DEF chain, available, table
<1>3. /\ DOMAIN chain = 1 .. 1 /\ chain # << >> /\ request.operation \in Operations
      /\ compatible \subseteq Backends
  <2>1. chain # << >>
    BY <1>1 DEF Plannable
  <2>2. 1 \in 1 .. Len(chain)
    BY <1>2
  <2>3. QED
    BY <1>1, <1>2, <2>1, <2>2, CostsAreNatural
<1>4. \A b \in compatible : Measured(b, request) # NoFile <=> Us(b) # None
  BY <1>1, <1>3, ReferenceIsPlanned DEF table
<1>5. decision.routes[1] = Route(request, available, table)
  BY <1>1, <1>3
<1>6. CASE compatible = {}
  <2>1. decision.plan = None
    BY <1>1, <1>3, <1>6 DEF Plan
  <2>2. decision.routes[1] = None
    BY <1>5, <1>6 DEF Route
  <2>3. QED
    BY <1>1, <1>6, <2>1, <2>2 DEF PlannerAgreesWithRouter
<1>7. CASE compatible # {}
  <2>1. decision.plan.steps[1].backend = FirstMinimum([b \in compatible |-> Cost(b)])
    <3>1. Plannable(chain, available, table) /\ Compatible(chain[1], available) # {}
      BY <1>1, <1>7
    <3>2. Plan(chain, available, table).steps[1].backend =
            FirstMinimum([b \in Compatible(chain[1], available) |-> OperatorCost(b, chain[1], table)])
      BY <1>2, <3>1, SinglePlan, Zenon
    <3>3. QED
      BY <1>1, <3>2
  <2>2. ASSUME measured = compatible
        PROVE  decision.routes[1] = FirstMinimum([b \in compatible |-> Cost(b)])
    <3>1. \A b \in compatible : Us(b) # None /\ Cost(b) = Us(b)
      BY <1>4, <2>2 DEF OperatorCost, MedianUs
    <3> DEFINE median == [b \in compatible |-> MedianUs(table, b, request.operation)]
               found == {b \in compatible : median[b] # None}
    <3>2. \A b \in compatible : median[b] = Us(b)
      BY DEF MedianUs
    <3>3. Route(request, available, table) =
            IF found # {} THEN FirstMinimum([b \in found |-> median[b]])
            ELSE FirstMinimum([b \in compatible |-> Rank[b]])
      BY <1>7 DEF Route
    <3> HIDE DEF median, compatible, Us, Cost
    <3>4. found = compatible
      BY <3>1, <3>2
    <3>5. [b \in found |-> median[b]] = [b \in compatible |-> Cost(b)]
      BY <3>1, <3>2, <3>4
    <3> HIDE DEF found
    <3>6. QED
      BY <1>5, <1>7, <3>3, <3>4, <3>5
  <2>3. ASSUME measured = {}, RankPenaltyUs # 0
        PROVE  decision.routes[1] = FirstMinimum([b \in compatible |-> Cost(b)])
    <3>1. \A b \in compatible : Us(b) = None /\ Cost(b) = UnmeasuredUs + RankPenaltyUs * Rank[b]
      BY <1>4, <2>3 DEF OperatorCost, MedianUs
    <3>2. Route(request, available, table) = FirstMinimum([b \in compatible |-> Rank[b]])
      BY <1>7, <3>1 DEF Route, MedianUs
    <3> HIDE DEF compatible, Us, Cost
    <3>3. [b \in compatible |-> Cost(b)] = [b \in compatible |-> UnmeasuredUs + RankPenaltyUs * Rank[b]]
      BY <3>1
    <3>4. QED
      BY <1>3, <1>5, <1>7, <2>3, <3>2, <3>3, UnmeasuredOrder
  <2> HIDE DEF Cost
  <2>4. QED
    BY <1>1, <1>7, <2>1, <2>2, <2>3 DEF PlannerAgreesWithRouter
<1>8. QED
  BY <1>6, <1>7

\* CostAwarePlanner and FastestCompatible give a single request the same backend where the
\* measurements, or the penalty for a kind, decide.
THEOREM PlannerAndRouterAgree == Spec => []PlannerAgreesWithRouter
<1>1. StoreInv /\ DecisionInv /\ [Next]_vars => (StoreInv /\ DecisionInv)'
  BY NextPreserves, DecisionInvPreserved
<1>2. StoreInv /\ DecisionInv => PlannerAgreesWithRouter
  <2>1. CASE decision = None
    BY <2>1 DEF PlannerAgreesWithRouter
  <2>2. ASSUME StoreInv, DecisionInv, decision # None PROVE PlannerAgreesWithRouter
    <3>1. PICK s, w : Decided(s, w)
      BY <2>2, DecidedOrNone
    <3>2. decision.chain = w.chain
      BY <3>1, DecisionsArePlannable
    <3>3. CASE Len(w.chain) = 1
      BY <3>1, <3>3, DecisionAgrees
    <3>4. CASE Len(w.chain) # 1
      BY <3>2, <3>4 DEF PlannerAgreesWithRouter
    <3>5. QED
      BY <3>3, <3>4
  <2>3. QED
    BY <2>1, <2>2
<1>3. QED
  BY <1>1, <1>2, DecisionsFollow, PTL DEF Spec

=============================================================================

----------------------------- MODULE Compactor -----------------------------
(***************************************************************************)
(* compact_layer (mapear_storage/loaders/compactor.py) on one partition of *)
(* the local data lake, while pipelines write further batches into it.     *)
(* The partition is a directory; each batch is one file in a directory of  *)
(* its own below it, and the compacted file is at its top.  Writing a      *)
(* Parquet file takes time: until it is whole nobody can read it.          *)
(***************************************************************************)
EXTENDS Naturals, FiniteSets

CONSTANTS
  Batches,
  HashesOf,  \* content hashes of the rows of each batch
  MayStop    \* whether a compaction may be interrupted: a crash, or an unlink
             \* that fails

ASSUME StopAssumption == MayStop \in BOOLEAN

VARIABLES
  file,      \* the state of each file of the partition
  todo,      \* parquet_files of the compaction that is running
  merged,    \* the rows it read
  stage,     \* its next step
  written,   \* history: batches that were written to the end
  stopped    \* history: whether a compaction has been interrupted

compactVars == <<file, todo, merged, stage, written, stopped>>

Final == "data"
Compacted == "data_compacted"
Files == Batches \cup {Final, Compacted}

\* Batches have directories of their own.
ASSUME BatchAssumption == Final \notin Batches /\ Compacted \notin Batches

Absent == [state |-> "absent", hashes |-> {}]
Torn == [state |-> "torn", hashes |-> {}]
Whole(hashes) == [state |-> "whole", hashes |-> hashes]

Present == {f \in Files : file[f] # Absent}
RowsIn(S) == UNION {file[f].hashes : f \in S}

-----------------------------------------------------------------------------
(* LocalWriter: data.parquet of a new batch.                               *)
BeginBatch(b) ==
  /\ file[b] = Absent /\ b \notin written
  /\ file' = [file EXCEPT ![b] = Torn]
  /\ UNCHANGED <<todo, merged, stage, written, stopped>>

EndBatch(b) ==
  /\ file[b] = Torn
  /\ file' = [file EXCEPT ![b] = Whole(HashesOf[b])]
  /\ written' = written \cup {b}
  /\ UNCHANGED <<todo, merged, stage, stopped>>

-----------------------------------------------------------------------------
\* More than one file; the files are small, or two of them would be left alone.
WorthwhileAlone == Cardinality(Present) >= 1
Worthwhile == Cardinality(Present) > 1

List ==
  /\ stage = "idle"
  /\ Worthwhile
  /\ todo' = Present
  /\ stage' = "read"
  /\ UNCHANGED <<file, merged, written, stopped>>

\* One file that cannot be read fails the partition.
Read ==
  /\ stage = "read"
  /\ IF \E f \in todo : file[f].state = "torn"
     THEN stage' = "idle" /\ todo' = {} /\ UNCHANGED merged
     ELSE stage' = "write" /\ merged' = RowsIn(todo) /\ UNCHANGED todo
  /\ UNCHANGED <<file, written, stopped>>

BeginWrite ==
  /\ stage = "write"
  /\ file' = [file EXCEPT ![Compacted] = Torn]
  /\ stage' = "finish"
  /\ UNCHANGED <<todo, merged, written, stopped>>

EndWriteMisspelt ==
  /\ stage = "finish"
  /\ file' = [file EXCEPT ![Compacted] = Whole(merged)]
  /\ stage' = "unlinking"
  /\ UNCHANGED <<todo, merged, written, stopped>>

EndWrite ==
  /\ stage = "finish"
  /\ file' = [file EXCEPT ![Compacted] = Whole(merged)]
  /\ stage' = "unlink"
  /\ UNCHANGED <<todo, merged, written, stopped>>

\* Lists the partition again.
UnlinkAll ==
  /\ stage = "unlink" /\ Present \ {Compacted} # {}
  /\ \E f \in Present \ {Compacted} :
       /\ file' = [file EXCEPT ![f] = Absent]
       /\ todo' = todo \ {f}
  /\ UNCHANGED <<merged, stage, written, stopped>>

\* In the order of the names, in which the compacted file comes last: a file
\* of that name that an earlier compaction left is among them.
Unlink ==
  /\ stage = "unlink" /\ todo # {}
  /\ \E f \in todo :
       /\ f = Compacted => todo = {Compacted}
       /\ file' = [file EXCEPT ![f] = Absent]
       /\ todo' = todo \ {f}
  /\ UNCHANGED <<merged, stage, written, stopped>>

\* Without a compacted file the rename raises; compact_layer only counts that.
Rename ==
  /\ stage = "unlink" /\ todo = {}
  /\ file' = IF file[Compacted] = Absent THEN file
             ELSE [file EXCEPT ![Final] = file[Compacted], ![Compacted] = Absent]
  /\ stage' = "idle"
  /\ merged' = {}
  /\ UNCHANGED <<todo, written, stopped>>

Stop ==
  /\ MayStop
  /\ stage # "idle"
  /\ stage' = "idle" /\ todo' = {} /\ merged' = {}
  /\ stopped' = TRUE
  /\ UNCHANGED <<file, written>>

CompactInit ==
  /\ file = [f \in Files |-> Absent]
  /\ todo = {} /\ merged = {}
  /\ stage = "idle"
  /\ written = {}
  /\ stopped = FALSE

Compact == List \/ Read \/ BeginWrite \/ EndWrite \/ Unlink \/ Rename

CompactNext == (\E b \in Batches : BeginBatch(b) \/ EndBatch(b)) \/ Compact \/ Stop

CompactSpec == CompactInit /\ [][CompactNext]_compactVars

FairCompactSpec ==
  /\ CompactSpec
  /\ WF_compactVars(Compact)
  /\ \A b \in Batches : WF_compactVars(BeginBatch(b) \/ EndBatch(b))

AllHashes == UNION {HashesOf[b] : b \in Batches}

PartitionTypeOK ==
  /\ file \in [Files -> {Absent, Torn} \cup {Whole(h) : h \in SUBSET AllHashes}]
  /\ todo \subseteq Files
  /\ merged \subseteq AllHashes
  /\ stage \in {"idle", "read", "write", "finish", "unlink"}
  /\ written \subseteq Batches
  /\ stopped \in BOOLEAN

-----------------------------------------------------------------------------
(* The originals are only unlinked once their merge is whole, and none that *)
(* was not read: wherever a compaction is interrupted, it has lost no row, *)
(* unless it began with the compacted file of another interrupted one.     *)
InterruptionLosesNothing ==
  [][Compacted \notin todo => RowsIn(Files) \subseteq RowsIn(Files)']_compactVars

(* Once no more batches come, the partition becomes a single file, unless  *)
(* a compaction has been interrupted.                                      *)
BecomesOneFile == <>[](stopped \/ (Present = {Final} /\ written = Batches))
=============================================================================

----------------------------- MODULE Watermarks -----------------------------
(***************************************************************************)
(* WatermarkManager (mapear_infra/watermark.py): one JSON blob in the data *)
(* lake with one timestamp per pipeline.  Saving is a read of the whole    *)
(* blob and then a write of the whole blob, with no precondition on the    *)
(* write: between the two, another pipeline's save may come.  The pipelines*)
(* that use it are in RssDiscovery.                                        *)
(***************************************************************************)
EXTENDS Integers

CONSTANTS
  Keys,    \* the pipelines that have a key in the blob
  Savers,  \* the executions that save watermarks
  KeyOf,   \* the key of each
  NULL     \* no value under a key

ASSUME SaverAssumption == KeyOf \in [Savers -> Keys]
ASSUME NullAssumption == NULL \notin Int

VARIABLES
  blob,    \* the JSON document
  copy     \* what an execution has read of it, while it saves

Document == [Keys -> Nat \cup {NULL}]

NotSaving == [saving |-> FALSE, document |-> [k \in Keys |-> NULL]]
Saving(document) == [saving |-> TRUE, document |-> document]

\* get_watermark: None when there is no value.
Watermark(key) == blob[key]

\* save_watermark reads first, so as not to clobber the other keys; when the
\* read fails it gives up, and the caller never knows.
ReadAll(s) == copy' = [copy EXCEPT ![s] = Saving(blob)]

ReadFails(s) == UNCHANGED copy

WrittenAlone(document, key, timestamp) ==
  [k \in Keys |-> IF k = key THEN timestamp ELSE NULL]
Written(document, key, timestamp) == [document EXCEPT ![key] = timestamp]

WriteAll(s, timestamp) ==
  /\ copy[s].saving
  /\ blob' = Written(copy[s].document, KeyOf[s], timestamp)
  /\ copy' = [copy EXCEPT ![s] = NotSaving]

\* "Logs error but does NOT raise."
WriteFails(s) ==
  /\ copy[s].saving
  /\ copy' = [copy EXCEPT ![s] = NotSaving]
  /\ UNCHANGED blob

WatermarksTypeOK ==
  /\ blob \in Document
  /\ copy \in [Savers -> [saving : BOOLEAN, document : Document]]
=============================================================================

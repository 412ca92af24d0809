--------------------------- MODULE CachedEncoder ---------------------------
(***************************************************************************)
(* A cache of what is expensive to compute, in the data lake: vectors      *)
(* (mapear_nlp/embeddings) and answers of a language model                 *)
(* (mapear_nlp/narrative_cache).  An entry that cannot be read is a miss;  *)
(* one that cannot be written is left out.                                 *)
(***************************************************************************)

Read(keys, cache) == SUBSET (keys \cap cache)
Stored(encoded, cache) == {cache \cup kept : kept \in SUBSET encoded}

(* What is sent to the encoder: the misses.  A set of contents stands for  *)
(* their vectors: with one model a content has one vector.                 *)
EncodeWithHashes(contents, cache) == {contents \ hits : hits \in Read(contents, cache)}
=============================================================================

--------------------------- MODULE StreamingIngest --------------------------
(***************************************************************************)
(* The streaming path of the articles and the Iceberg table it shares with *)
(* the batch: PubSubPublisher, the consumer's /push handler and            *)
(* ArticleProcessor (services/streaming-consumer), IcebergWriter.append.   *)
(*                                                                         *)
(*   - Pub/Sub keeps an accepted message until a push of it is answered    *)
(*     with 200, and may push it again, to the other worker too, while an  *)
(*     answer is still out;                                                *)
(*   - the catalog commits an append only on the version it was loaded     *)
(*     from; PyIceberg raises if another writer was faster;                *)
(*   - the table is the sequence of its appends.                           *)
(* The pointer of the external BigQuery table, which follows a commit on a *)
(* best-effort basis, is left out.                                         *)
(* MaxCrashes bounds how often a worker, or the batch, is killed.          *)
(***************************************************************************)
EXTENDS Naturals, Sequences, Functions

CONSTANTS
    Articles,
    Irrelevant,     \* articles that NER drops
    Malformed,      \* articles that RawArticle.model_validate rejects
    Workers, Batch, \* the gunicorn workers, and the batch pipeline's process
    MaxCrashes

ASSUME StreamingAssumption ==
    /\ Irrelevant \subseteq Articles /\ Malformed \subseteq Articles
    /\ Batch \notin Workers
    /\ MaxCrashes \in Nat

VARIABLES
    message,    \* state of each article's message
    proc,       \* what each writer is doing
    exists,     \* whether the Iceberg table has been created
    log,        \* its appends, each a set of articles
    crashes

vars == <<message, proc, exists, log, crashes>>

Writers == Workers \cup {Batch}
Good == Articles \ (Irrelevant \cup Malformed)
Idle == [pc |-> "idle", rows |-> {}, base |-> 0]
Stored == UNION Range(log)

Init ==
    /\ message = [a \in Articles |-> "unpublished"]
    /\ proc = [w \in Writers |-> IF w = Batch THEN [Idle EXCEPT !.pc = "publish"] ELSE Idle]
    /\ exists = FALSE
    /\ log = <<>>
    /\ crashes = 0

-----------------------------------------------------------------------------
(* publish_batch never raises: each message is accepted, or its failure is *)
(* only logged.                                                            *)
PublishBatch ==
    /\ proc[Batch].pc = "publish"
    /\ proc' = [proc EXCEPT ![Batch].pc = "ahead"]
    /\ message' \in [Articles -> {"queued", "lost"}]
    /\ UNCHANGED <<exists, log, crashes>>

(* Stage 3.7 of the batch that published them appends its own silver rows. *)
BatchSilver ==
    /\ proc[Batch].pc = "ahead"
    /\ proc' = [proc EXCEPT ![Batch] = [pc |-> "append", rows |-> Good, base |-> 0]]
    /\ UNCHANGED <<message, exists, log, crashes>>

(* A push: what NER drops is acknowledged at once, what cannot be read is  *)
(* refused and stays queued.                                               *)
Push(w, a) ==
    /\ proc[w] = Idle /\ w \in Workers
    /\ message[a] = "queued"
    /\ IF a \in Irrelevant
       THEN message' = [message EXCEPT ![a] = "acked"] /\ UNCHANGED proc
       ELSE /\ proc' = [proc EXCEPT ![w] = [pc |-> "append", rows |-> {a}, base |-> 0]]
            /\ UNCHANGED message
    /\ UNCHANGED <<exists, log, crashes>>

ReadableUnvalidated(w) == TRUE
Readable(w) == proc[w].rows \cap Malformed = {}

Refuse(w) ==
    /\ proc[w].pc = "append" /\ ~Readable(w)
    /\ proc' = [proc EXCEPT ![w] = Idle]
    /\ UNCHANGED <<message, exists, log, crashes>>

-----------------------------------------------------------------------------
(* IcebergWriter.append: load the table, or find that it must be created.  *)
LoadTable(w) ==
    /\ proc[w].pc = "append" /\ Readable(w)
    /\ proc' = [proc EXCEPT ![w].pc = IF exists THEN "commit" ELSE "create",
                            ![w].base = Len(log)]
    /\ UNCHANGED <<message, exists, log, crashes>>

(* What an answer 200 to the push that w handles acknowledges.             *)
Acked(w) ==
    [a \in Articles |-> IF w # Batch /\ a \in proc[w].rows THEN "acked" ELSE message[a]]

(* What becomes of a call that raises: the consumer answers 500, which     *)
(* leaves the message queued; the batch goes on without its Iceberg rows.  *)
RaisedAcked(w) == proc' = [proc EXCEPT ![w] = Idle] /\ message' = Acked(w)
Raised(w) == proc' = [proc EXCEPT ![w] = Idle] /\ UNCHANGED message

CreateTable(w) ==
    /\ proc[w].pc = "create"
    /\ exists' = TRUE
    /\ IF exists THEN Raised(w)
       ELSE proc' = [proc EXCEPT ![w].pc = "commit"] /\ UNCHANGED message
    /\ UNCHANGED <<log, crashes>>

(* A commit on an old version would replace what others appended.          *)
CommitsUnchecked(w) == TRUE
Commits(w) == proc[w].base = Len(log)

Commit(w) ==
    /\ proc[w].pc = "commit"
    /\ IF Commits(w)
       THEN /\ log' = Append(SubSeq(log, 1, proc[w].base), proc[w].rows)
            /\ proc' = [proc EXCEPT ![w].pc = "answer", ![w].base = Len(log')]
            /\ UNCHANGED message
       ELSE Raised(w) /\ UNCHANGED log
    /\ UNCHANGED <<exists, crashes>>

(* The append returns and /push answers 200.                               *)
Answer(w) ==
    /\ proc[w].pc = "answer"
    /\ message' = Acked(w)
    /\ proc' = [proc EXCEPT ![w] = Idle]
    /\ UNCHANGED <<exists, log, crashes>>

Crash(w) ==
    /\ proc[w].pc \in {"append", "create", "commit", "answer"}
    /\ crashes < MaxCrashes
    /\ crashes' = crashes + 1
    /\ proc' = [proc EXCEPT ![w] = Idle]
    /\ UNCHANGED <<message, exists, log>>

-----------------------------------------------------------------------------
Step(w) == Refuse(w) \/ LoadTable(w) \/ CreateTable(w) \/ Commit(w) \/ Answer(w)

Next ==
    \/ PublishBatch
    \/ BatchSilver
    \/ \E w \in Workers, a \in Articles : Push(w, a)
    \/ \E w \in Writers : Step(w) \/ Crash(w)

Spec == Init /\ [][Next]_vars

(* A running writer goes on, and Pub/Sub pushes each queued message again  *)
(* and again as long as workers become free.                               *)
Fairness ==
    /\ \A w \in Writers : WF_vars(Step(w))
    /\ \A a \in Articles : SF_vars(\E w \in Workers : Push(w, a))

FairSpec == Spec /\ Fairness

-----------------------------------------------------------------------------
(* The appends are sets of good articles only, whatever was published.     *)
TypeOK ==
    /\ message \in [Articles -> {"unpublished", "lost", "queued", "acked"}]
    /\ proc \in [Writers -> [pc : {"publish", "ahead", "idle", "append", "create", "commit", "answer"},
                             rows : SUBSET (Articles \ Irrelevant), base : 0 .. Len(log)]]
    /\ exists \in BOOLEAN
    /\ \A i \in DOMAIN log : log[i] \subseteq Good
    /\ crashes \in 0 .. MaxCrashes

(* An article that the consumer acknowledged and did not drop is in the    *)
(* table for good, whatever other writers commit, crash or retry: Pub/Sub  *)
(* will not bring it again (push: 500 makes Pub/Sub retry).                *)
AckedIsStored ==
    \A a \in Articles \ Irrelevant : message[a] = "acked" => a \in Stored

(* Every message that Pub/Sub accepted and the consumer can read is stored *)
(* at last, also when a poisonous one keeps coming back.                   *)
AcceptedIsStored ==
    \A a \in Good : message[a] = "queued" ~> a \in Stored

=============================================================================

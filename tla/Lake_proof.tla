----------------------------- MODULE Lake_proof -----------------------------
(***************************************************************************)
(* Proofs about the two writers of lake tables.  StreamingIngest: the      *)
(* Iceberg table only ever grows by whole appends, and an acknowledged     *)
(* article is in it.  Compactor: wherever a compaction is interrupted, the *)
(* rows of the partition are all still there.  The two modules share no    *)
(* names but are independent.                                              *)
(***************************************************************************)
EXTENDS StreamingIngest, Compactor, TLAPS

(* Only an append that has read its article goes on to the table.          *)
ReadBeforeWrite ==
    \A w \in Writers : proc[w].pc \in {"create", "commit", "answer"} => Readable(w)

(* What is about to be answered with 200 has been committed, and nothing   *)
(* that came in between took it out again.                                 *)
AnswersAreStored ==
    \A w \in Writers : proc[w].pc = "answer" => proc[w].rows \subseteq Stored

IngestInv ==
    /\ TypeOK
    /\ log \in Seq(SUBSET Good)
    /\ ReadBeforeWrite
    /\ AnswersAreStored
    /\ AckedIsStored

-----------------------------------------------------------------------------
(* What one more append does to the table.                                 *)
LEMMA AppendedRows ==
  ASSUME NEW S, NEW s \in Seq(S), NEW e \in S
  PROVE  /\ Append(s, e) \in Seq(S)
         /\ Len(Append(s, e)) = Len(s) + 1
         /\ UNION Range(Append(s, e)) = (UNION Range(s)) \cup e
<1>1. Append(s, e) \in Seq(S) /\ Len(Append(s, e)) = Len(s) + 1
  OBVIOUS
<1>2. \A x : x \in Range(Append(s, e)) <=> x \in Range(s) \/ x = e
  <2>1. DOMAIN Append(s, e) = 1 .. Len(s) + 1 /\ DOMAIN s = 1 .. Len(s)
    OBVIOUS
  <2>2. \A i \in 1 .. Len(s) : Append(s, e)[i] = s[i]
    OBVIOUS
  <2>3. Append(s, e)[Len(s) + 1] = e
    OBVIOUS
  <2> QED BY <2>1, <2>2, <2>3 DEF Range
<1> QED BY <1>1, <1>2

(* Commit replaces the table's appends by those of the version it was      *)
(* loaded from; as it is made on the latest version only, it is an append. *)
LEMMA CommitAppends ==
  ASSUME NEW S, NEW s \in Seq(S), NEW e \in S
  PROVE  Append(SubSeq(s, 1, Len(s)), e) = Append(s, e)
<1>1. SubSeq(s, 1, Len(s)) = s
  OBVIOUS
<1> QED BY <1>1

(* A step leaves the table as it is or puts one append of good rows after  *)
(* all that are in it.                                                     *)
LEMMA TableOnlyGrows ==
  ASSUME IngestInv, [Next]_vars
  PROVE  \/ log' = log
         \/ \E w \in Writers : /\ proc[w].rows \in SUBSET Good
                               /\ log' = Append(log, proc[w].rows)
<1>1. ASSUME NEW w \in Writers, Commit(w), Commits(w)
      PROVE  proc[w].rows \in SUBSET Good /\ log' = Append(log, proc[w].rows)
  <2>1. proc[w].rows \in SUBSET Good
    BY <1>1 DEF IngestInv, TypeOK, ReadBeforeWrite, Readable, Commit, Good
  <2>2. log' = Append(SubSeq(log, 1, Len(log)), proc[w].rows)
    BY <1>1 DEF Commit, Commits
  <2> QED BY <2>1, <2>2, CommitAppends DEF IngestInv
<1>2. ASSUME NEW w \in Writers, Commit(w), ~Commits(w) PROVE log' = log
  BY <1>2 DEF Commit
<1>3. ASSUME NEW w \in Writers, Step(w) \/ Crash(w), ~Commit(w) PROVE log' = log
  BY <1>3 DEF Step, Refuse, LoadTable, CreateTable, Answer, Crash
<1>4. ASSUME PublishBatch \/ BatchSilver PROVE log' = log
  BY <1>4 DEF PublishBatch, BatchSilver
<1>5. ASSUME NEW w \in Workers, NEW a \in Articles, Push(w, a) PROVE log' = log
  BY <1>5 DEF Push
<1>6. CASE UNCHANGED vars
  BY <1>6 DEF vars
<1> QED BY <1>1, <1>2, <1>3, <1>4, <1>5, <1>6 DEF Next

(* So the appends of the table stay, and its length does not shrink.       *)
LEMMA StoredStays ==
  ASSUME IngestInv, [Next]_vars
  PROVE  /\ log' \in Seq(SUBSET Good)
         /\ Len(log) \in Nat /\ Len(log') \in Nat /\ Len(log) <= Len(log')
         /\ Stored \subseteq Stored'
<1>1. log \in Seq(SUBSET Good)
  BY DEF IngestInv
<1>2. CASE log' = log
  BY <1>1, <1>2 DEF Stored
<1>3. ASSUME NEW w \in Writers, proc[w].rows \in SUBSET Good, log' = Append(log, proc[w].rows)
      PROVE  /\ log' \in Seq(SUBSET Good)
             /\ Len(log) \in Nat /\ Len(log') \in Nat /\ Len(log) <= Len(log')
             /\ Stored \subseteq Stored'
  BY <1>1, <1>3, AppendedRows DEF Stored
<1> QED BY <1>2, <1>3, TableOnlyGrows

-----------------------------------------------------------------------------
PCs == {"publish", "ahead", "idle", "append", "create", "commit", "answer"}
Records(n) == [pc : PCs, rows : SUBSET (Articles \ Irrelevant), base : 0 .. n]

(* What a step leaves in a writer's record: only w's own record changes,   *)
(* and a record keeps its type on a table that has grown.                  *)
LEMMA RecordsStayTyped ==
  ASSUME IngestInv, Len(log) <= Len(log'), Len(log) \in Nat, Len(log') \in Nat,
         NEW w \in Writers, NEW r, r \in Records(Len(log')),
         proc' = [proc EXCEPT ![w] = r]
  PROVE  /\ proc' \in [Writers -> Records(Len(log'))]
         /\ proc'[w] = r
         /\ \A v \in Writers \ {w} : proc'[v] = proc[v]
<1>1. proc \in [Writers -> Records(Len(log))]
  BY DEF IngestInv, TypeOK, Records, PCs
<1>2. \A v \in Writers : proc[v] \in Records(Len(log'))
  BY <1>1 DEF Records
<1> QED BY <1>1, <1>2

(* What w does next, as a change of its record, of what is acknowledged    *)
(* and of the table.                                                       *)
LEMMA WriterSteps ==
  ASSUME IngestInv, NEW w \in Writers, Step(w) \/ Crash(w)
  PROVE  \E r \in Records(Len(log')) :
           /\ proc' = [proc EXCEPT ![w] = r]
           /\ r.pc \in {"create", "commit", "answer"} => r.rows = proc[w].rows /\ Readable(w)
           /\ r.pc = "answer" => Commit(w) /\ Commits(w)
           /\ message' = message \/ (Answer(w) /\ message' = Acked(w))
<1> DEFINE Rec == Records(Len(log'))
<1>0. /\ proc[w] \in Records(Len(log))
      /\ proc \in [Writers -> Records(Len(log))]
      /\ Len(log) \in Nat /\ Len(log') \in Nat /\ Len(log) <= Len(log')
  BY StoredStays DEF IngestInv, TypeOK, Records, PCs, Next
<1>1. Idle \in Rec /\ Idle.pc = "idle"
  BY <1>0 DEF Idle, Records, PCs
<1>2. CASE Refuse(w) \/ Crash(w)
  BY <1>1, <1>2 DEF Refuse, Crash
<1>3. CASE LoadTable(w)
  <2> DEFINE r == [proc[w] EXCEPT !.pc = IF exists THEN "commit" ELSE "create", !.base = Len(log)]
             r0 == [proc[w] EXCEPT !.pc = IF exists THEN "commit" ELSE "create"]
  <2>1. /\ r0 \in Records(Len(log))
        /\ r0.rows = proc[w].rows /\ r0.pc # "answer"
    BY <1>0 DEF Records, PCs
  <2> HIDE DEF r0
  <2>2. [r0 EXCEPT !.base = Len(log)] \in Rec
        /\ [r0 EXCEPT !.base = Len(log)].rows = r0.rows /\ [r0 EXCEPT !.base = Len(log)].pc = r0.pc
    BY <1>0, <2>1 DEF Records, PCs
  <2>3. r \in Rec /\ r.rows = proc[w].rows /\ r.pc # "answer"
    BY <2>1, <2>2 DEF r0
  <2>4. proc' = [proc EXCEPT ![w] = r] /\ message' = message /\ Readable(w)
    BY <1>0, <1>3 DEF LoadTable
  <2> QED BY <2>3, <2>4
<1>4. CASE CreateTable(w) /\ exists
  BY <1>1, <1>4 DEF CreateTable, Raised
<1>5. CASE CreateTable(w) /\ ~exists
  <2> DEFINE r == [proc[w] EXCEPT !.pc = "commit"]
  <2>1. r \in Rec /\ r.rows = proc[w].rows /\ r.pc # "answer"
    BY <1>0 DEF Records, PCs
  <2>2. proc' = [proc EXCEPT ![w] = r] /\ message' = message /\ Readable(w)
    BY <1>0, <1>5 DEF CreateTable, IngestInv, ReadBeforeWrite
  <2> QED BY <2>1, <2>2
<1>6. CASE Commit(w) /\ Commits(w)
  <2> DEFINE r == [proc[w] EXCEPT !.pc = "answer", !.base = Len(log')]
             r0 == [proc[w] EXCEPT !.pc = "answer"]
  <2>1. /\ r0 \in Records(Len(log))
        /\ r0.rows = proc[w].rows
    BY <1>0 DEF Records, PCs
  <2> HIDE DEF r0
  <2>2. [r0 EXCEPT !.base = Len(log')] \in Rec /\ [r0 EXCEPT !.base = Len(log')].rows = r0.rows
    BY <1>0, <2>1 DEF Records, PCs
  <2>3. r \in Rec /\ r.rows = proc[w].rows
    BY <2>1, <2>2 DEF r0
  <2>4. proc' = [proc EXCEPT ![w] = r] /\ message' = message /\ Readable(w)
    BY <1>0, <1>6 DEF Commit, IngestInv, ReadBeforeWrite
  <2> QED BY <1>6, <2>3, <2>4
<1>7. CASE Commit(w) /\ ~Commits(w)
  BY <1>1, <1>7 DEF Commit, Raised
<1>8. CASE Answer(w)
  BY <1>1, <1>8 DEF Answer
<1> QED BY <1>2, <1>3, <1>4, <1>5, <1>6, <1>7, <1>8 DEF Step

-----------------------------------------------------------------------------
LEMMA IngestInit == Init => IngestInv
<1> SUFFICES ASSUME Init PROVE IngestInv
  OBVIOUS
<1>1. log = <<>> /\ log \in Seq(SUBSET Good) /\ Len(log) = 0
  BY DEF Init
<1>2. \A w \in Writers : /\ proc[w] \in [pc : {"publish", "idle"}, rows : {{}}, base : {0}]
                         /\ proc[w].pc \in {"publish", "idle"}
  <2>1. Idle \in [pc : {"publish", "idle"}, rows : {{}}, base : {0}]
    BY DEF Idle
  <2>2. [Idle EXCEPT !.pc = "publish"] \in [pc : {"publish", "idle"}, rows : {{}}, base : {0}]
    BY DEF Idle
  <2> QED BY <2>1, <2>2 DEF Init
<1>3. proc \in [Writers -> [pc : {"publish", "idle"}, rows : {{}}, base : {0}]]
  BY <1>2 DEF Init
<1>4. TypeOK
  <2>1. \A w \in Writers : proc[w] \in Records(Len(log))
    BY <1>1, <1>2 DEF Records, PCs
  <2>2. proc \in [Writers -> Records(Len(log))]
    BY <1>3, <2>1
  <2>3. DOMAIN log = {}
    BY <1>1
  <2>4. message = [a \in Articles |-> "unpublished"] /\ exists = FALSE /\ crashes = 0
    BY DEF Init
  <2>5. message \in [Articles -> {"unpublished", "lost", "queued", "acked"}]
    BY <2>4
  <2>6. exists \in BOOLEAN
    BY <2>4
  <2>7. crashes \in 0 .. MaxCrashes
    BY <2>4, StreamingAssumption
  <2> QED BY <2>2, <2>3, <2>5, <2>6, <2>7 DEF TypeOK, Records, PCs
<1>5. ReadBeforeWrite /\ AnswersAreStored
  BY <1>2 DEF ReadBeforeWrite, AnswersAreStored
<1>6. AckedIsStored
  BY DEF Init, AckedIsStored
<1> QED BY <1>1, <1>4, <1>5, <1>6 DEF IngestInv

(* A writer's step: the records keep their types; what it is about to      *)
(* answer it has just committed; what it acknowledges was committed.       *)
LEMMA WriterKeepsInv ==
  ASSUME IngestInv, NEW w \in Writers, Step(w) \/ Crash(w)
  PROVE  IngestInv'
<1>0. [Next]_vars
  BY DEF Next
<1>1. /\ log' \in Seq(SUBSET Good) /\ Len(log) \in Nat /\ Len(log') \in Nat
      /\ Len(log) <= Len(log') /\ Stored \subseteq Stored'
  BY <1>0, StoredStays
<1>2. PICK r \in Records(Len(log')) :
        /\ proc' = [proc EXCEPT ![w] = r]
        /\ r.pc \in {"create", "commit", "answer"} => r.rows = proc[w].rows /\ Readable(w)
        /\ r.pc = "answer" => Commit(w) /\ Commits(w)
        /\ message' = message \/ (Answer(w) /\ message' = Acked(w))
  BY WriterSteps
<1>3. /\ proc' \in [Writers -> Records(Len(log'))]
      /\ proc'[w] = r
      /\ \A v \in Writers \ {w} : proc'[v] = proc[v]
  BY <1>1, <1>2, RecordsStayTyped
<1>4. TypeOK'
  <2>1. message' \in [Articles -> {"unpublished", "lost", "queued", "acked"}]
    BY <1>2 DEF IngestInv, TypeOK, Acked
  <2>2. exists' \in BOOLEAN /\ crashes' \in 0 .. MaxCrashes
    <3>1. CASE Step(w)
      BY <3>1 DEF IngestInv, TypeOK, Step, Refuse, LoadTable, CreateTable, Commit, Answer
    <3>2. CASE Crash(w)
      BY <3>2, StreamingAssumption DEF IngestInv, TypeOK, Crash
    <3> QED BY <3>1, <3>2
  <2>3. \A i \in DOMAIN log' : log'[i] \subseteq Good
    BY <1>1
  <2> QED BY <1>3, <2>1, <2>2, <2>3 DEF TypeOK, Records, PCs
<1>5. ReadBeforeWrite'
  BY <1>2, <1>3 DEF IngestInv, ReadBeforeWrite, Readable
<1>6. AnswersAreStored'
  <2>1. ASSUME r.pc = "answer" PROVE r.rows \subseteq Stored'
    <3>1. Commit(w) /\ Commits(w) /\ r.rows = proc[w].rows /\ Readable(w)
      BY <1>2, <2>1
    <3>2. proc[w].rows \in SUBSET Good
      BY <3>1 DEF IngestInv, TypeOK, Readable, Good
    <3>3. log' = Append(log, proc[w].rows)
      BY <3>1, <3>2, CommitAppends DEF IngestInv, Commit, Commits
    <3> QED BY <3>1, <3>2, <3>3, AppendedRows DEF IngestInv, Stored
  <2> QED BY <1>1, <1>3, <2>1 DEF IngestInv, AnswersAreStored
<1>7. AckedIsStored'
  <2>1. CASE message' = message
    BY <1>1, <2>1 DEF IngestInv, AckedIsStored
  <2>2. CASE Answer(w) /\ message' = Acked(w)
    <3>1. proc[w].rows \subseteq Stored
      BY <2>2 DEF IngestInv, AnswersAreStored, Answer
    <3> QED BY <1>1, <2>2, <3>1 DEF IngestInv, AckedIsStored, Acked
  <2> QED BY <1>2, <2>1, <2>2
<1> QED BY <1>1, <1>4, <1>5, <1>6, <1>7 DEF IngestInv

(* A publication, the batch's silver rows or a push begin something new in *)
(* one writer's record and leave the table alone.                          *)
LEMMA BeginningKeepsInv ==
  ASSUME IngestInv, NEW w \in Writers,
         NEW r \in [pc : PCs \ {"create", "commit", "answer"},
                    rows : SUBSET (Articles \ Irrelevant), base : 0 .. Len(log)],
         proc' = [proc EXCEPT ![w] = r] \/ proc' = proc,
         UNCHANGED <<exists, log, crashes>>,
         message' \in [Articles -> {"unpublished", "lost", "queued", "acked"}],
         \A a \in Articles \ Irrelevant : message'[a] = "acked" => message[a] = "acked"
  PROVE  IngestInv'
<1>1. Stored' = Stored
  BY DEF Stored
<1>2. /\ proc' \in [Writers -> Records(Len(log))]
      /\ \A v \in Writers : proc'[v].pc \in {"create", "commit", "answer"} => proc'[v] = proc[v]
  BY DEF IngestInv, TypeOK, Records, PCs
<1>3. TypeOK'
  BY <1>2 DEF IngestInv, TypeOK, Records, PCs
<1>4. ReadBeforeWrite' /\ AnswersAreStored'
  BY <1>1, <1>2 DEF IngestInv, ReadBeforeWrite, AnswersAreStored, Readable
<1>5. AckedIsStored'
  BY <1>1 DEF IngestInv, AckedIsStored
<1> QED BY <1>3, <1>4, <1>5 DEF IngestInv

LEMMA IngestStep == IngestInv /\ [Next]_vars => IngestInv'
<1> SUFFICES ASSUME IngestInv, [Next]_vars PROVE IngestInv'
  OBVIOUS
<1>1. CASE PublishBatch
  <2> DEFINE r == [pc |-> "ahead", rows |-> proc[Batch].rows, base |-> proc[Batch].base]
  <2>1. Batch \in Writers /\ proc[Batch] \in Records(Len(log))
    BY DEF IngestInv, TypeOK, Records, PCs, Writers
  <2>2. r \in [pc : PCs \ {"create", "commit", "answer"}, rows : SUBSET (Articles \ Irrelevant), base : 0 .. Len(log)]
    BY <2>1 DEF Records, PCs
  <2>3. proc' = [proc EXCEPT ![Batch] = r]
    <3>1. [proc[Batch] EXCEPT !.pc = "ahead"] = r
      BY <2>1 DEF Records, PCs
    <3> QED BY <1>1, <3>1 DEF PublishBatch
  <2>4. /\ UNCHANGED <<exists, log, crashes>>
        /\ message' \in [Articles -> {"unpublished", "lost", "queued", "acked"}]
        /\ \A a \in Articles \ Irrelevant : message'[a] = "acked" => message[a] = "acked"
    BY <1>1 DEF PublishBatch
  <2> HIDE DEF r
  <2> QED BY <2>1, <2>2, <2>3, <2>4, BeginningKeepsInv
<1>2. CASE BatchSilver
  <2> DEFINE r == [pc |-> "append", rows |-> Good, base |-> 0]
  <2>1. Batch \in Writers /\ Len(log) \in Nat
    BY DEF IngestInv, Writers
  <2>2. r \in [pc : PCs \ {"create", "commit", "answer"}, rows : SUBSET (Articles \ Irrelevant), base : 0 .. Len(log)]
    BY <2>1 DEF Records, PCs, Good
  <2>3. /\ proc' = [proc EXCEPT ![Batch] = r]
        /\ UNCHANGED <<exists, log, crashes>>
        /\ message' \in [Articles -> {"unpublished", "lost", "queued", "acked"}]
        /\ \A a \in Articles \ Irrelevant : message'[a] = "acked" => message[a] = "acked"
    BY <1>2 DEF BatchSilver, IngestInv, TypeOK
  <2> HIDE DEF r
  <2> QED BY <2>1, <2>2, <2>3, BeginningKeepsInv
<1>3. ASSUME NEW w \in Workers, NEW a \in Articles, Push(w, a) PROVE IngestInv'
  <2> DEFINE r == [pc |-> "append", rows |-> {a} \ Irrelevant, base |-> 0]
  <2>1. w \in Writers /\ Len(log) \in Nat
    BY DEF IngestInv, Writers
  <2>2. r \in [pc : PCs \ {"create", "commit", "answer"}, rows : SUBSET (Articles \ Irrelevant), base : 0 .. Len(log)]
    BY <2>1 DEF Records, PCs
  <2>3. /\ proc' = [proc EXCEPT ![w] = r] \/ proc' = proc
        /\ UNCHANGED <<exists, log, crashes>>
    <3>1. CASE a \in Irrelevant
      BY <1>3, <3>1 DEF Push
    <3>2. CASE a \notin Irrelevant
      <4>1. {a} \ Irrelevant = {a}
        BY <3>2
      <4> QED BY <1>3, <3>2, <4>1 DEF Push
    <3> QED BY <3>1, <3>2
  <2>4. /\ message' \in [Articles -> {"unpublished", "lost", "queued", "acked"}]
        /\ \A b \in Articles \ Irrelevant : message'[b] = "acked" => message[b] = "acked"
    BY <1>3 DEF Push, IngestInv, TypeOK
  <2> HIDE DEF r
  <2> QED BY <2>1, <2>2, <2>3, <2>4, BeginningKeepsInv
<1>4. ASSUME NEW w \in Writers, Step(w) \/ Crash(w) PROVE IngestInv'
  BY <1>4, WriterKeepsInv
<1>5. CASE UNCHANGED vars
  BY <1>5 DEF vars, IngestInv, TypeOK, ReadBeforeWrite, AnswersAreStored, AckedIsStored, Readable, Stored
<1> QED BY <1>1, <1>2, <1>3, <1>4, <1>5 DEF Next

LEMMA IngestInvariant == Spec => []IngestInv
<1> QED BY IngestInit, IngestStep, PTL DEF Spec

-----------------------------------------------------------------------------
(* The types: whatever was published and whoever appends, the table holds  *)
(* appends of good articles only (ArticleProcessor drops or refuses the    *)
(* others before IcebergWriter.append).                                    *)
THEOREM IngestTypeCorrect == Spec => []TypeOK
<1>1. IngestInv => TypeOK
  BY DEF IngestInv
<1> QED BY <1>1, IngestInvariant, PTL

(* A relevant article whose push was answered with 200 is in the Iceberg   *)
(* table and stays there, for any number of workers and any interleaving   *)
(* of appends, table creations, redeliveries and crashes.                  *)
THEOREM AcknowledgedIsStored == Spec => []AckedIsStored
<1>1. IngestInv => AckedIsStored
  BY DEF IngestInv
<1> QED BY <1>1, IngestInvariant, PTL

(* No commit takes rows out of the table: what one writer appended is not  *)
(* replaced by another that had loaded an older version.                   *)
THEOREM NoLostAppend == Spec => [][Stored \subseteq Stored']_vars
<1>1. IngestInv /\ [Next]_vars => [Stored \subseteq Stored']_vars
  BY StoredStays
<1> QED BY <1>1, IngestInvariant, PTL DEF Spec

-----------------------------------------------------------------------------
(* The compactor.                                                          *)

(* What a compaction has seen of the files it lists: they stay, and once it *)
(* has read them they are whole, no batch is written into them, and their  *)
(* rows are among those it read.                                           *)
ListedStay ==
  /\ stage \in {"read", "write"} => \A f \in todo : file[f] # Absent
  /\ stage \in {"write", "finish", "unlink"} =>
       \A f \in todo \ {Compacted} : file[f].state = "whole" /\ file[f].hashes \subseteq merged

(* The two files of the compaction itself.                                 *)
OwnFiles ==
  /\ stage \in {"read", "write"} => Compacted \in todo \/ file[Compacted] = Absent
  /\ stage = "finish" => file[Compacted] = Torn
  /\ stage = "unlink" => file[Compacted] = Whole(merged)
                         \/ (todo = {} /\ file[Compacted] = Absent)
  /\ stage # "idle" => Final \in todo \/ file[Final] = Absent

(* Only an interrupted compaction leaves a compacted file behind.          *)
LeftBehind ==
  ~ stopped => /\ stage = "idle" => file[Compacted] = Absent
               /\ Compacted \notin todo
               /\ stage = "unlink" => file[Compacted] = Whole(merged)

(* As long as none has been interrupted, the rows of every batch that was  *)
(* written to the end are in the partition.                                *)
WrittenIsKept ==
  ~ stopped => \A b \in written : HashesOf[b] \subseteq RowsIn(Files)

CompactInv == PartitionTypeOK /\ ListedStay /\ OwnFiles /\ LeftBehind /\ WrittenIsKept

-----------------------------------------------------------------------------
(* The states of a file.                                                   *)
LEMMA FileKinds ==
  /\ Absent.hashes = {} /\ Absent.state = "absent"
  /\ Torn.hashes = {} /\ Torn.state = "torn" /\ Torn # Absent
  /\ \A h : /\ Whole(h).hashes = h /\ Whole(h).state = "whole"
            /\ Whole(h) # Absent /\ Whole(h) # Torn
<1> QED BY DEF Absent, Torn, Whole

LEMMA FileType ==
  ASSUME PartitionTypeOK, NEW f \in Files
  PROVE  /\ file[f].hashes \subseteq AllHashes
         /\ file[f].state = "torn" <=> file[f] = Torn
         /\ file[f].state = "absent" <=> file[f] = Absent
         /\ file[f].state \in {"absent", "torn", "whole"}
<1>1. file[f] \in {Absent, Torn} \cup {Whole(h) : h \in SUBSET AllHashes}
  BY DEF PartitionTypeOK
<1>2. CASE file[f] \in {Absent, Torn}
  BY <1>2, FileKinds
<1>3. CASE \E h \in SUBSET AllHashes : file[f] = Whole(h)
  BY <1>3, FileKinds
<1> QED BY <1>1, <1>2, <1>3

LEMMA RowsOfListed ==
  ASSUME PartitionTypeOK, NEW S \in SUBSET Files
  PROVE  /\ RowsIn(S) \subseteq AllHashes
         /\ \A f \in S : file[f].hashes \subseteq RowsIn(S)
<1>1. \A f \in S : file[f].hashes \subseteq AllHashes
  BY FileType
<1> QED BY <1>1 DEF RowsIn

(* A step that writes one file keeps the rows of the others.               *)
LEMMA OneFileWritten ==
  ASSUME PartitionTypeOK, NEW f \in Files, NEW v,
         file' = [file EXCEPT ![f] = v],
         \A x \in file[f].hashes : x \in v.hashes \/ \E g \in Files \ {f} : x \in file[g].hashes
  PROVE  RowsIn(Files) \subseteq RowsIn(Files)'
<1>1. file'[f] = v /\ \A g \in Files \ {f} : file'[g] = file[g]
  BY DEF PartitionTypeOK
<1>2. ASSUME NEW x, NEW g \in Files, x \in file[g].hashes
      PROVE  \E k \in Files : x \in file'[k].hashes
  <2>1. CASE g = f
    BY <1>1, <1>2, <2>1
  <2>2. CASE g # f
    BY <1>1, <1>2, <2>2
  <2> QED BY <2>1, <2>2
<1> QED BY <1>2 DEF RowsIn

-----------------------------------------------------------------------------
(* Each step keeps the rows of the partition, unless the compaction began  *)
(* with a compacted file.                                                  *)
LEMMA RowsStay ==
  ASSUME CompactInv, [CompactNext]_compactVars, Compacted \notin todo
  PROVE  RowsIn(Files) \subseteq RowsIn(Files)'
<1> USE DEF CompactInv
<1>1. CASE UNCHANGED file
  BY <1>1 DEF RowsIn
<1>2. ASSUME NEW b \in Batches, BeginBatch(b) \/ EndBatch(b)
      PROVE  RowsIn(Files) \subseteq RowsIn(Files)'
  <2>1. b \in Files /\ file[b].hashes = {}
    BY <1>2, FileKinds DEF BeginBatch, EndBatch, Files
  <2>2. \E v : file' = [file EXCEPT ![b] = v]
    BY <1>2 DEF BeginBatch, EndBatch
  <2> QED BY <2>1, <2>2, OneFileWritten
<1>3. CASE BeginWrite
  <2>1. Compacted \in Files /\ file[Compacted].hashes = {}
    BY <1>3, FileKinds DEF BeginWrite, OwnFiles, Files
  <2> QED BY <1>3, <2>1, OneFileWritten DEF BeginWrite
<1>4. CASE EndWrite
  <2>1. Compacted \in Files /\ file[Compacted].hashes = {}
    BY <1>4, FileKinds DEF EndWrite, OwnFiles, Files
  <2> QED BY <1>4, <2>1, OneFileWritten DEF EndWrite
<1>5. CASE Unlink
  <2>1. PICK f \in todo : file' = [file EXCEPT ![f] = Absent]
    BY <1>5 DEF Unlink
  <2>2. /\ f \in Files /\ Compacted \in Files /\ f # Compacted
        /\ file[Compacted] = Whole(merged) /\ file[f].hashes \subseteq merged
    BY <1>5, <2>1 DEF Unlink, OwnFiles, ListedStay, PartitionTypeOK, Files
  <2>3. \A x \in file[f].hashes : x \in file[Compacted].hashes
    BY <2>2, FileKinds
  <2> QED BY <2>1, <2>2, <2>3, OneFileWritten
<1>6. CASE Rename
  <2>1. CASE file[Compacted] = Absent
    BY <1>1, <1>6, <2>1 DEF Rename
  <2>2. CASE file[Compacted] # Absent
    <3>1. /\ file' = [file EXCEPT ![Final] = file[Compacted], ![Compacted] = Absent]
          /\ file[Final] = Absent
      BY <1>6, <2>2 DEF Rename, OwnFiles
    <3>2. Final \in Files /\ Compacted \in Files /\ Final # Compacted
      BY DEF Files, Final, Compacted
    <3>3. /\ file'[Final] = file[Compacted]
          /\ \A g \in Files \ {Final, Compacted} : file'[g] = file[g]
      BY <3>1, <3>2 DEF PartitionTypeOK
    <3>4. ASSUME NEW x, NEW g \in Files, x \in file[g].hashes
          PROVE  \E k \in Files : x \in file'[k].hashes
      BY <3>1, <3>2, <3>3, <3>4, FileKinds
    <3> QED BY <3>4 DEF RowsIn
  <2> QED BY <2>1, <2>2
<1>7. CASE List \/ Read \/ Stop \/ UNCHANGED compactVars
  BY <1>1, <1>7 DEF List, Read, Stop, compactVars
<1> QED BY <1>2, <1>3, <1>4, <1>5, <1>6, <1>7 DEF CompactNext, Compact

(* What a step of a batch may change of the files a compaction has listed. *)
LEMMA BatchSteps ==
  ASSUME CompactInv, NEW b \in Batches, BeginBatch(b) \/ EndBatch(b)
  PROVE  PartitionTypeOK' /\ ListedStay' /\ OwnFiles' /\ LeftBehind'
<1> USE DEF CompactInv
<1> DEFINE v == IF BeginBatch(b) THEN Torn ELSE Whole(HashesOf[b])
<1>1. /\ b \in Files /\ b # Final /\ b # Compacted /\ Final \in Files /\ Compacted \in Files
  BY BatchAssumption DEF Files
<1>2. /\ UNCHANGED <<todo, merged, stage, stopped>> /\ written' \in {written, written \cup {b}}
      /\ file[b] \in {Absent, Torn}
      /\ \E s \in {Torn, Whole(HashesOf[b])} : file' = [file EXCEPT ![b] = s]
  BY DEF BeginBatch, EndBatch
<1>3. PICK s \in {Torn, Whole(HashesOf[b])} : file' = [file EXCEPT ![b] = s]
  BY <1>2
<1>4. /\ file'[b] = s /\ s # Absent /\ \A f \in Files \ {b} : file'[f] = file[f]
      /\ s \in {Absent, Torn} \cup {Whole(h) : h \in SUBSET AllHashes}
  <2>1. HashesOf[b] \in SUBSET AllHashes
    BY DEF AllHashes
  <2>2. s # Absent /\ s \in {Absent, Torn} \cup {Whole(h) : h \in SUBSET AllHashes}
    BY <2>1, FileKinds
  <2> QED BY <1>1, <1>3, <2>2 DEF PartitionTypeOK
<1>5. PartitionTypeOK'
  BY <1>1, <1>2, <1>3, <1>4 DEF PartitionTypeOK
<1>6. ListedStay'
  <2>1. stage \in {"write", "finish", "unlink"} => b \notin todo
    BY <1>1, <1>2, FileKinds DEF ListedStay
  <2>2. todo \subseteq Files
    BY DEF PartitionTypeOK
  <2> QED BY <1>1, <1>2, <1>4, <2>1, <2>2 DEF ListedStay
<1>7. OwnFiles'
  BY <1>1, <1>2, <1>4 DEF OwnFiles
<1>8. LeftBehind'
  BY <1>1, <1>2, <1>4 DEF LeftBehind
<1> QED BY <1>5, <1>6, <1>7, <1>8

-----------------------------------------------------------------------------
(* What the steps of the compaction leave behind.                          *)
FilesInv == PartitionTypeOK /\ ListedStay /\ OwnFiles /\ LeftBehind

LEMMA ListKeeps == ASSUME CompactInv, List PROVE FilesInv'
<1> USE DEF CompactInv
<1>1. /\ stage = "idle" /\ todo' = Present /\ stage' = "read"
      /\ UNCHANGED <<file, merged, written, stopped>>
      /\ Final \in Files /\ Compacted \in Files
  BY DEF List, Files
<1>2. PartitionTypeOK' /\ ListedStay'
  BY <1>1 DEF PartitionTypeOK, ListedStay, Present
<1>3. OwnFiles' /\ LeftBehind'
  BY <1>1 DEF OwnFiles, LeftBehind, Present
<1> QED BY <1>2, <1>3 DEF FilesInv

LEMMA ReadKeeps == ASSUME CompactInv, Read PROVE FilesInv'
<1> USE DEF CompactInv
<1>1. /\ stage = "read" /\ UNCHANGED <<file, written, stopped>>
      /\ todo \in SUBSET Files /\ merged \subseteq AllHashes
  BY DEF Read, PartitionTypeOK
<1>2. CASE stage' = "idle" /\ todo' = {} /\ UNCHANGED merged
  BY <1>1, <1>2 DEF FilesInv, PartitionTypeOK, ListedStay, OwnFiles, LeftBehind
<1>3. CASE /\ stage' = "write" /\ merged' = RowsIn(todo) /\ UNCHANGED todo
           /\ \A f \in todo : file[f].state # "torn"
  <2>1. RowsIn(todo) \subseteq AllHashes /\ \A f \in todo : file[f].hashes \subseteq RowsIn(todo)
    BY <1>1, RowsOfListed
  <2>2. \A f \in todo : file[f].state = "whole" /\ file[f] # Absent
    BY <1>1, <1>3, FileType DEF ListedStay
  <2>3. PartitionTypeOK' /\ ListedStay'
    BY <1>1, <1>3, <2>1, <2>2 DEF PartitionTypeOK, ListedStay
  <2>4. OwnFiles' /\ LeftBehind'
    BY <1>1, <1>3 DEF OwnFiles, LeftBehind
  <2> QED BY <2>3, <2>4 DEF FilesInv
<1> QED BY <1>2, <1>3 DEF Read

LEMMA WriteKeeps == ASSUME CompactInv, BeginWrite \/ EndWrite PROVE FilesInv'
<1> USE DEF CompactInv
<1>1. /\ UNCHANGED <<todo, merged, written, stopped>> /\ Compacted \in Files /\ Final \in Files
      /\ Final # Compacted /\ todo \subseteq Files /\ merged \in SUBSET AllHashes
  BY DEF BeginWrite, EndWrite, Files, Final, Compacted, PartitionTypeOK
<1>2. CASE BeginWrite
  <2>1. /\ stage = "write" /\ stage' = "finish" /\ file' = [file EXCEPT ![Compacted] = Torn]
        /\ file'[Compacted] = Torn /\ \A f \in Files \ {Compacted} : file'[f] = file[f]
    BY <1>1, <1>2 DEF BeginWrite, PartitionTypeOK
  <2>2. PartitionTypeOK'
    BY <1>1, <2>1 DEF PartitionTypeOK
  <2>3. ListedStay' /\ OwnFiles' /\ LeftBehind'
    BY <1>1, <2>1 DEF ListedStay, OwnFiles, LeftBehind
  <2> QED BY <2>2, <2>3 DEF FilesInv
<1>3. CASE EndWrite
  <2>1. /\ stage = "finish" /\ stage' = "unlink" /\ file' = [file EXCEPT ![Compacted] = Whole(merged)]
        /\ file'[Compacted] = Whole(merged) /\ \A f \in Files \ {Compacted} : file'[f] = file[f]
    BY <1>1, <1>3 DEF EndWrite, PartitionTypeOK
  <2>2. PartitionTypeOK'
    BY <1>1, <2>1 DEF PartitionTypeOK
  <2>3. ListedStay' /\ OwnFiles' /\ LeftBehind'
    BY <1>1, <2>1 DEF ListedStay, OwnFiles, LeftBehind
  <2> QED BY <2>2, <2>3 DEF FilesInv
<1> QED BY <1>2, <1>3

LEMMA UnlinkKeeps == ASSUME CompactInv, Unlink PROVE FilesInv'
<1> USE DEF CompactInv
<1>1. PICK f \in todo : /\ f = Compacted => todo = {Compacted}
                        /\ file' = [file EXCEPT ![f] = Absent] /\ todo' = todo \ {f}
  BY DEF Unlink
<1>2. /\ stage = "unlink" /\ UNCHANGED <<merged, stage, written, stopped>>
      /\ todo \subseteq Files /\ f \in Files /\ Compacted \in Files /\ Final \in Files
  BY <1>1 DEF Unlink, PartitionTypeOK, Files
<1>3. file'[f] = Absent /\ \A g \in Files \ {f} : file'[g] = file[g]
  BY <1>1, <1>2 DEF PartitionTypeOK
<1>4. PartitionTypeOK'
  BY <1>1, <1>2 DEF PartitionTypeOK
<1>5. ListedStay'
  BY <1>1, <1>2, <1>3 DEF ListedStay
<1>6. OwnFiles' /\ LeftBehind'
  BY <1>1, <1>2, <1>3 DEF OwnFiles, LeftBehind
<1> QED BY <1>4, <1>5, <1>6 DEF FilesInv

LEMMA RenameKeeps == ASSUME CompactInv, Rename PROVE FilesInv'
<1> USE DEF CompactInv
<1>1. /\ stage = "unlink" /\ todo = {} /\ stage' = "idle" /\ merged' = {}
      /\ UNCHANGED <<todo, written, stopped>>
      /\ Final \in Files /\ Compacted \in Files /\ Final # Compacted
  BY DEF Rename, Files, Final, Compacted
<1>2. CASE file[Compacted] = Absent /\ UNCHANGED file
  BY <1>1, <1>2 DEF FilesInv, PartitionTypeOK, ListedStay, OwnFiles, LeftBehind
<1>3. CASE file' = [file EXCEPT ![Final] = file[Compacted], ![Compacted] = Absent]
  <2>1. PartitionTypeOK' /\ file'[Compacted] = Absent
    BY <1>1, <1>3 DEF PartitionTypeOK
  <2> QED BY <1>1, <2>1 DEF FilesInv, ListedStay, OwnFiles, LeftBehind
<1> QED BY <1>2, <1>3 DEF Rename

LEMMA StopKeeps == ASSUME CompactInv, Stop PROVE FilesInv'
<1> QED BY DEF CompactInv, Stop, FilesInv, PartitionTypeOK, ListedStay, OwnFiles, LeftBehind

LEMMA StutterKeeps == ASSUME CompactInv, UNCHANGED compactVars PROVE FilesInv'
<1> QED BY DEF CompactInv, compactVars, FilesInv, PartitionTypeOK, ListedStay, OwnFiles, LeftBehind

-----------------------------------------------------------------------------
LEMMA InitCompact == CompactInit => CompactInv
<1> SUFFICES ASSUME CompactInit PROVE CompactInv
  OBVIOUS
<1>1. PartitionTypeOK
  BY DEF CompactInit, PartitionTypeOK
<1>2. ListedStay /\ OwnFiles /\ LeftBehind /\ WrittenIsKept
  BY DEF CompactInit, ListedStay, OwnFiles, LeftBehind, WrittenIsKept, Files
<1> QED BY <1>1, <1>2 DEF CompactInv

LEMMA CompactStep == CompactInv /\ [CompactNext]_compactVars => CompactInv'
<1> SUFFICES ASSUME CompactInv, [CompactNext]_compactVars PROVE CompactInv'
  OBVIOUS
<1>1. FilesInv'
  <2>1. ASSUME NEW b \in Batches, BeginBatch(b) \/ EndBatch(b) PROVE FilesInv'
    BY <2>1, BatchSteps DEF FilesInv
  <2> QED BY <2>1, ListKeeps, ReadKeeps, WriteKeeps, UnlinkKeeps, RenameKeeps, StopKeeps,
             StutterKeeps DEF CompactNext, Compact
<1>2. WrittenIsKept'
  <2>1. SUFFICES ASSUME ~ stopped', NEW b \in Batches, b \in written'
                 PROVE  HashesOf[b] \subseteq RowsIn(Files)'
    BY <1>1 DEF WrittenIsKept, FilesInv, PartitionTypeOK
  <2>2. ~ stopped
    BY <2>1 DEF CompactNext, Compact, compactVars, BeginBatch, EndBatch, List, Read, BeginWrite, EndWrite,
                Unlink, Rename, Stop
  <2>3. RowsIn(Files) \subseteq RowsIn(Files)'
    BY <2>2, RowsStay DEF CompactInv, LeftBehind
  <2>4. CASE b \in written
    BY <2>2, <2>3, <2>4 DEF CompactInv, WrittenIsKept
  <2>5. CASE b \notin written
    <3>1. EndBatch(b)
      BY <2>1, <2>5 DEF CompactNext, Compact, compactVars, BeginBatch, EndBatch, List, Read, BeginWrite,
                        EndWrite, Unlink, Rename, Stop
    <3>2. b \in Files /\ file'[b].hashes = HashesOf[b]
      BY <3>1, FileKinds DEF EndBatch, Files, CompactInv, PartitionTypeOK
    <3> QED BY <3>2 DEF RowsIn
  <2> QED BY <2>4, <2>5
<1> QED BY <1>1, <1>2 DEF CompactInv, FilesInv

LEMMA CompactAlways == CompactSpec => []CompactInv
<1> QED BY InitCompact, CompactStep, PTL DEF CompactSpec

(* Every file of the partition is absent, torn or whole, and a compaction  *)
(* has only files of the partition on its list.                            *)
THEOREM PartitionTypeCorrect == CompactSpec => []PartitionTypeOK
<1>1. CompactInv => PartitionTypeOK
  BY DEF CompactInv
<1> QED BY <1>1, CompactAlways, PTL

(* compact_layer unlinks originals only once their merge is whole: no step *)
(* of it, nor of the batches written meanwhile, takes a row out of the     *)
(* partition, wherever it is interrupted, unless it began with the         *)
(* compacted file of an interrupted one.                                   *)
THEOREM RowsAreNotLost == CompactSpec => InterruptionLosesNothing
<1>1. CompactInv /\ [CompactNext]_compactVars
        => [Compacted \notin todo => RowsIn(Files) \subseteq RowsIn(Files)']_compactVars
  BY RowsStay
<1> QED BY <1>1, CompactAlways, PTL DEF CompactSpec, InterruptionLosesNothing

(* While no compaction has been interrupted, none begins with a compacted  *)
(* file, and so the rows of every batch written to the end are there.      *)
THEOREM WrittenBatchesAreKept == CompactSpec => []WrittenIsKept
<1>1. CompactInv => WrittenIsKept
  BY DEF CompactInv
<1> QED BY <1>1, CompactAlways, PTL
=============================================================================

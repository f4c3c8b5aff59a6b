---------------------------- MODULE KnowledgeProofs ----------------------------
(****************************************************************************)
(* The knowledge base, for tables, files, texts and queues of any size:     *)
(* what is told of jobs and of imports is true, a text is cut without loss, *)
(* and no ungrounded model text is answered.                                *)
(****************************************************************************)
EXTENDS KnowledgeJobs, KnowledgeAdmin, Retrieval, SequenceTheorems,
        FiniteSetTheorems, TLAPS

--------------------------------------------------------------------------------
(****************************************************************************)
(* Embedding jobs and deletions.                                            *)
(****************************************************************************)
Job == [entry : Entries, kwargs : {{}}, retry_count : 0..max_retries,
        status : {"queued", "active", "completed", "failed", "aborted", "dropped"}]

Reports == {"queued", "failed", "error"}

\* The shape of the queue and of what was said about it: a report for each job.
KjTypeOK ==
  /\ jobs \in Seq(Job) /\ reported \in Seq(Reports) /\ Len(reported) = Len(jobs)
  /\ made \in [Entries -> [fallback : {"none", "async_queue", "failed"}, search_ready : BOOLEAN]]

\* The part of QueuedAsTold for one job.
AsTold(job, report) ==
  /\ report = "queued" => job.status # "dropped"
  /\ report = "failed" => job.status = "dropped"
  /\ job.status = "failed" => job.retry_count = max_retries

KjInv == KjTypeOK /\ QueuedAsTold

--------------------------------------------------------------------------------
LEMMA InitKjInv == KjInit => KjInv
<1> SUFFICES ASSUME KjInit PROVE KjInv
  OBVIOUS
<1>1. /\ jobs = <<>> /\ jobs \in Seq(Job) /\ reported = <<>> /\ reported \in Seq(Reports)
      /\ made = [e \in Entries |-> [fallback |-> "none", search_ready |-> FALSE]]
  BY DEF KjInit
<1> QED BY <1>1 DEF KjInv, KjTypeOK, QueuedAsTold

\* The jobs of one call go behind the others, with what the call reports of them.
LEMMA GrowKjInv ==
  ASSUME KjInv, NEW new \in Seq(Job), NEW said \in Seq(Reports), Len(said) = Len(new),
         \A i \in 1..Len(new) : AsTold(new[i], said[i]),
         jobs' = jobs \o new, reported' = reported \o said,
         made' \in [Entries -> [fallback : {"none", "async_queue", "failed"},
                                search_ready : BOOLEAN]],
         \A e \in Entries :
           made'[e].fallback = "async_queue" =>
             \/ made[e].fallback = "async_queue"
             \/ \E i \in 1..Len(new) : new[i].entry = e /\ said[i] = "queued"
  PROVE  KjInv'
<1>1. /\ jobs \in Seq(Job) /\ DOMAIN jobs = 1..Len(jobs) /\ Len(jobs) \in Nat
      /\ reported \in Seq(Reports) /\ Len(reported) = Len(jobs) /\ Len(new) \in Nat
  BY LenProperties DEF KjInv, KjTypeOK
<1>2. /\ jobs' \in Seq(Job) /\ Len(jobs') = Len(jobs) + Len(new)
      /\ \A i \in 1..Len(jobs) + Len(new) :
           jobs'[i] = IF i <= Len(jobs) THEN jobs[i] ELSE new[i - Len(jobs)]
  BY <1>1, ConcatProperties
<1>3. /\ reported' \in Seq(Reports) /\ Len(reported') = Len(jobs')
      /\ \A i \in 1..Len(jobs) + Len(new) :
           reported'[i] = IF i <= Len(jobs) THEN reported[i] ELSE said[i - Len(jobs)]
  <2>3. reported \in Seq(Reports) /\ said \in Seq(Reports)
    BY <1>1
  <2>1. /\ reported \o said \in Seq(Reports) /\ Len(reported \o said) = Len(reported) + Len(said)
        /\ \A i \in 1..Len(reported) + Len(said) :
             (reported \o said)[i] =
               IF i <= Len(reported) THEN reported[i] ELSE said[i - Len(reported)]
    BY ONLY <2>3, ConcatProperties
  <2>2. Len(reported) = Len(jobs) /\ Len(said) = Len(new)
    BY <1>1
  <2> QED  BY <1>2, <2>1, <2>2
<1>4. DOMAIN jobs' = 1..Len(jobs) + Len(new)
  BY <1>2, LenProperties
<1>5. ASSUME NEW j \in DOMAIN jobs' PROVE AsTold(jobs'[j], reported'[j])
  <2>1. CASE j <= Len(jobs)
    BY <1>1, <1>2, <1>3, <1>4, <2>1 DEF KjInv, QueuedAsTold, AsTold
  <2>2. CASE ~(j <= Len(jobs))
    <3>1. j - Len(jobs) \in 1..Len(new)
      BY <1>1, <1>4, <2>2
    <3> QED  BY <1>2, <1>3, <1>4, <2>2, <3>1
  <2> QED  BY <2>1, <2>2
<1>6. ASSUME NEW e \in Entries, made'[e].fallback = "async_queue"
      PROVE  \E j \in DOMAIN jobs' : jobs'[j].entry = e /\ reported'[j] = "queued"
  <2>1. CASE made[e].fallback = "async_queue"
    <3>1. PICK j \in DOMAIN jobs : jobs[j].entry = e /\ reported[j] = "queued"
      BY <2>1 DEF KjInv, QueuedAsTold
    <3>2. j \in DOMAIN jobs' /\ jobs'[j] = jobs[j] /\ reported'[j] = reported[j]
      BY <1>1, <1>2, <1>3, <1>4
    <3> QED  BY <3>1, <3>2
  <2>2. CASE \E i \in 1..Len(new) : new[i].entry = e /\ said[i] = "queued"
    <3>1. PICK i \in 1..Len(new) : new[i].entry = e /\ said[i] = "queued"
      BY <2>2
    <3>2. /\ Len(jobs) + i \in DOMAIN jobs' /\ jobs'[Len(jobs) + i] = new[i]
          /\ reported'[Len(jobs) + i] = said[i]
      BY <1>1, <1>2, <1>3, <1>4
    <3> QED  BY <3>1, <3>2
  <2> QED  BY <1>6, <2>1, <2>2
<1>7. QueuedAsTold'
  BY <1>5, <1>6 DEF QueuedAsTold, AsTold
<1> QED  BY <1>2, <1>3, <1>7 DEF KjInv, KjTypeOK

\* A job that moves keeps its entry, and none is dropped later.
LEMMA ChangeKjInv ==
  ASSUME KjInv, NEW j \in DOMAIN jobs, NEW job \in Job,
         job.entry = jobs[j].entry,
         job.status # "dropped", jobs[j].status # "dropped",
         job.status = "failed" => job.retry_count = max_retries,
         jobs' = [jobs EXCEPT ![j] = job], UNCHANGED <<reported, made>>
  PROVE  KjInv'
<1>1. jobs \in Seq(Job) /\ DOMAIN jobs = 1..Len(jobs)
  BY LenProperties DEF KjInv, KjTypeOK
<1>2. jobs' \in Seq(Job) /\ Len(jobs') = Len(jobs)
  BY <1>1, ExceptSeq
<1>3. DOMAIN jobs' = DOMAIN jobs /\ jobs'[j] = job
      /\ \A i \in DOMAIN jobs : i # j => jobs'[i] = jobs[i]
  BY <1>1
<1>4. \A i \in DOMAIN jobs : jobs'[i].entry = jobs[i].entry
  BY <1>3
<1>5. QueuedAsTold'
  BY <1>3, <1>4 DEF KjInv, QueuedAsTold
<1> QED  BY <1>2, <1>5 DEF KjInv, KjTypeOK

\* A new job is reported as what became of it.
LEMMA ReportTrue ==
  ASSUME NEW e \in Entries, NEW up \in BOOLEAN
  PROVE  /\ EmbeddingJob(e, up) \in Job /\ EmbeddingJob(e, up).entry = e
         /\ Report(EmbeddingJob(e, up)) \in Reports
         /\ AsTold(EmbeddingJob(e, up), Report(EmbeddingJob(e, up)))
         /\ AsTold(EmbeddingJob(e, up), "error")
         /\ EmbeddingJob(e, up).status = "queued" => AsTold(EmbeddingJob(e, up), "queued")
<1>1. 0 \in 0..max_retries
  BY RetriesAssumption
<1> QED  BY <1>1 DEF EmbeddingJob, Job, Report, Reports, AsTold

LEMMA CreateKjInv ==
  ASSUME KjInv, NEW e \in Entries, NEW embedded \in BOOLEAN, NEW up \in BOOLEAN,
         create_knowledge_with_chunks(e, embedded, up)
  PROVE  KjInv'
<1> DEFINE job == EmbeddingJob(e, up)
           fallback == IF Report(job) = "queued" THEN "async_queue" ELSE "failed"
<1>1. made \in [Entries -> [fallback : {"none", "async_queue", "failed"}, search_ready : BOOLEAN]]
  BY DEF KjInv, KjTypeOK
<1>2. CASE embedded
  <2>1. made' = [made EXCEPT ![e].search_ready = TRUE] /\ UNCHANGED <<jobs, reported>>
    BY <1>2 DEF create_knowledge_with_chunks
  <2>2. /\ made' \in [Entries -> [fallback : {"none", "async_queue", "failed"},
                                  search_ready : BOOLEAN]]
        /\ \A d \in Entries : made'[d].fallback = made[d].fallback
    BY <1>1, <2>1
  <2> QED  BY <2>1, <2>2 DEF KjInv, KjTypeOK, QueuedAsTold
<1>3. CASE ~embedded
  <2>1. /\ jobs' = Append(jobs, job) /\ reported' = Append(reported, Report(job))
        /\ made' = [made EXCEPT ![e].fallback = fallback]
    BY <1>3 DEF create_knowledge_with_chunks
  <2>2. job \in Job /\ job.entry = e /\ Report(job) \in Reports /\ AsTold(job, Report(job))
    BY ReportTrue
  <2>3. fallback \in {"async_queue", "failed"} /\ (fallback = "async_queue" => Report(job) = "queued")
    OBVIOUS
  <2> HIDE DEF job, fallback
  <2>4. jobs' = jobs \o <<job>> /\ reported' = reported \o <<Report(job)>>
    <3>1. jobs \in Seq(Job) /\ reported \in Seq(Reports)
      BY DEF KjInv, KjTypeOK
    <3> QED  BY <2>1, <2>2, <3>1, AppendIsConcat
  <2>5. /\ <<job>> \in Seq(Job) /\ <<Report(job)>> \in Seq(Reports)
        /\ Len(<<job>>) = 1 /\ Len(<<Report(job)>>) = 1
        /\ <<job>>[1] = job /\ <<Report(job)>>[1] = Report(job)
    BY <2>2
  <2>6. /\ made' \in [Entries -> [fallback : {"none", "async_queue", "failed"},
                                  search_ready : BOOLEAN]]
        /\ made'[e].fallback = fallback
        /\ \A d \in Entries \ {e} : made'[d].fallback = made[d].fallback
    BY <1>1, <2>1, <2>3
  <2>7. 1 \in 1..Len(<<job>>) /\ \A i \in 1..Len(<<job>>) : i = 1
    BY <2>5
  <2>8. \A i \in 1..Len(<<job>>) : AsTold(<<job>>[i], <<Report(job)>>[i])
    BY <2>2, <2>5, <2>7
  <2>9. \A d \in Entries :
          made'[d].fallback = "async_queue" =>
            \/ made[d].fallback = "async_queue"
            \/ \E i \in 1..Len(<<job>>) : <<job>>[i].entry = d /\ <<Report(job)>>[i] = "queued"
    <3> TAKE d \in Entries
    <3>1. CASE d # e
      BY <2>6, <3>1
    <3>2. CASE d = e
      BY <2>2, <2>3, <2>5, <2>6, <2>7, <3>2
    <3> QED  BY <3>1, <3>2
  <2> DEFINE new == <<job>>
             said == <<Report(job)>>
  <2>10. /\ new \in Seq(Job) /\ said \in Seq(Reports) /\ Len(said) = Len(new)
         /\ jobs' = jobs \o new /\ reported' = reported \o said
         /\ \A i \in 1..Len(new) : AsTold(new[i], said[i])
         /\ \A d \in Entries :
              made'[d].fallback = "async_queue" =>
                \/ made[d].fallback = "async_queue"
                \/ \E i \in 1..Len(new) : new[i].entry = d /\ said[i] = "queued"
    BY <2>4, <2>5, <2>8, <2>9
  <2> HIDE DEF new, said
  <2> QED  BY <2>6, <2>10, GrowKjInv
<1> QED  BY <1>2, <1>3

LEMMA BatchKjInv ==
  ASSUME KjInv, NEW d \in Entries, NEW e \in Entries, NEW x \in BOOLEAN, NEW y \in BOOLEAN,
         batch_import_knowledge(<<d, e>>, <<x, y>>)
  PROVE  KjInv'
<1> DEFINE one == EmbeddingJob(d, x)
           two == EmbeddingJob(e, y)
<1>1. UNCHANGED made /\ made' \in [Entries -> [fallback : {"none", "async_queue", "failed"},
                                              search_ready : BOOLEAN]]
  BY DEF batch_import_knowledge, KjInv, KjTypeOK
<1>2. /\ [i \in DOMAIN <<d, e>> |-> EmbeddingJob(<<d, e>>[i], <<x, y>>[i])] = <<one, two>>
      /\ [i \in DOMAIN <<d, e>> |-> Report(<<one, two>>[i])] = <<Report(one), Report(two)>>
  OBVIOUS
<1>3. jobs' = jobs \o <<one, two>> /\ reported' = reported \o <<Report(one), Report(two)>>
  BY <1>2 DEF batch_import_knowledge
<1>4. /\ one \in Job /\ Report(one) \in Reports /\ AsTold(one, Report(one))
      /\ two \in Job /\ Report(two) \in Reports /\ AsTold(two, Report(two))
  BY ReportTrue
<1> HIDE DEF one, two
<1>5. /\ <<one, two>> \in Seq(Job) /\ <<Report(one), Report(two)>> \in Seq(Reports)
      /\ Len(<<one, two>>) = 2 /\ Len(<<Report(one), Report(two)>>) = 2
  BY <1>4
<1>6. \A i \in 1..Len(<<one, two>>) : AsTold(<<one, two>>[i], <<Report(one), Report(two)>>[i])
  <2>1. \A i \in 1..Len(<<one, two>>) : i = 1 \/ i = 2
    BY <1>5
  <2> QED  BY <1>4, <2>1
<1> QED  BY <1>1, <1>3, <1>5, <1>6, GrowKjInv

LEMMA UpdateKjInv ==
  ASSUME KjInv, NEW e \in Entries, NEW x \in BOOLEAN, NEW y \in BOOLEAN,
         update_knowledge_with_reembed(e, x, y)
  PROVE  KjInv'
<1> DEFINE one == EmbeddingJob(e, x)
           two == EmbeddingJob(e, y)
<1>1. UNCHANGED made /\ made' \in [Entries -> [fallback : {"none", "async_queue", "failed"},
                                              search_ready : BOOLEAN]]
  BY DEF update_knowledge_with_reembed, KjInv, KjTypeOK
<1>2. /\ one \in Job /\ AsTold(one, "error") /\ (one.status = "queued" => AsTold(one, "queued"))
      /\ two \in Job /\ AsTold(two, "error") /\ (two.status = "queued" => AsTold(two, "queued"))
  BY ReportTrue
<1>3. CASE one.status = "queued"
  <2> DEFINE r == IF two.status = "queued" THEN "queued" ELSE "error"
  <2>1. [i \in DOMAIN <<one, two>> |-> r] = <<r, r>>
    OBVIOUS
  <2>2. jobs' = jobs \o <<one, two>> /\ reported' = reported \o <<r, r>>
    <3>1. (one.status = "queued" /\ two.status = "queued") <=> two.status = "queued"
      BY <1>3
    <3> QED  BY <1>3, <2>1, <3>1 DEF update_knowledge_with_reembed
  <2>3. AsTold(one, r) /\ AsTold(two, r) /\ r \in Reports
    BY <1>2, <1>3 DEF Reports
  <2> HIDE DEF one, two, r
  <2>4. /\ <<one, two>> \in Seq(Job) /\ <<r, r>> \in Seq(Reports)
        /\ Len(<<one, two>>) = 2 /\ Len(<<r, r>>) = 2
    BY <1>2, <2>3
  <2>5. \A i \in 1..Len(<<one, two>>) : AsTold(<<one, two>>[i], <<r, r>>[i])
    <3>1. \A i \in 1..Len(<<one, two>>) : i = 1 \/ i = 2
      BY <2>4
    <3> QED  BY <2>3, <3>1
  <2> QED  BY <1>1, <2>2, <2>4, <2>5, GrowKjInv
<1>4. CASE one.status # "queued"
  <2>1. [i \in DOMAIN <<one>> |-> "error"] = <<"error">>
    OBVIOUS
  <2>2. jobs' = jobs \o <<one>> /\ reported' = reported \o <<"error">>
    BY <1>4, <2>1 DEF update_knowledge_with_reembed
  <2> HIDE DEF one, two
  <2>3. /\ <<one>> \in Seq(Job) /\ <<"error">> \in Seq(Reports)
        /\ Len(<<one>>) = 1 /\ Len(<<"error">>) = 1
    BY <1>2 DEF Reports
  <2>4. \A i \in 1..Len(<<one>>) : AsTold(<<one>>[i], <<"error">>[i])
    <3>1. \A i \in 1..Len(<<one>>) : i = 1
      BY <2>3
    <3> QED  BY <1>2, <3>1
  <2> QED  BY <1>1, <2>2, <2>3, <2>4, GrowKjInv
<1> QED  BY <1>3, <1>4

\* Workers and cancellations move jobs that are in the queue.
LEMMA MoveKjInv ==
  ASSUME KjInv, NEW j \in DOMAIN jobs, NEW x \in BOOLEAN, NEW y \in BOOLEAN,
         Take(j) \/ process_embedding_job(j, x) \/ CancelNext(j, x, y)
  PROVE  KjInv'
<1>1. jobs[j] \in Job /\ max_retries \in Nat
  BY RetriesAssumption DEF KjInv, KjTypeOK
<1>2. CASE Take(j)
  <2> DEFINE job == [jobs[j] EXCEPT !.status = "active"]
  <2>1. jobs' = [jobs EXCEPT ![j] = job] /\ jobs[j].status = "queued" /\ UNCHANGED <<reported, made>>
    BY <1>2 DEF Take
  <2>2. job \in Job /\ job.entry = jobs[j].entry /\ job.status = "active"
    BY <1>1 DEF Job
  <2> HIDE DEF job
  <2> QED  BY <2>1, <2>2, ChangeKjInv
<1>3. CASE process_embedding_job(j, x)
  <2> DEFINE job == Processed(jobs[j], x)
  <2>1. jobs' = [jobs EXCEPT ![j] = job] /\ jobs[j].status = "active" /\ UNCHANGED <<reported, made>>
    BY <1>3 DEF process_embedding_job
  <2>2. /\ job \in Job /\ job.entry = jobs[j].entry /\ job.status # "dropped"
        /\ job.status = "failed" => job.retry_count = max_retries
    <3>1. CASE ~x /\ jobs[j].retry_count < max_retries
      <4>1. job = [jobs[j] EXCEPT !.retry_count = @ + 1, !.status = "queued"]
        BY <3>1 DEF Processed
      <4>2. jobs[j].retry_count + 1 \in 0..max_retries
        BY <1>1, <3>1 DEF Job
      <4> QED  BY <1>1, <4>1, <4>2 DEF Job
    <3>2. CASE ~(~x /\ jobs[j].retry_count < max_retries)
      BY <1>1, <3>2 DEF Processed, Job
    <3> QED  BY <3>1, <3>2
  <2> HIDE DEF job
  <2> QED  BY <2>1, <2>2, ChangeKjInv
<1>4. CASE CancelNext(j, x, y)
  <2> DEFINE job == [jobs[j] EXCEPT !.status = "aborted"]
  <2>1. /\ UNCHANGED <<reported, made>>
        /\ jobs' = jobs \/ (jobs[j].status = "queued" /\ jobs' = [jobs EXCEPT ![j] = job])
    BY <1>4 DEF CancelNext
  <2>2. job \in Job /\ job.entry = jobs[j].entry /\ job.status = "aborted"
    BY <1>1 DEF Job
  <2> HIDE DEF job
  <2>3. CASE jobs' = jobs
    BY <2>1, <2>3 DEF KjInv, KjTypeOK, QueuedAsTold
  <2> QED  BY <2>1, <2>2, <2>3, ChangeKjInv
<1> QED  BY <1>2, <1>3, <1>4

LEMMA NextKjInv == KjInv /\ [KjNext]_kjVars => KjInv'
<1> SUFFICES ASSUME KjInv, [KjNext]_kjVars PROVE KjInv'
  OBVIOUS
<1>1. ASSUME UNCHANGED <<jobs, reported, made>> PROVE KjInv'
  BY <1>1 DEF KjInv, KjTypeOK, QueuedAsTold
<1>2. CASE UNCHANGED kjVars
  BY <1>1, <1>2 DEF kjVars
<1>3. ASSUME NEW e \in Entries, DeleteRows(e) PROVE KjInv'
  BY <1>1, <1>3 DEF DeleteRows
<1>4. ASSUME NEW x \in BOOLEAN, CancelEnds(x) PROVE KjInv'
  BY <1>1, <1>4 DEF CancelEnds
<1> QED
  BY <1>2, <1>3, <1>4, CreateKjInv, BatchKjInv, UpdateKjInv, MoveKjInv DEF KjNext

--------------------------------------------------------------------------------
\* For any entries and queues, whatever the client does for each job, and whatever
\* workers and deletions do to the queue meanwhile: what callers are told of their
\* jobs is what became of them, and no job fails before its retries are spent.
THEOREM TrueReport == KjSpec => []QueuedAsTold
<1>1. KjInv => QueuedAsTold
  BY DEF KjInv
<1> QED BY <1>1, InitKjInv, NextKjInv, PTL DEF KjSpec

--------------------------------------------------------------------------------
(****************************************************************************)
(* Imports: what was counted, what is pending and what is still to be read  *)
(* make up the file.                                                        *)
(****************************************************************************)

Kinds == {"good", "untitled", "refused"}

Importing ==
  /\ next_id \in Nat \ {0}
  /\ import \in [format : {"none", "csv", "json"}, rows : Seq(Kinds), pending : SUBSET Nat]
  /\ import.pending \subseteq 1..(next_id - 1)
  /\ result \in [imported : Nat, skipped : Nat, rows : Nat]
  /\ import.format = "none" => import = Idle
  /\ stored \in Nat /\ (import.format = "csv" => stored = 0)

Accounted ==
  /\ import.format = "csv" =>
       /\ result.imported = Cardinality(import.pending)
       /\ result.imported + result.skipped + Len(import.rows) = result.rows
  /\ import.format = "json" =>
       /\ result.imported = 0
       /\ Cardinality(import.pending) + Len(import.rows) + result.skipped = result.rows

KaInv == Importing /\ Accounted /\ ImportCountsAreTrue

LEMMA InitKaInv == KaInit => KaInv
<1> SUFFICES ASSUME KaInit PROVE KaInv
  OBVIOUS
<1>1. Importing
  BY EmptySeq DEF KaInit, Idle, NoCounts, Importing
<1>2. Accounted /\ ImportCountsAreTrue
  BY DEF KaInit, Idle, NoCounts, Accounted, ImportCountsAreTrue
<1> QED  BY <1>1, <1>2 DEF KaInv

\* Between the rows of an import other calls use up ids, and nothing else of it.
LEMMA CrudKaInv == ASSUME KaInv, crud PROVE KaInv'
<1>1. /\ next_id' \in {next_id, next_id + 1}
      /\ UNCHANGED <<import, result, stored, unheard>>
  BY DEF crud, Created, Changed
<1>2. Importing'
  <2>1. next_id' \in Nat \ {0} /\ 1..(next_id - 1) \subseteq 1..(next_id' - 1)
    <3>1. next_id \in Nat \ {0}
      BY DEF KaInv, Importing
    <3>2. CASE next_id' = next_id
      BY <3>1, <3>2
    <3>3. CASE next_id' = next_id + 1
      BY <3>1, <3>3
    <3> QED  BY <1>1, <3>2, <3>3
  <2> QED  BY <1>1, <2>1 DEF KaInv, Importing
<1> QED  BY <1>1, <1>2 DEF KaInv, Accounted, ImportCountsAreTrue

LEMMA FilesAreSequences ==
  /\ \A file \in Files : file \in Seq(Kinds) /\ Len(file) \in Nat
  /\ \A file \in TitledRows : file \in Seq(Kinds) /\ Len(file) \in Nat
<1>1. ASSUME NEW n \in Nat, NEW file \in [1..n -> Kinds]
      PROVE  file \in Seq(Kinds) /\ Len(file) \in Nat
  OBVIOUS
<1>2. ASSUME NEW file \in Files PROVE file \in Seq(Kinds) /\ Len(file) \in Nat
  <2>1. PICK n \in 1..FileRows : file \in [1..n -> Kinds]
    BY DEF Files, Kinds
  <2> QED  BY <1>1, <2>1, ImportBounds
<1>3. ASSUME NEW file \in TitledRows PROVE file \in Seq(Kinds) /\ Len(file) \in Nat
  <2>1. PICK n \in 0..FileRows : file \in [1..n -> Kinds]
    BY DEF TitledRows, Kinds
  <2> QED  BY <1>1, <2>1, ImportBounds
<1> QED  BY <1>2, <1>3

\* An import begins with nothing imported and nothing pending.
LEMMA BeginKaInv ==
  ASSUME KaInv, NEW format \in {"none", "csv", "json"}, NEW file \in Seq(Kinds),
         NEW untitled \in Nat, format = "none" => file = <<>>, format = "csv" => untitled = 0,
         Begins(format, file, untitled)
  PROVE  KaInv'
<1>1. /\ import' = [format |-> format, rows |-> file, pending |-> {}]
      /\ result' = [imported |-> 0, skipped |-> untitled, rows |-> Len(file) + untitled]
      /\ next_id' = next_id /\ stored' = 0
  BY DEF Begins
<1>2. Len(file) \in Nat /\ (file = <<>> => Len(file) = 0) /\ Cardinality({}) = 0
  BY LenProperties, EmptySeq, FS_EmptySet
<1>3. Importing'
  <2>1. import' \in [format : {"none", "csv", "json"}, rows : Seq(Kinds), pending : SUBSET Nat]
    BY <1>1
  <2>2. result' \in [imported : Nat, skipped : Nat, rows : Nat]
    BY <1>1, <1>2
  <2>3. import'.format = "none" => import' = Idle
    BY <1>1 DEF Idle
  <2>4. import'.pending = {}
    BY <1>1
  <2> QED  BY <1>1, <2>1, <2>2, <2>3, <2>4 DEF KaInv, Importing
<1>4. /\ import'.format = format /\ import'.pending = {} /\ import'.rows = file
      /\ result'.imported = 0 /\ result'.skipped = untitled
      /\ result'.rows = Len(file) + untitled
  BY <1>1
<1>5. Accounted'
  BY <1>2, <1>4 DEF Accounted
<1>6. ImportCountsAreTrue'
  <2>1. import' = Idle => file = <<>>
    BY <1>1 DEF Idle
  <2> QED  BY <1>1, <1>2, <1>4, <2>1 DEF ImportCountsAreTrue
<1> QED  BY <1>3, <1>5, <1>6 DEF KaInv

LEMMA StartKaInv ==
  ASSUME KaInv,
         \/ \E file \in Files, decoded \in BOOLEAN : CsvStarts(file, decoded)
         \/ \E file \in TitledRows, untitled \in 0..FileRows : JsonStarts(file, untitled)
  PROVE  KaInv'
<1>1. ASSUME NEW file \in Files, NEW decoded \in BOOLEAN, CsvStarts(file, decoded)
      PROVE  KaInv'
  <2>1. file \in Seq(Kinds) /\ <<>> \in Seq(Kinds)
    BY FilesAreSequences, EmptySeq
  <2>2. CASE decoded
    <3>1. Begins("csv", file, 0)
      BY <1>1, <2>2 DEF CsvStarts
    <3> QED  BY <2>1, <3>1, BeginKaInv
  <2>3. CASE ~decoded
    <3>1. Begins("none", <<>>, 0)
      BY <1>1, <2>3 DEF CsvStarts
    <3> QED  BY <2>1, <3>1, BeginKaInv
  <2> QED  BY <2>2, <2>3
<1>2. ASSUME NEW file \in TitledRows, NEW untitled \in 0..FileRows, JsonStarts(file, untitled)
      PROVE  KaInv'
  <2>1. file \in Seq(Kinds) /\ untitled \in Nat
    BY FilesAreSequences, ImportBounds
  <2>2. PICK format \in {"none", "json"} :
          /\ format = "none" => file = <<>>
          /\ Begins(format, file, untitled)
    BY <1>2 DEF JsonStarts
  <2> QED  BY <2>1, <2>2, BeginKaInv
<1> QED  BY <1>1, <1>2

\* Reading a row shortens what is left of the file by one.
LEMMA RowRead ==
  ASSUME Importing, import.rows # <<>>
  PROVE  /\ Tail(import.rows) \in Seq(Kinds)
         /\ Len(Tail(import.rows)) \in Nat /\ Len(import.rows) = Len(Tail(import.rows)) + 1
<1>1. import.rows \in Seq(Kinds)
  BY DEF Importing
<1>2. Len(import.rows) \in Nat \ {0}
  BY <1>1, EmptySeq, LenProperties
<1> QED  BY <1>1, <1>2, HeadTailProperties

\* An inserted row has an id no row of the import had before.
LEMMA RowPending ==
  ASSUME Importing
  PROVE  /\ import.pending \union {next_id} \subseteq 1..next_id
         /\ import.pending \union {next_id} \subseteq Nat
         /\ Cardinality(import.pending) \in Nat
         /\ Cardinality(import.pending \union {next_id}) = Cardinality(import.pending) + 1
<1>1. /\ next_id \in Nat \ {0} /\ import.pending \subseteq 1..(next_id - 1)
      /\ next_id \notin 1..(next_id - 1)
  BY DEF Importing
<1>2. IsFiniteSet(1..(next_id - 1))
  BY <1>1, FS_Interval
<1>3. IsFiniteSet(import.pending)
  BY <1>1, <1>2, FS_Subset
<1>4. Cardinality(import.pending) \in Nat
  BY <1>3, FS_CardinalityType
<1>5. Cardinality(import.pending \union {next_id}) = Cardinality(import.pending) + 1
  BY <1>1, <1>3, FS_AddElement
<1>6. import.pending \union {next_id} \subseteq 1..next_id
  BY <1>1
<1> QED  BY <1>1, <1>4, <1>5, <1>6

LEMMA CsvKaInv == ASSUME KaInv, import_csv PROVE KaInv'
<1> USE DEF KaInv
<1> DEFINE rest == Tail(import.rows)
<1>1. /\ import.format = "csv" /\ import.rows # <<>>
      /\ rest \in Seq(Kinds) /\ Len(rest) \in Nat /\ Len(import.rows) = Len(rest) + 1
  BY RowRead DEF import_csv
<1>2. /\ import.pending \union {next_id} \subseteq 1..next_id
      /\ import.pending \union {next_id} \subseteq Nat
      /\ Cardinality(import.pending) \in Nat
      /\ Cardinality(import.pending \union {next_id}) = Cardinality(import.pending) + 1
  BY RowPending
<1>3. /\ import \in [format : {"none", "csv", "json"}, rows : Seq(Kinds), pending : SUBSET Nat]
      /\ result \in [imported : Nat, skipped : Nat, rows : Nat]
      /\ next_id \in Nat \ {0} /\ import.pending \subseteq 1..(next_id - 1)
      /\ result.imported = Cardinality(import.pending)
      /\ result.imported + result.skipped + Len(import.rows) = result.rows
  BY <1>1 DEF Importing, Accounted
<1>6. stored' = stored /\ stored = 0
  BY <1>1 DEF import_csv, Importing
<1>4. CASE Inserted(Head(import.rows)) /\ result' = [result EXCEPT !.imported = @ + 1]
  <2>1. /\ next_id' = next_id + 1
        /\ import' = [[import EXCEPT !.rows = rest] EXCEPT !.pending = @ \union {next_id}]
    BY <1>4 DEF Inserted, NextRow
  <2>2. /\ import'.format = "csv" /\ import'.rows = rest
        /\ import'.pending = import.pending \union {next_id}
        /\ import' \in [format : {"none", "csv", "json"}, rows : Seq(Kinds), pending : SUBSET Nat]
    BY <1>1, <1>2, <1>3, <2>1
  <2>3. /\ result'.imported = result.imported + 1 /\ result'.skipped = result.skipped
        /\ result'.rows = result.rows
        /\ result' \in [imported : Nat, skipped : Nat, rows : Nat]
    BY <1>3, <1>4
  <2>4. next_id' \in Nat \ {0} /\ import'.pending \subseteq 1..(next_id' - 1)
    <3>1. next_id' \in Nat \ {0} /\ next_id' - 1 = next_id
      BY <1>3, <2>1
    <3> QED  BY <1>2, <2>2, <3>1
  <2>5. Importing'
    BY <1>6, <2>2, <2>3, <2>4 DEF Importing
  <2>6. Accounted'
    BY <1>1, <1>2, <1>3, <2>2, <2>3 DEF Accounted
  <2>7. ImportCountsAreTrue'
    BY <2>2 DEF ImportCountsAreTrue, Idle
  <2> QED  BY <2>5, <2>6, <2>7
<1>5. CASE import' = NextRow /\ Skipped(1) /\ UNCHANGED next_id
  <2>1. /\ import'.format = "csv" /\ import'.rows = rest /\ import'.pending = import.pending
        /\ import' \in [format : {"none", "csv", "json"}, rows : Seq(Kinds), pending : SUBSET Nat]
    BY <1>1, <1>3, <1>5 DEF NextRow
  <2>2. /\ result'.imported = result.imported /\ result'.skipped = result.skipped + 1
        /\ result'.rows = result.rows
        /\ result' \in [imported : Nat, skipped : Nat, rows : Nat]
    BY <1>3, <1>5 DEF Skipped
  <2>3. Importing'
    BY <1>3, <1>5, <1>6, <2>1, <2>2 DEF Importing
  <2>4. Accounted'
    BY <1>1, <1>3, <2>1, <2>2 DEF Accounted
  <2>5. ImportCountsAreTrue'
    BY <2>1 DEF ImportCountsAreTrue, Idle
  <2> QED  BY <2>3, <2>4, <2>5
<1> QED  BY <1>4, <1>5 DEF import_csv, RolledBackRow

LEMMA JsonRowKaInv == ASSUME KaInv, JsonRow PROVE KaInv'
<1> USE DEF KaInv
<1> DEFINE rest == Tail(import.rows)
<1>1. /\ import.format = "json" /\ import.rows # <<>> /\ result' = result
      /\ rest \in Seq(Kinds) /\ Len(rest) \in Nat /\ Len(import.rows) = Len(rest) + 1
  BY RowRead DEF JsonRow
<1>2. /\ import.pending \union {next_id} \subseteq 1..next_id
      /\ import.pending \union {next_id} \subseteq Nat
      /\ Cardinality(import.pending) \in Nat
      /\ Cardinality(import.pending \union {next_id}) = Cardinality(import.pending) + 1
  BY RowPending
<1>3. /\ import \in [format : {"none", "csv", "json"}, rows : Seq(Kinds), pending : SUBSET Nat]
      /\ result \in [imported : Nat, skipped : Nat, rows : Nat]
      /\ next_id \in Nat \ {0}
      /\ result.imported = 0
      /\ Cardinality(import.pending) + Len(import.rows) + result.skipped = result.rows
  BY <1>1 DEF Importing, Accounted
<1>4. /\ next_id' = next_id + 1
      /\ import' = [[import EXCEPT !.rows = rest] EXCEPT !.pending = @ \union {next_id}]
  BY DEF JsonRow, Inserted, NextRow
<1>5. /\ import'.format = "json" /\ import'.rows = rest
      /\ import'.pending = import.pending \union {next_id}
      /\ import' \in [format : {"none", "csv", "json"}, rows : Seq(Kinds), pending : SUBSET Nat]
  BY <1>1, <1>2, <1>3, <1>4
<1>6. next_id' \in Nat \ {0} /\ import'.pending \subseteq 1..(next_id' - 1)
  <2>1. next_id' \in Nat \ {0} /\ next_id' - 1 = next_id
    BY <1>3, <1>4
  <2> QED  BY <1>2, <1>5, <2>1
<1>10. stored' = stored /\ stored \in Nat
  BY DEF JsonRow, Importing
<1>7. Importing'
  BY <1>1, <1>3, <1>5, <1>6, <1>10 DEF Importing
<1>8. Accounted'
  BY <1>1, <1>2, <1>3, <1>5 DEF Accounted
<1>9. ImportCountsAreTrue'
  BY <1>5 DEF ImportCountsAreTrue, Idle
<1> QED  BY <1>7, <1>8, <1>9

\* A reader that raises leaves no counts and no rows.
LEMMA RaiseKaInv == ASSUME KaInv, ReaderRaises PROVE KaInv'
<1>1. /\ import' = Idle /\ result' = NoCounts /\ stored' = stored /\ next_id' = next_id
  BY DEF ReaderRaises
<1>2. stored \in Nat /\ (unheard' \/ stored = 0)
  BY DEF KaInv, Importing, ReaderRaises
<1>3. Importing'
  BY <1>1, <1>2, EmptySeq DEF KaInv, Importing, Idle, NoCounts
<1> QED  BY <1>1, <1>2, <1>3 DEF KaInv, Accounted, ImportCountsAreTrue, Idle, NoCounts

\* What is told of the last step is what was counted or nothing at all.
LEMMA EndKaInv ==
  ASSUME KaInv, NEW outcome \in Outcomes, CsvEnds(outcome) \/ JsonEnds(outcome)
  PROVE  KaInv'
<1> USE DEF KaInv
<1> DEFINE n == Cardinality(import.pending)
<1>1. /\ import' = Idle /\ next_id' = next_id /\ unheard' = (outcome = "lost")
      /\ stored' = IF outcome = "refused" THEN 0 ELSE n
  BY DEF CsvEnds, JsonEnds, Commit
<1>2. /\ result \in [imported : Nat, skipped : Nat, rows : Nat]
      /\ n \in Nat /\ next_id \in Nat \ {0}
  BY RowPending DEF Importing
<1>3. import.rows = <<>> => Len(import.rows) = 0
  OBVIOUS
<1> HIDE DEF n
<1>4. /\ result' \in [imported : Nat, skipped : Nat, rows : Nat]
      /\ result'.imported + result'.skipped = result'.rows
      /\ result'.imported = IF outcome = "done" THEN n ELSE 0
  <2>1. CASE CsvEnds(outcome)
    <3>1. result.imported = n /\ result.imported + result.skipped = result.rows
      BY <1>2, <1>3, <2>1 DEF CsvEnds, Accounted, n
    <3>2. CASE outcome = "done"
      BY <1>2, <2>1, <3>1, <3>2 DEF CsvEnds, CsvCounts
    <3>3. CASE outcome # "done"
      <4>1. result' = [result EXCEPT !.skipped = @ + result.imported, !.imported = 0]
        BY <2>1, <3>3 DEF CsvEnds, CsvCounts
      <4>3. result.skipped + result.imported \in Nat
        BY <1>2
      <4>2. /\ result'.imported = 0 /\ result'.skipped = result.skipped + result.imported
            /\ result'.rows = result.rows
            /\ result' \in [imported : Nat, skipped : Nat, rows : Nat]
        BY <1>2, <4>1, <4>3
      <4> QED  BY <1>2, <3>1, <3>3, <4>2
    <3> QED  BY <3>2, <3>3
  <2>2. CASE JsonEnds(outcome)
    <3> DEFINE m == result.rows - result.skipped
    <3>1. /\ result.imported = 0 /\ m \in Nat /\ result.skipped + m = result.rows
          /\ outcome = "done" => m = n
      <4>1. /\ n + Len(import.rows) + result.skipped = result.rows /\ result.imported = 0
            /\ outcome = "done" => import.rows = <<>>
        BY <2>2 DEF JsonEnds, Accounted, n
      <4>2. Len(import.rows) \in Nat
        BY LenProperties DEF Importing
      <4> QED  BY <1>2, <1>3, <4>1, <4>2
    <3>2. result' = IF outcome = "done" THEN [result EXCEPT !.imported = m]
                    ELSE [result EXCEPT !.skipped = @ + m]
      BY <2>2 DEF JsonEnds
    <3> HIDE DEF m
    <3>3. CASE outcome = "done"
      <4>1. /\ result'.imported = m /\ result'.skipped = result.skipped
            /\ result'.rows = result.rows
            /\ result' \in [imported : Nat, skipped : Nat, rows : Nat]
        BY <1>2, <3>1, <3>2, <3>3
      <4> QED  BY <1>2, <3>1, <3>3, <4>1
    <3>4. CASE outcome # "done"
      <4>1. /\ result'.imported = 0 /\ result'.skipped = result.skipped + m
            /\ result'.rows = result.rows
            /\ result' \in [imported : Nat, skipped : Nat, rows : Nat]
        BY <1>2, <3>1, <3>2, <3>4
      <4> QED  BY <1>2, <3>1, <3>4, <4>1
    <3> QED  BY <3>3, <3>4
  <2> QED  BY <2>1, <2>2
<1>5. stored' \in Nat /\ result'.imported <= stored'
      /\ (result'.imported = stored' \/ unheard')
  <2>1. CASE outcome = "done"
    BY <1>1, <1>2, <1>4, <2>1
  <2>2. CASE outcome = "refused"
    BY <1>1, <1>4, <2>2
  <2>3. CASE outcome = "lost"
    <3>1. unheard'
      BY <1>1, <2>3, Zenon
    <3> QED  BY <1>1, <1>2, <1>4, <2>3, <3>1
  <2> QED  BY <2>1, <2>2, <2>3 DEF Outcomes
<1> QED
  BY <1>1, <1>2, <1>4, <1>5, EmptySeq DEF Importing, Accounted, ImportCountsAreTrue, Idle

\* Whichever row, savepoint or commit fails, whatever other administrators do between
\* two rows, and even when the database did a commit that raised: no import counts
\* more rows as imported than the database holds.
THEOREM TrueCounts == KaSpec => []ImportCountsAreTrue
<1>1. KaInv /\ [KaNext]_kaVars => KaInv'
  <2> SUFFICES ASSUME KaInv, [KaNext]_kaVars PROVE KaInv'
    OBVIOUS
  <2>1. CASE UNCHANGED kaVars
    BY <2>1 DEF kaVars, KaInv, Importing, Accounted, ImportCountsAreTrue
  <2> QED
    BY <2>1, CrudKaInv, StartKaInv, CsvKaInv, JsonRowKaInv, RaiseKaInv, EndKaInv DEF KaNext
<1>2. KaInv => ImportCountsAreTrue
  BY DEF KaInv
<1> QED  BY InitKaInv, <1>1, <1>2, PTL DEF KaSpec

--------------------------------------------------------------------------------
(****************************************************************************)
(* Chunking: lemmas on division, on slices, and on the two cuts of a text.  *)
(****************************************************************************)

LEMMA Quotient ==
  ASSUME NEW a \in Nat, NEW d \in Nat \ {0}
  PROVE  a \div d \in Nat /\ (a \div d) * d <= a /\ a < (a \div d) * d + d
OBVIOUS

LEMMA Times ==
  ASSUME NEW i \in Nat, NEW j \in Nat, NEW d \in Nat \ {0}
  PROVE  /\ i * d \in Nat
         /\ i < j => i * d + d <= j * d
<1>1. i * d \in Nat
  OBVIOUS
<1>2. ASSUME i < j PROVE i * d + d <= j * d
  <2>1. i + 1 <= j
    BY <1>2
  <2>2. (i + 1) * d <= j * d
    BY <2>1
  <2>3. (i + 1) * d = i * d + d
    OBVIOUS
  <2> QED  BY <2>2, <2>3
<1> QED  BY <1>1, <1>2

\* The quotient is the only multiple the number lies above.
LEMMA QuotientIs ==
  ASSUME NEW a \in Nat, NEW d \in Nat \ {0}, NEW q \in Nat
  PROVE  /\ q * d <= a <=> q <= a \div d
         /\ q * d <= a /\ a < q * d + d => q = a \div d
<1> DEFINE p == a \div d
<1>1. p \in Nat /\ p * d <= a /\ a < p * d + d
  BY Quotient
<1> HIDE DEF p
<1>2. /\ p * d \in Nat /\ q * d \in Nat
      /\ p < q => p * d + d <= q * d
      /\ q < p => q * d + d <= p * d
  BY <1>1, Times
<1>3. q * d <= a <=> q <= p
  BY <1>1, <1>2
<1>4. q * d <= a /\ a < q * d + d => q = p
  BY <1>1, <1>2
<1> QED  BY <1>3, <1>4 DEF p

\* A larger number, or a smaller divisor, gives no smaller quotient.
LEMMA QuotientGrows ==
  ASSUME NEW a \in Nat, NEW b \in Nat, NEW d \in Nat \ {0}, NEW c \in Nat \ {0},
         a <= b, c <= d
  PROVE  a \div d <= b \div c
<1> DEFINE q == a \div d
<1>1. q \in Nat /\ q * d <= a
  BY Quotient
<1> HIDE DEF q
<1>2. q * c <= q * d
  BY <1>1
<1>3. q * c \in Nat /\ q * d \in Nat
  BY <1>1
<1>4. q * c <= b
  BY <1>1, <1>2, <1>3
<1>5. q <= b \div c
  BY <1>1, <1>4, QuotientIs
<1> QED  BY <1>5 DEF q

LEMMA MinOfTwo ==
  ASSUME NEW a \in Nat, NEW b \in Nat
  PROVE  Min({a, b}) = IF a <= b THEN a ELSE b
BY DEF Min

LEMMA MinOfRange ==
  ASSUME NEW a \in Nat, NEW b \in Nat, a <= b
  PROVE  Min(a..b) = a
<1>1. a \in a..b /\ \A y \in a..b : a <= y
  OBVIOUS
<1> QED  BY <1>1 DEF Min

\* The piece with index i of a text of n tokens.
Piece(n, size, step, i) ==
  [idx |-> i, tokens |-> (i * step)..(Min({i * step + size, n}) - 1)]

Span(n, size, step, i) == {t \in Nat : i * step <= t /\ t < i * step + size /\ t < n}

LEMMA PieceTokens ==
  ASSUME NEW n \in Nat \ {0}, NEW size \in Nat \ {0}, NEW step \in Nat \ {0},
         NEW i \in 0..((n - 1) \div step)
  PROVE  /\ i * step \in Nat /\ i * step <= n - 1
         /\ Piece(n, size, step, i).idx = i
         /\ Piece(n, size, step, i).tokens = Span(n, size, step, i)
         /\ Min(Piece(n, size, step, i).tokens) = i * step
<1>1. i \in Nat /\ n - 1 \in Nat
  BY Quotient
<1>2. i * step \in Nat /\ i * step <= n - 1
  <2>1. i <= (n - 1) \div step
    BY <1>1, Quotient
  <2> QED  BY <1>1, <2>1, Times, QuotientIs
<1> DEFINE m == Min({i * step + size, n})
<1>3. m = (IF i * step + size <= n THEN i * step + size ELSE n) /\ m \in Nat
  BY <1>2, MinOfTwo
<1> HIDE DEF m
<1>4. PICK f \in Nat : f = i * step
  BY <1>2
<1>5. f..(m - 1) = {t \in Nat : f <= t /\ t < f + size /\ t < n}
  BY <1>2, <1>3, <1>4
<1>6. f <= m - 1 /\ m - 1 \in Nat
  BY <1>2, <1>3, <1>4
<1>7. Min(f..(m - 1)) = f
  BY <1>6, MinOfRange
<1>8. Span(n, size, step, i) = f..(m - 1)
  BY <1>4, <1>5 DEF Span
<1> QED  BY <1>2, <1>4, <1>7, <1>8 DEF Piece, m

\* The tokens of a piece, one by one.
LEMMA InPiece ==
  ASSUME NEW n \in Nat \ {0}, NEW size \in Nat \ {0}, NEW step \in Nat \ {0},
         NEW i \in 0..((n - 1) \div step), NEW t
  PROVE  t \in Piece(n, size, step, i).tokens
           <=> t \in Nat /\ i * step <= t /\ t < i * step + size /\ t < n
<1>1. Piece(n, size, step, i).tokens = Span(n, size, step, i)
  BY PieceTokens
<1> QED  BY <1>1, Zenon DEF Span

\* Pieces that overlap by less than their size cover the text.
LEMMA PiecesCover ==
  ASSUME NEW n \in Nat \ {0}, NEW size \in Nat \ {0}, NEW step \in Nat \ {0},
         step <= size
  PROVE  \A t : t \in 0..(n - 1) <=> \E i \in 0..((n - 1) \div step) : t \in Piece(n, size, step, i).tokens
<1> DEFINE last == (n - 1) \div step
<1>1. ASSUME NEW i \in 0..last, NEW t \in Piece(n, size, step, i).tokens PROVE t \in 0..(n - 1)
  <2>1. t \in Nat /\ t < n
    BY <1>1, InPiece
  <2> QED  BY <2>1
<1>2. ASSUME NEW t \in 0..(n - 1)
      PROVE  \E i \in 0..last : t \in Piece(n, size, step, i).tokens
  <2> DEFINE i == t \div step
  <2>1. i \in Nat /\ i * step <= t /\ t < i * step + step
    BY Quotient
  <2>2. i <= last /\ last \in Nat
    BY QuotientGrows, Quotient
  <2> HIDE DEF i
  <2>3. i \in 0..last
    BY <2>1, <2>2
  <2>4. i * step \in Nat
    BY <2>1
  <2>5. t \in Nat /\ i * step <= t /\ t < i * step + size /\ t < n
    BY <2>1, <2>4
  <2>6. t \in Piece(n, size, step, i).tokens
    BY <2>3, <2>5, InPiece
  <2> QED  BY <2>3, <2>6
<1> HIDE DEF last
<1>3. \A t : t \in 0..(n - 1) <=> \E i \in 0..last : t \in Piece(n, size, step, i).tokens
  BY <1>1, <1>2, Zenon
<1> QED  BY <1>3 DEF last

\* Pieces that do not overlap have each token once.
LEMMA PiecesApart ==
  ASSUME NEW n \in Nat \ {0}, NEW size \in Nat \ {0},
         NEW i \in 0..((n - 1) \div size), NEW j \in 0..((n - 1) \div size), NEW t,
         t \in Piece(n, size, size, i).tokens, t \in Piece(n, size, size, j).tokens
  PROVE  i = j
<1>1. i \in Nat /\ j \in Nat
  BY Quotient
<1>2. /\ t \in Nat /\ i * size <= t /\ t < i * size + size
      /\ j * size <= t /\ t < j * size + size
  BY InPiece
<1>3. i = t \div size /\ j = t \div size
  BY <1>1, <1>2, QuotientIs
<1> QED  BY <1>3

LEMMA StepPositive == parent_size - overlap \in Nat \ {0} /\ parent_size - overlap <= parent_size
BY ChunkSpec

\* Children are made without overlap: their step is their size.
LEMMA TheCuts ==
  ASSUME NEW n \in Nat \ {0}
  PROVE  /\ split_parents(n) =
              {Piece(n, parent_size, parent_size - overlap, i) :
                 i \in 0..((n - 1) \div (parent_size - overlap))}
         /\ _slice_tokens(n, child_size, 0) =
              {Piece(n, child_size, child_size, i) : i \in 0..((n - 1) \div child_size)}
<1>1. child_size - 0 = child_size
  BY ChunkSpec
<1> QED  BY <1>1 DEF split_parents, _slice_tokens, Piece

LEMMA CutWhole ==
  ASSUME NEW n \in Nat \ {0}, parents' = split_parents(n), children' = split_children(n)
  PROVE  ChunksWhole'
<1> DEFINE step == parent_size - overlap
           cut(i) == Piece(n, child_size, child_size, i)
           kid(i) == [tokens |-> cut(i).tokens, parent |-> Min(cut(i).tokens) \div parent_size]
           last == (n - 1) \div child_size
<1>1. /\ parent_size \in Nat \ {0} /\ child_size \in Nat \ {0}
      /\ step \in Nat \ {0} /\ step <= parent_size /\ n - 1 \in Nat
  BY ChunkSpec, StepPositive
<1> HIDE DEF step
<1>2. parents' = {Piece(n, parent_size, step, i) : i \in 0..((n - 1) \div step)}
  BY TheCuts DEF step
<1>3. children' = {kid(i) : i \in 0..last}
  BY TheCuts DEF split_children
<1>9. UNION {cut(i).tokens : i \in 0..last} = 0..(n - 1)
  <2>1. child_size <= child_size
    BY <1>1
  <2>2. \A t : t \in 0..(n - 1) <=> \E i \in 0..last : t \in cut(i).tokens
    BY <1>1, <2>1, PiecesCover
  <2> QED  BY <2>2, Zenon
<1> HIDE DEF last
<1>4. last \in Nat
  BY <1>1, Quotient DEF last
<1>5. UNION {p.tokens : p \in parents'} = 0..(n - 1)
  <2>1. {p.tokens : p \in parents'} =
          {Piece(n, parent_size, step, i).tokens : i \in 0..((n - 1) \div step)}
    BY <1>2
  <2>2. \A t : t \in 0..(n - 1) <=>
                 \E i \in 0..((n - 1) \div step) : t \in Piece(n, parent_size, step, i).tokens
    BY <1>1, PiecesCover
  <2> QED  BY <2>1, <2>2, Zenon
<1>6. UNION {c.tokens : c \in children'} = 0..(n - 1)
  <2>1. {c.tokens : c \in children'} = {cut(i).tokens : i \in 0..last}
    <3>1. \A i : kid(i).tokens = cut(i).tokens
      OBVIOUS
    <3> HIDE DEF cut, kid
    <3> QED  BY <1>3, <3>1
  <2> QED  BY <2>1, <1>9
<1>7. ASSUME NEW t \in 0..(n - 1)
      PROVE  Cardinality({c \in children' : t \in c.tokens}) = 1
  <2>1. PICK i \in 0..last : t \in cut(i).tokens
    BY <1>9
  <2>2. \A j \in 0..last : t \in cut(j).tokens => j = i
    BY <1>1, <2>1, PiecesApart DEF last
  <2> HIDE DEF cut
  <2>3. {c \in children' : t \in c.tokens} = {kid(i)}
    BY <1>3, <2>1, <2>2
  <2> QED  BY <2>3, FS_Singleton
<1>8. ASSUME NEW c \in children'
      PROVE  \E p \in parents' : p.idx = c.parent
  <2>1. PICK i \in 0..last : c = kid(i)
    BY <1>3
  <2>2. i * child_size \in Nat /\ i * child_size <= n - 1 /\ Min(cut(i).tokens) = i * child_size
    BY <1>1, PieceTokens DEF last
  <2>3. PICK k \in Nat : k = i * child_size
    BY <2>2
  <2>4. c.parent = k \div parent_size
    BY <2>1, <2>2, <2>3
  <2>5. k \div parent_size \in Nat /\ k \div parent_size <= (n - 1) \div step
    BY <1>1, <2>2, <2>3, Quotient, QuotientGrows
  <2>6. (n - 1) \div step \in Nat
    BY <1>1, Quotient
  <2>7. c.parent \in 0..((n - 1) \div step)
    BY <2>4, <2>5, <2>6
  <2>8. Piece(n, parent_size, step, c.parent).idx = c.parent
    BY DEF Piece
  <2> QED  BY <1>2, <2>7, <2>8
<1> HIDE DEF kid, cut
<1> QED  BY <1>5, <1>6, <1>7, <1>8 DEF ChunksWhole

\* For texts of any length and any sizes of chunks, every token is in exactly
\* one child and in some parent, and every child names a parent that exists.
THEOREM WholeText == RtSpec => []ChunksWhole
<1>1. RtInit => ChunksWhole
  BY DEF RtInit, ChunksWhole
<1>2. ChunksWhole /\ [RtNext]_rtVars => ChunksWhole'
  <2>1. ASSUME NEW n \in 1..MaxTokens, Cut(n) PROVE ChunksWhole'
    <3>1. n \in Nat \ {0}
      BY ChunkSpec
    <3> QED  BY <2>1, <3>1, CutWhole DEF Cut
  <2>2. ASSUME UNCHANGED <<parents, children>>, ChunksWhole PROVE ChunksWhole'
    BY <2>2 DEF ChunksWhole
  <2> QED  BY <2>1, <2>2 DEF RtNext, query, rtVars
<1> QED  BY <1>1, <1>2, PTL DEF RtSpec

--------------------------------------------------------------------------------
\* The tier that answers is one that cleared its threshold, or the last.
LEMMA TierIsHit ==
  ASSUME NEW S \in SUBSET (1..3)
  PROVE  Min(S \union {4}) \in S \union {4}
<1>1. \E x \in S \union {4} : \A y \in S \union {4} : x <= y
  <2>1. CASE 1 \in S   BY <2>1
  <2>2. CASE 1 \notin S /\ 2 \in S   BY <2>2
  <2>3. CASE 1 \notin S /\ 2 \notin S /\ 3 \in S   BY <2>3
  <2>4. CASE S = {}   BY <2>4
  <2> QED  BY <2>1, <2>2, <2>3, <2>4
<1> QED  BY <1>1 DEF Min

\* What the third tier lets through is model text that is grounded.
LEMMA TierThree ==
  ASSUME NEW q \in Questions, _llm_generate(q) > 0
  PROVE  /\ {q.primary, q.fallback} # {"raised"}
         /\ q.grounding >= GROUNDING_THRESHOLD \/ (q.grounding = -1 /\ q.context)
<1>1. _call_llm_with_fallback(q) # "raised" /\ ~(Grounding(q) < GROUNDING_THRESHOLD)
  BY DEF _llm_generate
<1>2. {q.primary, q.fallback} # {"raised"}
  BY <1>1 DEF _call_llm_with_fallback
<1>3. CASE q.grounding # -1
  <2>1. q.grounding \in {70, 80} /\ Grounding(q) = q.grounding
    BY <1>3 DEF Questions, Grounding
  <2> QED  BY <1>1, <1>2, <2>1 DEF GROUNDING_THRESHOLD
<1>4. CASE q.grounding = -1
  <2>1. ~q.context => Grounding(q) = 0
    BY <1>4 DEF Grounding
  <2> QED  BY <1>1, <1>2, <1>4, <2>1 DEF GROUNDING_THRESHOLD
<1> QED  BY <1>3, <1>4

LEMMA QueryGrounded == ASSUME NEW q \in Questions, query(q) PROVE GroundedOrPassedOn'
<1> DEFINE found == <<_rule_match(q.rows), _rag_search(q.hits), _llm_generate(q), 0>>
           threshold == <<CONFIDENCE_THRESHOLD, RAG_CONFIDENCE_THRESHOLD, LLM_CONFIDENCE_THRESHOLD>>
           hit == {t \in 1..3 : _record_tier_hit(found[t], threshold[t])}
           tier == Min(hit \union {4})
<1>1. /\ question' = <<q>>
      /\ answer' = [source |-> <<"rule", "rag", "wiki", "escalate">>[tier],
                    confidence |-> found[tier], tiers |-> tier]
  BY DEF query
<1>2. tier \in hit \union {4} /\ hit \subseteq 1..3
  BY TierIsHit
<1>3. 3 \in hit => _llm_generate(q) > 0
  BY DEF _record_tier_hit
<1> HIDE DEF hit, found
<1>4. answer'.source = <<"rule", "rag", "wiki", "escalate">>[tier]
  BY <1>1
<1> HIDE DEF tier
<1>5. answer'.source = "wiki" => tier = 3
  <2>1. tier \in {1, 2, 3, 4}
    BY <1>2
  <2> QED  BY <1>4, <2>1
<1>6. question'[1] = q
  BY <1>1
<1> QED  BY <1>2, <1>3, <1>5, <1>6, TierThree DEF GroundedOrPassedOn

\* Whatever the tiers find, the models answer and the caller passes as grounding,
\* no model text is answered that is not grounded.
THEOREM OnlyGrounded == RtSpec => []GroundedOrPassedOn
<1>1. RtInit => GroundedOrPassedOn
  BY DEF RtInit, GroundedOrPassedOn
<1>2. GroundedOrPassedOn /\ [RtNext]_rtVars => GroundedOrPassedOn'
  <2>1. ASSUME UNCHANGED <<question, answer>>, GroundedOrPassedOn PROVE GroundedOrPassedOn'
    BY <2>1 DEF GroundedOrPassedOn
  <2> QED  BY <2>1, QueryGrounded DEF RtNext, Cut, rtVars
<1> QED  BY <1>1, <1>2, PTL DEF RtSpec
================================================================================

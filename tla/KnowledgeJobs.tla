----------------------------- MODULE KnowledgeJobs -----------------------------
(****************************************************************************)
(* Knowledge entries and the embedding jobs made for them: the routes of    *)
(* api/management.py, create_knowledge_with_chunks and its siblings in      *)
(* core/knowledge.py, and infra/jobs.py.  The queue is SAQ, in Redis: its   *)
(* jobs outlive the calls that made them and workers take them in any       *)
(* order.  A caller without the permission gets 403 and changes nothing.    *)
(****************************************************************************)
EXTENDS Integers, Sequences, FiniteSets

CONSTANTS Entries,     \* knowledge ids
          max_retries, \* of an EmbeddingJob
          MaxJobs      \* bound on jobs ever made

ASSUME RetriesAssumption == max_retries \in Nat

VARIABLES client,   \* _SAQ_CLIENT: none, one without .redis, or one with it
          session,  \* what get_session() gives: "generator", or "stub" when a test replaced it
          rows,     \* entries in knowledge_base
          jobs,     \* every job made: its entry, retry_count and status
          reported, \* what the call that made a job reported of it
          made,     \* the CreateKnowledgeResult of each entry
          deletion  \* the delete_knowledge_and_cancel_jobs call in progress or the last one

kjVars == <<client, session, rows, jobs, reported, made, deletion>>

NoDeletion ==
  [pc |-> "none", entry |-> "none", present |-> {}, seen |-> {}, unread |-> {},
   matched |-> {}, cancelled |-> {}, fallback |-> ""]

KjInit ==
  /\ client \in {"none", "no_redis", "redis"} /\ session \in {"generator", "stub"}
  /\ rows = Entries /\ jobs = <<>> /\ reported = <<>>
  /\ made = [e \in Entries |-> [fallback |-> "none", search_ready |-> FALSE]]
  /\ deletion = NoDeletion

--------------------------------------------------------------------------------
(****************************************************************************)
(* Making jobs.                                                             *)
(****************************************************************************)

\* enqueue_embedding_job raises without a client, and the client may raise too; a
\* job that was not queued is gone.  The job is the one positional argument:
\* nothing is among the kwargs.
EmbeddingJob(e, up) ==
  [entry |-> e, kwargs |-> {}, retry_count |-> 0,
   status |-> IF client # "none" /\ up THEN "queued" ELSE "dropped"]

\* Wrong on purpose: an entry is counted as enqueued before the queue has it.
ReportEarly(job) == "queued"

\* What the except clause makes of a job: enqueued, or failed.
Report(job) == IF job.status = "queued" THEN "queued" ELSE "failed"

\* The first chunk is embedded within two seconds or left to the queue.
create_knowledge_with_chunks(e, embedded, up) ==
  /\ Len(jobs) < MaxJobs /\ made[e].fallback = "none" /\ ~made[e].search_ready
  /\ IF embedded
     THEN /\ made' = [made EXCEPT ![e].search_ready = TRUE]
          /\ UNCHANGED <<jobs, reported>>
     ELSE LET job == EmbeddingJob(e, up)
          IN  /\ jobs' = Append(jobs, job) /\ reported' = Append(reported, Report(job))
              /\ made' = [made EXCEPT ![e].fallback =
                            IF Report(job) = "queued" THEN "async_queue" ELSE "failed"]
  /\ UNCHANGED <<client, session, rows, deletion>>

\* One job for each entry of the batch, each enqueued and counted by itself.
batch_import_knowledge(batch, ups) ==
  /\ Len(jobs) + Len(batch) <= MaxJobs
  /\ LET more == [i \in DOMAIN batch |-> EmbeddingJob(batch[i], ups[i])]
     IN  jobs' = jobs \o more /\ reported' = reported \o [i \in DOMAIN batch |-> Report(more[i])]
  /\ UNCHANGED <<client, session, rows, made, deletion>>

\* Two chunks; an error at either is raised, and the caller is told of nothing else.
update_knowledge_with_reembed(e, first, second) ==
  /\ Len(jobs) + 2 <= MaxJobs
  /\ LET one == EmbeddingJob(e, first)
         two == EmbeddingJob(e, second)
         both == one.status = "queued" /\ two.status = "queued"
         more == IF one.status = "queued" THEN <<one, two>> ELSE <<one>>
     IN  /\ jobs' = jobs \o more
         /\ reported' = reported \o [i \in DOMAIN more |-> IF both THEN "queued" ELSE "error"]
  /\ UNCHANGED <<client, session, rows, made, deletion>>

--------------------------------------------------------------------------------
(****************************************************************************)
(* The workers.                                                             *)
(****************************************************************************)

\* A worker of SAQ takes a job.
Take(j) ==
  /\ jobs[j].status = "queued"
  /\ jobs' = [jobs EXCEPT ![j].status = "active"]
  /\ UNCHANGED <<client, session, rows, reported, made, deletion>>

\* process_embedding_job: an outage with retries left sends the job back; one that
\* has used up its retries fails, even when the queue is there again.
Processed(job, available) ==
  IF ~available /\ job.retry_count < max_retries
  THEN [job EXCEPT !.retry_count = @ + 1, !.status = "queued"]
  ELSE [job EXCEPT !.status = IF job.retry_count < max_retries THEN "completed" ELSE "failed"]

process_embedding_job(j, available) ==
  /\ jobs[j].status = "active"
  /\ jobs' = [jobs EXCEPT ![j] = Processed(@, available)]
  /\ UNCHANGED <<client, session, rows, reported, made, deletion>>

--------------------------------------------------------------------------------
(****************************************************************************)
(* delete_knowledge_and_cancel_jobs.  An asynchronous generator is no       *)
(* context manager: entering the real get_session() raises AttributeError,  *)
(* which the route swallows.                                                *)
(****************************************************************************)
InRedis == {j \in DOMAIN jobs : jobs[j].status # "dropped"}

DeleteRows(e) ==
  /\ deletion.pc = "none"
  /\ IF session = "generator"
     THEN /\ deletion' = [NoDeletion EXCEPT !.pc = "answered", !.entry = e,
                                            !.fallback = "core_unreachable"]
          /\ UNCHANGED rows
     ELSE /\ rows' = rows \ {e}
          /\ deletion' = [NoDeletion EXCEPT
               !.pc = IF client = "redis" THEN "scan" ELSE "answered", !.entry = e,
               !.present = InRedis,
               !.fallback = CASE client = "none" -> "saq_unavailable"
                              [] client = "no_redis" -> "saq_no_scan"
                              [] client = "redis" -> ""]
  /\ UNCHANGED <<client, session, jobs, reported, made>>

\* The filter of cancel_embedding_jobs_for: kwargs.get("knowledge_id") is the entry.
Matches(job, e) == [knowledge_id |-> e] \in job.kwargs

\* One key: the job may be unreadable or not match, and its abort may raise.
CancelNext(j, readable, aborted) ==
  /\ deletion.pc = "scan" /\ j \in InRedis \ deletion.seen
  /\ LET hit == readable /\ Matches(jobs[j], deletion.entry)
         Add(set, if) == IF if THEN set \union {j} ELSE set
     IN  /\ deletion' = [deletion EXCEPT
              !.seen = @ \union {j}, !.unread = Add(@, ~readable),
              !.matched = Add(@, hit), !.cancelled = Add(@, hit /\ aborted)]
         /\ jobs' = IF hit /\ aborted /\ jobs[j].status = "queued"
                    THEN [jobs EXCEPT ![j].status = "aborted"] ELSE jobs
  /\ UNCHANGED <<client, session, rows, reported, made>>

\* SCAN gives every key there from its start to its end, unless it raises.
CancelEnds(raised) ==
  /\ deletion.pc = "scan" /\ (raised \/ deletion.present \subseteq deletion.seen)
  /\ deletion' = [deletion EXCEPT !.pc = "answered",
                                  !.fallback = IF raised THEN "redis_error" ELSE ""]
  /\ UNCHANGED <<client, session, rows, jobs, reported, made>>

KjNext ==
  \/ \E e \in Entries, x, y \in BOOLEAN :
       \/ create_knowledge_with_chunks(e, x, y)
       \/ update_knowledge_with_reembed(e, x, y)
       \/ DeleteRows(e)
  \/ \E d, e \in Entries, x, y \in BOOLEAN : batch_import_knowledge(<<d, e>>, <<x, y>>)
  \/ \E j \in DOMAIN jobs, x, y \in BOOLEAN : CancelNext(j, x, y)
  \/ \E j \in DOMAIN jobs, x \in BOOLEAN : Take(j) \/ process_embedding_job(j, x)
  \/ \E x \in BOOLEAN : CancelEnds(x)

KjSpec == KjInit /\ [][KjNext]_kjVars

--------------------------------------------------------------------------------
(****************************************************************************)
(* Properties.                                                              *)
(****************************************************************************)

\* Nobody is told of a job that nobody will run: what a call reports as queued was
\* queued (create's "async_queue", the counts of a batch, a whole update), what it
\* reports as failed was not, although the queue may fail for some entries of a call
\* only; and a queued job ends as failed only when its retries are spent.
QueuedAsTold ==
  /\ \A j \in DOMAIN jobs : /\ reported[j] = "queued" => jobs[j].status # "dropped"
                            /\ reported[j] = "failed" => jobs[j].status = "dropped"
                            /\ jobs[j].status = "failed" => jobs[j].retry_count = max_retries
  /\ \A e \in Entries :
       made[e].fallback = "async_queue" =>
         \E j \in DOMAIN jobs : jobs[j].entry = e /\ reported[j] = "queued"

\* What the route promises with its answer, "Atomic: DELETE knowledge_base row" and
\* every queued job of the entry: after a scan without an error the row is gone, and
\* no job is queued that was there before, except those it could not read or abort.
DeleteDeletes ==
  deletion.pc = "answered" /\ client = "redis" /\ deletion.fallback # "redis_error" =>
    /\ deletion.entry \notin rows
    /\ \A j \in deletion.present \ (deletion.matched \union deletion.unread) :
         jobs[j].entry = deletion.entry => jobs[j].status # "queued"
================================================================================

------------------------------ MODULE UploadJobs ------------------------------
(***************************************************************************)
(* Resumable uploads (service/upload_jobs.go,                              *)
(* siteservice_resumablereceiver.go, siteservice_submissionreceiver.go):   *)
(* the registry of upload jobs, the requests that bring their chunks, the  *)
(* worker that turns a complete upload into a submission, and the status   *)
(* page it reports to.                                                     *)
(*                                                                         *)
(* A request holds the registry lock for one action (acquire), the job's   *)
(* lock for another (serve) and the registry lock for a third (release).   *)
(* A worker shares the job's lock with them when it gives up retries and   *)
(* when it ends; its other steps are its own.  Chunks and archives are     *)
(* files and survive a restart of the server, jobs and status do not.      *)
(*                                                                         *)
(* submissionReceiverMutex covers no more than StoreRows, one action here: *)
(* who waits in it for another transaction waits for one that has left it. *)
(***************************************************************************)
EXTENDS Naturals, Sequences, FiniteSets

CONSTANTS
    Keys,           \* uploader and resumable identifier
    Targets,        \* upload parameters (submission, size, filename): numbers
    Chunks,         \* chunk numbers of an upload
    Content,        \* what the file of each key contains
    Requests,       \* handler goroutines
    MaxUploadJobs,  \* maxUploadJobs
    MaxJobs,        \* bound: jobs ever registered
    MaxTries,       \* bound: workers ever started
    MaxRetry,       \* bound: resumableRetry of a request
    MaxFaults,      \* bound: failures of disks, databases and workers
    MaxRestarts     \* bound: restarts of the server

ASSUME UploadAssumption ==
    /\ Chunks # {} /\ IsFiniteSet(Requests)
    /\ DOMAIN Content = Keys
    /\ {MaxUploadJobs, MaxJobs, MaxTries, MaxRetry, MaxFaults, MaxRestarts} \subseteq Nat

VARIABLES
    jobs,       \* every job ever registered, in order
    registry,   \* uploadJobRegistry: the job of each key, 0 for none
    request,    \* where each handler stands, and the job it has pinned
    worker,     \* runUploadJob of each job: step, try, late progress report
    status,     \* SubmissionStatusKeeper: the entry of each job's tracking id
    chunks,     \* chunk files of each key: the job they were written for, or 0
    tries,      \* the job each worker ran for
    archive,    \* tries whose copy of the upload is in the submissions directory
    events,     \* tries whose activity events PostgreSQL has committed
    stored,     \* tries whose submission rows MariaDB has committed
    faults,     \* failures so far
    restarts    \* restarts so far

vars == <<jobs, registry, request, worker, status, chunks, tries, archive,
          events, stored, faults, restarts>>

JobIds == 1 .. MaxJobs

NewJob(k, target) ==
    [key |-> k, target |-> target, refs |-> 0, state |-> "receiving",
     retryable |-> FALSE, attempt |-> 0, old |-> FALSE]

NoChunks == [c \in Chunks |-> 0]
AtRest == [at |-> "idle", job |-> 0, target |-> 0]
NoWorker == [at |-> "off", try |-> 0, late |-> FALSE]
NoStatus == [phase |-> "none", submission |-> FALSE]

Init ==
    /\ jobs = <<>>
    /\ registry = [k \in Keys |-> 0]
    /\ request = [q \in Requests |-> AtRest]
    /\ worker = [j \in JobIds |-> NoWorker]
    /\ status = [j \in JobIds |-> NoStatus]
    /\ chunks = [k \in Keys |-> NoChunks]
    /\ tries = <<>>
    /\ archive = {} /\ events = {} /\ stored = {}
    /\ faults = 0 /\ restarts = 0

Fault ==
    /\ faults < MaxFaults
    /\ faults' = faults + 1

\* DeleteFile: all chunks go, or an error leaves some of them.
Deleted(k, kept) == [c \in Chunks |-> IF c \in kept THEN chunks[k][c] ELSE 0]

Registered(j) == \E k \in Keys : registry[k] = j

SetStatus(j, phase) == status' = [status EXCEPT ![j].phase = phase]

-----------------------------------------------------------------------------
(* The registry *)

\* Slip: a job is swept under the requests that have pinned it.
Sweepable_Pinned(k) ==
    /\ registry[k] # 0
    /\ jobs[registry[k]].state # "processing"
    /\ jobs[registry[k]].old

\* Slip: a job is swept under its worker.
Sweepable_Processing(k) ==
    /\ registry[k] # 0
    /\ jobs[registry[k]].refs = 0
    /\ jobs[registry[k]].old

\* Unpinned, not being processed and not touched for a day.
Sweepable(k) ==
    /\ registry[k] # 0
    /\ jobs[registry[k]].refs = 0
    /\ jobs[registry[k]].state # "processing"
    /\ jobs[registry[k]].old

\* The job of key k is pinned for request q, a new one if there is none; at
\* capacity the request is refused.
Pin(q, k, target, swept) ==
    LET fresh == Len(jobs) + 1 IN
    \/ /\ swept[k] # 0
       /\ registry' = swept
       /\ jobs' = [jobs EXCEPT ![swept[k]].refs = @ + 1]
       /\ request' = [request EXCEPT ![q] =
                        [at |-> "serve", job |-> swept[k], target |-> target]]
    \/ /\ swept[k] = 0
       /\ Cardinality({x \in Keys : swept[x] # 0}) < MaxUploadJobs
       /\ fresh <= MaxJobs
       /\ registry' = [swept EXCEPT ![k] = fresh]
       /\ jobs' = Append(jobs, [NewJob(k, target) EXCEPT !.refs = 1])
       /\ request' = [request EXCEPT ![q] =
                        [at |-> "serve", job |-> fresh, target |-> target]]
    \/ /\ swept[k] = 0
       /\ Cardinality({x \in Keys : swept[x] # 0}) >= MaxUploadJobs
       /\ registry' = swept
       /\ UNCHANGED <<jobs, request>>

\* Every request sweeps the whole registry first.  Where the chunks cannot be
\* removed the job stays.
acquireUploadJob(q, k, target) ==
    LET expired == {x \in Keys : Sweepable(x)} IN
    /\ request[q].at = "idle"
    /\ \E cleaned \in SUBSET expired, kept \in SUBSET Chunks :
        /\ IF cleaned = expired THEN kept = {} /\ UNCHANGED faults ELSE Fault
        /\ chunks' = [x \in Keys |-> IF x \in cleaned THEN NoChunks
                                     ELSE IF x \in expired THEN Deleted(x, kept)
                                     ELSE chunks[x]]
        /\ status' = [j \in JobIds |-> IF \E x \in cleaned : registry[x] = j
                                       THEN NoStatus ELSE status[j]]
        /\ Pin(q, k, target,
               [x \in Keys |-> IF x \in cleaned THEN 0 ELSE registry[x]])
    /\ UNCHANGED <<worker, tries, archive, events, stored, restarts>>

Leave(q) == request' = [request EXCEPT ![q].at = "release"]

Release(q) ==
    /\ request[q].at = "release"
    /\ request' = [request EXCEPT ![q] = AtRest]
    /\ jobs' = [jobs EXCEPT ![request[q].job].refs = @ - 1]
    /\ UNCHANGED <<registry, worker, status, chunks, tries, archive, events,
                   stored, faults, restarts>>

\* A GET that tests for a chunk pins the job while it looks.
IsChunkReceived(q, k) ==
    /\ request[q].at = "idle"
    /\ registry[k] # 0
    /\ request' = [request EXCEPT ![q] = [at |-> "release", job |-> registry[k],
                                          target |-> 0]]
    /\ jobs' = [jobs EXCEPT ![registry[k]].refs = @ + 1]
    /\ UNCHANGED <<registry, worker, status, chunks, tries, archive, events,
                   stored, faults, restarts>>

\* A day passes without a request for job j.
Age(j) ==
    /\ j \in DOMAIN jobs
    /\ Registered(j) /\ ~ jobs[j].old /\ ~ worker[j].late
    /\ jobs' = [jobs EXCEPT ![j].old = TRUE]
    /\ UNCHANGED <<registry, request, worker, status, chunks, tries, archive,
                   events, stored, faults, restarts>>

-----------------------------------------------------------------------------
(* ReceiveSubmissionChunk, under the job's lock; r is resumableRetry *)

Matches(q) == request[q].target = jobs[request[q].job].target

AsksForRetry(job, r) == job.state = "failed" /\ r > job.attempt

\* Slip: a retry is granted whatever the commit did.
MayRetry_Always(job, r) == r = job.attempt + 1

MayRetry(job, r) == r = job.attempt + 1 /\ job.retryable

\* Slip: chunks are taken while the worker runs.
Receiving_Any(job, r) == ~ AsksForRetry(job, r) \/ MayRetry(job, r)

\* The job takes chunks: it has never been complete, or this is its retry.
Receiving(job, r) ==
    \/ job.state = "receiving"
    \/ AsksForRetry(job, r) /\ MayRetry(job, r)

\* The job as the request leaves it when it is not complete.
Touched(job, r) ==
    IF AsksForRetry(job, r) /\ MayRetry(job, r)
    THEN [job EXCEPT !.old = FALSE, !.attempt = r, !.state = "receiving"]
    ELSE [job EXCEPT !.old = FALSE]

\* A conflict, a refused retry, or the tracking id of a job that needs no
\* chunk.  Only a request that matches counts as activity.
Answer(q, r) ==
    LET j == request[q].job IN
    /\ request[q].at = "serve"
    /\ Matches(q) => ~ Receiving(jobs[j], r)
    /\ jobs' = IF Matches(q) THEN [jobs EXCEPT ![j] = Touched(jobs[j], r)] ELSE jobs
    /\ Leave(q)
    /\ UNCHANGED <<registry, worker, status, chunks, tries, archive, events,
                   stored, faults, restarts>>

\* The chunk is written; the one that completes the upload starts the worker.
PutChunk(q, c, r) ==
    LET j == request[q].job
        k == jobs[j].key
        now == [chunks[k] EXCEPT ![c] = j]
    IN  /\ request[q].at = "serve"
        /\ Matches(q) /\ Receiving(jobs[j], r)
        /\ chunks' = [chunks EXCEPT ![k] = now]
        /\ IF \E x \in Chunks : now[x] = 0
           THEN /\ jobs' = [jobs EXCEPT ![j] = Touched(jobs[j], r)]
                /\ UNCHANGED <<worker, status, tries>>
           ELSE /\ Len(tries) < MaxTries
                /\ jobs' = [jobs EXCEPT ![j] = [Touched(jobs[j], r) EXCEPT
                               !.state = "processing", !.retryable = TRUE]]
                /\ tries' = Append(tries, j)
                /\ worker' = [worker EXCEPT ![j].at = "copy", ![j].try = Len(tries) + 1]
                /\ status' = [status EXCEPT ![j] = [phase |-> "received",
                                                   submission |-> FALSE]]
        /\ Leave(q)
        /\ UNCHANGED <<registry, archive, events, stored, faults, restarts>>

\* The disk fails: before the chunk is in place, or when the sizes are added up.
PutChunkFails(q, c, r) ==
    LET j == request[q].job
        k == jobs[j].key
    IN  /\ request[q].at = "serve"
        /\ Matches(q) /\ Receiving(jobs[j], r)
        /\ Fault
        /\ chunks' \in {chunks, [chunks EXCEPT ![k][c] = j]}
        /\ jobs' = [jobs EXCEPT ![j] = Touched(jobs[j], r)]
        /\ Leave(q)
        /\ UNCHANGED <<registry, worker, status, tries, archive, events, stored,
                       restarts>>

-----------------------------------------------------------------------------
(* runUploadJob *)

Step(j, from, to) ==
    /\ worker[j].at = from
    /\ worker' = [worker EXCEPT ![j].at = to]

\* SetFailed, then cleanup() removes the copy that was made, and the open
\* transactions are rolled back.
Fail(j) ==
    /\ worker' = [worker EXCEPT ![j].at = "failing"]
    /\ SetStatus(j, "failed")
    /\ archive' = archive \ {worker[j].try}

\* The copy ends; the goroutine that reports its progress is cancelled and
\* may have one more report to make.
CopyUpload(j) ==
    /\ worker[j].at = "copy"
    /\ \E late \in BOOLEAN :
        worker' = [worker EXCEPT ![j].at = "validate",
                                 ![j].late = late \/ worker[j].late]
    /\ archive' = archive \cup {worker[j].try}
    /\ SetStatus(j, "validating")
    /\ UNCHANGED <<jobs, registry, request, chunks, tries, events, stored,
                   faults, restarts>>

\* No session, an upload too large for its user, no disk space, a chunk that
\* cannot be read.
CopyFails(j) ==
    /\ worker[j].at = "copy"
    /\ Fault
    /\ \E late \in BOOLEAN :
        worker' = [worker EXCEPT ![j].at = "failing",
                                 ![j].late = late \/ worker[j].late]
    /\ SetStatus(j, "failed")
    /\ UNCHANGED <<jobs, registry, request, chunks, tries, archive, events,
                   stored, restarts>>

ReportLate(j) ==
    /\ worker[j].late
    /\ worker' = [worker EXCEPT ![j].late = FALSE]
    /\ SetStatus(j, "copying")
    /\ UNCHANGED <<jobs, registry, request, chunks, tries, archive, events,
                   stored, faults, restarts>>

\* The validator, the quota and the frozen submission accept the upload.
Validate(j) ==
    /\ Step(j, "validate", "store")
    /\ SetStatus(j, "finalizing")
    /\ UNCHANGED <<jobs, registry, request, chunks, tries, archive, events,
                   stored, faults, restarts>>

\* ... or one of them does not, or a statement of the transactions fails.
Refuse(j) ==
    /\ worker[j].at \in {"validate", "store"}
    /\ Fail(j)
    /\ UNCHANGED <<jobs, registry, request, chunks, tries, events, stored,
                   faults, restarts>>

ContentOf(t) == Content[jobs[tries[t]].key]

\* Slip: the checksums are not unique.
Conflict_None(t) == FALSE

\* The unique checksums of submission_file.
Conflict(t) == \E u \in stored : ContentOf(u) = ContentOf(t)

\* The same checksums are inserted by a transaction that has not ended.
Blocked(j) ==
    \E i \in JobIds \ {j} :
        /\ worker[i].at \in {"commit", "postgres", "mariadb"}
        /\ ContentOf(worker[i].try) = ContentOf(worker[j].try)

StoreRows(j) ==
    /\ worker[j].at = "store"
    /\ ~ Blocked(j)
    /\ IF Conflict(worker[j].try) THEN Fail(j)
       ELSE Step(j, "store", "commit") /\ UNCHANGED <<status, archive>>
    /\ UNCHANGED <<jobs, registry, request, chunks, tries, events, stored,
                   faults, restarts>>

\* A panic rolls back but does not clean up.
Panic(j) ==
    /\ worker[j].at \in {"copy", "validate", "store"}
    /\ Fault
    /\ worker' = [worker EXCEPT ![j].at = "failing"]
    /\ jobs' = [jobs EXCEPT ![j].retryable = FALSE]
    /\ SetStatus(j, "failed")
    /\ UNCHANGED <<registry, request, chunks, tries, archive, events, stored,
                   restarts>>

\* Slip: the uploader is told before the databases are.
BeforeCommit_Announce(j) ==
    /\ Step(j, "commit", "postgres")
    /\ jobs' = [jobs EXCEPT ![j].retryable = FALSE]
    /\ status' = [status EXCEPT ![j] = [phase |-> "success", submission |-> TRUE]]
    /\ UNCHANGED <<registry, request, chunks, tries, archive, events, stored,
                   faults, restarts>>

\* The callback of runUploadJob: from here on the outcome may be unknown.
BeforeCommit(j) ==
    /\ Step(j, "commit", "postgres")
    /\ jobs' = [jobs EXCEPT ![j].retryable = FALSE]
    /\ UNCHANGED <<registry, request, status, chunks, tries, archive, events,
                   stored, faults, restarts>>

CommitPostgres(j) ==
    /\ Step(j, "postgres", "mariadb")
    /\ events' = events \cup {worker[j].try}
    /\ UNCHANGED <<jobs, registry, request, status, chunks, tries, archive,
                   stored, faults, restarts>>

\* An error of Commit: the transaction may have taken effect all the same.
CommitPostgresFails(j) ==
    /\ worker[j].at = "postgres"
    /\ Fault
    /\ events' \in {events, events \cup {worker[j].try}}
    /\ Fail(j)
    /\ UNCHANGED <<jobs, registry, request, chunks, tries, stored, restarts>>

CommitMariaDB(j) ==
    /\ Step(j, "mariadb", "announce")
    /\ stored' = stored \cup {worker[j].try}
    /\ UNCHANGED <<jobs, registry, request, status, chunks, tries, archive,
                   events, faults, restarts>>

CommitMariaDBFails(j) ==
    /\ worker[j].at = "mariadb"
    /\ Fault
    /\ stored' \in {stored, stored \cup {worker[j].try}}
    /\ Fail(j)
    /\ UNCHANGED <<jobs, registry, request, chunks, tries, events, restarts>>

SetSuccess(j) ==
    /\ Step(j, "announce", "done")
    /\ status' = [status EXCEPT ![j] = [phase |-> "success", submission |-> TRUE]]
    /\ UNCHANGED <<jobs, registry, request, chunks, tries, archive, events,
                   stored, faults, restarts>>

\* The deferred end of runUploadJob.  The chunks of a success go, if they can
\* be removed; those of a failure stay for a retry.
Succeed(j) ==
    LET k == jobs[j].key IN
    /\ Step(j, "done", "off")
    /\ jobs' = [jobs EXCEPT ![j].state = "succeeded", ![j].old = FALSE]
    /\ \E kept \in SUBSET Chunks :
        /\ IF kept = {} THEN UNCHANGED faults ELSE Fault
        /\ chunks' = [chunks EXCEPT ![k] = Deleted(k, kept)]
    /\ UNCHANGED <<registry, request, status, tries, archive, events, stored,
                   restarts>>

End(j) ==
    /\ Step(j, "failing", "off")
    /\ jobs' = [jobs EXCEPT ![j].state = "failed", ![j].old = FALSE]
    /\ SetStatus(j, "failed")
    /\ UNCHANGED <<registry, request, chunks, tries, archive, events, stored,
                   faults, restarts>>

-----------------------------------------------------------------------------
\* The process ends and starts again: files and databases are what is left.
Restart ==
    /\ restarts < MaxRestarts
    /\ restarts' = restarts + 1
    /\ registry' = [k \in Keys |-> 0]
    /\ jobs' = [j \in DOMAIN jobs |->
                  [NewJob(jobs[j].key, jobs[j].target) EXCEPT !.state = "lost"]]
    /\ request' = [q \in Requests |-> AtRest]
    /\ worker' = [j \in JobIds |-> NoWorker]
    /\ status' = [j \in JobIds |-> NoStatus]
    /\ UNCHANGED <<chunks, tries, archive, events, stored, faults>>

Serving == \E q \in Requests :
    \/ \E k \in Keys, target \in Targets : acquireUploadJob(q, k, target)
    \/ \E k \in Keys : IsChunkReceived(q, k)
    \/ \E r \in 0 .. MaxRetry : Answer(q, r)
    \/ \E c \in Chunks, r \in 0 .. MaxRetry : PutChunk(q, c, r) \/ PutChunkFails(q, c, r)
    \/ Release(q)

\* runUploadJob always has a next step: every call it makes returns.
Work(j) ==
    \/ CopyUpload(j) \/ Validate(j) \/ Refuse(j) \/ StoreRows(j)
    \/ BeforeCommit(j) \/ CommitPostgres(j) \/ CommitMariaDB(j)
    \/ SetSuccess(j) \/ Succeed(j) \/ End(j)

Trouble(j) ==
    CopyFails(j) \/ Panic(j) \/ CommitPostgresFails(j) \/ CommitMariaDBFails(j)

Next ==
    \/ Serving
    \/ \E j \in JobIds : Work(j) \/ Trouble(j) \/ ReportLate(j) \/ Age(j)
    \/ Restart

Spec == Init /\ [][Next]_vars

-----------------------------------------------------------------------------
(* Properties *)

JobType == [key : Keys, target : Targets, refs : Nat,
            state : {"receiving", "processing", "succeeded", "failed", "lost"},
            retryable : BOOLEAN, attempt : Nat, old : BOOLEAN]

Stages == {"off", "copy", "validate", "store", "commit", "postgres", "mariadb",
           "announce", "done", "failing"}

Phases == {"none", "received", "copying", "validating", "finalizing", "failed",
           "success"}

TypeOK ==
    /\ jobs \in Seq(JobType)
    /\ Len(jobs) <= MaxJobs
    /\ registry \in [Keys -> 0 .. Len(jobs)]
    /\ request \in [Requests -> [at : {"idle", "serve", "release"},
                                 job : 0 .. Len(jobs), target : Targets \cup {0}]]
    /\ worker \in [JobIds -> [at : Stages, try : 0 .. Len(tries), late : BOOLEAN]]
    /\ status \in [JobIds -> [phase : Phases, submission : BOOLEAN]]
    /\ chunks \in [Keys -> [Chunks -> 0 .. Len(jobs)]]
    /\ tries \in Seq(1 .. Len(jobs))
    /\ archive \cup events \cup stored \subseteq 1 .. Len(tries)
    /\ faults \in Nat /\ restarts \in Nat

\* A job that a request has pinned or a worker processes is the one the
\* registry knows for its key: no second owner of the same chunk files exists
\* (the refs and the state that the sweep respects).
OneOwner ==
    /\ \A q \in Requests : request[q].at # "idle" =>
          /\ Registered(request[q].job)
          /\ jobs[request[q].job].refs > 0
    /\ \A j \in JobIds : worker[j].at # "off" =>
          /\ Registered(j)
          /\ jobs[j].state = "processing"

\* From the last chunk to the end of the worker, the chunks it may read are
\* all there and were all sent for this upload, whatever is sent again, swept
\* or retried meanwhile.  What an earlier life of the server left behind may be
\* among them.
InputIntact ==
    \A j \in DOMAIN jobs : jobs[j].state = "processing" =>
        \A c \in Chunks : LET owner == chunks[jobs[j].key][c] IN
            owner # 0 /\ (owner = j \/ jobs[owner].state = "lost")

\* An archive is stored once: by one try, however often it is sent again, by
\* how many uploads and after whichever outcome of a commit.
StoredOnce ==
    \A t, u \in stored : ContentOf(t) = ContentOf(u) => t = u

\* An upload is committed by one of its tries only, in both databases: nothing
\* retries a commit whose outcome is unknown.
CommittedOnce ==
    \A t, u \in events \cup stored : tries[t] = tries[u] => t = u

\* What the uploader is told is true: a submission that the status names is in
\* MariaDB with its events in PostgreSQL and its archive on disk.
SuccessIsStored ==
    \A j \in JobIds : status[j].submission =>
        \E t \in stored \cap events \cap archive : tries[t] = j

(* What the code means to ensure and does not *)

\* siteservice_resumablereceiver.go:43: "upload outcome may already be
\* committed": a submission that is in the database has its archive.
StoredHasArchive == stored \subseteq archive

=============================================================================

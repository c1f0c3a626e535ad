--------------------------- MODULE UploadJobsProofs ---------------------------
(***************************************************************************)
(* Uploads are committed once and truthfully reported, and the chunks that *)
(* a worker reads have one owner, for any number of uploads, handlers,     *)
(* retries, failures and restarts.                                         *)
(*                                                                         *)
(* The invariant has two halves.  On the side of the registry: a pinned or *)
(* processing job is registered under its key, refs counts the requests    *)
(* that have pinned it, and chunk files belong to the registered job or to *)
(* an earlier life of the server.  On the side of the worker: a job whose  *)
(* commit may have taken effect is not retryable and does not receive.     *)
(***************************************************************************)
EXTENDS UploadJobs, SequenceTheorems, FiniteSetTheorems, TLAPS

Holders(j) == {q \in Requests : request[q].at # "idle" /\ request[q].job = j}

\* The registry side.
Pinned == \A q \in Requests : request[q].at # "idle" =>
    request[q].job \in DOMAIN jobs /\ Registered(request[q].job)

Counted == \A j \in DOMAIN jobs : jobs[j].refs = Cardinality(Holders(j))

Known == \A k \in Keys : registry[k] # 0 =>
    jobs[registry[k]].key = k /\ jobs[registry[k]].state # "lost"

Kept == \A j \in DOMAIN jobs : jobs[j].state = "processing" => Registered(j)

ChunksOwned == \A k \in Keys : \A c \in Chunks : chunks[k][c] # 0 =>
    jobs[chunks[k][c]].state = "lost" \/ registry[k] = chunks[k][c]

RegistryInv == Pinned /\ Counted /\ Known /\ Kept /\ ChunksOwned /\ InputIntact

\* The worker side.
WorkerOwns == \A j \in JobIds : worker[j].at # "off" =>
    /\ j \in DOMAIN jobs /\ jobs[j].state = "processing"
    /\ worker[j].try \in DOMAIN tries /\ tries[worker[j].try] = j

\* How far a worker has got, and what is in place by then.
Progress == \A j \in JobIds : LET at == worker[j].at  t == worker[j].try IN
    /\ at \in {"postgres", "mariadb", "announce", "done"} => ~ jobs[j].retryable
    /\ at \in {"validate", "store", "commit", "postgres", "mariadb", "announce",
               "done"} => t \in archive
    /\ at \in {"mariadb", "announce", "done"} => t \in events
    /\ at \in {"announce", "done"} => t \in stored

\* What may have been committed is never tried again.
Settled == \A t \in events \cup stored : LET j == tries[t] IN
    \/ jobs[j].state \in {"lost", "succeeded"}
    \/ /\ jobs[j].state \in {"processing", "failed"}
       /\ ~ jobs[j].retryable
       /\ jobs[j].state = "processing" =>
            /\ worker[j].try = t
            /\ worker[j].at \in {"mariadb", "announce", "done", "failing"}

Told == \A j \in JobIds : status[j].submission => worker[j].at \in {"off", "done"}

\* Open transactions hold checksums of their own, and new ones.
Inserting == {"commit", "postgres", "mariadb"}

Alone == \A i \in JobIds : worker[i].at \in Inserting =>
    /\ ~ Conflict(worker[i].try)
    /\ \A j \in JobIds \ {i} : worker[j].at \in Inserting =>
          ContentOf(worker[i].try) # ContentOf(worker[j].try)

WorkerInv ==
    /\ WorkerOwns /\ Progress /\ Settled /\ Told /\ Alone
    /\ StoredOnce /\ CommittedOnce /\ SuccessIsStored

UInv == TypeOK /\ RegistryInv /\ WorkerInv

-----------------------------------------------------------------------------
(* Jobs and tries as the provers need them *)

LEMMA Shape ==
    ASSUME TypeOK
    PROVE  /\ Len(jobs) \in Nat /\ DOMAIN jobs = 1 .. Len(jobs)
           /\ \A j \in DOMAIN jobs : jobs[j] \in JobType
           /\ Len(tries) \in Nat /\ DOMAIN tries = 1 .. Len(tries)
           /\ \A t \in DOMAIN tries : tries[t] \in DOMAIN jobs
           /\ DOMAIN jobs \subseteq JobIds
<1>1. jobs \in Seq(JobType) /\ Len(jobs) <= MaxJobs /\ tries \in Seq(1 .. Len(jobs))
  BY DEF TypeOK
<1>2. /\ Len(jobs) \in Nat /\ DOMAIN jobs = 1 .. Len(jobs)
      /\ \A j \in DOMAIN jobs : jobs[j] \in JobType
  BY <1>1
<1>3. /\ Len(tries) \in Nat /\ DOMAIN tries = 1 .. Len(tries)
      /\ \A t \in DOMAIN tries : tries[t] \in 1 .. Len(jobs)
  BY <1>1
<1> QED
  BY <1>1, <1>2, <1>3, UploadAssumption DEF JobIds

\* One job of the list is rewritten.
LEMMA Rewrite ==
    ASSUME TypeOK, NEW j \in DOMAIN jobs, NEW x \in JobType,
           jobs' = [jobs EXCEPT ![j] = x]
    PROVE  /\ jobs' \in Seq(JobType) /\ Len(jobs') = Len(jobs)
           /\ DOMAIN jobs' = DOMAIN jobs
           /\ jobs'[j] = x
           /\ \A i \in DOMAIN jobs \ {j} : jobs'[i] = jobs[i]
<1>1. jobs \in Seq(JobType) /\ j \in 1 .. Len(jobs)
  BY Shape DEF TypeOK
<1> QED
  BY <1>1, ExceptSeq

\* A job is appended to the list.
LEMMA Register ==
    ASSUME TypeOK, NEW x \in JobType, jobs' = Append(jobs, x)
    PROVE  /\ jobs' \in Seq(JobType) /\ Len(jobs') = Len(jobs) + 1
           /\ DOMAIN jobs' = DOMAIN jobs \cup {Len(jobs) + 1}
           /\ jobs'[Len(jobs) + 1] = x
           /\ \A i \in DOMAIN jobs : jobs'[i] = jobs[i]
<1>1. jobs \in Seq(JobType)
  BY DEF TypeOK
<1>2. /\ jobs' \in Seq(JobType) /\ Len(jobs') = Len(jobs) + 1
      /\ \A i \in 1 .. Len(jobs) : jobs'[i] = jobs[i]
      /\ jobs'[Len(jobs) + 1] = x
  BY <1>1, AppendProperties
<1>3. DOMAIN jobs' = 1 .. Len(jobs')
  BY <1>2
<1> QED
  BY <1>2, <1>3, Shape

-----------------------------------------------------------------------------
(* What a step of a worker leaves alone *)

Within(S, T, x) == S \ {x} \subseteq T /\ T \subseteq S \cup {x}

JobStep(j) ==
    /\ worker[j].at # "off" /\ worker'[j].try = worker[j].try
    /\ \A i \in JobIds \ {j} : worker'[i] = worker[i] /\ status'[i] = status[i]
    /\ UNCHANGED <<registry, request, tries>>
    /\ DOMAIN jobs' = DOMAIN jobs
    /\ \A i \in DOMAIN jobs \ {j} : jobs'[i] = jobs[i]
    /\ jobs'[j].key = jobs[j].key /\ jobs'[j].refs = jobs[j].refs
    /\ Within(archive, archive', worker[j].try)
    /\ events \subseteq events' /\ Within(events, events', worker[j].try)
    /\ stored \subseteq stored' /\ Within(stored, stored', worker[j].try)

\* What is left to show of a step of job j.
LocallySound(j) ==
    LET at == worker'[j].at  t == worker[j].try IN
    /\ jobs'[j].state \in IF at # "off" THEN {"processing"} ELSE {"succeeded", "failed"}
    /\ at \in {"postgres", "mariadb", "announce", "done"} => ~ jobs'[j].retryable
    /\ at \in {"validate", "store", "commit", "postgres", "mariadb", "announce",
               "done"} => t \in archive'
    /\ at \in {"mariadb", "announce", "done"} => t \in events'
    /\ at \in {"announce", "done"} => t \in stored'
    /\ t \in events' \cup stored' /\ jobs'[j].state # "succeeded" =>
          /\ ~ jobs'[j].retryable
          /\ jobs'[j].state = "processing" =>
                at \in {"mariadb", "announce", "done", "failing"}
    /\ status'[j].submission =>
          at \in {"off", "done"} /\ t \in stored' \cap events' \cap archive'
    /\ at \in Inserting =>
          \/ worker[j].at \in Inserting
          \/ ~ Conflict(t) /\ ~ Blocked(j)
    /\ stored' # stored => worker[j].at \in Inserting /\ at \notin Inserting

LEMMA JobStepKeepsWorkerInv ==
    ASSUME UInv, NEW j \in JobIds, JobStep(j), LocallySound(j)
    PROVE  WorkerInv'
<1> DEFINE t == worker[j].try
<1> USE DEF UInv, WorkerInv
<1>1. /\ j \in DOMAIN jobs /\ jobs[j].state = "processing"
      /\ t \in DOMAIN tries /\ tries[t] = j
  BY DEF JobStep, WorkerOwns
<1>2. /\ DOMAIN jobs' = DOMAIN jobs /\ tries' = tries
      /\ \A i \in DOMAIN jobs : jobs'[i].key = jobs[i].key
      /\ \A i \in JobIds \ {j} : worker'[i] = worker[i] /\ status'[i] = status[i]
      /\ \A i \in DOMAIN jobs \ {j} : jobs'[i] = jobs[i]
      /\ worker'[j].try = t
  BY DEF JobStep
<1>3. \A i \in JobIds \ {j} : worker[i].at # "off" =>
        /\ worker[i].try # t
        /\ worker[i].try \in archive => worker[i].try \in archive'
  BY <1>1 DEF WorkerOwns, JobStep, Within
<1>4. /\ events \subseteq events' /\ stored \subseteq stored'
      /\ events' \subseteq events \cup {t} /\ stored' \subseteq stored \cup {t}
  BY DEF JobStep, Within
<1>5. \A u \in events \cup stored : tries[u] = j => u = t
  BY <1>1 DEF Settled
<1>6. events \cup stored \cup {t} \subseteq DOMAIN tries
  BY <1>1, Shape DEF TypeOK
<1>7. \A u \in DOMAIN tries : tries[u] \in DOMAIN jobs /\ ContentOf(u)' = ContentOf(u)
  BY <1>2, Shape DEF ContentOf
<1>8. WorkerOwns'
  BY <1>1, <1>2 DEF WorkerOwns, LocallySound
<1>9. Progress'
  <2> SUFFICES ASSUME NEW i \in JobIds, i # j
               PROVE  LET at == worker'[i].at  u == worker'[i].try IN
          /\ at \in {"postgres", "mariadb", "announce", "done"} => ~ jobs'[i].retryable
          /\ at \in {"validate", "store", "commit", "postgres", "mariadb",
                     "announce", "done"} => u \in archive'
          /\ at \in {"mariadb", "announce", "done"} => u \in events'
          /\ at \in {"announce", "done"} => u \in stored'
    BY <1>2 DEF Progress, LocallySound
  <2> QED
    BY <1>2, <1>3, <1>4 DEF Progress, WorkerOwns
<1>10. Settled'
  <2> SUFFICES ASSUME NEW u \in events' \cup stored'
               PROVE  LET i == tries[u] IN
          \/ jobs'[i].state \in {"lost", "succeeded"}
          \/ /\ jobs'[i].state \in {"processing", "failed"}
             /\ ~ jobs'[i].retryable
             /\ jobs'[i].state = "processing" =>
                  /\ worker'[i].try = u
                  /\ worker'[i].at \in {"mariadb", "announce", "done", "failing"}
    BY <1>2 DEF Settled
  <2>1. CASE u = t
    BY <1>1, <1>2, <2>1 DEF LocallySound
  <2>2. CASE u # t
    <3>1. u \in events \cup stored /\ tries[u] # j /\ tries[u] \in DOMAIN jobs \ {j}
      BY <1>4, <1>5, <1>6, <1>7, <2>2
    <3>2. tries[u] \in JobIds
      BY <3>1, Shape
    <3> QED
      BY <1>2, <3>1, <3>2 DEF Settled
  <2> QED
    BY <2>1, <2>2
<1>11. Told'
  BY <1>2 DEF Told, LocallySound
<1>12. CommittedOnce'
  BY <1>1, <1>2, <1>4, <1>5 DEF CommittedOnce
<1>13. SuccessIsStored'
  <2> SUFFICES ASSUME NEW i \in JobIds, status'[i].submission
               PROVE  \E u \in stored' \cap events' \cap archive' : tries[u] = i
    BY <1>2 DEF SuccessIsStored
  <2>1. CASE i = j
    BY <1>1, <2>1 DEF LocallySound
  <2>2. CASE i # j
    <3>1. PICK u \in stored \cap events \cap archive : tries[u] = i
      BY <1>2, <2>2 DEF SuccessIsStored
    <3>2. u # t /\ u \in archive'
      BY <1>1, <2>2, <3>1 DEF JobStep, Within
    <3> QED
      BY <1>4, <3>1, <3>2
  <2> QED
    BY <2>1, <2>2
<1>14. StoredOnce' /\ Alone'
  <2>1. CASE stored' = stored
    <3>1. StoredOnce'
      BY <1>6, <1>7, <2>1 DEF StoredOnce
    <3>2. \A u \in DOMAIN tries : Conflict(u)' = Conflict(u)
      BY <1>6, <1>7, <2>1 DEF Conflict
    <3>3. \A i \in JobIds : worker'[i].at \in Inserting =>
            worker'[i].try \in DOMAIN tries /\ worker'[i].try = worker[i].try
      BY <1>1, <1>2 DEF WorkerOwns, Inserting
    <3>4. ASSUME NEW i \in JobIds, worker'[i].at \in Inserting
          PROVE  ~ Conflict(worker[i].try)
      BY <1>2, <3>4 DEF Alone, LocallySound
    <3>5. ASSUME NEW i \in JobIds, NEW k \in JobIds \ {i},
                 worker'[i].at \in Inserting, worker'[k].at \in Inserting
          PROVE  ContentOf(worker[i].try) # ContentOf(worker[k].try)
      <4>1. CASE i # j /\ k # j
        BY <1>2, <3>5, <4>1 DEF Alone
      <4>2. CASE i = j
        BY <1>2, <3>5, <4>2 DEF Alone, LocallySound, Blocked, Inserting
      <4>3. CASE k = j
        BY <1>2, <3>5, <4>3 DEF Alone, LocallySound, Blocked, Inserting
      <4> QED
        BY <4>1, <4>2, <4>3
    <3> QED
      BY <1>7, <3>1, <3>2, <3>3, <3>4, <3>5 DEF Alone
  <2>2. CASE stored' # stored
    <3>1. worker[j].at \in Inserting /\ worker'[j].at \notin Inserting
      BY <2>2 DEF LocallySound
    <3>2. \A u \in stored : ContentOf(u) # ContentOf(t)
      BY <3>1 DEF Alone, Conflict
    <3>3. StoredOnce'
      BY <1>4, <1>6, <1>7, <3>2 DEF StoredOnce
    <3>4. ASSUME NEW i \in JobIds, worker'[i].at \in Inserting
          PROVE  /\ i # j /\ worker[i].at \in Inserting
                 /\ worker'[i].try = worker[i].try
                 /\ worker[i].try \in DOMAIN tries
                 /\ ~ Conflict(worker[i].try)'
      <4>1. i # j /\ worker'[i] = worker[i]
        BY <1>2, <3>1, <3>4
      <4>2. worker[i].try \in DOMAIN tries /\ ContentOf(worker[i].try) # ContentOf(t)
        BY <3>1, <3>4, <4>1 DEF Alone, WorkerOwns, Inserting
      <4>3. \A u \in stored : ContentOf(u) # ContentOf(worker[i].try)
        BY <3>4, <4>1 DEF Alone, Conflict
      <4> QED
        BY <1>4, <1>6, <1>7, <3>4, <4>1, <4>2, <4>3 DEF Conflict
    <3> QED
      BY <1>7, <3>3, <3>4 DEF Alone
  <2> QED
    BY <2>1, <2>2
<1> QED
  BY <1>8, <1>9, <1>10, <1>11, <1>12, <1>13, <1>14

\* A worker removes at most chunks of its own upload, at its end.
ChunksKept(j) ==
    \A k \in Keys : \A c \in Chunks :
        \/ chunks'[k][c] = chunks[k][c]
        \/ chunks'[k][c] = 0 /\ k = jobs[j].key /\ jobs'[j].state # "processing"

LEMMA JobStepKeepsRegistryInv ==
    ASSUME UInv, NEW j \in JobIds, JobStep(j), ChunksKept(j),
           jobs'[j].state \in {"processing", "succeeded", "failed"}
    PROVE  RegistryInv'
<1> USE DEF UInv, RegistryInv
<1>1. /\ j \in DOMAIN jobs /\ jobs[j].state = "processing" /\ Registered(j)
  BY DEF JobStep, WorkerInv, WorkerOwns, Kept
<1>2. /\ DOMAIN jobs' = DOMAIN jobs /\ registry' = registry /\ request' = request
      /\ \A i \in DOMAIN jobs : /\ jobs'[i].key = jobs[i].key
                                /\ jobs'[i].refs = jobs[i].refs
                                /\ jobs'[i].state = "processing" => jobs[i].state = "processing"
                                /\ jobs'[i].state = "lost" <=> jobs[i].state = "lost"
  BY <1>1 DEF JobStep
<1>3. /\ registry \in [Keys -> 0 .. Len(jobs)]
      /\ \A k \in Keys : registry[k] # 0 => registry[k] \in DOMAIN jobs
      /\ \A k \in Keys : \A c \in Chunks :
            chunks[k][c] # 0 => chunks[k][c] \in DOMAIN jobs
  BY Shape DEF TypeOK
<1>4. Pinned' /\ Counted'
  BY <1>2 DEF Pinned, Counted, Registered, Holders
<1>5. Known' /\ Kept'
  BY <1>2, <1>3 DEF Known, Kept, Registered
<1>6. ChunksOwned'
  <2> SUFFICES ASSUME NEW k \in Keys, NEW c \in Chunks, chunks'[k][c] # 0
               PROVE  \/ jobs'[chunks'[k][c]].state = "lost"
                      \/ registry[k] = chunks'[k][c]
    BY <1>2 DEF ChunksOwned
  <2>1. chunks'[k][c] = chunks[k][c]
    BY DEF ChunksKept
  <2> QED
    BY <1>2, <1>3, <2>1 DEF ChunksOwned
<1>7. InputIntact'
  <2> SUFFICES ASSUME NEW i \in DOMAIN jobs, jobs'[i].state = "processing",
                      NEW c \in Chunks
               PROVE  LET owner == chunks'[jobs[i].key][c] IN
                        owner # 0 /\ (owner = i \/ jobs'[owner].state = "lost")
    BY <1>2 DEF InputIntact
  <2>1. PICK k \in Keys : registry[k] = i /\ jobs[i].key = k
    BY <1>2, <1>3, Shape DEF Kept, Known, Registered
  <2>2. jobs[j].key = k => i = j
    BY <1>1, <1>3, <2>1, Shape DEF Known, Registered
  <2>3. chunks'[k][c] = chunks[k][c]
    BY <2>2 DEF ChunksKept
  <2> QED
    BY <1>2, <1>3, <2>1, <2>3 DEF InputIntact
<1> QED
  BY <1>4, <1>5, <1>6, <1>7

-----------------------------------------------------------------------------
(* What the steps of handlers leave alone on the side of the workers *)

QuietStep ==
    /\ \A j \in JobIds : worker'[j].at = worker[j].at /\ worker'[j].try = worker[j].try
    /\ \A j \in JobIds : status'[j].submission => status[j].submission
    /\ UNCHANGED <<tries, archive, events, stored>>
    /\ \A j \in DOMAIN jobs :
          /\ j \in DOMAIN jobs'
          /\ jobs'[j].key = jobs[j].key /\ jobs'[j].retryable = jobs[j].retryable
          /\ \/ jobs'[j].state = jobs[j].state
             \/ /\ jobs[j].state = "failed" /\ jobs[j].retryable
                /\ jobs'[j].state = "receiving"

LEMMA QuietStepKeepsWorkerInv ==
    ASSUME UInv, QuietStep
    PROVE  WorkerInv'
<1> USE DEF UInv, WorkerInv, QuietStep
<1>1. events \cup stored \subseteq DOMAIN tries
  BY Shape DEF TypeOK
<1>2. \A u \in DOMAIN tries : tries[u] \in DOMAIN jobs /\ ContentOf(u)' = ContentOf(u)
  BY Shape DEF ContentOf
<1>3. WorkerOwns'
  BY DEF WorkerOwns
<1>4. Progress'
  BY DEF Progress, WorkerOwns
<1>5. Settled'
  BY <1>1, <1>2, Shape DEF Settled
<1>6. Told' /\ CommittedOnce' /\ SuccessIsStored'
  BY DEF Told, CommittedOnce, SuccessIsStored
<1>7. StoredOnce'
  BY <1>1, <1>2 DEF StoredOnce
<1>8. Alone'
  <2>1. \A i \in JobIds : worker[i].at \in Inserting => worker[i].try \in DOMAIN tries
    BY DEF WorkerOwns, Inserting
  <2> QED
    BY <1>1, <1>2, <2>1 DEF Alone, Conflict
<1> QED
  BY <1>3, <1>4, <1>5, <1>6, <1>7, <1>8

-----------------------------------------------------------------------------
(* runUploadJob *)

\* What is known of a job that has a worker.
LEMMA Standing ==
    ASSUME UInv, NEW j \in JobIds, worker[j].at # "off"
    PROVE  LET at == worker[j].at  t == worker[j].try IN
           /\ j \in DOMAIN jobs /\ jobs[j] \in JobType /\ jobs[j].state = "processing"
           /\ t \in DOMAIN tries /\ t \in 0 .. Len(tries) /\ t \in 1 .. Len(tries)
           /\ at \in {"postgres", "mariadb", "announce", "done"} => ~ jobs[j].retryable
           /\ at \in {"validate", "store", "commit", "postgres", "mariadb",
                      "announce", "done"} => t \in archive
           /\ at \in {"mariadb", "announce", "done"} => t \in events
           /\ at \in {"announce", "done"} => t \in stored
           /\ t \in events \cup stored =>
                ~ jobs[j].retryable /\ at \in {"mariadb", "announce", "done", "failing"}
           /\ status[j].submission => at = "done"
<1> USE DEF UInv, WorkerInv
<1> DEFINE t == worker[j].try
<1>1. /\ j \in DOMAIN jobs /\ jobs[j].state = "processing"
      /\ t \in DOMAIN tries /\ tries[t] = j
  BY DEF WorkerOwns
<1>2. jobs[j] \in JobType /\ t \in 0 .. Len(tries) /\ t \in 1 .. Len(tries)
  BY <1>1, Shape
<1>3. t \in events \cup stored =>
        ~ jobs[j].retryable /\ worker[j].at \in {"mariadb", "announce", "done", "failing"}
  BY <1>1 DEF Settled
<1> QED
  BY <1>1, <1>2, <1>3 DEF Progress, Told

\* A step of a worker that rewrites no job.
LEMMA PlainStep ==
    ASSUME UInv, NEW j \in JobIds, JobStep(j), LocallySound(j),
           jobs' = jobs, chunks' = chunks,
           worker' \in [JobIds -> [at : Stages, try : 0 .. Len(tries), late : BOOLEAN]],
           status' \in [JobIds -> [phase : Phases, submission : BOOLEAN]],
           UNCHANGED restarts, faults' \in Nat
    PROVE  UInv'
<1>1. RegistryInv' /\ WorkerInv'
  BY JobStepKeepsRegistryInv, JobStepKeepsWorkerInv, Standing
     DEF JobStep, ChunksKept
<1>2. TypeOK'
  <2>1. archive' \cup events' \cup stored' \subseteq 1 .. Len(tries)
    BY Standing DEF JobStep, Within, UInv, TypeOK
  <2> QED
    BY <2>1 DEF JobStep, UInv, TypeOK
<1> QED
  BY <1>1, <1>2 DEF UInv

LEMMA CopyUploadStep ==
    ASSUME UInv, NEW j \in JobIds, CopyUpload(j)
    PROVE  UInv'
<1> DEFINE t == worker[j].try
<1>1. /\ worker \in [JobIds -> [at : Stages, try : 0 .. Len(tries), late : BOOLEAN]]
      /\ status \in [JobIds -> [phase : Phases, submission : BOOLEAN]]
      /\ faults \in Nat
  BY DEF UInv, TypeOK
<1>2. PICK late \in BOOLEAN :
        worker' = [worker EXCEPT ![j].at = "validate", ![j].late = late]
  <2>1. PICK more \in BOOLEAN :
          worker' = [worker EXCEPT ![j].at = "validate", ![j].late = more \/ worker[j].late]
    BY DEF CopyUpload
  <2>2. (more \/ worker[j].late) \in BOOLEAN
    OBVIOUS
  <2> QED
    BY <2>1, <2>2, Zenon
<1>3. worker[j].at = "copy"
  BY DEF CopyUpload
<1>4. /\ worker[j].at \in {"copy"} /\ worker'[j].at = "validate" /\ worker'[j].try = t
      /\ \A i \in JobIds \ {j} : worker'[i] = worker[i]
      /\ worker' \in [JobIds -> [at : Stages, try : 0 .. Len(tries), late : BOOLEAN]]
  BY <1>1, <1>2, <1>3 DEF Stages
<1>5. /\ status'[j].submission = status[j].submission
      /\ \A i \in JobIds \ {j} : status'[i] = status[i]
      /\ status' \in [JobIds -> [phase : Phases, submission : BOOLEAN]]
  BY <1>1 DEF Phases, CopyUpload, SetStatus
<1>6. /\ archive' = archive \cup {t} /\ events' = events /\ stored' = stored
      /\ UNCHANGED <<jobs, registry, request, chunks, tries, restarts>>
      /\ faults' \in Nat
  BY <1>1 DEF Phases, CopyUpload, SetStatus
<1>7. JobStep(j)
  BY <1>4, <1>5, <1>6, Standing DEF JobStep, Within
<1>8. LocallySound(j)
  BY <1>4, <1>5, <1>6, Standing DEF LocallySound, Inserting
<1> QED
  BY <1>4, <1>5, <1>6, <1>7, <1>8, PlainStep

LEMMA CopyFailsStep ==
    ASSUME UInv, NEW j \in JobIds, CopyFails(j)
    PROVE  UInv'
<1> DEFINE t == worker[j].try
<1>1. /\ worker \in [JobIds -> [at : Stages, try : 0 .. Len(tries), late : BOOLEAN]]
      /\ status \in [JobIds -> [phase : Phases, submission : BOOLEAN]]
      /\ faults \in Nat
  BY DEF UInv, TypeOK
<1>2. PICK late \in BOOLEAN :
        worker' = [worker EXCEPT ![j].at = "failing", ![j].late = late]
  <2>1. PICK more \in BOOLEAN :
          worker' = [worker EXCEPT ![j].at = "failing", ![j].late = more \/ worker[j].late]
    BY DEF CopyFails
  <2>2. (more \/ worker[j].late) \in BOOLEAN
    OBVIOUS
  <2> QED
    BY <2>1, <2>2, Zenon
<1>3. worker[j].at = "copy"
  BY DEF CopyFails
<1>4. /\ worker[j].at \in {"copy"} /\ worker'[j].at = "failing" /\ worker'[j].try = t
      /\ \A i \in JobIds \ {j} : worker'[i] = worker[i]
      /\ worker' \in [JobIds -> [at : Stages, try : 0 .. Len(tries), late : BOOLEAN]]
  BY <1>1, <1>2, <1>3 DEF Stages
<1>5. /\ status'[j].submission = status[j].submission
      /\ \A i \in JobIds \ {j} : status'[i] = status[i]
      /\ status' \in [JobIds -> [phase : Phases, submission : BOOLEAN]]
  BY <1>1 DEF Phases, CopyFails, SetStatus, Fault
<1>6. /\ archive' = archive /\ events' = events /\ stored' = stored
      /\ UNCHANGED <<jobs, registry, request, chunks, tries, restarts>>
      /\ faults' \in Nat
  BY <1>1 DEF Phases, CopyFails, SetStatus, Fault
<1>7. JobStep(j)
  BY <1>4, <1>5, <1>6, Standing DEF JobStep, Within
<1>8. LocallySound(j)
  BY <1>4, <1>5, <1>6, Standing DEF LocallySound, Inserting
<1> QED
  BY <1>4, <1>5, <1>6, <1>7, <1>8, PlainStep

LEMMA ValidateStep ==
    ASSUME UInv, NEW j \in JobIds, Validate(j)
    PROVE  UInv'
<1> DEFINE t == worker[j].try
<1>1. /\ worker \in [JobIds -> [at : Stages, try : 0 .. Len(tries), late : BOOLEAN]]
      /\ status \in [JobIds -> [phase : Phases, submission : BOOLEAN]]
      /\ faults \in Nat
  BY DEF UInv, TypeOK
<1>2. /\ worker[j].at \in {"validate"} /\ worker'[j].at = "store" /\ worker'[j].try = t
      /\ \A i \in JobIds \ {j} : worker'[i] = worker[i]
      /\ worker' \in [JobIds -> [at : Stages, try : 0 .. Len(tries), late : BOOLEAN]]
  BY <1>1 DEF Stages, Validate, Step, SetStatus
<1>3. /\ status'[j].submission = status[j].submission
      /\ \A i \in JobIds \ {j} : status'[i] = status[i]
      /\ status' \in [JobIds -> [phase : Phases, submission : BOOLEAN]]
  BY <1>1 DEF Phases, Validate, Step, SetStatus
<1>4. /\ archive' = archive /\ events' = events /\ stored' = stored
      /\ UNCHANGED <<jobs, registry, request, chunks, tries, restarts>>
      /\ faults' \in Nat
  BY <1>1 DEF Phases, Validate, Step, SetStatus
<1>5. JobStep(j)
  BY <1>2, <1>3, <1>4, Standing DEF JobStep, Within
<1>6. LocallySound(j)
  BY <1>2, <1>3, <1>4, Standing DEF LocallySound, Inserting
<1> QED
  BY <1>2, <1>3, <1>4, <1>5, <1>6, PlainStep

LEMMA RefuseStep ==
    ASSUME UInv, NEW j \in JobIds, Refuse(j)
    PROVE  UInv'
<1> DEFINE t == worker[j].try
<1>1. /\ worker \in [JobIds -> [at : Stages, try : 0 .. Len(tries), late : BOOLEAN]]
      /\ status \in [JobIds -> [phase : Phases, submission : BOOLEAN]]
      /\ faults \in Nat
  BY DEF UInv, TypeOK
<1>2. /\ worker[j].at \in {"validate", "store"} /\ worker'[j].at = "failing" /\ worker'[j].try = t
      /\ \A i \in JobIds \ {j} : worker'[i] = worker[i]
      /\ worker' \in [JobIds -> [at : Stages, try : 0 .. Len(tries), late : BOOLEAN]]
  BY <1>1 DEF Stages, Refuse, Fail, SetStatus
<1>3. /\ status'[j].submission = status[j].submission
      /\ \A i \in JobIds \ {j} : status'[i] = status[i]
      /\ status' \in [JobIds -> [phase : Phases, submission : BOOLEAN]]
  BY <1>1 DEF Phases, Refuse, Fail, SetStatus
<1>4. /\ archive' = archive \ {t} /\ events' = events /\ stored' = stored
      /\ UNCHANGED <<jobs, registry, request, chunks, tries, restarts>>
      /\ faults' \in Nat
  BY <1>1 DEF Phases, Refuse, Fail, SetStatus
<1>5. JobStep(j)
  BY <1>2, <1>3, <1>4, Standing DEF JobStep, Within
<1>6. LocallySound(j)
  BY <1>2, <1>3, <1>4, Standing DEF LocallySound, Inserting
<1> QED
  BY <1>2, <1>3, <1>4, <1>5, <1>6, PlainStep

LEMMA CommitPostgresStep ==
    ASSUME UInv, NEW j \in JobIds, CommitPostgres(j)
    PROVE  UInv'
<1> DEFINE t == worker[j].try
<1>1. /\ worker \in [JobIds -> [at : Stages, try : 0 .. Len(tries), late : BOOLEAN]]
      /\ status \in [JobIds -> [phase : Phases, submission : BOOLEAN]]
      /\ faults \in Nat
  BY DEF UInv, TypeOK
<1>2. /\ worker[j].at \in {"postgres"} /\ worker'[j].at = "mariadb" /\ worker'[j].try = t
      /\ \A i \in JobIds \ {j} : worker'[i] = worker[i]
      /\ worker' \in [JobIds -> [at : Stages, try : 0 .. Len(tries), late : BOOLEAN]]
  BY <1>1 DEF Stages, CommitPostgres, Step
<1>3. /\ status'[j].submission = status[j].submission
      /\ \A i \in JobIds \ {j} : status'[i] = status[i]
      /\ status' \in [JobIds -> [phase : Phases, submission : BOOLEAN]]
  BY <1>1 DEF Phases, CommitPostgres, Step
<1>4. /\ archive' = archive /\ events' = events \cup {t} /\ stored' = stored
      /\ UNCHANGED <<jobs, registry, request, chunks, tries, restarts>>
      /\ faults' \in Nat
  BY <1>1 DEF Phases, CommitPostgres, Step
<1>5. JobStep(j)
  BY <1>2, <1>3, <1>4, Standing DEF JobStep, Within
<1>6. LocallySound(j)
  BY <1>2, <1>3, <1>4, Standing DEF LocallySound, Inserting
<1> QED
  BY <1>2, <1>3, <1>4, <1>5, <1>6, PlainStep

LEMMA CommitPostgresFailsStep ==
    ASSUME UInv, NEW j \in JobIds, CommitPostgresFails(j)
    PROVE  UInv'
<1> DEFINE t == worker[j].try
<1>1. /\ worker \in [JobIds -> [at : Stages, try : 0 .. Len(tries), late : BOOLEAN]]
      /\ status \in [JobIds -> [phase : Phases, submission : BOOLEAN]]
      /\ faults \in Nat
  BY DEF UInv, TypeOK
<1>2. /\ worker[j].at \in {"postgres"} /\ worker'[j].at = "failing" /\ worker'[j].try = t
      /\ \A i \in JobIds \ {j} : worker'[i] = worker[i]
      /\ worker' \in [JobIds -> [at : Stages, try : 0 .. Len(tries), late : BOOLEAN]]
  BY <1>1 DEF Stages, CommitPostgresFails, Fail, SetStatus, Fault
<1>3. /\ status'[j].submission = status[j].submission
      /\ \A i \in JobIds \ {j} : status'[i] = status[i]
      /\ status' \in [JobIds -> [phase : Phases, submission : BOOLEAN]]
  BY <1>1 DEF Phases, CommitPostgresFails, Fail, SetStatus, Fault
<1>4. /\ archive' = archive \ {t} /\ events' \in {events, events \cup {t}} /\ stored' = stored
      /\ UNCHANGED <<jobs, registry, request, chunks, tries, restarts>>
      /\ faults' \in Nat
  BY <1>1 DEF Phases, CommitPostgresFails, Fail, SetStatus, Fault
<1>5. JobStep(j)
  BY <1>2, <1>3, <1>4, Standing DEF JobStep, Within
<1>6. LocallySound(j)
  BY <1>2, <1>3, <1>4, Standing DEF LocallySound, Inserting
<1> QED
  BY <1>2, <1>3, <1>4, <1>5, <1>6, PlainStep

LEMMA CommitMariaDBStep ==
    ASSUME UInv, NEW j \in JobIds, CommitMariaDB(j)
    PROVE  UInv'
<1> DEFINE t == worker[j].try
<1>1. /\ worker \in [JobIds -> [at : Stages, try : 0 .. Len(tries), late : BOOLEAN]]
      /\ status \in [JobIds -> [phase : Phases, submission : BOOLEAN]]
      /\ faults \in Nat
  BY DEF UInv, TypeOK
<1>2. /\ worker[j].at \in {"mariadb"} /\ worker'[j].at = "announce" /\ worker'[j].try = t
      /\ \A i \in JobIds \ {j} : worker'[i] = worker[i]
      /\ worker' \in [JobIds -> [at : Stages, try : 0 .. Len(tries), late : BOOLEAN]]
  BY <1>1 DEF Stages, CommitMariaDB, Step
<1>3. /\ status'[j].submission = status[j].submission
      /\ \A i \in JobIds \ {j} : status'[i] = status[i]
      /\ status' \in [JobIds -> [phase : Phases, submission : BOOLEAN]]
  BY <1>1 DEF Phases, CommitMariaDB, Step
<1>4. /\ archive' = archive /\ events' = events /\ stored' = stored \cup {t}
      /\ UNCHANGED <<jobs, registry, request, chunks, tries, restarts>>
      /\ faults' \in Nat
  BY <1>1 DEF Phases, CommitMariaDB, Step
<1>5. JobStep(j)
  BY <1>2, <1>3, <1>4, Standing DEF JobStep, Within
<1>6. LocallySound(j)
  BY <1>2, <1>3, <1>4, Standing DEF LocallySound, Inserting
<1> QED
  BY <1>2, <1>3, <1>4, <1>5, <1>6, PlainStep

LEMMA CommitMariaDBFailsStep ==
    ASSUME UInv, NEW j \in JobIds, CommitMariaDBFails(j)
    PROVE  UInv'
<1> DEFINE t == worker[j].try
<1>1. /\ worker \in [JobIds -> [at : Stages, try : 0 .. Len(tries), late : BOOLEAN]]
      /\ status \in [JobIds -> [phase : Phases, submission : BOOLEAN]]
      /\ faults \in Nat
  BY DEF UInv, TypeOK
<1>2. /\ worker[j].at \in {"mariadb"} /\ worker'[j].at = "failing" /\ worker'[j].try = t
      /\ \A i \in JobIds \ {j} : worker'[i] = worker[i]
      /\ worker' \in [JobIds -> [at : Stages, try : 0 .. Len(tries), late : BOOLEAN]]
  BY <1>1 DEF Stages, CommitMariaDBFails, Fail, SetStatus, Fault
<1>3. /\ status'[j].submission = status[j].submission
      /\ \A i \in JobIds \ {j} : status'[i] = status[i]
      /\ status' \in [JobIds -> [phase : Phases, submission : BOOLEAN]]
  BY <1>1 DEF Phases, CommitMariaDBFails, Fail, SetStatus, Fault
<1>4. /\ archive' = archive \ {t} /\ events' = events /\ stored' \in {stored, stored \cup {t}}
      /\ UNCHANGED <<jobs, registry, request, chunks, tries, restarts>>
      /\ faults' \in Nat
  BY <1>1 DEF Phases, CommitMariaDBFails, Fail, SetStatus, Fault
<1>5. JobStep(j)
  BY <1>2, <1>3, <1>4, Standing DEF JobStep, Within
<1>6. LocallySound(j)
  BY <1>2, <1>3, <1>4, Standing DEF LocallySound, Inserting
<1> QED
  BY <1>2, <1>3, <1>4, <1>5, <1>6, PlainStep

LEMMA SetSuccessStep ==
    ASSUME UInv, NEW j \in JobIds, SetSuccess(j)
    PROVE  UInv'
<1> DEFINE t == worker[j].try
<1>1. /\ worker \in [JobIds -> [at : Stages, try : 0 .. Len(tries), late : BOOLEAN]]
      /\ status \in [JobIds -> [phase : Phases, submission : BOOLEAN]]
      /\ faults \in Nat
  BY DEF UInv, TypeOK
<1>2. /\ worker[j].at \in {"announce"} /\ worker'[j].at = "done" /\ worker'[j].try = t
      /\ \A i \in JobIds \ {j} : worker'[i] = worker[i]
      /\ worker' \in [JobIds -> [at : Stages, try : 0 .. Len(tries), late : BOOLEAN]]
  BY <1>1 DEF Stages, SetSuccess, Step
<1>3. /\ status'[j].submission = TRUE
      /\ \A i \in JobIds \ {j} : status'[i] = status[i]
      /\ status' \in [JobIds -> [phase : Phases, submission : BOOLEAN]]
  BY <1>1 DEF Phases, SetSuccess, Step
<1>4. /\ archive' = archive /\ events' = events /\ stored' = stored
      /\ UNCHANGED <<jobs, registry, request, chunks, tries, restarts>>
      /\ faults' \in Nat
  BY <1>1 DEF Phases, SetSuccess, Step
<1>5. JobStep(j)
  BY <1>2, <1>3, <1>4, Standing DEF JobStep, Within
<1>6. LocallySound(j)
  BY <1>2, <1>3, <1>4, Standing DEF LocallySound, Inserting
<1> QED
  BY <1>2, <1>3, <1>4, <1>5, <1>6, PlainStep

LEMMA StoreRowsStep ==
    ASSUME UInv, NEW j \in JobIds, StoreRows(j)
    PROVE  UInv'
<1> DEFINE t == worker[j].try
<1>1. /\ worker \in [JobIds -> [at : Stages, try : 0 .. Len(tries), late : BOOLEAN]]
      /\ status \in [JobIds -> [phase : Phases, submission : BOOLEAN]]
      /\ faults \in Nat
  BY DEF UInv, TypeOK
<1>2. /\ worker[j].at = "store" /\ ~ Blocked(j)
      /\ UNCHANGED <<jobs, registry, request, chunks, tries, events, stored,
                     faults, restarts>>
  BY DEF StoreRows
<1>3. CASE Conflict(t)
  <2>1. /\ worker' = [worker EXCEPT ![j].at = "failing"]
        /\ status' = [status EXCEPT ![j].phase = "failed"]
        /\ archive' = archive \ {t}
    BY <1>3 DEF StoreRows, Fail, SetStatus
  <2>2. /\ worker'[j].at = "failing" /\ worker'[j].try = t
        /\ \A i \in JobIds \ {j} : worker'[i] = worker[i]
        /\ worker' \in [JobIds -> [at : Stages, try : 0 .. Len(tries), late : BOOLEAN]]
    BY <1>1, <2>1 DEF Stages
  <2>3. /\ status'[j].submission = status[j].submission
        /\ \A i \in JobIds \ {j} : status'[i] = status[i]
        /\ status' \in [JobIds -> [phase : Phases, submission : BOOLEAN]]
    BY <1>1, <2>1 DEF Phases
  <2>4. JobStep(j)
    BY <1>2, <2>1, <2>2, <2>3, Standing DEF JobStep, Within
  <2>5. LocallySound(j)
    BY <1>2, <2>1, <2>2, <2>3, Standing DEF LocallySound, Inserting
  <2> QED
    BY <1>1, <1>2, <2>2, <2>3, <2>4, <2>5, PlainStep
<1>4. CASE ~ Conflict(t)
  <2>1. worker' = [worker EXCEPT ![j].at = "commit"] /\ UNCHANGED <<status, archive>>
    BY <1>4 DEF StoreRows, Step
  <2>2. /\ worker'[j].at = "commit" /\ worker'[j].try = t
        /\ \A i \in JobIds \ {j} : worker'[i] = worker[i]
        /\ worker' \in [JobIds -> [at : Stages, try : 0 .. Len(tries), late : BOOLEAN]]
    BY <1>1, <2>1 DEF Stages
  <2>3. JobStep(j)
    BY <1>2, <2>1, <2>2, Standing DEF JobStep, Within
  <2>4. LocallySound(j)
    BY <1>2, <1>4, <2>1, <2>2, Standing DEF LocallySound
  <2> QED
    BY <1>1, <1>2, <2>1, <2>2, <2>3, <2>4, PlainStep
<1> QED
  BY <1>3, <1>4

\* A step of a worker that rewrites its job, and at its end the chunks.
LEMMA RewritingStep ==
    ASSUME UInv, NEW j \in JobIds, LocallySound(j), ChunksKept(j),
           worker[j].at # "off", worker'[j].try = worker[j].try,
           \A i \in JobIds \ {j} : worker'[i] = worker[i] /\ status'[i] = status[i],
           worker' \in [JobIds -> [at : Stages, try : 0 .. Len(tries), late : BOOLEAN]],
           status' \in [JobIds -> [phase : Phases, submission : BOOLEAN]],
           NEW x \in JobType, jobs' = [jobs EXCEPT ![j] = x],
           x.key = jobs[j].key, x.refs = jobs[j].refs, x.state # "lost",
           x.state # "receiving",
           chunks' \in [Keys -> [Chunks -> 0 .. Len(jobs)]],
           UNCHANGED <<registry, request, tries, archive, events, stored, restarts>>,
           faults' \in Nat
    PROVE  UInv'
<1>1. j \in DOMAIN jobs
  BY Standing
<1>2. /\ jobs' \in Seq(JobType) /\ Len(jobs') = Len(jobs)
      /\ DOMAIN jobs' = DOMAIN jobs /\ jobs'[j] = x
      /\ \A i \in DOMAIN jobs \ {j} : jobs'[i] = jobs[i]
  BY <1>1, Rewrite DEF UInv
<1>3. JobStep(j)
  BY <1>2 DEF JobStep, Within
<1>4. jobs'[j].state \in {"processing", "succeeded", "failed"}
  BY <1>2 DEF JobType
<1>5. RegistryInv' /\ WorkerInv'
  BY <1>3, <1>4, JobStepKeepsRegistryInv, JobStepKeepsWorkerInv
<1>6. TypeOK'
  BY <1>2 DEF UInv, TypeOK
<1> QED
  BY <1>5, <1>6 DEF UInv

LEMMA BeforeCommitStep ==
    ASSUME UInv, NEW j \in JobIds, BeforeCommit(j)
    PROVE  UInv'
<1> DEFINE x == [jobs[j] EXCEPT !.retryable = FALSE]
<1>1. /\ worker \in [JobIds -> [at : Stages, try : 0 .. Len(tries), late : BOOLEAN]]
      /\ status \in [JobIds -> [phase : Phases, submission : BOOLEAN]]
      /\ chunks \in [Keys -> [Chunks -> 0 .. Len(jobs)]]
      /\ faults \in Nat
  BY DEF UInv, TypeOK
<1>2. /\ worker[j].at \in {"commit"} /\ worker'[j].at = "postgres"
      /\ worker'[j].try = worker[j].try
      /\ \A i \in JobIds \ {j} : worker'[i] = worker[i]
      /\ worker' \in [JobIds -> [at : Stages, try : 0 .. Len(tries), late : BOOLEAN]]
  BY <1>1 DEF Stages, BeforeCommit, Step
<1>3. /\ jobs[j] \in JobType /\ j \in DOMAIN jobs /\ jobs[j].state = "processing"
  BY <1>2, Standing
<1>4. x \in JobType /\ jobs' = [jobs EXCEPT ![j] = x]
  BY <1>3 DEF JobType, BeforeCommit, Step
<1>5. jobs'[j] = x
  BY <1>3, <1>4, Rewrite DEF UInv
<1>6. /\ status'[j].submission = status[j].submission
      /\ \A i \in JobIds \ {j} : status'[i] = status[i]
      /\ status' \in [JobIds -> [phase : Phases, submission : BOOLEAN]]
  BY <1>1 DEF Phases, BeforeCommit, Step
<1>7. /\ UNCHANGED <<registry, request, tries, archive, events, stored, restarts>>
      /\ faults' \in Nat
  BY <1>1 DEF BeforeCommit, Step
<1>8. ChunksKept(j) /\ chunks' \in [Keys -> [Chunks -> 0 .. Len(jobs)]]
  BY <1>1 DEF ChunksKept, BeforeCommit
<1>9. LocallySound(j)
  BY <1>2, <1>3, <1>5, <1>6, <1>7, Standing DEF LocallySound, Inserting, JobType
<1> QED
  BY <1>2, <1>3, <1>4, <1>6, <1>7, <1>8, <1>9, RewritingStep DEF JobType

LEMMA PanicStep ==
    ASSUME UInv, NEW j \in JobIds, Panic(j)
    PROVE  UInv'
<1> DEFINE x == [jobs[j] EXCEPT !.retryable = FALSE]
<1>1. /\ worker \in [JobIds -> [at : Stages, try : 0 .. Len(tries), late : BOOLEAN]]
      /\ status \in [JobIds -> [phase : Phases, submission : BOOLEAN]]
      /\ chunks \in [Keys -> [Chunks -> 0 .. Len(jobs)]]
      /\ faults \in Nat
  BY DEF UInv, TypeOK
<1>2. /\ worker[j].at \in {"copy", "validate", "store"} /\ worker'[j].at = "failing"
      /\ worker'[j].try = worker[j].try
      /\ \A i \in JobIds \ {j} : worker'[i] = worker[i]
      /\ worker' \in [JobIds -> [at : Stages, try : 0 .. Len(tries), late : BOOLEAN]]
  BY <1>1 DEF Stages, Panic, Fault, SetStatus
<1>3. /\ jobs[j] \in JobType /\ j \in DOMAIN jobs /\ jobs[j].state = "processing"
  BY <1>2, Standing
<1>4. x \in JobType /\ jobs' = [jobs EXCEPT ![j] = x]
  BY <1>3 DEF JobType, Panic, Fault, SetStatus
<1>5. jobs'[j] = x
  BY <1>3, <1>4, Rewrite DEF UInv
<1>6. /\ status'[j].submission = status[j].submission
      /\ \A i \in JobIds \ {j} : status'[i] = status[i]
      /\ status' \in [JobIds -> [phase : Phases, submission : BOOLEAN]]
  BY <1>1 DEF Phases, Panic, Fault, SetStatus
<1>7. /\ UNCHANGED <<registry, request, tries, archive, events, stored, restarts>>
      /\ faults' \in Nat
  BY <1>1 DEF Panic, Fault, SetStatus
<1>8. ChunksKept(j) /\ chunks' \in [Keys -> [Chunks -> 0 .. Len(jobs)]]
  BY <1>1 DEF ChunksKept, Panic
<1>9. LocallySound(j)
  BY <1>2, <1>3, <1>5, <1>6, <1>7, Standing DEF LocallySound, Inserting, JobType
<1> QED
  BY <1>2, <1>3, <1>4, <1>6, <1>7, <1>8, <1>9, RewritingStep DEF JobType

LEMMA EndStep ==
    ASSUME UInv, NEW j \in JobIds, End(j)
    PROVE  UInv'
<1> DEFINE x == [jobs[j] EXCEPT !.state = "failed", !.old = FALSE]
<1>1. /\ worker \in [JobIds -> [at : Stages, try : 0 .. Len(tries), late : BOOLEAN]]
      /\ status \in [JobIds -> [phase : Phases, submission : BOOLEAN]]
      /\ chunks \in [Keys -> [Chunks -> 0 .. Len(jobs)]]
      /\ faults \in Nat
  BY DEF UInv, TypeOK
<1>2. /\ worker[j].at \in {"failing"} /\ worker'[j].at = "off"
      /\ worker'[j].try = worker[j].try
      /\ \A i \in JobIds \ {j} : worker'[i] = worker[i]
      /\ worker' \in [JobIds -> [at : Stages, try : 0 .. Len(tries), late : BOOLEAN]]
  BY <1>1 DEF Stages, End, Step, SetStatus
<1>3. /\ jobs[j] \in JobType /\ j \in DOMAIN jobs /\ jobs[j].state = "processing"
  BY <1>2, Standing
<1>4. x \in JobType /\ jobs' = [jobs EXCEPT ![j] = x]
  BY <1>3 DEF JobType, End, Step, SetStatus
<1>5. jobs'[j] = x
  BY <1>3, <1>4, Rewrite DEF UInv
<1>6. /\ status'[j].submission = status[j].submission
      /\ \A i \in JobIds \ {j} : status'[i] = status[i]
      /\ status' \in [JobIds -> [phase : Phases, submission : BOOLEAN]]
  BY <1>1 DEF Phases, End, Step, SetStatus
<1>7. /\ UNCHANGED <<registry, request, tries, archive, events, stored, restarts>>
      /\ faults' \in Nat
  BY <1>1 DEF End, Step, SetStatus
<1>8. ChunksKept(j) /\ chunks' \in [Keys -> [Chunks -> 0 .. Len(jobs)]]
  BY <1>1 DEF ChunksKept, End
<1>9. LocallySound(j)
  BY <1>2, <1>3, <1>5, <1>6, <1>7, Standing DEF LocallySound, Inserting, JobType
<1> QED
  BY <1>2, <1>3, <1>4, <1>6, <1>7, <1>8, <1>9, RewritingStep DEF JobType

LEMMA SucceedStep ==
    ASSUME UInv, NEW j \in JobIds, Succeed(j)
    PROVE  UInv'
<1> DEFINE x == [jobs[j] EXCEPT !.state = "succeeded", !.old = FALSE]
<1>1. /\ worker \in [JobIds -> [at : Stages, try : 0 .. Len(tries), late : BOOLEAN]]
      /\ status \in [JobIds -> [phase : Phases, submission : BOOLEAN]]
      /\ chunks \in [Keys -> [Chunks -> 0 .. Len(jobs)]]
      /\ faults \in Nat
  BY DEF UInv, TypeOK
<1>2. /\ worker[j].at \in {"done"} /\ worker'[j].at = "off"
      /\ worker'[j].try = worker[j].try
      /\ \A i \in JobIds \ {j} : worker'[i] = worker[i]
      /\ worker' \in [JobIds -> [at : Stages, try : 0 .. Len(tries), late : BOOLEAN]]
  BY <1>1 DEF Stages, Succeed, Step, Fault
<1>3. /\ jobs[j] \in JobType /\ j \in DOMAIN jobs /\ jobs[j].state = "processing"
  BY <1>2, Standing
<1>4. x \in JobType /\ jobs' = [jobs EXCEPT ![j] = x]
  BY <1>3 DEF JobType, Succeed, Step, Fault
<1>5. jobs'[j] = x
  BY <1>3, <1>4, Rewrite DEF UInv
<1>6. /\ status'[j].submission = status[j].submission
      /\ \A i \in JobIds \ {j} : status'[i] = status[i]
      /\ status' \in [JobIds -> [phase : Phases, submission : BOOLEAN]]
  BY <1>1 DEF Phases, Succeed, Step, Fault
<1>7. /\ UNCHANGED <<registry, request, tries, archive, events, stored, restarts>>
      /\ faults' \in Nat
  BY <1>1 DEF Succeed, Step, Fault
<1>8. ChunksKept(j) /\ chunks' \in [Keys -> [Chunks -> 0 .. Len(jobs)]]
  <2>1. PICK kept \in SUBSET Chunks :
          chunks' = [chunks EXCEPT ![jobs[j].key] = Deleted(jobs[j].key, kept)]
    BY DEF Succeed
  <2>2. jobs[j].key \in Keys /\ jobs'[j].state # "processing"
    BY <1>3, <1>5 DEF JobType
  <2> QED
    BY <1>1, <2>1, <2>2, Shape DEF ChunksKept, Deleted, UInv
<1>9. LocallySound(j)
  BY <1>2, <1>3, <1>5, <1>6, <1>7, Standing DEF LocallySound, Inserting, JobType
<1> QED
  BY <1>2, <1>3, <1>4, <1>6, <1>7, <1>8, <1>9, RewritingStep DEF JobType

\* A late progress report.
LEMMA ReportLateStep ==
    ASSUME UInv, NEW j \in JobIds, ReportLate(j)
    PROVE  UInv'
<1>1. /\ worker' = [worker EXCEPT ![j].late = FALSE]
      /\ status' = [status EXCEPT ![j].phase = "copying"]
      /\ UNCHANGED <<jobs, registry, request, chunks, tries, archive, events,
                     stored, faults, restarts>>
  BY DEF ReportLate, SetStatus
<1>2. TypeOK'
  BY <1>1 DEF UInv, TypeOK, Phases
<1>3. WorkerInv'
  <2>1. QuietStep
    BY <1>1, Shape DEF QuietStep, UInv, TypeOK
  <2> QED
    BY <2>1, QuietStepKeepsWorkerInv
<1>4. RegistryInv'
  BY <1>1 DEF UInv, RegistryInv, Pinned, Counted, Holders, Known, Kept, Registered,
              ChunksOwned, InputIntact
<1> QED
  BY <1>2, <1>3, <1>4 DEF UInv

-----------------------------------------------------------------------------
(* The handlers *)

\* Registered jobs exist, and a key has one.
LEMMA RegistryShape ==
    ASSUME UInv
    PROVE  /\ registry \in [Keys -> 0 .. Len(jobs)]
           /\ \A k \in Keys : registry[k] # 0 => registry[k] \in DOMAIN jobs
           /\ \A k \in Keys : \A j \in DOMAIN jobs :
                registry[k] = j => jobs[j].key = k
           /\ \A k \in Keys : \A c \in Chunks :
                chunks[k][c] # 0 => chunks[k][c] \in DOMAIN jobs
           /\ \A k \in Keys : chunks[k] \in [Chunks -> 0 .. Len(jobs)]
  BY Shape DEF UInv, TypeOK, RegistryInv, Known

LEMMA HoldersFinite ==
    ASSUME NEW j
    PROVE  IsFiniteSet(Holders(j)) /\ Cardinality(Holders(j)) \in Nat
<1>1. Holders(j) \subseteq Requests
  BY DEF Holders
<1> QED
  BY <1>1, UploadAssumption, FS_Subset, FS_CardinalityType

\* A request pins job j: it is counted once.
LEMMA Pinning ==
    ASSUME NEW q \in Requests, NEW j, request[q].at = "idle",
           \A p \in Requests \ {q} : request'[p] = request[p],
           request'[q].at # "idle", request'[q].job = j
    PROVE  /\ \A i : i # j => Holders(i)' = Holders(i)
           /\ Cardinality(Holders(j)') = Cardinality(Holders(j)) + 1
<1>1. \A i : i # j => Holders(i)' = Holders(i)
  BY DEF Holders
<1>2. Holders(j)' = Holders(j) \cup {q} /\ q \notin Holders(j)
  BY DEF Holders
<1> QED
  BY <1>1, <1>2, HoldersFinite, FS_AddElement

\* What the sweep spares: jobs that are pinned or processing.
LEMMA SweepSpares ==
    ASSUME UInv, NEW k \in Keys, Sweepable(k)
    PROVE  /\ registry[k] \in DOMAIN jobs
           /\ jobs[registry[k]].state # "processing"
           /\ Holders(registry[k]) = {}
<1> DEFINE j == registry[k]
<1>1. j \in DOMAIN jobs /\ jobs[j].state # "processing" /\ jobs[j].refs = 0
  BY RegistryShape DEF Sweepable
<1>2. Cardinality(Holders(j)) = 0
  BY <1>1 DEF UInv, RegistryInv, Counted
<1> QED
  BY <1>1, <1>2, HoldersFinite, FS_EmptySet

LEMMA acquireUploadJobStep ==
    ASSUME UInv, NEW q \in Requests, NEW k \in Keys, NEW target \in Targets,
           acquireUploadJob(q, k, target)
    PROVE  UInv'
<1> DEFINE expired == {x \in Keys : Sweepable(x)}
           RequestType(n) == [at : {"idle", "serve", "release"},
                              job : 0 .. n, target : Targets \cup {0}]
<1>1. PICK fresh \in Nat : fresh = Len(jobs) + 1
  BY Shape DEF UInv
<1>2. PICK cleaned \in SUBSET expired, kept \in SUBSET Chunks :
        /\ IF cleaned = expired THEN kept = {} /\ UNCHANGED faults ELSE Fault
        /\ chunks' = [x \in Keys |-> IF x \in cleaned THEN NoChunks
                                     ELSE IF x \in expired THEN Deleted(x, kept)
                                     ELSE chunks[x]]
        /\ status' = [j \in JobIds |-> IF \E x \in cleaned : registry[x] = j
                                       THEN NoStatus ELSE status[j]]
        /\ Pin(q, k, target,
               [x \in Keys |-> IF x \in cleaned THEN 0 ELSE registry[x]])
  BY DEF acquireUploadJob
<1> DEFINE swept == [x \in Keys |-> IF x \in cleaned THEN 0 ELSE registry[x]]
<1>3. /\ request[q].at = "idle"
      /\ UNCHANGED <<worker, tries, archive, events, stored, restarts>>
  BY DEF acquireUploadJob
<1>4. /\ request \in [Requests -> RequestType(Len(jobs))]
      /\ status \in [JobIds -> [phase : Phases, submission : BOOLEAN]]
      /\ faults \in Nat
  BY DEF UInv, TypeOK
<1>5. /\ Len(jobs) \in Nat /\ DOMAIN jobs = 1 .. Len(jobs)
      /\ \A j \in DOMAIN jobs : jobs[j] \in JobType
      /\ fresh \notin DOMAIN jobs /\ fresh # 0
  BY <1>1, Shape DEF UInv
<1>6. /\ swept \in [Keys -> 0 .. Len(jobs)]
      /\ \A x \in Keys : swept[x] # 0 => swept[x] = registry[x]
      /\ \A x \in Keys : registry[x] \in DOMAIN jobs
            /\ (jobs[registry[x]].state = "processing" \/ Holders(registry[x]) # {})
                => swept[x] = registry[x]
  BY <1>5, RegistryShape, SweepSpares
<1>7. /\ chunks' \in [Keys -> [Chunks -> 0 .. Len(jobs)]]
      /\ \A x \in Keys : \A c \in Chunks : chunks'[x][c] # 0 =>
            x \notin cleaned /\ chunks'[x][c] = chunks[x][c]
      /\ \A x \in Keys : x \notin expired => chunks'[x] = chunks[x]
  <2> SUFFICES ASSUME NEW x \in Keys
               PROVE  /\ chunks'[x] \in [Chunks -> 0 .. Len(jobs)]
                      /\ \A c \in Chunks : chunks'[x][c] # 0 =>
                            x \notin cleaned /\ chunks'[x][c] = chunks[x][c]
                      /\ x \notin expired => chunks'[x] = chunks[x]
    BY <1>2
  <2>1. chunks[x] \in [Chunks -> 0 .. Len(jobs)]
    BY RegistryShape
  <2>2. CASE x \in cleaned
    BY <1>2, <1>5, <2>2 DEF NoChunks
  <2>3. CASE x \notin cleaned /\ x \in expired
    BY <1>2, <1>5, <2>1, <2>3 DEF Deleted
  <2>4. CASE x \notin expired
    BY <1>2, <2>1, <2>4
  <2> QED
    BY <2>2, <2>3, <2>4
<1>8. /\ status' \in [JobIds -> [phase : Phases, submission : BOOLEAN]]
      /\ \A j \in JobIds : status'[j].submission => status[j].submission
  BY <1>2, <1>4 DEF NoStatus, Phases
<1>9. faults' \in Nat
  BY <1>2, <1>4 DEF Fault
<1>10. \A i \in DOMAIN jobs : jobs[i].state = "processing" => \A c \in Chunks :
         LET owner == chunks'[jobs[i].key][c] IN
           /\ owner # 0 /\ owner \in DOMAIN jobs
           /\ owner = i \/ jobs[owner].state = "lost"
  <2> SUFFICES ASSUME NEW i \in DOMAIN jobs, jobs[i].state = "processing"
               PROVE  chunks'[jobs[i].key] = chunks[jobs[i].key] /\ jobs[i].key \in Keys
    BY RegistryShape DEF UInv, RegistryInv, InputIntact
  <2>1. PICK x \in Keys : registry[x] = i
    BY DEF UInv, RegistryInv, Kept, Registered
  <2>2. jobs[i].key = x /\ x \notin expired
    BY <2>1, RegistryShape, SweepSpares
  <2> QED
    BY <1>7, <2>2
<1>11. \A x \in Keys : x \notin cleaned => swept[x] = registry[x]
  OBVIOUS
<1> HIDE DEF expired, swept
<1>12. CASE swept[k] # 0 /\ registry' = swept
           /\ jobs' = [jobs EXCEPT ![swept[k]].refs = @ + 1]
           /\ request' = [request EXCEPT ![q] =
                            [at |-> "serve", job |-> swept[k], target |-> target]]
  <2>1. PICK j \in DOMAIN jobs : j = swept[k] /\ registry[k] = j
    BY <1>5, <1>6, <1>12
  <2>2. [jobs[j] EXCEPT !.refs = @ + 1] \in JobType
    BY <1>5, <2>1 DEF JobType
  <2>3. /\ jobs' \in Seq(JobType) /\ Len(jobs') = Len(jobs) /\ DOMAIN jobs' = DOMAIN jobs
        /\ jobs'[j] = [jobs[j] EXCEPT !.refs = @ + 1]
        /\ \A i \in DOMAIN jobs \ {j} : jobs'[i] = jobs[i]
    BY <1>12, <2>1, <2>2, Rewrite DEF UInv
  <2>4. \A i \in DOMAIN jobs : /\ jobs'[i].key = jobs[i].key
                               /\ jobs'[i].state = jobs[i].state
                               /\ jobs'[i].retryable = jobs[i].retryable
    <3> SUFFICES ASSUME NEW i \in DOMAIN jobs
                 PROVE  /\ jobs'[i].key = jobs[i].key
                        /\ jobs'[i].state = jobs[i].state
                        /\ jobs'[i].retryable = jobs[i].retryable
      OBVIOUS
    <3>1. CASE i = j
      BY <1>5, <2>1, <2>3, <3>1 DEF JobType
    <3>2. CASE i # j
      BY <2>3, <3>2
    <3> QED
      BY <3>1, <3>2
  <2>5. /\ \A i : i # j => Holders(i)' = Holders(i)
        /\ Cardinality(Holders(j)') = Cardinality(Holders(j)) + 1
    <3>1. /\ \A p \in Requests \ {q} : request'[p] = request[p]
          /\ request'[q].at # "idle" /\ request'[q].job = j
      BY <1>4, <1>12, <2>1
    <3> QED
      BY <1>3, <3>1, Pinning
  <2>6. Counted'
    <3> SUFFICES ASSUME NEW i \in DOMAIN jobs
                 PROVE  jobs'[i].refs = Cardinality(Holders(i)')
      BY <2>3 DEF Counted
    <3>1. jobs[i].refs = Cardinality(Holders(i))
      BY DEF UInv, RegistryInv, Counted
    <3>2. CASE i = j
      <4>1. jobs'[j].refs = jobs[j].refs + 1
        BY <1>5, <2>1, <2>3 DEF JobType
      <4> QED
        BY <2>5, <3>1, <3>2, <4>1
    <3>3. CASE i # j
      BY <2>3, <2>5, <3>1, <3>3
    <3> QED
      BY <3>2, <3>3
  <2>7. Pinned'
    <3>1. \A p \in Requests \ {q} : request'[p] = request[p]
      BY <1>4, <1>12
    <3>2. request'[q].job = j
      BY <1>4, <1>12, <2>1
    <3>3. \A p \in Requests : request[p].at # "idle" =>
            \E x \in Keys : swept[x] = request[p].job
      BY <1>6 DEF UInv, RegistryInv, Pinned, Registered, Holders
    <3> QED
      BY <1>12, <2>1, <2>3, <3>1, <3>2, <3>3 DEF UInv, RegistryInv, Pinned, Registered
  <2>8. Known' /\ Kept'
    BY <1>5, <1>6, <1>12, <2>3, <2>4, RegistryShape
       DEF UInv, RegistryInv, Known, Kept, Registered
  <2>9. ChunksOwned'
    <3> SUFFICES ASSUME NEW y \in Keys, NEW c \in Chunks, chunks'[y][c] # 0
                 PROVE  \/ jobs'[chunks'[y][c]].state = "lost"
                        \/ registry'[y] = chunks'[y][c]
      BY DEF ChunksOwned
    <3> DEFINE i == chunks'[y][c]
    <3>1. y \notin cleaned /\ i = chunks[y][c] /\ i \in DOMAIN jobs
      BY <1>7, RegistryShape
    <3>2. CASE jobs[i].state = "lost"
      BY <2>4, <3>1, <3>2
    <3>3. CASE registry[y] = i
      <4>1. swept[y] = i /\ i # 0
        BY <1>5, <1>11, <3>1, <3>3
      <4> QED
        BY <1>6, <1>12, <4>1
    <3> QED
      BY <3>1, <3>2, <3>3 DEF UInv, RegistryInv, ChunksOwned
  <2>10. InputIntact'
    BY <1>5, <1>10, <1>12, <2>3, <2>4 DEF InputIntact
  <2>11. TypeOK'
    BY <1>2, <1>3, <1>4, <1>5, <1>6, <1>7, <1>8, <1>9, <1>12, <2>1, <2>3 DEF UInv, TypeOK
  <2>12. WorkerInv'
    BY <1>3, <1>8, <2>3, <2>4, QuietStepKeepsWorkerInv DEF QuietStep
  <2> QED
    BY <2>6, <2>7, <2>8, <2>9, <2>10, <2>11, <2>12 DEF UInv, RegistryInv
<1>13. CASE swept[k] = 0 /\ fresh <= MaxJobs /\ registry' = [swept EXCEPT ![k] = fresh]
            /\ jobs' = Append(jobs, [NewJob(k, target) EXCEPT !.refs = 1])
            /\ request' = [request EXCEPT ![q] =
                             [at |-> "serve", job |-> fresh, target |-> target]]
  <2> DEFINE x == [NewJob(k, target) EXCEPT !.refs = 1]
  <2>1. x \in JobType /\ x.key = k /\ x.state = "receiving" /\ x.refs = 1
    BY DEF NewJob, JobType
  <2>2. /\ jobs' \in Seq(JobType) /\ Len(jobs') = fresh
        /\ DOMAIN jobs' = DOMAIN jobs \cup {fresh} /\ jobs'[fresh] = x
        /\ \A i \in DOMAIN jobs : jobs'[i] = jobs[i]
    BY <1>13, <1>1, <2>1, Register DEF UInv
  <2> HIDE DEF x
  <2>3. \A y \in Keys : registry'[y] = IF y = k THEN fresh ELSE swept[y]
    BY <1>6, <1>13
  <2>4. /\ \A i : i # fresh => Holders(i)' = Holders(i)
        /\ Cardinality(Holders(fresh)') = Cardinality(Holders(fresh)) + 1
    <3>1. /\ \A p \in Requests \ {q} : request'[p] = request[p]
          /\ request'[q].at # "idle" /\ request'[q].job = fresh
      BY <1>4, <1>13
    <3> QED
      BY <1>3, <3>1, Pinning
  <2>5. Cardinality(Holders(fresh)) = 0
    <3>1. Holders(fresh) = {}
      BY <1>5 DEF UInv, RegistryInv, Pinned, Holders
    <3> QED
      BY <3>1, FS_EmptySet
  <2>6. Counted'
    <3> SUFFICES ASSUME NEW i \in DOMAIN jobs \cup {fresh}
                 PROVE  jobs'[i].refs = Cardinality(Holders(i)')
      BY <2>2 DEF Counted
    <3>1. CASE i = fresh
      BY <2>1, <2>2, <2>4, <2>5, <3>1
    <3>2. CASE i # fresh
      BY <2>2, <2>4, <3>2 DEF UInv, RegistryInv, Counted
    <3> QED
      BY <3>1, <3>2
  <2>7. Pinned'
    <3>1. \A p \in Requests \ {q} : request'[p] = request[p]
      BY <1>4, <1>13
    <3>2. request'[q].job = fresh
      BY <1>4, <1>13
    <3>3. \A p \in Requests : request[p].at # "idle" =>
            \E y \in Keys : swept[y] = request[p].job /\ request[p].job \in DOMAIN jobs
      BY <1>6 DEF UInv, RegistryInv, Pinned, Registered, Holders
    <3>4. \A p \in Requests : request[p].at # "idle" =>
            \E y \in Keys : registry'[y] = request[p].job /\ request[p].job \in DOMAIN jobs
      BY <1>5, <1>13, <2>3, <3>3
    <3> QED
      BY <2>2, <2>3, <3>1, <3>2, <3>4 DEF Pinned, Registered
  <2>8. Known'
    <3> SUFFICES ASSUME NEW y \in Keys, registry'[y] # 0
                 PROVE  /\ jobs'[registry'[y]].key = y
                        /\ jobs'[registry'[y]].state # "lost"
      BY DEF Known
    <3>1. CASE y = k
      BY <2>1, <2>2, <2>3, <3>1
    <3>2. CASE y # k
      <4>1. registry'[y] = registry[y] /\ registry[y] # 0 /\ registry[y] \in DOMAIN jobs
        BY <1>6, <2>3, <3>2, RegistryShape
      <4> QED
        BY <2>2, <4>1 DEF UInv, RegistryInv, Known
    <3> QED
      BY <3>1, <3>2
  <2>9. Kept'
    <3> SUFFICES ASSUME NEW i \in DOMAIN jobs, jobs[i].state = "processing"
                 PROVE  \E y \in Keys : registry'[y] = i
      BY <2>1, <2>2 DEF Kept, Registered
    <3>1. PICK y \in Keys : registry[y] = i
      BY DEF UInv, RegistryInv, Kept, Registered
    <3>2. swept[y] = i /\ i # 0
      BY <1>5, <1>6, <3>1
    <3> QED
      BY <1>13, <2>3, <3>2
  <2>10. ChunksOwned'
    <3> SUFFICES ASSUME NEW y \in Keys, NEW c \in Chunks, chunks'[y][c] # 0
                 PROVE  \/ jobs'[chunks'[y][c]].state = "lost"
                        \/ registry'[y] = chunks'[y][c]
      BY DEF ChunksOwned
    <3> DEFINE i == chunks'[y][c]
    <3>1. y \notin cleaned /\ i = chunks[y][c] /\ i \in DOMAIN jobs
      BY <1>7, RegistryShape
    <3>2. CASE jobs[i].state = "lost"
      BY <2>2, <3>1, <3>2
    <3>3. CASE registry[y] = i
      <4>1. swept[y] = i /\ i # 0
        BY <1>5, <1>11, <3>1, <3>3
      <4> QED
        BY <1>6, <1>13, <2>3, <4>1
    <3> QED
      BY <3>1, <3>2, <3>3 DEF UInv, RegistryInv, ChunksOwned
  <2>11. InputIntact'
    <3> SUFFICES ASSUME NEW i \in DOMAIN jobs, jobs[i].state = "processing",
                        NEW c \in Chunks
                 PROVE  LET owner == chunks'[jobs[i].key][c] IN
                          owner # 0 /\ (owner = i \/ jobs'[owner].state = "lost")
      BY <2>1, <2>2 DEF InputIntact
    <3> QED
      BY <1>10, <2>2
  <2>12. TypeOK'
    <3>1. registry' \in [Keys -> 0 .. Len(jobs')]
      BY <1>5, <1>6, <1>13, <2>2
    <3>2. chunks' \in [Keys -> [Chunks -> 0 .. Len(jobs')]]
      BY <1>5, <1>7, <2>2
    <3>3. request' \in [Requests -> RequestType(Len(jobs'))]
      BY <1>4, <1>5, <1>13, <2>2
    <3>4. tries' \in Seq(1 .. Len(jobs'))
      <4>1. tries \in Seq(1 .. Len(jobs))
        BY DEF UInv, TypeOK
      <4>2. 1 .. Len(jobs) \subseteq 1 .. Len(jobs')
        BY <1>5, <2>2
      <4> QED
        BY <1>3, <4>1, <4>2, SeqMonotonic
    <3> QED
      BY <1>3, <1>8, <1>9, <1>13, <2>2, <3>1, <3>2, <3>3, <3>4 DEF UInv, TypeOK
  <2>13. WorkerInv'
    BY <1>3, <1>8, <2>2, QuietStepKeepsWorkerInv DEF QuietStep
  <2> QED
    BY <2>6, <2>7, <2>8, <2>9, <2>10, <2>11, <2>12, <2>13 DEF UInv, RegistryInv
<1>14. CASE registry' = swept /\ UNCHANGED <<jobs, request>>
  <2>1. Counted'
    BY <1>14 DEF UInv, RegistryInv, Counted, Holders
  <2>2. Pinned'
    BY <1>6, <1>14 DEF UInv, RegistryInv, Pinned, Registered, Holders
  <2>3. Known' /\ Kept'
    BY <1>5, <1>6, <1>14, RegistryShape DEF UInv, RegistryInv, Known, Kept, Registered
  <2>4. ChunksOwned'
    BY <1>6, <1>7, <1>14, RegistryShape DEF UInv, RegistryInv, ChunksOwned, swept
  <2>5. InputIntact'
    BY <1>5, <1>10, <1>14 DEF InputIntact
  <2>6. TypeOK'
    BY <1>3, <1>6, <1>7, <1>8, <1>9, <1>14 DEF UInv, TypeOK
  <2>7. WorkerInv'
    BY <1>3, <1>8, <1>14, QuietStepKeepsWorkerInv DEF QuietStep
  <2> QED
    BY <2>1, <2>2, <2>3, <2>4, <2>5, <2>6, <2>7 DEF UInv, RegistryInv
<1> QED
  BY <1>2, <1>12, <1>13, <1>14, <1>1 DEF Pin, swept

\* A step that touches jobs and chunks that are being received, and moves no
\* pin.
LEMMA TouchingStep ==
    ASSUME UInv, NEW j \in DOMAIN jobs,
           jobs' \in Seq(JobType), Len(jobs') = Len(jobs), DOMAIN jobs' = DOMAIN jobs,
           \A i \in DOMAIN jobs :
              /\ jobs'[i].key = jobs[i].key /\ jobs'[i].refs = jobs[i].refs
              /\ jobs'[i].retryable = jobs[i].retryable
              /\ \/ jobs'[i].state = jobs[i].state
                 \/ /\ jobs[i].state = "failed" /\ jobs[i].retryable
                    /\ jobs'[i].state = "receiving",
           request' \in [Requests -> [at : {"idle", "serve", "release"},
                                      job : 0 .. Len(jobs), target : Targets \cup {0}]],
           \A q \in Requests : /\ request'[q].at # "idle" <=> request[q].at # "idle"
                               /\ request'[q].job = request[q].job,
           chunks' \in [Keys -> [Chunks -> 0 .. Len(jobs)]],
           \A k \in Keys : \A c \in Chunks :
              \/ chunks'[k][c] = chunks[k][c]
              \/ /\ chunks'[k][c] = j /\ registry[k] = j
                 /\ jobs[j].state # "processing",
           UNCHANGED <<registry, worker, status, tries, archive, events, stored, restarts>>,
           faults' \in Nat
    PROVE  UInv'
<1>1. TypeOK'
  BY DEF UInv, TypeOK
<1>2. WorkerInv'
  BY QuietStepKeepsWorkerInv DEF QuietStep
<1>3. /\ Pinned /\ Counted /\ Known /\ Kept /\ ChunksOwned /\ InputIntact
      /\ registry' = registry
      /\ \A k \in Keys : registry[k] # 0 => registry[k] \in DOMAIN jobs
      /\ \A k \in Keys : \A i \in DOMAIN jobs : registry[k] = i => jobs[i].key = k
      /\ \A k \in Keys : \A c \in Chunks : chunks[k][c] # 0 => chunks[k][c] \in DOMAIN jobs
      /\ DOMAIN jobs = 1 .. Len(jobs) /\ Len(jobs) \in Nat
  BY RegistryShape, Shape DEF UInv, RegistryInv
<1>4. Pinned' /\ Counted'
  <2>1. \A i : Holders(i)' = Holders(i)
    BY DEF Holders
  <2>2. Pinned'
    BY <1>3 DEF Pinned, Registered
  <2>3. Counted'
    BY <1>3, <2>1 DEF Counted
  <2> QED
    BY <2>2, <2>3
<1>5. Known'
  <2> SUFFICES ASSUME NEW k \in Keys, registry[k] # 0
               PROVE  jobs'[registry[k]].key = k /\ jobs'[registry[k]].state # "lost"
    BY <1>3 DEF Known
  <2>1. PICK i \in DOMAIN jobs : i = registry[k]
    BY <1>3
  <2>2. jobs[i].key = k /\ jobs[i].state # "lost"
    BY <1>3, <2>1 DEF Known
  <2> QED
    BY <2>1, <2>2
<1>6. Kept'
  BY <1>3 DEF Kept, Registered
<1>7. ChunksOwned'
  <2> SUFFICES ASSUME NEW k \in Keys, NEW c \in Chunks, chunks'[k][c] # 0
               PROVE  \/ jobs'[chunks'[k][c]].state = "lost"
                      \/ registry[k] = chunks'[k][c]
    BY <1>3 DEF ChunksOwned
  <2>1. CASE chunks'[k][c] = chunks[k][c]
    <3>1. PICK i \in DOMAIN jobs : i = chunks[k][c]
      BY <1>3, <2>1
    <3>2. jobs[i].state = "lost" \/ registry[k] = i
      BY <1>3, <3>1 DEF ChunksOwned
    <3>3. jobs[i].state = "lost" => jobs'[i].state = "lost"
      OBVIOUS
    <3> QED
      BY <2>1, <3>1, <3>2, <3>3
  <2>2. CASE chunks'[k][c] # chunks[k][c]
    BY <2>2
  <2> QED
    BY <2>1, <2>2
<1>8. InputIntact'
  <2> SUFFICES ASSUME NEW i \in DOMAIN jobs, jobs[i].state = "processing",
                      NEW c \in Chunks
               PROVE  LET owner == chunks'[jobs[i].key][c] IN
                        owner # 0 /\ (owner = i \/ jobs'[owner].state = "lost")
    BY DEF InputIntact
  <2>1. PICK k \in Keys : registry[k] = i /\ jobs[i].key = k
    BY <1>3 DEF Kept, Registered
  <2>2. chunks'[k][c] = chunks[k][c]
    BY <2>1
  <2>3. /\ chunks[k][c] # 0
        /\ chunks[k][c] = i \/ jobs[chunks[k][c]].state = "lost"
    BY <1>3, <2>1 DEF InputIntact
  <2>4. jobs[chunks[k][c]].state = "lost" => jobs'[chunks[k][c]].state = "lost"
    BY <1>3, <2>3
  <2> QED
    BY <2>1, <2>2, <2>3, <2>4
<1> QED
  BY <1>1, <1>2, <1>4, <1>5, <1>6, <1>7, <1>8 DEF UInv, RegistryInv

\* The job a request has pinned, and what the request makes of it.
LEMMA PinnedJob ==
    ASSUME UInv, NEW q \in Requests, request[q].at # "idle"
    PROVE  LET j == request[q].job IN
           /\ j \in DOMAIN jobs /\ jobs[j] \in JobType
           /\ jobs[j].key \in Keys /\ registry[jobs[j].key] = j
<1>1. /\ request[q].job \in DOMAIN jobs
      /\ \E k \in Keys : registry[k] = request[q].job
  BY DEF UInv, RegistryInv, Pinned, Registered
<1> QED
  BY <1>1, RegistryShape, Shape DEF UInv

LEMMA TouchedShape ==
    ASSUME NEW job \in JobType, NEW r \in 0 .. MaxRetry
    PROVE  LET x == Touched(job, r) IN
           /\ x \in JobType /\ x.key = job.key /\ x.refs = job.refs
           /\ x.retryable = job.retryable
           /\ \/ x.state = job.state
              \/ job.state = "failed" /\ job.retryable /\ x.state = "receiving"
<1> DEFINE x == Touched(job, r)
<1>1. r \in Nat
  BY UploadAssumption
<1>2. CASE AsksForRetry(job, r) /\ MayRetry(job, r)
  <2>1. x = [job EXCEPT !.old = FALSE, !.attempt = r, !.state = "receiving"]
    BY <1>2 DEF Touched
  <2>2. job.state = "failed" /\ job.retryable
    BY <1>2 DEF AsksForRetry, MayRetry
  <2> HIDE DEF x
  <2> QED
    BY <1>1, <2>1, <2>2 DEF JobType, x
<1>3. CASE ~ (AsksForRetry(job, r) /\ MayRetry(job, r))
  <2>1. x = [job EXCEPT !.old = FALSE]
    BY <1>3 DEF Touched
  <2> HIDE DEF x
  <2> QED
    BY <2>1 DEF JobType, x
<1> QED
  BY <1>2, <1>3

LEMMA AgeStep ==
    ASSUME UInv, NEW j \in JobIds, Age(j)
    PROVE  UInv'
<1>1. /\ j \in DOMAIN jobs /\ jobs' = [jobs EXCEPT ![j].old = TRUE]
      /\ UNCHANGED <<registry, request, worker, status, chunks, tries, archive,
                     events, stored, faults, restarts>>
  BY DEF Age
<1>2. jobs[j] \in JobType /\ [jobs[j] EXCEPT !.old = TRUE] \in JobType
  BY <1>1, Shape DEF UInv, JobType
<1>3. /\ jobs' \in Seq(JobType) /\ Len(jobs') = Len(jobs) /\ DOMAIN jobs' = DOMAIN jobs
      /\ jobs'[j] = [jobs[j] EXCEPT !.old = TRUE]
      /\ \A i \in DOMAIN jobs \ {j} : jobs'[i] = jobs[i]
  BY <1>1, <1>2, Rewrite DEF UInv
<1>4. /\ request \in [Requests -> [at : {"idle", "serve", "release"},
                                   job : 0 .. Len(jobs), target : Targets \cup {0}]]
      /\ chunks \in [Keys -> [Chunks -> 0 .. Len(jobs)]] /\ faults \in Nat
  BY DEF UInv, TypeOK
<1>5. /\ jobs'[j].key = jobs[j].key /\ jobs'[j].refs = jobs[j].refs
      /\ jobs'[j].retryable = jobs[j].retryable /\ jobs'[j].state = jobs[j].state
  BY <1>2, <1>3 DEF JobType
<1> QED
  BY <1>1, <1>3, <1>4, <1>5, TouchingStep

\* Answer, PutChunkFails and the chunks that do not complete an upload.
LEMMA TouchedStep ==
    ASSUME UInv, NEW q \in Requests, request[q].at = "serve", Leave(q),
           NEW r \in 0 .. MaxRetry,
           \/ jobs' = jobs
           \/ jobs' = [jobs EXCEPT ![request[q].job] = Touched(jobs[request[q].job], r)],
           \/ chunks' = chunks
           \/ \E c \in Chunks :
                /\ chunks' = [chunks EXCEPT ![jobs[request[q].job].key] =
                                [chunks[jobs[request[q].job].key] EXCEPT ![c] = request[q].job]]
                /\ jobs[request[q].job].state # "processing",
           UNCHANGED <<registry, worker, status, tries, archive, events, stored, restarts>>,
           faults' \in Nat
    PROVE  UInv'
<1>1. PICK j \in DOMAIN jobs : /\ j = request[q].job /\ jobs[j] \in JobType
                               /\ jobs[j].key \in Keys /\ registry[jobs[j].key] = j
  BY PinnedJob
<1> DEFINE x == Touched(jobs[j], r)
<1>2. /\ x \in JobType /\ x.key = jobs[j].key /\ x.refs = jobs[j].refs
      /\ x.retryable = jobs[j].retryable
      /\ \/ x.state = jobs[j].state
         \/ jobs[j].state = "failed" /\ jobs[j].retryable /\ x.state = "receiving"
  BY <1>1, TouchedShape
<1>3. /\ jobs \in Seq(JobType)
      /\ request \in [Requests -> [at : {"idle", "serve", "release"},
                                   job : 0 .. Len(jobs), target : Targets \cup {0}]]
      /\ chunks \in [Keys -> [Chunks -> 0 .. Len(jobs)]]
      /\ Len(jobs) \in Nat /\ DOMAIN jobs = 1 .. Len(jobs)
  BY Shape DEF UInv, TypeOK
<1> HIDE DEF x
<1>4. /\ jobs' \in Seq(JobType) /\ Len(jobs') = Len(jobs) /\ DOMAIN jobs' = DOMAIN jobs
      /\ \A i \in DOMAIN jobs : jobs'[i] = jobs[i] \/ (i = j /\ jobs'[i] = x)
  <2>1. CASE jobs' = jobs
    BY <1>3, <2>1
  <2>2. CASE jobs' = [jobs EXCEPT ![j] = x]
    BY <1>2, <2>2, Rewrite DEF UInv
  <2> QED
    BY <1>1, <2>1, <2>2 DEF x
<1>5. /\ request' \in [Requests -> [at : {"idle", "serve", "release"},
                                    job : 0 .. Len(jobs), target : Targets \cup {0}]]
      /\ \A p \in Requests : /\ request'[p].at # "idle" <=> request[p].at # "idle"
                             /\ request'[p].job = request[p].job
  BY <1>3 DEF Leave
<1>6. /\ chunks' \in [Keys -> [Chunks -> 0 .. Len(jobs)]]
      /\ \A k \in Keys : \A c \in Chunks :
            \/ chunks'[k][c] = chunks[k][c]
            \/ chunks'[k][c] = j /\ registry[k] = j /\ jobs[j].state # "processing"
  <2>1. CASE chunks' = chunks
    BY <1>3, <2>1
  <2>2. ASSUME NEW d \in Chunks, jobs[j].state # "processing",
               chunks' = [chunks EXCEPT ![jobs[j].key] = [chunks[jobs[j].key] EXCEPT ![d] = j]]
        PROVE  /\ chunks' \in [Keys -> [Chunks -> 0 .. Len(jobs)]]
               /\ \A k \in Keys : \A c \in Chunks :
                     chunks'[k][c] = chunks[k][c] \/ (chunks'[k][c] = j /\ registry[k] = j)
    <3>1. [chunks[jobs[j].key] EXCEPT ![d] = j] \in [Chunks -> 0 .. Len(jobs)]
      BY <1>1, <1>3
    <3> QED
      BY <1>1, <1>3, <2>2, <3>1
  <2> QED
    BY <1>1, <2>1, <2>2
<1>7. \A i \in DOMAIN jobs :
        /\ jobs'[i].key = jobs[i].key /\ jobs'[i].refs = jobs[i].refs
        /\ jobs'[i].retryable = jobs[i].retryable
        /\ \/ jobs'[i].state = jobs[i].state
           \/ /\ jobs[i].state = "failed" /\ jobs[i].retryable
              /\ jobs'[i].state = "receiving"
  BY <1>2, <1>4
<1> QED
  BY <1>4, <1>5, <1>6, <1>7, TouchingStep

LEMMA AnswerStep ==
    ASSUME UInv, NEW q \in Requests, NEW r \in 0 .. MaxRetry, Answer(q, r)
    PROVE  UInv'
<1>1. faults \in Nat
  BY DEF UInv, TypeOK
<1> QED
  BY <1>1, TouchedStep DEF Answer

LEMMA PutChunkFailsStep ==
    ASSUME UInv, NEW q \in Requests, NEW c \in Chunks, NEW r \in 0 .. MaxRetry,
           PutChunkFails(q, c, r)
    PROVE  UInv'
<1> DEFINE j == request[q].job
           k == jobs[j].key
<1>1. jobs[j].state # "processing"
  BY DEF PutChunkFails, Receiving, AsksForRetry
<1>2. /\ request[q].at = "serve" /\ Leave(q)
      /\ jobs' = [jobs EXCEPT ![j] = Touched(jobs[j], r)]
      /\ chunks' \in {chunks, [chunks EXCEPT ![k][c] = j]}
      /\ UNCHANGED <<registry, worker, status, tries, archive, events, stored, restarts>>
  BY DEF PutChunkFails
<1>3. faults' \in Nat
  BY DEF PutChunkFails, Fault, UInv, TypeOK
<1>4. chunks' = chunks \/ chunks' = [chunks EXCEPT ![k] = [chunks[k] EXCEPT ![c] = j]]
  BY <1>2
<1> HIDE DEF j, k
<1> QED
  BY <1>1, <1>2, <1>3, <1>4, TouchedStep DEF j, k

LEMMA ReleaseStep ==
    ASSUME UInv, NEW q \in Requests, Release(q)
    PROVE  UInv'
<1>1. PICK j \in DOMAIN jobs : j = request[q].job /\ jobs[j] \in JobType
  BY PinnedJob DEF Release
<1>2. /\ request[q].at = "release" /\ request' = [request EXCEPT ![q] = AtRest]
      /\ jobs' = [jobs EXCEPT ![j].refs = @ - 1]
      /\ UNCHANGED <<registry, worker, status, chunks, tries, archive, events,
                     stored, faults, restarts>>
  BY <1>1 DEF Release
<1>3. request \in [Requests -> [at : {"idle", "serve", "release"},
                                job : 0 .. Len(jobs), target : Targets \cup {0}]]
  BY DEF UInv, TypeOK
<1>4. /\ request'[q].at = "idle"
      /\ \A p \in Requests \ {q} : request'[p] = request[p]
      /\ request' \in [Requests -> [at : {"idle", "serve", "release"},
                                    job : 0 .. Len(jobs), target : Targets \cup {0}]]
  BY <1>2, <1>3, Shape DEF AtRest, UInv
<1>5. /\ \A i \in DOMAIN jobs \ {j} : Holders(i)' = Holders(i)
      /\ Holders(j)' = Holders(j) \ {q} /\ q \in Holders(j)
  BY <1>1, <1>2, <1>4 DEF Holders
<1>6. Cardinality(Holders(j)') = Cardinality(Holders(j)) - 1
  BY <1>5, HoldersFinite, FS_RemoveElement
<1>7. jobs[j].refs = Cardinality(Holders(j)) /\ jobs[j].refs - 1 \in Nat
  <2>1. IsFiniteSet(Holders(j)) /\ Holders(j) # {}
    BY <1>5, HoldersFinite
  <2>2. Cardinality(Holders(j)) \in Nat /\ Cardinality(Holders(j)) # 0
    BY <2>1, FS_EmptySet, FS_CardinalityType
  <2> QED
    BY <2>2 DEF UInv, RegistryInv, Counted
<1> DEFINE x == [jobs[j] EXCEPT !.refs = @ - 1]
<1>8. x \in JobType /\ x.refs = jobs[j].refs - 1 /\ x.key = jobs[j].key
      /\ x.state = jobs[j].state /\ x.retryable = jobs[j].retryable
  BY <1>1, <1>7 DEF JobType
<1>9. jobs' = [jobs EXCEPT ![j] = x]
  BY <1>2
<1> HIDE DEF x
<1>10. /\ jobs' \in Seq(JobType) /\ Len(jobs') = Len(jobs)
       /\ DOMAIN jobs' = DOMAIN jobs /\ jobs'[j] = x
       /\ \A i \in DOMAIN jobs \ {j} : jobs'[i] = jobs[i]
  BY <1>8, <1>9, Rewrite DEF UInv
<1>11. \A i \in DOMAIN jobs : /\ jobs'[i].key = jobs[i].key
                              /\ jobs'[i].state = jobs[i].state
                              /\ jobs'[i].retryable = jobs[i].retryable
  BY <1>8, <1>10
<1>12. Counted'
  BY <1>5, <1>6, <1>7, <1>8, <1>10 DEF UInv, RegistryInv, Counted
<1>13. Pinned'
  BY <1>2, <1>4, <1>10 DEF UInv, RegistryInv, Pinned, Registered
<1>14. Known' /\ Kept'
  BY <1>2, <1>10, <1>11, RegistryShape DEF UInv, RegistryInv, Known, Kept, Registered
<1>15. ChunksOwned'
  BY <1>2, <1>11, RegistryShape DEF UInv, RegistryInv, ChunksOwned
<1>16. InputIntact'
  <2>1. \A i \in DOMAIN jobs : jobs[i].key \in Keys
    BY Shape DEF UInv, JobType
  <2> QED
    BY <1>2, <1>10, <1>11, <2>1, RegistryShape DEF UInv, RegistryInv, InputIntact
<1>17. TypeOK'
  BY <1>2, <1>4, <1>10 DEF UInv, TypeOK
<1>18. WorkerInv'
  BY <1>2, <1>10, <1>11, QuietStepKeepsWorkerInv DEF QuietStep
<1> QED
  BY <1>12, <1>13, <1>14, <1>15, <1>16, <1>17, <1>18 DEF UInv, RegistryInv

LEMMA IsChunkReceivedStep ==
    ASSUME UInv, NEW q \in Requests, NEW k \in Keys, IsChunkReceived(q, k)
    PROVE  UInv'
<1>1. PICK j \in DOMAIN jobs : j = registry[k] /\ jobs[j] \in JobType
  BY RegistryShape, Shape DEF IsChunkReceived, UInv
<1>2. /\ request[q].at = "idle"
      /\ request' = [request EXCEPT ![q] = [at |-> "release", job |-> j, target |-> 0]]
      /\ jobs' = [jobs EXCEPT ![j].refs = @ + 1]
      /\ UNCHANGED <<registry, worker, status, chunks, tries, archive, events,
                     stored, faults, restarts>>
  BY <1>1 DEF IsChunkReceived
<1>3. request \in [Requests -> [at : {"idle", "serve", "release"},
                                job : 0 .. Len(jobs), target : Targets \cup {0}]]
  BY DEF UInv, TypeOK
<1>4. /\ request'[q].at = "release" /\ request'[q].job = j
      /\ \A p \in Requests \ {q} : request'[p] = request[p]
      /\ request' \in [Requests -> [at : {"idle", "serve", "release"},
                                    job : 0 .. Len(jobs), target : Targets \cup {0}]]
  BY <1>2, <1>3, Shape DEF UInv
<1>5. /\ \A i : i # j => Holders(i)' = Holders(i)
      /\ Cardinality(Holders(j)') = Cardinality(Holders(j)) + 1
  BY <1>2, <1>4, Pinning
<1> DEFINE x == [jobs[j] EXCEPT !.refs = @ + 1]
<1>6. x \in JobType /\ x.refs = jobs[j].refs + 1 /\ x.key = jobs[j].key
      /\ x.state = jobs[j].state /\ x.retryable = jobs[j].retryable
  BY <1>1 DEF JobType
<1>7. jobs' = [jobs EXCEPT ![j] = x]
  BY <1>2
<1> HIDE DEF x
<1>8. /\ jobs' \in Seq(JobType) /\ Len(jobs') = Len(jobs)
      /\ DOMAIN jobs' = DOMAIN jobs /\ jobs'[j] = x
      /\ \A i \in DOMAIN jobs \ {j} : jobs'[i] = jobs[i]
  BY <1>6, <1>7, Rewrite DEF UInv
<1>9. \A i \in DOMAIN jobs : /\ jobs'[i].key = jobs[i].key
                             /\ jobs'[i].state = jobs[i].state
                             /\ jobs'[i].retryable = jobs[i].retryable
  BY <1>6, <1>8
<1>10. Counted'
  BY <1>5, <1>6, <1>8 DEF UInv, RegistryInv, Counted
<1>11. Pinned'
  BY <1>1, <1>2, <1>4, <1>8 DEF UInv, RegistryInv, Pinned, Registered
<1>12. Known' /\ Kept'
  BY <1>2, <1>8, <1>9, RegistryShape DEF UInv, RegistryInv, Known, Kept, Registered
<1>13. ChunksOwned'
  BY <1>2, <1>9, RegistryShape DEF UInv, RegistryInv, ChunksOwned
<1>14. InputIntact'
  <2>1. \A i \in DOMAIN jobs : jobs[i].key \in Keys
    BY Shape DEF UInv, JobType
  <2> QED
    BY <1>2, <1>8, <1>9, <2>1, RegistryShape DEF UInv, RegistryInv, InputIntact
<1>15. TypeOK'
  BY <1>2, <1>4, <1>8 DEF UInv, TypeOK
<1>16. WorkerInv'
  BY <1>2, <1>8, <1>9, QuietStepKeepsWorkerInv DEF QuietStep
<1> QED
  BY <1>10, <1>11, <1>12, <1>13, <1>14, <1>15, <1>16 DEF UInv, RegistryInv

\* A chunk that does not complete the upload.
LEMMA PartialChunkStep ==
    ASSUME UInv, NEW q \in Requests, NEW c \in Chunks, NEW r \in 0 .. MaxRetry,
           PutChunk(q, c, r), UNCHANGED tries
    PROVE  UInv'
<1> DEFINE j == request[q].job
           k == jobs[j].key
<1>1. tries # Append(tries, j)
  <2>1. Len(tries) \in Nat /\ tries \in Seq(1 .. Len(jobs)) /\ j \in 1 .. Len(jobs)
    BY Shape, PinnedJob DEF UInv, TypeOK, PutChunk
  <2>2. Len(Append(tries, j)) = Len(tries) + 1
    BY <2>1
  <2> QED
    BY <2>1, <2>2
<1>2. /\ request[q].at = "serve" /\ Leave(q)
      /\ jobs' = [jobs EXCEPT ![j] = Touched(jobs[j], r)]
      /\ chunks' = [chunks EXCEPT ![k] = [chunks[k] EXCEPT ![c] = j]]
      /\ UNCHANGED <<registry, worker, status, tries, archive, events, stored,
                     faults, restarts>>
  BY <1>1 DEF PutChunk
<1>3. jobs[j].state # "processing"
  BY DEF PutChunk, Receiving, AsksForRetry
<1>4. faults' \in Nat
  BY <1>2 DEF UInv, TypeOK
<1> HIDE DEF j, k
<1> QED
  BY <1>2, <1>3, <1>4, TouchedStep DEF j, k

\* A try is appended to the list.
LEMMA Appended ==
    ASSUME NEW S, NEW s \in Seq(S), NEW x \in S, NEW u, u = Append(s, x)
    PROVE  /\ u \in Seq(S) /\ Len(u) = Len(s) + 1 /\ u[Len(s) + 1] = x
           /\ DOMAIN u = DOMAIN s \cup {Len(s) + 1}
           /\ Len(s) + 1 \notin DOMAIN s /\ Len(s) + 1 \in Nat
           /\ \A i \in DOMAIN s : u[i] = s[i]
<1>1. /\ u \in Seq(S) /\ Len(u) = Len(s) + 1 /\ u[Len(s) + 1] = x
      /\ \A i \in 1 .. Len(s) : u[i] = s[i]
  BY AppendProperties
<1>2. DOMAIN u = 1 .. Len(u) /\ DOMAIN s = 1 .. Len(s) /\ Len(s) \in Nat
  BY <1>1
<1> QED
  BY <1>1, <1>2

\* The chunk that completes the upload starts a worker: for a job that has
\* none, and none of whose tries may have been committed.
LEMMA LastChunkStep ==
    ASSUME UInv, NEW q \in Requests, NEW c \in Chunks, NEW r \in 0 .. MaxRetry,
           PutChunk(q, c, r), ~ UNCHANGED tries
    PROVE  UInv'
<1> USE DEF UInv
<1>1. PICK j \in DOMAIN jobs : /\ j = request[q].job /\ jobs[j] \in JobType
                               /\ jobs[j].key \in Keys /\ registry[jobs[j].key] = j
  BY PinnedJob DEF PutChunk
<1>2. PICK k \in Keys : k = jobs[j].key
  BY <1>1
<1> DEFINE y == Touched(jobs[j], r)
           x == [y EXCEPT !.state = "processing", !.retryable = TRUE]
           n == Len(tries) + 1
<1>3. /\ request[q].at = "serve" /\ Leave(q)
      /\ jobs' = [jobs EXCEPT ![j] = x]
      /\ chunks' = [chunks EXCEPT ![k] = [chunks[k] EXCEPT ![c] = j]]
      /\ \A d \in Chunks : [chunks[k] EXCEPT ![c] = j][d] # 0
      /\ tries' = Append(tries, j)
      /\ worker' = [worker EXCEPT ![j].at = "copy", ![j].try = n]
      /\ status' = [status EXCEPT ![j] = [phase |-> "received", submission |-> FALSE]]
      /\ UNCHANGED <<registry, archive, events, stored, faults, restarts>>
  BY <1>1, <1>2 DEF PutChunk
<1>4. \/ jobs[j].state = "receiving"
      \/ jobs[j].state = "failed" /\ jobs[j].retryable
  BY <1>1 DEF PutChunk, Receiving, AsksForRetry, MayRetry
<1>5. /\ x \in JobType /\ x.key = k /\ x.refs = jobs[j].refs /\ x.state = "processing"
  <2>1. y \in JobType /\ y.key = jobs[j].key /\ y.refs = jobs[j].refs
    BY <1>1, TouchedShape
  <2> HIDE DEF y
  <2> QED
    BY <1>2, <2>1 DEF JobType
<1> HIDE DEF x, y
<1>6. /\ jobs' \in Seq(JobType) /\ Len(jobs') = Len(jobs)
      /\ DOMAIN jobs' = DOMAIN jobs /\ jobs'[j] = x
      /\ \A i \in DOMAIN jobs \ {j} : jobs'[i] = jobs[i]
  BY <1>3, <1>5, Rewrite
<1>7. /\ \A i \in DOMAIN jobs : jobs'[i].key = jobs[i].key /\ jobs'[i].refs = jobs[i].refs
      /\ \A i \in DOMAIN jobs : jobs[i].state = "lost" <=> jobs'[i].state = "lost"
  BY <1>2, <1>4, <1>5, <1>6
<1>8. /\ tries' \in Seq(1 .. Len(jobs)) /\ Len(tries') = n /\ n \in Nat
      /\ DOMAIN tries' = DOMAIN tries \cup {n} /\ tries'[n] = j /\ n \notin DOMAIN tries
      /\ \A t \in DOMAIN tries : tries'[t] = tries[t] /\ tries[t] \in DOMAIN jobs
      /\ DOMAIN tries = 1 .. Len(tries) /\ Len(tries) \in Nat
  <2>1. /\ tries \in Seq(1 .. Len(jobs)) /\ j \in 1 .. Len(jobs)
        /\ Len(tries) \in Nat /\ DOMAIN tries = 1 .. Len(tries)
        /\ \A t \in DOMAIN tries : tries[t] \in DOMAIN jobs
        /\ tries' = Append(tries, j)
    BY <1>3, Shape DEF TypeOK
  <2>2. PICK S : S = 1 .. Len(jobs)
    OBVIOUS
  <2>3. tries \in Seq(S) /\ j \in S /\ tries' = Append(tries, j)
    BY <2>1, <2>2
  <2> HIDE DEF n
  <2>4. /\ tries' \in Seq(S) /\ Len(tries') = Len(tries) + 1
        /\ tries'[Len(tries) + 1] = j
        /\ DOMAIN tries' = DOMAIN tries \cup {Len(tries) + 1}
        /\ Len(tries) + 1 \notin DOMAIN tries /\ Len(tries) + 1 \in Nat
        /\ \A t \in DOMAIN tries : tries'[t] = tries[t]
    BY <2>3, Appended
  <2> QED
    BY <2>1, <2>2, <2>4 DEF n
<1>9. j \in JobIds /\ worker[j].at = "off"
  BY <1>1, <1>4, Shape DEF WorkerInv, WorkerOwns
<1>10. \A t \in events \cup stored : t \in DOMAIN tries /\ tries[t] # j
  BY <1>4, <1>8 DEF WorkerInv, Settled, TypeOK
<1> HIDE DEF n
<1>11. /\ events' = events /\ stored' = stored /\ archive' = archive
       /\ \A t \in events \cup stored : tries'[t] = tries[t]
  BY <1>3, <1>8, <1>10
<1>12. /\ worker'[j].at = "copy" /\ worker'[j].try = n
       /\ \A i \in JobIds \ {j} : worker'[i] = worker[i] /\ status'[i] = status[i]
       /\ ~ status'[j].submission
  <2>1. /\ worker \in [JobIds -> [at : Stages, try : 0 .. Len(tries), late : BOOLEAN]]
        /\ status \in [JobIds -> [phase : Phases, submission : BOOLEAN]]
    BY DEF TypeOK
  <2> QED
    BY <1>3, <1>9, <2>1
<1>13. \A q1 \in Requests : /\ request'[q1].at # "idle" <=> request[q1].at # "idle"
                            /\ request'[q1].job = request[q1].job
  BY <1>3 DEF TypeOK, Leave
<1>14. TypeOK'
  <2>1. request' \in [Requests -> [at : {"idle", "serve", "release"},
                                   job : 0 .. Len(jobs), target : Targets \cup {0}]]
    BY <1>3 DEF Leave, TypeOK
  <2>2. worker' \in [JobIds -> [at : Stages, try : 0 .. Len(tries'), late : BOOLEAN]]
    <3>1. worker \in [JobIds -> [at : Stages, try : 0 .. Len(tries), late : BOOLEAN]]
      BY DEF TypeOK
    <3>2. 0 .. Len(tries) \subseteq 0 .. Len(tries') /\ n \in 0 .. Len(tries')
      BY <1>8 DEF n
    <3>3. worker' = [worker EXCEPT ![j] = [worker[j] EXCEPT !.at = "copy", !.try = n]]
      BY <1>3, <1>9, <3>1
    <3>4. [worker[j] EXCEPT !.at = "copy", !.try = n] \in
            [at : Stages, try : 0 .. Len(tries'), late : BOOLEAN]
      BY <1>9, <3>1, <3>2 DEF Stages
    <3> QED
      BY <3>1, <3>2, <3>3, <3>4
  <2>3. status' \in [JobIds -> [phase : Phases, submission : BOOLEAN]]
    BY <1>3 DEF TypeOK, Phases
  <2>4. chunks' \in [Keys -> [Chunks -> 0 .. Len(jobs)]]
    <3>1. chunks \in [Keys -> [Chunks -> 0 .. Len(jobs)]] /\ j \in 0 .. Len(jobs)
      BY Shape DEF TypeOK
    <3>2. [chunks[k] EXCEPT ![c] = j] \in [Chunks -> 0 .. Len(jobs)]
      BY <3>1
    <3> QED
      BY <1>3, <3>1, <3>2
  <2>5. archive' \cup events' \cup stored' \subseteq 1 .. Len(tries')
    <3>1. 1 .. Len(tries) \subseteq 1 .. Len(tries')
      BY <1>8 DEF n
    <3>2. archive \cup events \cup stored \subseteq 1 .. Len(tries)
      BY DEF TypeOK
    <3> QED
      BY <1>3, <3>1, <3>2
  <2>6. Len(jobs) <= MaxJobs /\ registry \in [Keys -> 0 .. Len(jobs)]
        /\ faults \in Nat /\ restarts \in Nat
    BY DEF TypeOK
  <2>7. tries' \in Seq(1 .. Len(jobs'))
    BY <1>6, <1>8
  <2> QED
    BY <1>3, <1>6, <2>1, <2>2, <2>3, <2>4, <2>5, <2>6, <2>7 DEF TypeOK
<1>15. Pinned' /\ Counted' /\ Known' /\ Kept'
  <2>1. \A i : Holders(i)' = Holders(i)
    BY <1>13 DEF Holders
  <2>2. Pinned'
    BY <1>3, <1>6, <1>13 DEF RegistryInv, Pinned, Registered
  <2>3. Counted'
    BY <1>6, <1>7, <2>1 DEF RegistryInv, Counted
  <2>4. Known'
    BY <1>3, <1>7, RegistryShape DEF RegistryInv, Known
  <2>5. Kept'
    BY <1>1, <1>3, <1>6 DEF RegistryInv, Kept, Registered
  <2> QED
    BY <2>2, <2>3, <2>4, <2>5
<1>16. \A l \in Keys \ {k} : chunks'[l] = chunks[l]
  BY <1>3 DEF TypeOK
<1>17. chunks'[k] = [chunks[k] EXCEPT ![c] = j] /\ chunks[k] \in [Chunks -> 0 .. Len(jobs)]
  BY <1>3 DEF TypeOK
<1>18. ChunksOwned'
  <2> SUFFICES ASSUME NEW l \in Keys, NEW d \in Chunks, chunks'[l][d] # 0
               PROVE  \/ jobs'[chunks'[l][d]].state = "lost"
                      \/ registry[l] = chunks'[l][d]
    BY <1>3 DEF ChunksOwned
  <2>1. CASE l = k /\ d = c
    BY <1>1, <1>2, <1>17, <2>1
  <2>2. CASE ~ (l = k /\ d = c)
    <3>1. chunks'[l][d] = chunks[l][d]
      BY <1>16, <1>17, <2>2
    <3>2. PICK i \in DOMAIN jobs : i = chunks[l][d]
      BY <3>1, RegistryShape
    <3>3. jobs[i].state = "lost" \/ registry[l] = i
      BY <3>1, <3>2 DEF RegistryInv, ChunksOwned
    <3> QED
      BY <1>7, <3>1, <3>2, <3>3
  <2> QED
    BY <2>1, <2>2
<1>19. InputIntact'
  <2> SUFFICES ASSUME NEW i \in DOMAIN jobs, jobs'[i].state = "processing", NEW d \in Chunks
               PROVE  LET owner == chunks'[jobs[i].key][d] IN
                        owner # 0 /\ (owner = i \/ jobs'[owner].state = "lost")
    BY <1>6, <1>7 DEF InputIntact
  <2>1. CASE i = j
    <3>1. chunks'[k][d] # 0
      BY <1>3, <1>17
    <3>2. registry[k] = j
      BY <1>1, <1>2
    <3>3. jobs'[chunks'[k][d]].state = "lost" \/ registry[k] = chunks'[k][d]
      BY <1>3, <1>18, <3>1 DEF ChunksOwned
    <3> QED
      BY <1>2, <2>1, <3>1, <3>2, <3>3
  <2>2. CASE i # j
    <3>1. jobs[i].state = "processing"
      BY <1>6, <2>2
    <3>2. PICK l \in Keys : registry[l] = i /\ jobs[i].key = l
      BY <3>1, RegistryShape DEF RegistryInv, Kept, Registered
    <3>3. l # k
      BY <1>1, <1>2, <2>2, <3>2
    <3>4. /\ chunks[l][d] # 0
          /\ chunks[l][d] = i \/ jobs[chunks[l][d]].state = "lost"
      BY <3>1, <3>2 DEF RegistryInv, InputIntact
    <3>5. PICK o \in DOMAIN jobs : o = chunks[l][d]
      BY <3>4, RegistryShape
    <3> QED
      BY <1>7, <1>16, <3>2, <3>3, <3>4, <3>5
  <2> QED
    BY <2>1, <2>2
<1>20. \A t \in DOMAIN tries : ContentOf(t)' = ContentOf(t)
  BY <1>7, <1>8 DEF ContentOf
<1>21. WorkerOwns'
  <2> SUFFICES ASSUME NEW i \in JobIds, worker'[i].at # "off"
               PROVE  /\ i \in DOMAIN jobs' /\ jobs'[i].state = "processing"
                      /\ worker'[i].try \in DOMAIN tries' /\ tries'[worker'[i].try] = i
    BY DEF WorkerOwns
  <2>1. CASE i = j
    BY <1>5, <1>6, <1>8, <1>12, <2>1
  <2>2. CASE i # j
    BY <1>6, <1>8, <1>12, <2>2 DEF WorkerInv, WorkerOwns
  <2> QED
    BY <2>1, <2>2
<1>22. Progress'
  <2> SUFFICES ASSUME NEW i \in JobIds, i # j
               PROVE  LET at == worker'[i].at  u == worker'[i].try IN
          /\ at \in {"postgres", "mariadb", "announce", "done"} => ~ jobs'[i].retryable
          /\ at \in {"validate", "store", "commit", "postgres", "mariadb",
                     "announce", "done"} => u \in archive'
          /\ at \in {"mariadb", "announce", "done"} => u \in events'
          /\ at \in {"announce", "done"} => u \in stored'
    BY <1>12 DEF Progress
  <2>1. CASE worker[i].at = "off"
    BY <1>12, <2>1
  <2>2. CASE worker[i].at # "off"
    <3>1. jobs'[i] = jobs[i] /\ worker'[i] = worker[i]
      BY <1>6, <1>12, <2>2 DEF WorkerInv, WorkerOwns
    <3> QED
      BY <1>3, <3>1 DEF WorkerInv, Progress
  <2> QED
    BY <2>1, <2>2
<1>23. Settled'
  <2> SUFFICES ASSUME NEW t \in events \cup stored
               PROVE  LET i == tries[t] IN
          \/ jobs'[i].state \in {"lost", "succeeded"}
          \/ /\ jobs'[i].state \in {"processing", "failed"}
             /\ ~ jobs'[i].retryable
             /\ jobs'[i].state = "processing" =>
                  /\ worker'[i].try = t
                  /\ worker'[i].at \in {"mariadb", "announce", "done", "failing"}
    BY <1>11 DEF Settled
  <2>1. PICK i \in DOMAIN jobs \ {j} : i = tries[t]
    BY <1>8, <1>10
  <2>2. i \in JobIds
    BY Shape
  <2> QED
    BY <1>6, <1>12, <2>1, <2>2 DEF WorkerInv, Settled
<1>24. Told' /\ CommittedOnce' /\ SuccessIsStored'
  <2>1. Told'
    BY <1>12 DEF WorkerInv, Told
  <2>2. CommittedOnce'
    BY <1>11 DEF WorkerInv, CommittedOnce
  <2>3. SuccessIsStored'
    BY <1>12, <1>11 DEF WorkerInv, SuccessIsStored
  <2> QED
    BY <2>1, <2>2, <2>3
<1>25. StoredOnce'
  BY <1>3, <1>10, <1>20 DEF WorkerInv, StoredOnce
<1>26. Alone'
  <2>1. \A i \in JobIds : worker'[i].at \in Inserting =>
          /\ worker'[i] = worker[i] /\ worker[i].at \in Inserting
          /\ worker[i].try \in DOMAIN tries
    BY <1>12 DEF WorkerInv, WorkerOwns, Inserting
  <2>2. \A t \in DOMAIN tries : Conflict(t)' = Conflict(t)
    BY <1>3, <1>10, <1>20 DEF Conflict
  <2> QED
    BY <1>20, <2>1, <2>2 DEF WorkerInv, Alone
<1> QED
  BY <1>14, <1>15, <1>18, <1>19, <1>21, <1>22, <1>23, <1>24, <1>25, <1>26
     DEF RegistryInv, WorkerInv

-----------------------------------------------------------------------------
(* The server *)

\* A restart forgets the jobs and keeps what they left on disk and committed.
LEMMA RestartStep ==
    ASSUME UInv, Restart
    PROVE  UInv'
<1> USE DEF UInv
<1>1. /\ Len(jobs) \in Nat /\ DOMAIN jobs = 1 .. Len(jobs)
      /\ \A j \in DOMAIN jobs : jobs[j] \in JobType
      /\ \A t \in DOMAIN tries : tries[t] \in DOMAIN jobs
      /\ events \cup stored \subseteq DOMAIN tries
  BY Shape DEF TypeOK
<1>2. /\ registry' = [k \in Keys |-> 0]
      /\ request' = [q \in Requests |-> AtRest]
      /\ worker' = [j \in JobIds |-> NoWorker]
      /\ status' = [j \in JobIds |-> NoStatus]
      /\ UNCHANGED <<chunks, tries, archive, events, stored, faults>>
      /\ restarts' = restarts + 1
  BY DEF Restart
<1>3. /\ DOMAIN jobs' = DOMAIN jobs
      /\ \A j \in DOMAIN jobs : /\ jobs'[j] \in JobType
                                /\ jobs'[j].key = jobs[j].key
                                /\ jobs'[j].refs = 0 /\ jobs'[j].state = "lost"
  BY <1>1 DEF Restart, NewJob, JobType
<1>4. jobs' \in Seq(JobType) /\ Len(jobs') = Len(jobs)
  <2>1. jobs' \in [1 .. Len(jobs) -> JobType]
    BY <1>1, <1>3 DEF Restart
  <2> QED
    BY <1>1, <2>1
<1>5. TypeOK'
  BY <1>2, <1>4, UploadAssumption DEF TypeOK, AtRest, NoWorker, NoStatus, Stages, Phases
<1>6. Pinned' /\ Known' /\ Kept' /\ InputIntact'
  BY <1>2, <1>3 DEF Pinned, Known, Kept, InputIntact, AtRest
<1>7. Counted'
  <2>1. \A j : Holders(j)' = {}
    BY <1>2 DEF Holders, AtRest
  <2> QED
    BY <1>3, <2>1, FS_EmptySet DEF Counted
<1>8. ChunksOwned'
  BY <1>2, <1>3, RegistryShape DEF ChunksOwned
<1>9. WorkerOwns' /\ Progress' /\ Told' /\ Alone' /\ SuccessIsStored'
  BY <1>2 DEF WorkerOwns, Progress, Told, Alone, Inserting, SuccessIsStored,
     NoWorker, NoStatus
<1>10. Settled' /\ CommittedOnce'
  BY <1>1, <1>2, <1>3 DEF Settled, WorkerInv, CommittedOnce
<1>11. StoredOnce'
  BY <1>1, <1>2, <1>3 DEF WorkerInv, StoredOnce, ContentOf
<1> QED
  BY <1>5, <1>6, <1>7, <1>8, <1>9, <1>10, <1>11 DEF RegistryInv, WorkerInv

LEMMA InitUInv == Init => UInv
<1> SUFFICES ASSUME Init PROVE UInv
  OBVIOUS
<1>1. DOMAIN jobs = {} /\ Len(jobs) = 0 /\ jobs \in Seq(JobType)
      /\ DOMAIN tries = {} /\ Len(tries) = 0
  BY DEF Init
<1>2. TypeOK
  BY <1>1, UploadAssumption DEF Init, TypeOK, AtRest, NoWorker, NoStatus, NoChunks,
     Stages, Phases
<1>3. RegistryInv
  BY <1>1 DEF Init, RegistryInv, Pinned, Counted, Known, Kept, ChunksOwned,
     InputIntact, AtRest, NoChunks
<1>4. WorkerInv
  BY <1>1 DEF Init, WorkerInv, WorkerOwns, Progress, Settled, Told, Alone, Inserting,
     StoredOnce, CommittedOnce, SuccessIsStored, NoWorker, NoStatus
<1> QED
  BY <1>2, <1>3, <1>4 DEF UInv

LEMMA StutterStep ==
    ASSUME UInv, UNCHANGED vars
    PROVE  UInv'
<1>1. TypeOK'
  BY DEF vars, UInv, TypeOK
<1>2. WorkerInv'
  BY QuietStepKeepsWorkerInv DEF vars, QuietStep
<1>3. \A j : Holders(j)' = Holders(j)
  BY DEF vars, Holders
<1>4. RegistryInv'
  BY <1>3 DEF vars, UInv, RegistryInv, Pinned, Counted, Known, Kept, ChunksOwned,
     InputIntact, Registered
<1> QED
  BY <1>1, <1>2, <1>4 DEF UInv

LEMMA ServingStep ==
    ASSUME UInv, Serving
    PROVE  UInv'
<1>1. PICK q \in Requests :
        \/ \E k \in Keys, target \in Targets : acquireUploadJob(q, k, target)
        \/ \E k \in Keys : IsChunkReceived(q, k)
        \/ \E r \in 0 .. MaxRetry : Answer(q, r)
        \/ \E c \in Chunks, r \in 0 .. MaxRetry : PutChunk(q, c, r)
        \/ \E c \in Chunks, r \in 0 .. MaxRetry : PutChunkFails(q, c, r)
        \/ Release(q)
  BY DEF Serving
<1>2. ASSUME NEW c \in Chunks, NEW r \in 0 .. MaxRetry, PutChunk(q, c, r)
      PROVE  UInv'
  BY <1>2, PartialChunkStep, LastChunkStep
<1> QED
  BY <1>1, <1>2, acquireUploadJobStep, IsChunkReceivedStep, AnswerStep,
     PutChunkFailsStep, ReleaseStep

LEMMA WorkStep ==
    ASSUME UInv, NEW j \in JobIds, Work(j) \/ Trouble(j) \/ ReportLate(j)
    PROVE  UInv'
  BY CopyUploadStep, ValidateStep, RefuseStep, StoreRowsStep, BeforeCommitStep,
     CommitPostgresStep, CommitMariaDBStep, SetSuccessStep, SucceedStep, EndStep,
     CopyFailsStep, PanicStep, CommitPostgresFailsStep, CommitMariaDBFailsStep,
     ReportLateStep DEF Work, Trouble

\* The inductive invariant: both halves and the types hold in every reachable
\* state.
THEOREM UInvInductive == Spec => []UInv
<1>1. UInv /\ [Next]_vars => UInv'
  BY ServingStep, WorkStep, AgeStep, RestartStep, StutterStep DEF Next
<1> QED
  BY <1>1, InitUInv, PTL DEF Spec

-----------------------------------------------------------------------------
(* What follows *)

\* Every job, request, worker, status entry and file keeps its type.
THEOREM UploadsTyped == Spec => []TypeOK
<1>1. UInv => TypeOK
  BY DEF UInv
<1> QED
  BY <1>1, UInvInductive, PTL

\* A job that is pinned or processing is the registered one for its key,
\* whatever is swept meanwhile (cleanupExpiredUploadJobsLocked spares it).
THEOREM OneOwnerOfChunks == Spec => []OneOwner
<1>1. ASSUME UInv PROVE OneOwner
  <2>1. ASSUME NEW q \in Requests, request[q].at # "idle"
        PROVE  Registered(request[q].job) /\ jobs[request[q].job].refs > 0
    <3>1. PICK j \in DOMAIN jobs : j = request[q].job
      BY <1>1, <2>1, PinnedJob
    <3>2. q \in Holders(j)
      BY <2>1, <3>1 DEF Holders
    <3>3. Cardinality(Holders(j)) \in Nat /\ Cardinality(Holders(j)) # 0
      BY <3>2, HoldersFinite, FS_EmptySet
    <3>4. jobs[j].refs = Cardinality(Holders(j))
      BY <1>1 DEF UInv, RegistryInv, Counted
    <3>5. Registered(j)
      BY <1>1, <2>1, <3>1 DEF UInv, RegistryInv, Pinned
    <3> QED
      BY <3>1, <3>3, <3>4, <3>5
  <2>2. ASSUME NEW j \in JobIds, worker[j].at # "off"
        PROVE  Registered(j) /\ jobs[j].state = "processing"
    BY <1>1, <2>2 DEF UInv, WorkerInv, WorkerOwns, RegistryInv, Kept
  <2> QED
    BY <2>1, <2>2 DEF OneOwner
<1> QED
  BY <1>1, UInvInductive, PTL

\* The chunks a worker may read are all there and were sent for its upload.
THEOREM InputStaysIntact == Spec => []InputIntact
<1>1. UInv => InputIntact
  BY DEF UInv, RegistryInv
<1> QED
  BY <1>1, UInvInductive, PTL

\* An archive is stored once, however often and by however many uploads it is
\* sent (the unique checksums of submission_file).
THEOREM ArchiveStoredOnce == Spec => []StoredOnce
<1>1. UInv => StoredOnce
  BY DEF UInv, WorkerInv
<1> QED
  BY <1>1, UInvInductive, PTL

\* An upload is committed by one of its tries only: a commit whose outcome is
\* unknown is never repeated (beforeCommit clears retryable).
THEOREM UploadCommittedOnce == Spec => []CommittedOnce
<1>1. UInv => CommittedOnce
  BY DEF UInv, WorkerInv
<1> QED
  BY <1>1, UInvInductive, PTL

\* A submission that the status page names is in both databases and on disk.
THEOREM SuccessIsTrue == Spec => []SuccessIsStored
<1>1. UInv => SuccessIsStored
  BY DEF UInv, WorkerInv
<1> QED
  BY <1>1, UInvInductive, PTL

=============================================================================

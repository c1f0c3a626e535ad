# Formal model of the Flashpoint submission system

This directory holds TLA+ modules that describe the parts of the Flashpoint
submission system whose correctness depends on histories, interleavings and
failures; TLC configurations that check them on small instances; and proofs,
checked by TLAPS, that hold for every instance.  Paths such as `service/` are
relative to `src/`.

Contents: [the system](#1-the-system), [hard behaviour](#2-what-is-hard-here),
[modules](#3-modules-and-how-they-correspond-to-the-code),
[environment assumptions](#4-what-is-assumed-of-the-environment),
[runs](#5-runs-bounds-and-what-they-show), [fairness](#6-fairness),
[proofs](#7-what-is-proved), [disagreements](#8-where-the-code-disagrees-with-itself),
[not modelled](#9-what-is-not-modelled), [plan](#10-plan).

## 1. The system

A Go web server through which users upload *curations* of games and animations,
staff review them, and what passes is imported into the game database.  One
process, two databases: MariaDB for submissions, comments, users, sessions and
notifications, PostgreSQL for games and activity events.  Files lie beside them:
chunks of resumable uploads, archives in the submissions directory, data packs
and images of games.

| component | state it keeps | operations | interacts with |
|---|---|---|---|
| Submission history (`database/caching.go`) | rows of `submission_file` and `comment`, the derived row of `submission_cache` | append rows, soft delete, replay into the cache row | every review handler writes it, the validator of actions, the search and most guards read the cache row |
| Review workflow (`service/siteservice_comments.go`, `comments_action_validator.go`, `siteservice_submissionreceiver.go`) | `frozen_at`, `should_autofreeze`, deletion marks | upload, metadata edit, comment and decide (one or a batch), override, force, delete, freeze | history; game metadata (mark-added imports); notifications; activity events |
| Submission locks and quota (`database/submission_locks.go`, `service/submission_quota.go`) | row locks, creation locks | lock, count | taken by every mutation before its first read |
| Read caches (`appcache/`, `database/application_cache.go`) | generation, pending commits, entries with LRU order, shared loads | `Get`, `Commit`, insert, evict, expire | `Commit` brackets the database commit of mutations that touch cached rows |
| Resumable uploads (`service/upload_jobs.go`, `siteservice_resumablereceiver.go`, `resumableuploadservice/`) | registry of jobs, chunk files, status of uploads | acquire, receive chunk, test chunk, release, sweep, run the worker | the worker runs an upload of the review workflow and commits both databases |
| Notification queue (`service/notifications.go`, `notificationconsumer.go`, `notificationbot/`) | table `submission_notification`, a channel of capacity one | store, announce, consume, send, mark | every reviewing mutation stores and announces |
| Game metadata (`service/siteservice.go`, `database/postgresdal.go`) | games, tags, revisions, data packs, redirects; `MetadataMutex` | import, save, delete, restore, freeze, unfreeze | review workflow, autounfreezer, files |
| Autounfreezer (`service/autounfreezer.go`) | none | unfreeze old games every 12 hours | game metadata; waited for at shutdown |
| Data pack indexer (`service/zipindexer.go`) | stopped flag, status, stop channel; `game_data_index` | start, stop, run | game files; shutdown (`transport/app.go`) |
| Submission cache rebuild (`service/submission_cache_rebuild.go`) | position of the loop | rebuild cache rows one by one | history |
| Sessions, roles, logins (`transport/auth.go`, `middlewares.go`) | sessions, device flow tokens, authorization codes, states | log in, poll, exchange, check | read caches; every handler |
| Activity events (`activityevents/`, `service/siteservice_activityevents.go`) | table of events | record in the same mutation | PostgreSQL half of each commit |
| Search, statistics, link previews, validator client, templates, configuration, bots | none of their own | read, render | |

For each component, what makes it correct:

* **History.** The cache row says what the history says, after every mutation and
  deletion; no user is on both sides of a decision.
* **Review.** Two people test and verify; nobody reviews their own upload; a
  submission is added at most once, never if it is rejected, and the version that
  was imported is the one that was added; a frozen submission is read-only to
  those who may not freeze, also for a request that passed its check before the
  freeze; a user in audit has one submission.
* **Caches.** A read is never older than the database at the time it answers;
  what is resident is what is committed; loads are shared; capacity holds; every
  read returns.
* **Uploads.** One owner of each set of chunk files; the worker's input does not
  change under it; an archive is stored once; a commit whose outcome is unknown is
  never retried; the uploader is told the truth.
* **Notifications.** No announcement is lost; a notification is delivered at
  least once and repeated only after a failure; the queue drains.
* **Game metadata.** A pack is never lost, and between requests it lies where the
  row of its game says; a redirect leads from a game that is gone to one that is
  there; every request is answered, and old games thaw.
* **Logins.** No change of sessions or secrets without its event; a code is spent
  once; a secret is handed out once.
* **Indexer.** A pack that nothing interrupted is indexed whole or not at all;
  the shutdown ends.

## 2. What is hard here

The list of hazards, each with its line and the properties that cover it, is in
`PROJECT.json`.  The kinds that recur:

* *Derived state*: five sets of users are replayed by SQL from a history in which
  comments enable, disable and supersede each other and any of them can be soft
  deleted later.
* *Fencing commits*: a load that reads before a commit and stores after it, a
  commit whose outcome is unknown, readers that join a load that is too old.
* *Two commits per mutation*: PostgreSQL, then MariaDB, with a failure or a
  restart in between, and files on disk that follow neither.
* *Three locks held one after the other*: the registry lock, the job lock, the
  registry lock again; expiry, retries and a worker move between them.
* *A dropped signal*: announcements are sent on a full channel without blocking,
  and the stop signal of the indexer on a channel that may have no reader.
* *Rows and files*: packs are copied and removed one by one around transactions
  that commit at another time, under a mutex taken while a session is held.
* *Clones*: codes are read under a mutex, changed outside and saved as a whole.

## 3. Modules and how they correspond to the code

### Review core

`SubmissionHistory` is the history of one submission and its replay.  A history
is a sequence of rows `[by, action, live]`; a file is a row with the pseudo
action `"file"`.  A position stands for the pair `(created_at, id)` the replay
sorts by: every writer holds the parent row from before its first read until
commit, and stamps its rows with the clock and a few microseconds, so that
transactions append.  `ActiveUsers` and `ActiveUsersOnNewest` are the two shapes
of `getUserCountWithEnabledAction`; `Replay` is `UpdateSubmissionCacheTable`,
with the columns of `submission_cache` as fields.

`SubmissionReview` extends it.  One action is one committed transaction, as the
row locks allow: `Create`, `Upload`, `MetaEdit`, `ReceiveComments` (single and
batch, with and without skipping refused members), `ImportThenFail` (the import
of mark-added runs in a transaction of its own, and stays when the outer one is
rolled back), `OverrideBot`, `ForceApproveSubmission`, `ForceVerifySubmission`,
`SoftDeleteSubmissionFile`, `SoftDeleteComment`, `SoftDeleteSubmission`,
`FreezeSubmission`, `UnfreezeSubmission`.  Rows and cache row are written apart, as in
the code: `StoreRows` and `WriteRows` change the rows and leave the cache row alone,
and each action that changes rows names `UpdateSubmissionCacheTable` itself where its
handler calls it, so that an action without it, or with it too early, leaves a stale
row (the slips `SoftDeleteComment_NoRefresh` and `MetaEdit_EarlyRefresh` of
`CacheAgreesWithReduction`).  `isActionValidForSubmission` is the conjunction
`ValidAction` of its sections; roles are constants (`Staff`, `TrialCurators`,
`Deciders`, `Adders`, `Deleters`, `Freezers`, `Gods`).  Whoever is neither staff nor a
trial curator is in audit.  The validator's answer is one of the
constant `Verdicts`.

`HistoryReduction` translates the independent account of the cache row that the
repository's own randomised test keeps (`reduce` in
`integration_tests/submission_history_model_test.go`): a fold over live rows that
shares nothing with the queries.  `CacheAgreesWithReduction` of `SubmissionReview`
states that the two agree.

### Read caches

`CoherentReads` is the abstract specification: a read answers with the committed
rows of the moment it answers, or fails.  `AppCache` is `appcache/cache.go`: a
stretch between two lock operations is an action, and the SQL commit and the load
are actions of their own.  `CommitBegin`, `CommitTakesEffect`, `CommitEnd` are the
two lock regions of `Coordinator.Commit` and the commit between them; `Look`,
`Join`, `Receive`, `GiveUp` are the loop of `Get`; `FlightCheck`, `FlightLoad`,
`FlightFails`, `FlightStore` are the shared load.  `ReadsAreCoherent` is the
refinement, with the answer, the database and the key asked for as the mapping.

### Resumable uploads

`UploadJobs`: jobs are numbered in the order of registration, `registry` gives the
job of each key.  A request is at rest, serving with a job pinned, or about to
release it; these are the three lock regions of `ReceiveSubmissionChunk`.  The
chunk files remember which job wrote them, `0` for no file.  The worker goes
through `copy`, `validate`, `store`, `commit`, `postgres`, `mariadb`, `announce`,
`done`, or `failing`, and takes the job's lock when retries end
(`BeforeCommit`) and when it ends (`Succeed`, `End`).  Each start of a worker is a
*try*; `archive`, `events` and `stored` are the tries that have left an archive,
activity events and submission rows.  An error of a commit may come with or
without its effect.  `Restart` forgets jobs, requests, workers and status and
keeps files and databases; the jobs of an earlier life are marked `"lost"`.

### Notifications

`NotificationQueue`: the rows of the table in id order, the mutations that store
them (`StoreNotification`, `CommitMutation`, `RollBack`, `Announce`), the channel
as one token, and the consumer (`Take`, `Find`, `FindNothing`, `Send`,
`MarkAsSent` and the failure of each call).  On a development instance
`SendNotification` answers without sending (`notificationbot/bot.go:43`); the model is
that of a production instance.  `Silent` senders are the two handlers
that do not announce.  `due` is a history variable: the rows that were unsent when
somebody announced.

### Games and their data packs

`GameMetadata`: a game is a row `[state, archive, packs]`, a pack is `"none"`,
`"torn"` or `"whole"` in each of the directories `data`, `frozen`, `deleted`, and
`Home(row)` is the directory in which the code looks for it.  A request (or the
autounfreezer, `Unfreezer`) goes through the program counters `peek` (a page is
shown), `lock` (`MetadataMutex`), `connect` (a session of the pool), `save`, `mark`,
`pick`, `copy`, `remove`, `link` and `commit`, in the order of its handler:
`FreezeGame` and `UnfreezeGame` take a session, read the row, wait for the mutex,
commit in `SaveGame`, then move files; `DeleteGame` and `RestoreGame` take the
mutex, update the row (which locks it), move files, then commit; `MarkAdded`
copies the pack of a submission and commits.  `CopyBegins` and `CopyEnds` are
`CopyFile`; a failure or a stop between them leaves a torn file.  `Answer...`
operators release mutex and session with every early return, and `AnswerFreeze`
answers with the error of the second commit.  `interrupted` and `disturbed` are
history variables: the packs a copy of which did not end, and the games met by an
event after which the code does not claim that files and rows agree (named at
`PacksInPlace`).

### Logins

`Logins`: MariaDB (`sessions`, `roles`, `armed` applications), PostgreSQL
(`events`), memory (`state`, `code`, `device`), and requests that pass through
`fetch`, `store`, `event`, `commit`, `gen` and `save`.  An operation that changes
both databases commits the event and then the change (`CommitEvent`, `CommitLogin`,
`CommitChange`).  The storages hand out clones, so `ExchangeCode`, `GenAuthToken`,
`SaveCode` and `HandleOauthDeviceResponse`, `SaveDevice` are steps of their own;
`ClaimToken` is one, because the poll holds the storage's mutex.  `TooOld` is the
comparison of `StateKeeper.Clean`, which is never true.  Role answers of Discord,
owners and scopes are constants.

### Data pack indexer

`DataPackIndexer`: the goroutine (`IndexerGetNext`, `Sleep`, `Wake`, `OpenZip`,
`NoSuchFile`, `InsertFile`, `MarkIndexed`, `IndexerMarkEmpty`, `IndexerMarkFailure`,
`BadArchive`, `EndWithError`), the shutdown of `InitApp` (`Cancel`, `TaskEnds`,
`Stop`, `SendStop`, `ReceiveStop`, `Exit`), and what requests do meanwhile to the directory and
the rows.  `InsertFile` and `MarkIndexed` are the two statements of
`IndexerInsert`, each a transaction of its own.  `Stop` reads the flag and `SendStop`
posts the signal: in between the goroutine goes on.  Requests that are in progress may
commit while the server drains (`Serving`).

### Naming

Operators have the names of the code where there is one.  An operator whose name
has an underscore and a word behind it (`Sweepable_Pinned`, `Usable_AnyGeneration`)
and whose comment begins with *Slip* is not part of the model: it is a plausible
mistake in the definition that follows, kept to show that the named property
notices it.  For each property of a passing run `PROJECT.json` names such a slip.

## 4. What is assumed of the environment

* The two SQL servers run transactions atomically; row locks of the parent
  submission serialise its writers (`LockSubmissions` before the first read).
* A commit takes effect, if it does, before the driver's `Commit` returns; after
  an error the effect is unknown.
* There is one process, hence one `Coordinator`, one registry and one consumer.
* The bot and the system author are not users (`AuthorsAssumption`), role sets are
  nested as the routes of `transport/router.go` use them (`RolesAssumption`).
* The clock does not make a later transaction sort before an earlier one of the
  same submission.
* At any time there are finitely many requests (`UploadAssumption`,
  `ClientsAssumption`).
* `submissionReceiverMutex` covers no more than one action of `UploadJobs`.
* No pack belongs to two games (`StoreAssumption`): its name holds the game's id.
* `CopyFile` truncates its target when it begins; `os.Remove` is atomic.
* The value that stands for an absent entry is no data (`CacheAssumption`).

## 5. Runs, bounds and what they show

All bounds are guards in the actions and named constants.

| run | question | instance and why it is enough |
|---|---|---|
| `review` | Do separate reviewers and the exclusion of reject and added hold, does a new version need a new review, is nobody on both sides of a decision, is what is frozen read-only, and does the cache row agree with the tests' reduction? | one submission that freezes by itself or by hand, two alike reviewers and a curator who may do the rest; two versions that the validator accepts, with or without a note. Upload (3 rows), assign, approve (2), assign, verify and freeze (3), mark-added take 11; `MaxRows` of 12 leaves room for the rejection that must not follow. Histories with a deletion or a request for changes end at `MaxWindingRows`, 7: after the upload an assignment, an approval (2) and the request that withdraws it, or a new version and a request, with the deletion of one row at any position. |
| `decisions` | Is a submission added once, with the version that was imported, through batches, forced decisions, failed imports and deletions; do metadata edits carry approvals over; does the quota hold for users in audit, and only for them? | two submissions, a user in audit, a trial curator and one who may do everything, 9 rows together (`MaxRows` and `MaxWindingRows`), 2 versions, one deletion. Nine rows are a submission that is uploaded, approved, verified, added (6) with the upload of a second (3), or one with a metadata edit. |
| `coherent` | Does the cache implement coherent reads, with entries that compete for room? | two rows, two items of which one depends on both and is twice as large, two readers, two writers, room for one entry, three commits, one failed load. Two commits that overlap, and one more that begins when they settle, are what the generation must tell apart. |
| `patience` | Does every read return, and is an ended entry never served to a call that began after its end? | one item that expires, a patient and an impatient reader, two commits. |
| `uploads` | Are chunks owned once, inputs intact, archives stored once, outcomes true? | two uploads of the same archive, two handlers, two chunks, two jobs, two workers, one retry, one fault, one restart. Two of each is what it takes to collide; the second job is the one after a sweep or a restart. All requests of a key agree on size and submission (one target): the conflict of parameters is an `Answer` that changes nothing, and the proof covers it. |
| `notifications` | Is no announcement lost, is every repetition paid for by a failure, does the queue drain? | three notifications, two announcing mutations and a silent one, two failures at any call, one restart. Deadlock is checked. |
| `games` | Are packs lost or misplaced, are redirects sound, is every request answered and does every old game thaw unless the pool runs dry? | two archived games that are due, one of them deleted, or an available game and one yet to be imported; three packs; two requests of any kind and the autounfreezer; one failure or stop. Two requests and the autounfreezer are three that wait for one mutex; two due games are what it takes for one to wait behind the other, as a round ends at its first. With three sessions the pool does run dry, so that the exception of both liveness properties is reached as well as the rule. Games never to be thawed (`Kept`) are for the proofs. |
| `logins` | Is every change logged, every code spent and every secret delivered once? | two users, an application, one code of each kind, three requests, two at a time, one failure or restart, one thing that runs out of time. The authorization code may wait to be exchanged from the start (`OpenCodes`): then one exchange is answered, another saves its stale clone late or fails, and the third request tries the code again. |
| `indexer` | Is a pack indexed whole, and does the shutdown return? | a pack of two files and an empty one, one move, two failures or crashes; any number of shutdowns and starts. Two files are what it takes to be half indexed. |
| `lost_archive`, `unannounced`, `exhausted_pool` | Violations, see section 8. | each a small instance in which the case arises; `exhausted_pool` has the four sessions of a default pool, three requests and no failure; `lost_archive` has room for one job only, so that the refusal at capacity is reached as well. |

`CHECK_DEADLOCK FALSE` is said where the bounds end the history: a full log, spent
commits, tries or requests.  It is not said for the notification queue.  The shutdown
that hangs in `Stop` is the one early stop of `indexer`, and the subject of `StopReturns`;
the pool that runs dry is the one early stop of `games`, and the subject of
`OnlyThePoolBlocks` and `EveryRequestReturns`.

States found: `review` 260 thousand, `decisions` 144 thousand, `coherent` 951 thousand,
`patience` 198 thousand, `uploads` 1.9 million, `notifications` 97 thousand, `games` 620
thousand, `logins` 1.1 million, `indexer` 189 thousand.

Symmetry is used where the permuted values have the same roles and the run checks
no liveness: reviewers without a role of their own, submissions of a batch,
readers, writers, handlers, uploads of the same content, requests, and secrets not
yet handed out.

## 6. Fairness

* `AppCache!FairSpec`: weak fairness of the loop of each reader (a goroutine that
  can run is run), of each shared load (the query and its thirty-second timeout
  end), and of the second half of each commit (`CommitEnd` is deferred and
  `commit()` returns).  Nothing is assumed of callers, of new commits or of
  expiry.  Under it `EveryGetReturns`.
* `NotificationQueue!FairSpec`: weak fairness of the consumer's own steps: its
  calls return and its sleeps end.  Handlers may stop anywhere and need not
  announce.  Under it `AnnouncementDrains`, which excludes one case explicitly: a
  failed read of the queue loses the announcement it took.

* `GameMetadata!FairSpec`: weak fairness of each request that has begun (the
  scheduler runs it, Go mutexes and the pool serve waiters, calls return) and of
  the ticker of the autounfreezer.  Requests need not begin, and calls need not fail:
  whoever waits has the patience to.  (A client that leaves ends its own wait for a
  session, and so does `ReadTimeout` after an hour; both are a `Fail`.  Nothing ends a
  wait for the mutex.)  Under it `OnlyThePoolBlocks` and `OldGamesThaw` hold, and
  `EveryRequestReturns` does not.
* `DataPackIndexer!FairSpec`: weak fairness of the indexer's goroutine, of `Stop`,
  `SendStop` and `Exit` once they can go on, of each background task (it sees its cancelled
  context) and of copies that have begun.  Signals need not come.  Under it
  `StopReturns` holds, which names the one case in which the shutdown hangs.

No liveness is claimed for uploads and logins: a request may never come back.

## 7. What is proved

TLAPS checks these for every value of the constants that satisfies the named
assumptions, without the bounds of section 5 (the bounding constants are
arbitrary numbers).

**`SubmissionHistoryProofs`** has the lemmas about the replay that the rest needs:
its type, that a request for changes excludes a decision of the same user, what
the cache row tells of the rows, and what appending and deleting do to a history.
Its last lemma, `ReplayIsReduction`, is that the replay of any history is the
tests' fold over it.  `Standings(h, n)` is what the queries would say if rows after
the `n`-th did not exist; `AccountMore` shows that one step of the fold takes
`Standings(h, n)` to `Standings(h, n + 1)`, and `AllNumbers` carries this to the
end of the history.  The one hypothesis is `Automatic`: the system account writes
automatic comments only.  It is needed because both the fold and the queries count
every author but the validator, and the sets of the cache row hold people: the
system must not appear in either.

**`SubmissionReviewProofs`** proves every property of the two review runs.  It
has two inductive invariants.

`IInv` is `TypeOK`, `CacheCurrent` and `Settled`.  `CacheCurrent` (the cache row is the
replay of the rows) is a link of the proof and no property of a run; every action that
changes rows preserves it by its own refresh.  `Settled` is needed because the
guards read the *cache row* while the properties speak of the *rows*: `Settled`
says that live mark-added rows are unique and do not coexist with a live reject,
and `CacheCurrent` turns the guard of a handler into a statement about the log.
All actions change the histories in one of a few ways (append rows, kill rows),
which the definition `HistoryChange` and its lemmas state once.  `NoTwoMinds`,
`AddedAtMostOnce` and `RejectExcludesAdded` follow.

`RInv` adds `SeparateReviewers`, `OneAuditionSubmission`, `AddedVersionImported` and
`Opened` (a history begins with a file, what is frozen exists, what is removed has
been deleted from).  It rests on `Step(s)`, which says for one submission what a
transaction did to it *and the guards it passed*: `NextSteps` shows that every action
is a `Step` of every submission, so that each of the invariants is one argument
over seven kinds of steps instead of thirteen actions and their frames.
`SeparateReviewers` goes through because a replayed row is a function of the rows,
the check of the validator was made on that very row, and a metadata edit carries
over at most one approver and one verifier, both of the row it read;
`OneAuditionSubmission` because the author of the first file never changes while no
row is deleted; `AddedVersionImported` because a history that is not settled is the
only one an import may still move, and a settled one gets no second mark-added.
`FrozenReadOnly`, `NewVersionNeedsReview` and `MetaEditKeepsApproval` are action
properties proved from the same classification.  `CacheAgreesWithReduction` follows
from `CacheCurrent`, `ReplayIsReduction` and a third invariant, that all histories
are `Automatic`.

**`AppCacheProofs`** proves every property of the cache's runs but the liveness of
`Get`.  The refinement `ReadsAreCoherent` is the main one: initial states map to initial states, and every step to a step
of `CoherentReads` or a stutter.  The invariant `CInv` says what the generation is
for: whoever holds the current generation - a load, a reader that waits or has an
outcome - holds it while no commit is pending, so what was loaded under it is what
the database still says; and a resident entry is committed data that no pending
commit is about to change.  `ResidentIsCommitted` alone is not inductive, because a
fenced commit changes the database before its second half drops anything.

`EndedIsNotServed` needs no more than `CInv`.  `NoRedundantLoad` needs that there is
one flight for a key and a generation (`OneLoad`): two of them could store one after
the other.  `WithinCapacity` and `TypeOK` need `Tidy`: the list of recent entries has
no key twice, holds the resident keys and fits both limits.  The lemmas below it are
about the operators of the list: the keys that are left when some are taken out
keep their order (`WithoutLeaves`, from `ListsExist`, an induction over the length),
a prefix that fits exists and is what eviction leaves (`FittingFits`), and fewer
keys take fewer bytes (`FewerBytes`).

**`NotificationQueueProofs`** proves `TypeOK`, `NoLostAnnouncement`,
`DuplicateCostsFailure` and `SentWasDelivered`.  The invariant adds that
the row the consumer holds is unsent and the channel is full, that only rows once
unsent were announced, and that every repetition beyond the row in the consumer's
hands has been paid for by a failure or a restart.

**`UploadJobsProofs`** proves `TypeOK`, `OneOwner`, `InputIntact`, `StoredOnce`,
`CommittedOnce` and `SuccessIsStored`.  The inductive invariant has two halves.
*Registry*: a pinned or processing job is the registered one of its key, `refs` is
the number of requests that have pinned the job, a chunk file belongs to the
registered job or to one that a restart has lost.  *Worker*: how far a worker has
got says what is in place; a try that may have committed anything belongs to a job
that is lost, has succeeded, or is not retryable; open transactions hold distinct
checksums that nobody has stored.  Neither half is inductive alone: the worker's
input is safe because the sweep respects pins and the processing state, and a
second worker cannot start because a job that is processing receives no chunk.

**`GameMetadataProofs`** proves every safety property of its run.  For `TypeOK` and
`PackSurvives` the invariant `GInv` says which step of a request holds the mutex
(`StageInv`), and, for packs no copy of which was cut short (`PackInv`), that a torn
file is the target of a copy in progress, that its source is whole, and that what is
about to be removed is whole elsewhere.  The mutex is what makes this inductive: two
movers of one pack would remove each other's copies.

`PlaceInv` adds what `PacksInPlace` and `RedirectsSound` need.  A request works from
a row it read earlier: `Recalls` says what that copy still has in common with the
row, and `Carries` where each pack of the game is while it moves them (waiting at
the source, copied and not removed, at the target).  `CalmInv` is `PacksInPlace` for
every game that nobody is moving, *also while somebody holds the mutex for another
game*; without this generalisation a request that ends has nothing to hand to the
next.  `RowsInv` keeps the packs of two games apart, so that moves of one do not
touch the other.  `LinkInv` splits `RedirectsSound` by its two ends, of which either
may be disturbed alone.  `disturbed` is a history variable that names the games met
by one of the events of section 3; the theorems speak of the others.

`ExhaustedForGood` is what of the deadlock of section 8 is no matter of fairness: while
the holder of `MetadataMutex` waits for a session and everybody who has one waits for
the mutex, no step but a failure or a stop changes that, for any number of sessions and
requests.  It needs `SessionInv`: whoever is past the reads made outside the mutex still
has its session.

**`LoginsProofs`** proves `TypeOK`, `LoginsAreLogged`, `CodeIsSpent` and
`DeliveredOnce`.  Events are counted against changes together with the requests
that have committed the one and not the other; a code that was answered for is
complete or lost with a restart, so that a later exchange is refused; a secret on
its way has one carrier, a request or a device code, and was not handed out.

**`DataPackIndexerProofs`** proves `TypeOK` and `IndexedIsWhole`.  The invariant
gives the rows expected of each pack (`Expected`): those of the files read so far
while the indexer reads it, all or none otherwise.

**Model-checked only.**  Liveness (`EveryGetReturns`, `AnnouncementDrains`,
`OnlyThePoolBlocks`, `OldGamesThaw`, `StopReturns`), and with it every statement
about enabled steps, is out of the prover's reach.  The three violations of section 8
are TLC's counterexamples.  All other properties of the runs are theorems.

**Induction.**  The library's induction theorems take an operator as a parameter,
which the provers cannot instantiate.  Where an induction over numbers was needed
(the fold of `HistoryReduction`, the lists of `AppCache`), it is carried out on a
*set*: `LeastNumber` gives every non-empty set of numbers its least member, from the
well-foundedness of `<` on the naturals, and `AllNumbers` concludes that a set with
zero and all successors holds every number.  For this the fold is a recursive
function, whose existence is a lemma (`FoldExists`), and `Without` and `Bytes` of
`AppCache` are defined without recursion: by the order-preserving list of the
positions that stay, and by counting the bytes as pairs of a key and a number.

## 8. Where the code disagrees with itself

Three runs show a line of the repository that the code does not keep.

* `lost_archive`: the upload worker treats a failed commit as ambiguous when it
  forbids the retry, and as failed when it removes the archive.
* `unannounced`: two paths store and commit notifications and tell nobody.
* `exhausted_pool`: `FreezeGame` and `UnfreezeGame` take a session of the pool and then
  wait for `MetadataMutex`; deletions, restorations, the page of a game and imports take
  the mutex and then wait for a session.  The code does not bound the waiters.  With the
  four sessions of a default pool (`pgxpool` takes four, or the number of CPUs if that is
  larger) two freezes, the autounfreezer, which has two sessions, and a deletion wait
  for each other.

What else the models show, without a run of its own:

* The same user can approve and verify: the check of `comments_action_validator.go`
  sees active decisions only, and the deletion of a later request for changes
  revives an approval beside the verification.  `SeparateReviewers` therefore
  speaks of histories from which nothing was deleted.
* A metadata edit carries a verification over only together with an approval, so
  that one whose approver has requested changes since is lost
  (`MetaEditKeepsApproval` asks for an approval).
* `UnfreezeGame` always returns an error, since `SaveGame` has committed the
  transaction it commits again; the autounfreezer thaws one game in a round.
* A data pack that is away when the indexer looks for it is given up for good, and
  one the indexer leaves in the middle stays marked and half indexed
  (`IndexedIsWhole` excludes both).  A torn archive ends the indexer, at every
  start again.
* `Stop` of the indexer reads `stopped` without the mutex and then sends on a channel
  without a buffer.  When the indexer ends with an error in between, nobody receives,
  and `InitApp` never gets to `srv.Shutdown` (the second half of `StopReturns` names
  this case, and says that there is no other).
* Two exchanges of one authorization code that both read it first both succeed
  (`CodeIsSpent` speaks of later ones); login states never expire, since their age
  is compared with itself.

`PROJECT.json` quotes the lines.

## 9. What is not modelled

* In the review model: the text of comments, subscriptions, notification rows and
  activity events (they feed back into no guard), images, downloads, similarity
  search (a boolean of the verdict).
* In the caches: entries that end by time only (statistics, validator tags) and
  the loaders' SQL, which is one abstract read of one snapshot.
* In the uploads: image chunks, sizes and quotas (one nondeterministic refusal),
  the size check of a complete upload.
* Notification text and who is mentioned.
* In the games: images (their moves fail or not, like those of packs: `Fail`), titles,
  tags, platforms, revisions, content patches, the page shown after a save, a
  commit whose outcome is unknown, and batches of mark-added, which hold a session
  more.
* In the logins: roles gate the operations of administrators only; the session
  cache is read as the committed table (that is `AppCache`); the events of new
  tokens and device answers come after the change in memory and may be missing;
  bans and the end of all sessions log nothing.  Cookies, encodings, the hashing of
  secrets and a commit whose outcome is unknown are left out; a user that is
  unknown to a foreign key is a `Fail`.  A device code past its time stays pending
  in the answers to polls; no property speaks of it.
* In the indexer: hashes and names of files.
* Submission cache rebuild: a loop whose step is the replay that every mutation
  ends with, under the same row lock.  Where the cache rows are current it changes
  nothing.
* Whole components: see the list in `PROJECT.json` with the reason for each.
  Search, statistics, link previews, templates and configuration have no state of
  their own.

## 10. Plan

Order of modules, the most important first; the first seven are done.

1. `SubmissionHistory`, `SubmissionReview`, `HistoryReduction` and their proofs.
2. `CoherentReads`, `AppCache` and the refinement proof.
3. `UploadJobs` and its proof.
4. `NotificationQueue` and its proof.
5. `GameMetadata`, with the autounfreezer, and its proof.
6. `Logins` and its proof.
7. `DataPackIndexer` and its proof.
8. Open: an abstract specification of a game with its packs in one place, which
   `GameMetadata` implements outside of failures; the composition of mark-added in
   `SubmissionReview` with `MarkAdded`; tags and content patches; the gap between
   the two commits of the review handlers.
9. Proofs: every safety and action property of the runs is proved.  Open with item 8:
   the refinement of that abstract specification by `GameMetadata`.

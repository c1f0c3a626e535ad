------------------------------- MODULE AppCache -------------------------------
(***************************************************************************)
(* The read cache of the service (appcache/cache.go): a Coordinator that   *)
(* fences commits, and a Cache that answers reads from resident entries or *)
(* from loads that concurrent readers share.                               *)
(*                                                                         *)
(* The mutex of the coordinator is held for one action and never across    *)
(* SQL, so every stretch between two lock operations is an action, and the *)
(* SQL commit and the load are actions of their own.  A commit takes       *)
(* effect in the database, if it does, before the driver's Commit returns. *)
(* Writes that touch no cached row commit without the fence and change     *)
(* nothing here.                                                           *)
(***************************************************************************)
EXTENDS Naturals, Sequences, FiniteSets, FiniteSetsExt

CONSTANTS
    Dependencies,   \* names of database rows
    Keys,           \* keys of the cache
    DependsOn,      \* Snapshot.Dependencies of each key
    Size,           \* encoded length of each key's data
    Lapsing,        \* keys whose snapshot has an expiry date
    Readers,        \* goroutines calling Get
    Impatient,      \* readers whose context may end
    Writers,        \* goroutines committing a transaction
    MaxEntries,     \* capacity of the cache in entries
    MaxBytes,       \* and in bytes
    None,           \* no key, no data
    Failure,        \* the outcome of a load that failed
    MaxCommits,     \* bound: commits fenced
    MaxFailures     \* bound: loads that fail

ASSUME CacheAssumption ==
    /\ DependsOn \in [Keys -> SUBSET Dependencies]
    /\ Size \in [Keys -> Nat]
    /\ None \notin Keys
    /\ \A k \in Keys : None \notin [DependsOn[k] -> Nat]
    /\ Impatient \subseteq Readers
    /\ MaxEntries \in Nat \ {0} /\ MaxBytes \in Nat \ {0}
    /\ Lapsing \subseteq Keys

VARIABLES
    db,         \* version of every row
    ended,      \* keys whose expiry date has passed
    writer,     \* what each writer is committing, and how far it got
    generation, \* Coordinator.generation
    resident,   \* Cache.entries: the data held for each key
    lru,        \* Cache.lru: the keys held, most recently used first
    flights,    \* loads in progress, as singleflight keeps them
    reader,     \* where each Get stands
    answer,     \* what each reader got from its last Get
    failures    \* loads failed so far

vars == <<db, ended, writer, generation, resident, lru, flights, reader,
          answer, failures>>

\* What a load of k reads from database d, in its one snapshot.
Value(k, d) == [x \in DependsOn[k] |-> d[x]]

NoCommit == [stage |-> "idle", changes |-> {}]
Starting(at, k) == [at |-> at, key |-> k, gen |-> 0, got |-> None, dated |-> FALSE]
AtRest == Starting("idle", None)

Init ==
    /\ db = [x \in Dependencies |-> 0]
    /\ ended = {}
    /\ writer = [w \in Writers |-> NoCommit]
    /\ generation = 0
    /\ resident = [k \in Keys |-> None]
    /\ lru = <<>>
    /\ flights = {}
    /\ reader = [r \in Readers |-> AtRest]
    /\ answer = [r \in Readers |-> Failure]
    /\ failures = 0

-----------------------------------------------------------------------------
(* Entries *)

Held(q) == {q[i] : i \in DOMAIN q}

\* The list without the keys in gone, the rest in the same order.
Without(q, gone) ==
    LET left == {i \in DOMAIN q : q[i] \notin gone}
        nth == CHOOSE f \in [1 .. Cardinality(left) -> left] :
                  Held(f) = left /\ \A m, n \in DOMAIN f : m < n => f[m] < f[n]
    IN  [n \in DOMAIN nth |-> q[nth[n]]]

\* remove: out of the map and out of the list.
Drop(gone) ==
    /\ resident' = [k \in Keys |-> IF k \in gone THEN None ELSE resident[k]]
    /\ lru' = Without(lru, gone)

Affected(changes) == {k \in Keys : DependsOn[k] \cap changes # {}}

\* Slip: the expiry date is looked at when data is stored, not when it is hit.
Fresh_Undated(k) == resident[k] # None

Fresh(k) == resident[k] # None /\ k \notin ended

\* lookup: a hit becomes the most recently used entry, an expired entry goes.
Lookup(k) ==
    IF Fresh(k) THEN /\ lru' = <<k>> \o Without(lru, {k})
                     /\ UNCHANGED resident
                ELSE Drop(IF k \in ended THEN {k} ELSE {})

\* Cache.bytes: the bytes of all the entries held.
Bytes(held) == Cardinality(UNION {{k} \X (1 .. Size[k]) : k \in held})

\* Slip: nothing is evicted.
Fitting_Unbounded(q) == q

\* What is left after evicting from the back until both capacities hold.
Fitting(q) ==
    LET fits == {n \in 0 .. Len(q) :
                    n <= MaxEntries /\ Bytes(Held(SubSeq(q, 1, n))) <= MaxBytes}
    IN  SubSeq(q, 1, Max(fits))

\* The end of a load: data goes in front unless it came too late or is too
\* large, and pushes out what no longer fits.
Insert(k, data) ==
    LET kept == Fitting(<<k>> \o Without(lru, {k})) IN
    /\ lru' = kept
    /\ resident' = [j \in Keys |-> IF j \notin Held(kept) THEN None
                                   ELSE IF j = k THEN data ELSE resident[j]]

-----------------------------------------------------------------------------
(* Coordinator.Commit *)

\* The writers between the two lock regions of Commit: Coordinator.pending
\* counts them.
Pending == {w \in Writers : writer[w].stage # "idle"}

CommitBegin(w) ==
    /\ writer[w].stage = "idle"
    /\ generation < 2 * MaxCommits - Cardinality(Pending)
    /\ \E D \in SUBSET Dependencies \ {{}} :
          /\ writer' = [writer EXCEPT ![w] = [stage |-> "fenced", changes |-> D]]
          /\ Drop(Affected(D))
    /\ generation' = generation + 1
    /\ UNCHANGED <<db, ended, flights, reader, answer, failures>>

\* The database commits.  A transaction that fails, or whose outcome the
\* connection loses before it took effect, goes on to CommitEnd without it.
CommitTakesEffect(w) ==
    /\ writer[w].stage = "fenced"
    /\ writer' = [writer EXCEPT ![w].stage = "effective"]
    /\ db' = [x \in Dependencies |->
                IF x \in writer[w].changes THEN db[x] + 1 ELSE db[x]]
    /\ UNCHANGED <<ended, generation, resident, lru, flights, reader, answer,
                   failures>>

\* Slip: settled is closed one commit too early.
Settles_OffByOne(w) == Cardinality(Pending) = 2

\* w's commit is the last one pending: settled is closed.
Settles(w) == Pending = {w}

\* The deferred half: it runs whatever commit() returned, and wakes the
\* readers that wait for the last commit to settle.
CommitEnd(w) ==
    /\ writer[w].stage # "idle"
    /\ writer' = [writer EXCEPT ![w] = NoCommit]
    /\ generation' = generation + 1
    /\ Drop(Affected(writer[w].changes))
    /\ reader' = [r \in Readers |->
                    IF Settles(w) /\ reader[r].at = "settle"
                    THEN [reader[r] EXCEPT !.at = "look"] ELSE reader[r]]
    /\ UNCHANGED <<db, ended, flights, answer, failures>>

-----------------------------------------------------------------------------
(* Cache.Get, as its caller runs it *)

Call(r) ==
    /\ reader[r].at = "idle"
    /\ \E k \in Keys :
          reader' = [reader EXCEPT ![r] = Starting("look", k)]
    /\ answer' = [answer EXCEPT ![r] = Failure]
    /\ UNCHANGED <<db, ended, writer, generation, resident, lru, flights, failures>>

Return(r, got) ==
    /\ reader' = [reader EXCEPT ![r] = AtRest]
    /\ answer' = [answer EXCEPT ![r] = got]

MustSettle == Pending # {}

\* One turn of the loop up to the first Unlock.  Misses wait while a commit
\* is pending; hits do not.
Look(r) ==
    LET k == reader[r].key IN
    /\ reader[r].at = "look"
    /\ Lookup(k)
    /\ IF Fresh(k) THEN Return(r, resident[k])
       ELSE /\ reader' = [reader EXCEPT
                           ![r].at = IF MustSettle THEN "settle" ELSE "join",
                           ![r].gen = generation]
            /\ UNCHANGED answer
    /\ UNCHANGED <<db, ended, writer, generation, flights, failures>>

\* Slip: a load is joined until its query starts.
InFlight_NotYetLoading(k, gen) ==
    \E f \in flights : f.gen = gen /\ f.key = k /\ f.phase = "check"

InFlight(k, gen) == \E f \in flights : f.gen = gen /\ f.key = k

\* DoChan: join the load of this key and generation, or start it.
Join(r) ==
    /\ reader[r].at = "join"
    /\ reader' = [reader EXCEPT ![r].at = "wait"]
    /\ flights' = IF InFlight(reader[r].key, reader[r].gen)
                  THEN flights
                  ELSE flights \cup {[gen |-> reader[r].gen, key |-> reader[r].key,
                                      phase |-> "check", got |-> None]}
    /\ UNCHANGED <<db, ended, writer, generation, resident, lru, answer, failures>>

\* Slip: what a shared load delivers is returned whatever was committed since.
Usable_AnyGeneration(r) ==
    /\ reader[r].got # None
    /\ ~ (reader[r].dated /\ reader[r].key \in ended)

\* What a load delivered may be returned while no commit has begun since its
\* generation.
Usable(r) ==
    /\ reader[r].gen = generation
    /\ reader[r].got # None
    /\ ~ (reader[r].dated /\ reader[r].key \in ended)

Receive(r) ==
    /\ reader[r].at = "got"
    /\ IF reader[r].got = Failure \/ Usable(r) THEN Return(r, reader[r].got)
       ELSE /\ reader' = [reader EXCEPT ![r].at = "look", ![r].got = None]
            /\ UNCHANGED answer
    /\ UNCHANGED <<db, ended, writer, generation, resident, lru, flights, failures>>

\* ctx.Done: the caller leaves, the load it started goes on.
GiveUp(r) ==
    /\ r \in Impatient
    /\ reader[r].at \in {"look", "settle", "wait", "got"}
    /\ Return(r, Failure)
    /\ UNCHANGED <<db, ended, writer, generation, resident, lru, flights, failures>>

-----------------------------------------------------------------------------
(* The shared load *)

\* Slip: loads are told apart by their generation alone.
Deliver_AnyKey(f, got, dated) ==
    /\ flights' = flights \ {f}
    /\ reader' = [r \in Readers |->
                    IF reader[r].at = "wait" /\ reader[r].gen = f.gen
                    THEN [reader[r] EXCEPT !.at = "got", !.got = got, !.dated = dated]
                    ELSE reader[r]]

\* The load ends, and everybody who waits for it gets its outcome.
Deliver(f, got, dated) ==
    /\ flights' = flights \ {f}
    /\ reader' = [r \in Readers |->
                    IF /\ reader[r].at = "wait"
                       /\ reader[r].gen = f.gen /\ reader[r].key = f.key
                    THEN [reader[r] EXCEPT !.at = "got", !.got = got, !.dated = dated]
                    ELSE reader[r]]

Advance(f, phase, got) ==
    /\ flights' = (flights \ {f}) \cup {[f EXCEPT !.phase = phase, !.got = got]}
    /\ UNCHANGED reader

\* A commit has begun since the generation was read.
Stale(f) == f.gen # generation

FlightCheck(f) ==
    /\ f.phase = "check"
    /\ IF Stale(f) THEN Deliver(f, None, FALSE) /\ UNCHANGED <<resident, lru>>
       ELSE /\ Lookup(f.key)
            /\ IF Fresh(f.key) THEN Deliver(f, resident[f.key], FALSE)
                               ELSE Advance(f, "load", None)
    /\ UNCHANGED <<db, ended, writer, generation, answer, failures>>

\* The loader's query.  It finds no session that has expired.
FlightLoad(f) ==
    /\ f.phase = "load"
    /\ IF f.key \in ended THEN Deliver(f, Failure, FALSE)
                           ELSE Advance(f, "store", Value(f.key, db))
    /\ UNCHANGED <<db, ended, writer, generation, resident, lru, answer, failures>>

\* An error of the query, or the 30 seconds of the load itself.
FlightFails(f) ==
    /\ f.phase \in {"load", "store"}
    /\ failures < MaxFailures
    /\ failures' = failures + 1
    /\ Deliver(f, Failure, FALSE)
    /\ UNCHANGED <<db, ended, writer, generation, resident, lru, answer>>

\* Slip: data loaded before a commit is stored after it.
Storable_Late(f) == f.key \notin ended /\ Size[f.key] <= MaxBytes

Storable(f) == ~ Stale(f) /\ f.key \notin ended /\ Size[f.key] <= MaxBytes

FlightStore(f) ==
    /\ f.phase = "store"
    /\ IF Storable(f) THEN Insert(f.key, f.got) ELSE UNCHANGED <<resident, lru>>
    /\ Deliver(f, f.got, f.key \in Lapsing)
    /\ UNCHANGED <<db, ended, writer, generation, answer, failures>>

\* The expiry date of a session passes.
End(k) ==
    /\ k \in Lapsing \ ended
    /\ ended' = ended \cup {k}
    /\ UNCHANGED <<db, writer, generation, resident, lru, flights, reader,
                   answer, failures>>

-----------------------------------------------------------------------------
Writing == \E w \in Writers : CommitBegin(w) \/ CommitTakesEffect(w) \/ CommitEnd(w)

Reading == \E r \in Readers :
    Call(r) \/ Look(r) \/ Join(r) \/ Receive(r) \/ GiveUp(r)

Loading == \E f \in flights :
    FlightCheck(f) \/ FlightLoad(f) \/ FlightFails(f) \/ FlightStore(f)

Next == Writing \/ Reading \/ Loading \/ \E k \in Keys : End(k)

Spec == Init /\ [][Next]_vars

\* The scheduler runs every goroutine that can run: readers past their call,
\* loads, and writers, whose commit() returns (the driver's timeouts).
LoadGoesOn(k, gen) == \E f \in flights :
    /\ f.key = k /\ f.gen = gen
    /\ FlightCheck(f) \/ FlightLoad(f) \/ FlightStore(f)

Fairness ==
    /\ \A r \in Readers : WF_vars(Look(r) \/ Join(r) \/ Receive(r))
    /\ \A k \in Keys, gen \in 0 .. 2 * MaxCommits : WF_vars(LoadGoesOn(k, gen))
    /\ \A w \in Writers : WF_vars(CommitEnd(w))

FairSpec == Spec /\ Fairness

-----------------------------------------------------------------------------
(* Properties *)

DataOf(k) == [DependsOn[k] -> Nat]

TypeOK ==
    /\ db \in [Dependencies -> Nat]
    /\ ended \subseteq Lapsing
    /\ writer \in [Writers -> [stage : {"idle", "fenced", "effective"},
                              changes : SUBSET Dependencies]]
    /\ generation \in Nat
    /\ DOMAIN resident = Keys
    /\ \A k \in Keys : resident[k] \in DataOf(k) \cup {None}
    /\ lru \in Seq(Keys)
    /\ \A f \in flights :
          /\ DOMAIN f = {"gen", "key", "phase", "got"}
          /\ f.gen \in Nat /\ f.key \in Keys
          /\ f.phase \in {"check", "load", "store"}
          /\ f.got \in DataOf(f.key) \cup {None}
    /\ DOMAIN reader = Readers
    /\ \A r \in Readers :
          /\ DOMAIN reader[r] = {"at", "key", "gen", "got", "dated"}
          /\ reader[r].at \in {"idle", "look", "settle", "join", "wait", "got"}
          /\ reader[r].gen \in Nat /\ reader[r].dated \in BOOLEAN
          /\ IF reader[r].at = "idle" THEN reader[r] = AtRest
             ELSE /\ reader[r].key \in Keys
                  /\ reader[r].got \in DataOf(reader[r].key) \cup {None, Failure}
    /\ DOMAIN answer = Readers
    /\ failures \in Nat

\* An entry that a reader may hit is what the database says now, also between
\* the two halves of a commit and after one whose outcome is unknown.
ResidentIsCommitted ==
    \A k \in Keys : resident[k] # None => resident[k] = Value(k, db)

\* The map and the list hold the same keys, each once, within both capacities
\* (remove, PushFront and the eviction loop).
WithinCapacity ==
    /\ Held(lru) = {k \in Keys : resident[k] # None}
    /\ Len(lru) = Cardinality(Held(lru))
    /\ Len(lru) <= MaxEntries
    /\ Bytes(Held(lru)) <= MaxBytes

\* Nobody queries the database for what the cache holds: readers that missed
\* together share one load, and a load that starts after another one has
\* stored the entry finds it (the second lookup of Get).
NoRedundantLoad ==
    \A f \in flights :
        f.phase # "check" /\ ~ Stale(f) => resident[f.key] = None

\* Only a reader that found an entry before it ended answers after its end.
EndedIsNotServed ==
    [][\A r \in Readers :
        reader[r].key \in ended /\ answer'[r] # answer[r] /\ answer'[r] # Failure
            => reader[r].at = "got" /\ ~ reader[r].dated]_vars

\* Every Get returns once commits stop coming in: no miss waits for ever on
\* settled, on a shared load or in the retry loop.
EveryGetReturns ==
    \A r \in Readers : reader[r].at # "idle" ~> reader[r].at = "idle"

\* The promise to the callers, refined.
CoherentAsked == [r \in Readers |-> reader[r].key]

Promise == INSTANCE CoherentReads WITH asked <- CoherentAsked

ReadsAreCoherent == Promise!Spec

=============================================================================

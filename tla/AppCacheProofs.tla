---------------------------- MODULE AppCacheProofs ----------------------------
(***************************************************************************)
(* AppCache implements CoherentReads, for every number of readers,         *)
(* writers, keys and rows, every capacity and every pattern of failures.   *)
(*                                                                         *)
(* The invariant says what the generation is for: whoever holds the        *)
(* current generation holds it while no commit is pending, so what was     *)
(* loaded under it is what the database still says.                        *)
(*                                                                         *)
(* Two additions to it give the results on loads and on capacities: a key  *)
(* has one flight per generation (OneLoad), and the list of recent entries *)
(* holds the resident keys, each once, within both limits (Tidy).          *)
(***************************************************************************)
EXTENDS AppCache, FiniteSetTheorems, TLAPS

\* Every variable the argument reads is a function on its index set.
Shape ==
    /\ db \in [Dependencies -> Nat]
    /\ generation \in Nat
    /\ DOMAIN writer = Writers
    /\ \A w \in Writers : DOMAIN writer[w] = {"stage", "changes"}
    /\ DOMAIN resident = Keys
    /\ reader = [r \in Readers |-> reader[r]]
    /\ \A r \in Readers : DOMAIN reader[r] = {"at", "key", "gen", "got", "dated"}
    /\ DOMAIN answer = Readers

\* A resident entry is committed data, and no pending commit is about to
\* change it.
ResidentSafe ==
    \A k \in Keys : resident[k] # None =>
        /\ resident[k] = Value(k, db)
        /\ \A w \in Pending : DependsOn[k] \cap writer[w].changes = {}

FlightSafe(f) ==
    /\ DOMAIN f = {"gen", "key", "phase", "got"}
    /\ f.key \in Keys /\ f.gen \in Nat /\ f.gen <= generation
    /\ f.phase \in {"check", "load", "store"}
    /\ f.gen = generation =>
          /\ Pending = {}
          /\ f.phase = "store" => f.got = Value(f.key, db)

ReaderSafe(r) ==
    /\ reader[r].at = "idle" <=> reader[r].key = None
    /\ reader[r].key \in Keys \cup {None}
    /\ reader[r].gen \in Nat /\ reader[r].gen <= generation
    /\ reader[r].at \in {"join", "wait", "got"} /\ reader[r].gen = generation
          => Pending = {}
    /\ reader[r].at = "got" /\ reader[r].gen = generation
          => reader[r].got \in {None, Failure, Value(reader[r].key, db)}

CInv ==
    /\ Shape
    /\ ResidentSafe
    /\ \A f \in flights : FlightSafe(f)
    /\ \A r \in Readers : ReaderSafe(r)

\* The variables of the promise, and of what only helps to keep it.
Seen == <<db, CoherentAsked, answer>>

-----------------------------------------------------------------------------
LEMMA InitCInv == Init => CInv /\ Promise!Init
<1> SUFFICES ASSUME Init PROVE CInv /\ Promise!Init
  OBVIOUS
<1>1. Shape
  BY DEF Init, Shape, NoCommit, AtRest, Starting
<1>2. ResidentSafe /\ \A f \in flights : FlightSafe(f)
  BY DEF Init, ResidentSafe
<1>3. \A r \in Readers : ReaderSafe(r)
  BY DEF Init, ReaderSafe, AtRest, Starting
<1>4. Promise!Init
  BY DEF Init, Promise!Init, CoherentAsked, AtRest, Starting
<1> QED
  BY <1>1, <1>2, <1>3, <1>4 DEF CInv

-----------------------------------------------------------------------------
(* Commits *)

LEMMA CommitBeginStep ==
    ASSUME CInv, NEW w \in Writers, CommitBegin(w)
    PROVE  CInv' /\ UNCHANGED Seen
<1>1. PICK D \in SUBSET Dependencies \ {{}} :
        /\ writer' = [writer EXCEPT ![w] = [stage |-> "fenced", changes |-> D]]
        /\ Drop(Affected(D))
  BY DEF CommitBegin
<1>2. /\ generation' = generation + 1
      /\ UNCHANGED <<db, flights, reader, answer>>
  BY DEF CommitBegin
<1>3. Shape'
  BY <1>1, <1>2 DEF CInv, Shape, Drop
<1>4. ResidentSafe'
  <2> SUFFICES ASSUME NEW k \in Keys, resident'[k] # None
               PROVE  /\ resident'[k] = Value(k, db')
                      /\ \A v \in Pending' : DependsOn[k] \cap writer'[v].changes = {}
    BY DEF ResidentSafe, Value
  <2>1. resident'[k] = resident[k] /\ k \notin Affected(D)
    BY <1>1 DEF Drop
  <2>2. resident'[k] = Value(k, db')
    BY <1>2, <2>1 DEF CInv, ResidentSafe
  <2>3. ASSUME NEW v \in Pending'
        PROVE  DependsOn[k] \cap writer'[v].changes = {}
    <3>1. CASE v = w
      BY <1>1, <2>1, <3>1 DEF CInv, Shape, Affected
    <3>2. CASE v # w
      <4>1. writer'[v] = writer[v] /\ v \in Pending
        BY <1>1, <2>3, <3>2 DEF Pending, CInv, Shape
      <4> QED
        BY <2>1, <4>1 DEF CInv, ResidentSafe
    <3> QED
      BY <3>1, <3>2
  <2> QED
    BY <2>2, <2>3
<1>5. \A f \in flights' : FlightSafe(f)'
  BY <1>2 DEF CInv, Shape, FlightSafe
<1>6. \A r \in Readers : ReaderSafe(r)'
  BY <1>2 DEF CInv, Shape, ReaderSafe
<1> QED
  BY <1>2, <1>3, <1>4, <1>5, <1>6 DEF CInv, Seen, CoherentAsked

LEMMA CommitTakesEffectStep ==
    ASSUME CInv, NEW w \in Writers, CommitTakesEffect(w)
    PROVE  CInv' /\ Promise!Commit
<1>1. /\ writer' = [writer EXCEPT ![w].stage = "effective"]
      /\ db' = [x \in Dependencies |->
                  IF x \in writer[w].changes THEN db[x] + 1 ELSE db[x]]
      /\ UNCHANGED <<generation, resident, flights, reader, answer>>
      /\ writer[w].stage = "fenced"
  BY DEF CommitTakesEffect
<1>2. w \in Pending /\ Pending' = Pending
      /\ \A v \in Writers : writer'[v].changes = writer[v].changes
  BY <1>1 DEF Pending, CInv, Shape
<1>3. Shape'
  BY <1>1 DEF CInv, Shape
<1>4. ResidentSafe'
  <2> SUFFICES ASSUME NEW k \in Keys, resident[k] # None
               PROVE  /\ resident[k] = Value(k, db')
                      /\ \A v \in Pending : DependsOn[k] \cap writer'[v].changes = {}
    BY <1>1, <1>2 DEF ResidentSafe, Value
  <2>1. \A x \in DependsOn[k] : x \in Dependencies /\ x \notin writer[w].changes
    BY <1>2, CacheAssumption DEF CInv, ResidentSafe
  <2>2. Value(k, db') = Value(k, db)
    BY <1>1, <2>1 DEF Value
  <2> QED
    BY <1>2, <2>2 DEF CInv, ResidentSafe, Pending
<1>5. \A f \in flights' : FlightSafe(f)'
  BY <1>1, <1>2 DEF CInv, FlightSafe
<1>6. \A r \in Readers : ReaderSafe(r)'
  BY <1>1, <1>2 DEF CInv, ReaderSafe
<1>7. Promise!Commit
  <2>1. db' = [x \in Dependencies |->
                 IF x \in writer[w].changes \cap Dependencies THEN db[x] + 1 ELSE db[x]]
    BY <1>1
  <2>2. writer[w].changes \cap Dependencies \in SUBSET Dependencies
    OBVIOUS
  <2> QED
    BY <1>1, <2>1, <2>2 DEF Promise!Commit, CoherentAsked
<1> QED
  BY <1>3, <1>4, <1>5, <1>6, <1>7 DEF CInv

LEMMA CommitEndStep ==
    ASSUME CInv, NEW w \in Writers, CommitEnd(w)
    PROVE  CInv' /\ UNCHANGED Seen
<1>1. /\ writer' = [writer EXCEPT ![w] = NoCommit]
      /\ generation' = generation + 1
      /\ Drop(Affected(writer[w].changes))
      /\ UNCHANGED <<db, flights, answer>>
  BY DEF CommitEnd
<1>2. Pending' \subseteq Pending
      /\ \A v \in Pending' : writer'[v] = writer[v]
  BY <1>1 DEF Pending, CInv, Shape, NoCommit
<1>3. /\ reader' = [r \in Readers |-> reader'[r]]
      /\ \A r \in Readers :
          /\ DOMAIN reader'[r] = DOMAIN reader[r]
          /\ reader'[r].key = reader[r].key /\ reader'[r].gen = reader[r].gen
          /\ reader'[r].got = reader[r].got
          /\ \/ reader'[r].at = reader[r].at
             \/ reader[r].at = "settle" /\ reader'[r].at = "look"
  <2>1. reader' = [r \in Readers |->
                    IF Settles(w) /\ reader[r].at = "settle"
                    THEN [reader[r] EXCEPT !.at = "look"] ELSE reader[r]]
    BY DEF CommitEnd
  <2>2. ASSUME NEW r \in Readers
        PROVE  \/ reader'[r] = reader[r]
               \/ /\ reader[r].at = "settle"
                  /\ reader'[r] = [reader[r] EXCEPT !.at = "look"]
    BY <2>1
  <2>3. \A r \in Readers : DOMAIN reader[r] = {"at", "key", "gen", "got", "dated"}
    BY DEF CInv, Shape
  <2>4. reader' = [r \in Readers |-> reader'[r]]
    BY <2>1
  <2>5. ASSUME NEW r \in Readers
        PROVE  /\ DOMAIN reader'[r] = DOMAIN reader[r]
               /\ reader'[r].key = reader[r].key /\ reader'[r].gen = reader[r].gen
               /\ reader'[r].got = reader[r].got
               /\ \/ reader'[r].at = reader[r].at
                  \/ reader[r].at = "settle" /\ reader'[r].at = "look"
    BY <2>2, <2>3
  <2> QED
    BY <2>4, <2>5
<1>4. Shape'
  BY <1>1, <1>3 DEF CInv, Shape, Drop, NoCommit
<1>5. ResidentSafe'
  BY <1>1, <1>2 DEF CInv, ResidentSafe, Drop, Value
<1>6. \A f \in flights' : FlightSafe(f)'
  BY <1>1 DEF CInv, Shape, FlightSafe
<1>7. \A r \in Readers : ReaderSafe(r)'
  BY <1>1, <1>3 DEF CInv, Shape, ReaderSafe
<1>8. UNCHANGED Seen
  BY <1>1, <1>3 DEF Seen, CoherentAsked
<1> QED
  BY <1>4, <1>5, <1>6, <1>7, <1>8 DEF CInv

-----------------------------------------------------------------------------
(* Readers *)

\* A step of reader r that leaves the rest of the cache as it is safe for, as
\* long as r itself ends up safe.
LEMMA ReaderMoves ==
    ASSUME CInv, NEW r \in Readers, NEW rec,
           DOMAIN rec = {"at", "key", "gen", "got", "dated"},
           reader' = [reader EXCEPT ![r] = rec],
           UNCHANGED <<db, writer, generation>>,
           DOMAIN answer' = Readers,
           \A k \in Keys : resident'[k] \in {None, resident[k]},
           DOMAIN resident' = Keys,
           \A f \in flights' : FlightSafe(f),
           ReaderSafe(r)'
    PROVE  CInv'
<1>1. Shape'
  BY DEF CInv, Shape
<1>2. Pending' = Pending
  BY DEF Pending
<1>3. ResidentSafe'
  BY <1>2 DEF CInv, ResidentSafe, Value
<1>4. \A f \in flights' : FlightSafe(f)'
  BY <1>2 DEF FlightSafe, Value
<1>5. ASSUME NEW q \in Readers, q # r
      PROVE  ReaderSafe(q)'
  <2>1. reader'[q] = reader[q]
    BY <1>5 DEF CInv, Shape
  <2> QED
    BY <1>2, <2>1 DEF CInv, ReaderSafe, Value
<1> QED
  BY <1>1, <1>3, <1>4, <1>5 DEF CInv

\* What a reader asks for changes with its own record alone.
LEMMA AskedExcept ==
    ASSUME NEW r \in Readers, NEW k,
           \A q \in Readers : reader'[q].key = IF q = r THEN k ELSE reader[q].key
    PROVE  CoherentAsked' = [CoherentAsked EXCEPT ![r] = k]
BY DEF CoherentAsked

LEMMA CallStep ==
    ASSUME CInv, NEW r \in Readers, Call(r)
    PROVE  CInv' /\ Promise!Ask(r)
<1>1. PICK k \in Keys :
        reader' = [reader EXCEPT ![r] = Starting("look", k)]
  BY DEF Call
<1> DEFINE rec == Starting("look", k)
<1>2. rec = [at |-> "look", key |-> k, gen |-> 0, got |-> None, dated |-> FALSE]
  BY DEF AtRest, Starting
<1>3. /\ reader[r].at = "idle"
      /\ answer' = [answer EXCEPT ![r] = Failure]
      /\ UNCHANGED <<db, writer, generation, resident, flights>>
  BY DEF Call
<1>4. reader'[r] = rec /\ \A q \in Readers : q # r => reader'[q] = reader[q]
  BY <1>1 DEF CInv, Shape
<1>5. ReaderSafe(r)'
  BY <1>2, <1>3, <1>4, CacheAssumption DEF ReaderSafe, CInv, Shape
<1>6. CInv'
  BY <1>1, <1>2, <1>3, <1>5, ReaderMoves DEF CInv, Shape
<1>7. CoherentAsked[r] = None
  BY <1>3 DEF CInv, ReaderSafe, CoherentAsked
<1>8. CoherentAsked' = [CoherentAsked EXCEPT ![r] = k]
  BY <1>2, <1>4, AskedExcept
<1> QED
  BY <1>3, <1>6, <1>7, <1>8 DEF Promise!Ask

\* What Return does to the promise.
LEMMA Returned ==
    ASSUME CInv, NEW r \in Readers, NEW got, Return(r, got),
           UNCHANGED <<writer, generation>>
    PROVE  /\ CoherentAsked' = [CoherentAsked EXCEPT ![r] = None]
           /\ answer' = [answer EXCEPT ![r] = got]
           /\ DOMAIN answer' = Readers
           /\ DOMAIN AtRest = {"at", "key", "gen", "got", "dated"}
           /\ reader' = [reader EXCEPT ![r] = AtRest]
           /\ ReaderSafe(r)'
<1>1. reader'[r] = AtRest /\ \A q \in Readers : q # r => reader'[q] = reader[q]
  BY DEF CInv, Shape, Return
<1>2. AtRest = [at |-> "idle", key |-> None, gen |-> 0, got |-> None, dated |-> FALSE]
  BY DEF AtRest, Starting
<1>3. CoherentAsked' = [CoherentAsked EXCEPT ![r] = None]
  BY <1>1, <1>2, AskedExcept
<1>4. ReaderSafe(r)'
  BY <1>1, <1>2 DEF CInv, Shape, ReaderSafe
<1> QED
  BY <1>2, <1>3, <1>4 DEF CInv, Shape, Return

\* A lookup returns nothing but resident data and only drops entries.
LEMMA LookupKeeps ==
    ASSUME CInv, NEW k \in Keys, Lookup(k)
    PROVE  /\ DOMAIN resident' = Keys
           /\ \A j \in Keys : resident'[j] \in {None, resident[j]}
           /\ Fresh(k) => resident[k] = Value(k, db)
<1>1. CASE Fresh(k)
  BY <1>1 DEF CInv, Shape, ResidentSafe, Lookup, Fresh
<1>2. CASE ~ Fresh(k)
  BY <1>2 DEF CInv, Shape, Lookup, Drop
<1> QED
  BY <1>1, <1>2

LEMMA LookStep ==
    ASSUME CInv, NEW r \in Readers, Look(r)
    PROVE  CInv' /\ (Promise!Answer(r) \/ UNCHANGED Seen)
<1> DEFINE k == reader[r].key
<1>1. /\ reader[r].at = "look" /\ Lookup(k)
      /\ UNCHANGED <<db, writer, generation, flights>>
  BY DEF Look
<1>2. k \in Keys
  BY <1>1 DEF CInv, ReaderSafe
<1>3. /\ DOMAIN resident' = Keys
      /\ \A j \in Keys : resident'[j] \in {None, resident[j]}
      /\ Fresh(k) => resident[k] = Value(k, db)
  BY <1>1, <1>2, LookupKeeps
<1>4. CASE Fresh(k)
  <2>1. Return(r, resident[k])
    BY <1>4 DEF Look
  <2>2. /\ CoherentAsked' = [CoherentAsked EXCEPT ![r] = None]
        /\ answer' = [answer EXCEPT ![r] = resident[k]]
        /\ DOMAIN answer' = Readers
        /\ DOMAIN AtRest = {"at", "key", "gen", "got", "dated"}
        /\ reader' = [reader EXCEPT ![r] = AtRest]
        /\ ReaderSafe(r)'
    BY <1>1, <2>1, Returned
  <2>3. CInv'
    BY <1>1, <1>3, <2>2, ReaderMoves DEF CInv
  <2>4. Promise!Answer(r)
    BY <1>1, <1>2, <1>3, <1>4, <2>2 DEF Promise!Answer, Promise!Value, Value, CoherentAsked
  <2> QED
    BY <2>3, <2>4
<1>5. CASE ~ Fresh(k)
  <2> DEFINE rec == [reader[r] EXCEPT !.at = IF MustSettle THEN "settle" ELSE "join",
                                      !.gen = generation]
  <2>1. reader' = [reader EXCEPT ![r] = rec] /\ UNCHANGED answer
    BY <1>5 DEF Look
  <2>2. DOMAIN rec = {"at", "key", "gen", "got", "dated"}
    BY DEF CInv, Shape
  <2>3. /\ reader'[r] = rec /\ rec.key = k /\ rec.gen = generation
        /\ rec.at = IF MustSettle THEN "settle" ELSE "join"
        /\ \A q \in Readers : q # r => reader'[q] = reader[q]
    BY <2>1 DEF CInv, Shape
  <2>4. Pending' = Pending
    BY <1>1 DEF Pending
  <2>5. ReaderSafe(r)'
    BY <1>1, <1>2, <2>3, <2>4, CacheAssumption DEF CInv, Shape, ReaderSafe, MustSettle
  <2>6. CInv'
    BY <1>1, <1>3, <2>1, <2>2, <2>5, ReaderMoves DEF CInv, Shape
  <2>7. CoherentAsked' = CoherentAsked
    BY <2>3 DEF CoherentAsked
  <2> QED
    BY <1>1, <2>1, <2>6, <2>7 DEF Seen
<1> QED
  BY <1>4, <1>5

LEMMA JoinStep ==
    ASSUME CInv, NEW r \in Readers, Join(r)
    PROVE  CInv' /\ UNCHANGED Seen
<1> DEFINE rec == [reader[r] EXCEPT !.at = "wait"]
           new == [gen |-> reader[r].gen, key |-> reader[r].key,
                   phase |-> "check", got |-> None]
<1>1. /\ reader[r].at = "join" /\ reader' = [reader EXCEPT ![r] = rec]
      /\ flights' \subseteq flights \cup {new}
      /\ UNCHANGED <<db, writer, generation, resident, answer>>
  BY DEF Join
<1>2. DOMAIN rec = {"at", "key", "gen", "got", "dated"}
  BY DEF CInv, Shape
<1>3. /\ reader'[r] = rec /\ rec.key = reader[r].key /\ rec.gen = reader[r].gen
      /\ rec.at = "wait"
      /\ \A q \in Readers : q # r => reader'[q] = reader[q]
  BY <1>1 DEF CInv, Shape
<1>4. Pending' = Pending
  BY <1>1 DEF Pending
<1>5. ReaderSafe(r)'
  BY <1>1, <1>3, <1>4 DEF CInv, Shape, ReaderSafe
<1>6. FlightSafe(new)
  BY <1>1 DEF CInv, ReaderSafe, FlightSafe
<1>7. CInv'
  BY <1>1, <1>2, <1>5, <1>6, ReaderMoves DEF CInv, Shape
<1>8. CoherentAsked' = CoherentAsked
  BY <1>3 DEF CoherentAsked
<1> QED
  BY <1>1, <1>7, <1>8 DEF Seen

LEMMA ReceiveStep ==
    ASSUME CInv, NEW r \in Readers, Receive(r)
    PROVE  CInv' /\ (Promise!Answer(r) \/ Promise!Fail(r) \/ UNCHANGED Seen)
<1>1. /\ reader[r].at = "got"
      /\ UNCHANGED <<db, writer, generation, resident, flights>>
  BY DEF Receive
<1>2. reader[r].key \in Keys /\ reader[r].key # None
  BY <1>1, CacheAssumption DEF CInv, ReaderSafe
<1>3. CASE reader[r].got = Failure \/ Usable(r)
  <2> DEFINE got == reader[r].got
  <2>1. Return(r, got)
    BY <1>3 DEF Receive
  <2>2. /\ CoherentAsked' = [CoherentAsked EXCEPT ![r] = None]
        /\ answer' = [answer EXCEPT ![r] = got]
        /\ DOMAIN answer' = Readers
        /\ DOMAIN AtRest = {"at", "key", "gen", "got", "dated"}
        /\ reader' = [reader EXCEPT ![r] = AtRest]
        /\ ReaderSafe(r)'
    BY <1>1, <2>1, Returned
  <2>3. CInv'
    BY <1>1, <2>2, ReaderMoves DEF CInv, Shape
  <2>4. got \in {Failure, Value(reader[r].key, db)}
    BY <1>1, <1>3 DEF CInv, ReaderSafe, Usable
  <2>5. CASE got = Failure
    BY <1>1, <1>2, <2>2, <2>3, <2>5 DEF Promise!Fail, CoherentAsked
  <2>6. CASE got = Value(reader[r].key, db)
    BY <1>1, <1>2, <2>2, <2>3, <2>6 DEF Promise!Answer, Promise!Value, Value, CoherentAsked
  <2> QED
    BY <2>3, <2>4, <2>5, <2>6
<1>4. CASE ~ (reader[r].got = Failure \/ Usable(r))
  <2> DEFINE rec == [reader[r] EXCEPT !.at = "look", !.got = None]
  <2>1. reader' = [reader EXCEPT ![r] = rec] /\ UNCHANGED answer
    BY <1>4 DEF Receive
  <2>2. DOMAIN rec = {"at", "key", "gen", "got", "dated"}
    BY DEF CInv, Shape
  <2>3. /\ reader'[r] = rec /\ rec.key = reader[r].key /\ rec.gen = reader[r].gen
        /\ rec.at = "look"
        /\ \A q \in Readers : q # r => reader'[q] = reader[q]
    BY <2>1 DEF CInv, Shape
  <2>4. ReaderSafe(r)'
    BY <1>1, <1>2, <2>3 DEF CInv, Shape, ReaderSafe
  <2>5. CInv'
    BY <1>1, <2>1, <2>2, <2>4, ReaderMoves DEF CInv, Shape
  <2>6. CoherentAsked' = CoherentAsked
    BY <2>3 DEF CoherentAsked
  <2> QED
    BY <1>1, <2>1, <2>5, <2>6 DEF Seen
<1> QED
  BY <1>3, <1>4

LEMMA GiveUpStep ==
    ASSUME CInv, NEW r \in Readers, GiveUp(r)
    PROVE  CInv' /\ Promise!Fail(r)
<1>1. /\ reader[r].at # "idle" /\ Return(r, Failure)
      /\ UNCHANGED <<db, writer, generation, resident, flights>>
  BY DEF GiveUp
<1>2. reader[r].key # None
  BY <1>1 DEF CInv, ReaderSafe
<1>3. /\ CoherentAsked' = [CoherentAsked EXCEPT ![r] = None]
      /\ answer' = [answer EXCEPT ![r] = Failure]
      /\ DOMAIN answer' = Readers
      /\ DOMAIN AtRest = {"at", "key", "gen", "got", "dated"}
      /\ reader' = [reader EXCEPT ![r] = AtRest]
      /\ ReaderSafe(r)'
  BY <1>1, Returned
<1>4. CInv'
  BY <1>1, <1>3, ReaderMoves DEF CInv, Shape
<1> QED
  BY <1>1, <1>2, <1>3, <1>4 DEF Promise!Fail, CoherentAsked

-----------------------------------------------------------------------------
(* Loads *)

\* A step of a load that delivers what its readers may use, or goes on with
\* what it may store.
LEMMA FlightMoves ==
    ASSUME CInv,
           UNCHANGED <<db, writer, generation, answer>>,
           ResidentSafe',
           DOMAIN resident' = Keys,
           \A f \in flights' : FlightSafe(f),
           reader' = [r \in Readers |-> reader'[r]],
           NEW gen, NEW key, NEW got,
           gen = generation => got \in {None, Failure, Value(key, db)},
           gen = generation => Pending = {},
           \A r \in Readers :
              \/ reader'[r] = reader[r]
              \/ /\ DOMAIN reader'[r] = {"at", "key", "gen", "got", "dated"}
                 /\ reader[r].at = "wait" /\ reader'[r].at = "got"
                 /\ reader[r].key = key /\ reader'[r].key = key
                 /\ reader[r].gen = gen /\ reader'[r].gen = gen
                 /\ reader'[r].got = got
    PROVE  CInv' /\ UNCHANGED Seen
<1>1. Pending' = Pending
  BY DEF Pending
<1>2. Shape'
  BY DEF CInv, Shape
<1>3. \A f \in flights' : FlightSafe(f)'
  BY <1>1 DEF FlightSafe, Value
<1>4. ASSUME NEW r \in Readers
      PROVE  ReaderSafe(r)' /\ reader'[r].key = reader[r].key
  <2>1. CASE reader'[r] = reader[r]
    BY <1>1, <2>1 DEF CInv, ReaderSafe, Value
  <2>2. CASE reader'[r] # reader[r]
    BY <1>1, <2>2 DEF CInv, ReaderSafe, Value
  <2> QED
    BY <2>1, <2>2
<1>5. CoherentAsked' = CoherentAsked
  BY <1>4 DEF CoherentAsked
<1> QED
  BY <1>2, <1>3, <1>4, <1>5 DEF CInv, Seen

\* What Deliver does to the readers.
LEMMA Delivered ==
    ASSUME CInv, NEW f \in flights, NEW got, NEW dated, Deliver(f, got, dated)
    PROVE  /\ flights' \subseteq flights
           /\ reader' = [r \in Readers |-> reader'[r]]
           /\ \A r \in Readers :
                \/ reader'[r] = reader[r]
                \/ /\ DOMAIN reader'[r] = {"at", "key", "gen", "got", "dated"}
                   /\ reader[r].at = "wait" /\ reader'[r].at = "got"
                   /\ reader[r].key = f.key /\ reader'[r].key = f.key
                   /\ reader[r].gen = f.gen /\ reader'[r].gen = f.gen
                   /\ reader'[r].got = got
<1>1. reader' = [r \in Readers |-> reader'[r]] /\ flights' \subseteq flights
  BY DEF Deliver
<1>2. ASSUME NEW r \in Readers
      PROVE  \/ reader'[r] = reader[r]
             \/ /\ reader[r].at = "wait"
                /\ reader[r].gen = f.gen /\ reader[r].key = f.key
                /\ reader'[r] = [reader[r] EXCEPT !.at = "got", !.got = got,
                                                 !.dated = dated]
  BY DEF Deliver
<1>3. \A r \in Readers : DOMAIN reader[r] = {"at", "key", "gen", "got", "dated"}
  BY DEF CInv, Shape
<1>4. ASSUME NEW r \in Readers
      PROVE  \/ reader'[r] = reader[r]
             \/ /\ DOMAIN reader'[r] = {"at", "key", "gen", "got", "dated"}
                /\ reader[r].at = "wait" /\ reader'[r].at = "got"
                /\ reader[r].key = f.key /\ reader'[r].key = f.key
                /\ reader[r].gen = f.gen /\ reader'[r].gen = f.gen
                /\ reader'[r].got = got
  BY <1>2, <1>3
<1> QED
  BY <1>1, <1>4

\* Delivering what its readers may use.
LEMMA DeliverMoves ==
    ASSUME CInv, NEW f \in flights, NEW got, NEW dated, Deliver(f, got, dated),
           UNCHANGED <<db, writer, generation, answer>>,
           ResidentSafe', DOMAIN resident' = Keys,
           f.gen = generation => got \in {None, Failure, Value(f.key, db)}
    PROVE  CInv' /\ UNCHANGED Seen
<1> DEFINE gen == f.gen
           key == f.key
<1>1. \A h \in flights' : FlightSafe(h)
  BY Delivered DEF CInv
<1>2. gen = generation => Pending = {}
  BY DEF CInv, FlightSafe
<1>3. reader' = [r \in Readers |-> reader'[r]]
  BY Delivered
<1>4. \A r \in Readers :
        \/ reader'[r] = reader[r]
        \/ /\ DOMAIN reader'[r] = {"at", "key", "gen", "got", "dated"}
           /\ reader[r].at = "wait" /\ reader'[r].at = "got"
           /\ reader[r].key = key /\ reader'[r].key = key
           /\ reader[r].gen = gen /\ reader'[r].gen = gen
           /\ reader'[r].got = got
  BY Delivered
<1>5. gen = generation => got \in {None, Failure, Value(key, db)}
  OBVIOUS
<1> HIDE DEF gen, key
<1> QED
  BY <1>1, <1>2, <1>3, <1>4, <1>5, FlightMoves

\* Dropping entries, and touching none, keeps the resident ones safe.
LEMMA DroppedSafe ==
    ASSUME CInv, UNCHANGED <<db, writer>>,
           \A k \in Keys : resident'[k] \in {None, resident[k]}
    PROVE  ResidentSafe'
BY DEF CInv, ResidentSafe, Pending, Value

LEMMA FlightCheckStep ==
    ASSUME CInv, NEW f \in flights, FlightCheck(f)
    PROVE  CInv' /\ UNCHANGED Seen
<1>1. /\ f.phase = "check" /\ FlightSafe(f) /\ f.key \in Keys
      /\ UNCHANGED <<db, writer, generation, answer>>
  BY DEF FlightCheck, CInv, FlightSafe
<1>2. CASE Stale(f)
  <2>1. Deliver(f, None, FALSE) /\ UNCHANGED resident
    BY <1>2 DEF FlightCheck
  <2>2. ResidentSafe' /\ DOMAIN resident' = Keys
    BY <1>1, <2>1, DroppedSafe DEF CInv, Shape
  <2> QED
    BY <1>1, <1>2, <2>1, <2>2, DeliverMoves DEF Stale
<1>3. CASE ~ Stale(f)
  <2>1. Lookup(f.key)
    BY <1>3 DEF FlightCheck
  <2>2. /\ ResidentSafe' /\ DOMAIN resident' = Keys
        /\ Fresh(f.key) => resident[f.key] = Value(f.key, db)
    BY <1>1, <2>1, LookupKeeps, DroppedSafe
  <2>3. f.gen = generation /\ Pending = {}
    BY <1>1, <1>3 DEF Stale, FlightSafe
  <2>4. CASE Fresh(f.key)
    <3>1. Deliver(f, resident[f.key], FALSE)
      BY <1>3, <2>4 DEF FlightCheck
    <3> QED
      BY <1>1, <2>2, <2>3, <2>4, <3>1, DeliverMoves
  <2>5. CASE ~ Fresh(f.key)
    <3>1. Advance(f, "load", None)
      BY <1>3, <2>5 DEF FlightCheck
    <3> DEFINE g == [f EXCEPT !.phase = "load", !.got = None]
    <3>2. FlightSafe(g)
      BY <1>1 DEF FlightSafe
    <3>3. \A h \in flights' : FlightSafe(h)
      BY <3>1, <3>2 DEF Advance, CInv
    <3> QED
      BY <1>1, <2>2, <2>3, <3>1, <3>3, FlightMoves DEF CInv, Shape, Advance
  <2> QED
    BY <2>4, <2>5
<1> QED
  BY <1>2, <1>3

LEMMA FlightLoadStep ==
    ASSUME CInv, NEW f \in flights, FlightLoad(f)
    PROVE  CInv' /\ UNCHANGED Seen
<1>1. /\ f.phase = "load" /\ FlightSafe(f) /\ f.key \in Keys
      /\ UNCHANGED <<db, writer, generation, resident, answer>>
  BY DEF FlightLoad, CInv, FlightSafe
<1>2. ResidentSafe' /\ DOMAIN resident' = Keys
  BY <1>1, DroppedSafe DEF CInv, Shape
<1>3. f.gen = generation => Pending = {}
  BY <1>1 DEF FlightSafe
<1>4. CASE f.key \in ended
  <2>1. Deliver(f, Failure, FALSE)
    BY <1>4 DEF FlightLoad
  <2> QED
    BY <1>1, <1>2, <2>1, DeliverMoves
<1>5. CASE f.key \notin ended
  <2>1. Advance(f, "store", Value(f.key, db))
    BY <1>5 DEF FlightLoad
  <2> DEFINE g == [f EXCEPT !.phase = "store", !.got = Value(f.key, db)]
  <2>2. FlightSafe(g)
    BY <1>1 DEF FlightSafe
  <2>3. \A h \in flights' : FlightSafe(h)
    BY <2>1, <2>2 DEF Advance, CInv
  <2> QED
    BY <1>1, <1>2, <1>3, <2>1, <2>3, FlightMoves DEF CInv, Shape, Advance
<1> QED
  BY <1>4, <1>5

LEMMA FlightFailsStep ==
    ASSUME CInv, NEW f \in flights, FlightFails(f)
    PROVE  CInv' /\ UNCHANGED Seen
<1>1. /\ FlightSafe(f) /\ Deliver(f, Failure, FALSE)
      /\ UNCHANGED <<db, writer, generation, resident, answer>>
  BY DEF FlightFails, CInv
<1>2. ResidentSafe' /\ DOMAIN resident' = Keys
  BY <1>1, DroppedSafe DEF CInv, Shape
<1>3. f.gen = generation => Pending = {}
  BY <1>1 DEF FlightSafe
<1> QED
  BY <1>1, <1>2, <1>3, DeliverMoves

LEMMA FlightStoreStep ==
    ASSUME CInv, NEW f \in flights, FlightStore(f)
    PROVE  CInv' /\ UNCHANGED Seen
<1>1. /\ f.phase = "store" /\ FlightSafe(f) /\ f.key \in Keys
      /\ Deliver(f, f.got, f.key \in Lapsing)
      /\ UNCHANGED <<db, writer, generation, answer>>
  BY DEF FlightStore, CInv, FlightSafe
<1>2. f.gen = generation => Pending = {} /\ f.got = Value(f.key, db)
  BY <1>1 DEF FlightSafe
<1>3. ResidentSafe' /\ DOMAIN resident' = Keys
  <2>1. CASE Storable(f)
    <3>1. /\ DOMAIN resident' = Keys
          /\ \A k \in Keys : \/ resident'[k] \in {None, resident[k]}
                             \/ k = f.key /\ resident'[k] = f.got
      BY <2>1 DEF FlightStore, Insert
    <3>2. Pending' = Pending /\ Pending = {} /\ f.got = Value(f.key, db)
      BY <1>1, <1>2, <2>1 DEF Storable, Stale, Pending
    <3>3. ASSUME NEW k \in Keys, resident'[k] # None
          PROVE  resident'[k] = Value(k, db)
      BY <3>1, <3>2, <3>3 DEF CInv, ResidentSafe
    <3>4. ResidentSafe'
      BY <1>1, <3>2, <3>3 DEF ResidentSafe, Value
    <3> QED
      BY <3>1, <3>4
  <2>2. CASE ~ Storable(f)
    BY <1>1, <2>2, DroppedSafe DEF FlightStore, CInv, Shape
  <2> QED
    BY <2>1, <2>2
<1> QED
  BY <1>1, <1>2, <1>3, DeliverMoves

LEMMA EndStep ==
    ASSUME CInv, NEW k \in Keys, End(k)
    PROVE  CInv' /\ UNCHANGED Seen
BY DEF End, CInv, Shape, ResidentSafe, FlightSafe, ReaderSafe, Pending, Value,
       Seen, CoherentAsked

-----------------------------------------------------------------------------
LEMMA StutterStep ==
    ASSUME CInv, UNCHANGED vars
    PROVE  CInv' /\ UNCHANGED Seen
BY DEF vars, CInv, Shape, ResidentSafe, FlightSafe, ReaderSafe, Pending, Value,
       Seen, CoherentAsked

\* Every step keeps the invariant and is a step of the promise or a stutter.
LEMMA NextCInv ==
    ASSUME CInv, [Next]_vars
    PROVE  CInv' /\ [Promise!Next]_Seen
<1>1. ASSUME NEW w \in Writers, CommitBegin(w) \/ CommitTakesEffect(w) \/ CommitEnd(w)
      PROVE  CInv' /\ [Promise!Next]_Seen
  BY <1>1, CommitBeginStep, CommitTakesEffectStep, CommitEndStep DEF Promise!Next
<1>2. ASSUME NEW r \in Readers,
             Call(r) \/ Look(r) \/ Join(r) \/ Receive(r) \/ GiveUp(r)
      PROVE  CInv' /\ [Promise!Next]_Seen
  BY <1>2, CallStep, LookStep, JoinStep, ReceiveStep, GiveUpStep DEF Promise!Next
<1>3. ASSUME NEW f \in flights,
             FlightCheck(f) \/ FlightLoad(f) \/ FlightFails(f) \/ FlightStore(f)
      PROVE  CInv' /\ [Promise!Next]_Seen
  BY <1>3, FlightCheckStep, FlightLoadStep, FlightFailsStep, FlightStoreStep
<1>4. ASSUME NEW k \in Keys, End(k)
      PROVE  CInv' /\ [Promise!Next]_Seen
  BY <1>4, EndStep
<1>5. CASE UNCHANGED vars
  BY <1>5, StutterStep
<1> QED
  BY <1>1, <1>2, <1>3, <1>4, <1>5 DEF Next, Writing, Reading, Loading

\* Nothing that a reader can hit is older than the last commit that took
\* effect, also between the two halves of a fenced commit.
THEOREM ResidentDataIsCommitted == Spec => []ResidentIsCommitted
<1>1. CInv => ResidentIsCommitted
  BY DEF CInv, ResidentSafe, ResidentIsCommitted
<1> QED
  BY <1>1, InitCInv, NextCInv, PTL DEF Spec

\* Get implements reads of the committed rows: hits, shared loads, retries,
\* evictions, expiry and given-up readers are invisible but for failures.
THEOREM CacheIsCoherent == Spec => ReadsAreCoherent
<1>1. Init => CInv /\ Promise!Init
  BY InitCInv
<1>2. CInv /\ [Next]_vars => CInv' /\ [Promise!Next]_Seen
  BY NextCInv
<1>3. Spec => Promise!Init /\ [][Promise!Next]_Seen
  BY <1>1, <1>2, PTL DEF Spec
<1> QED
  BY <1>3 DEF ReadsAreCoherent, Promise!Spec, Promise!vars, Seen

-----------------------------------------------------------------------------
(* What has ended *)

\* Only a reader that found an entry before it ended answers after its end:
\* hits and loads that were delivered with an expiry date are looked at again
\* when they are used.
THEOREM EndedEntriesAreNotServed == Spec => EndedIsNotServed
<1> DEFINE Late(r) == /\ reader[r].key \in ended /\ answer'[r] # answer[r]
                      /\ answer'[r] # Failure
           Found(r) == reader[r].at = "got" /\ ~ reader[r].dated
<1>1. ASSUME CInv, Next, NEW q \in Readers, Late(q)
      PROVE  Found(q)
  <2> DEFINE Given(r, got) == answer' = [answer EXCEPT ![r] = got]
  <2>1. PICK r \in Readers : Call(r) \/ Look(r) \/ Join(r) \/ Receive(r) \/ GiveUp(r)
    BY <1>1 DEF Next, Writing, Loading, Reading, CommitBegin, CommitTakesEffect,
                CommitEnd, FlightCheck, FlightLoad, FlightFails, FlightStore, End
  <2>2. answer' # answer /\ \A got : Given(r, got) => q = r /\ answer'[q] = got
    BY <1>1 DEF CInv, Shape
  <2>3. CASE Look(r)
    <3>1. Fresh(reader[r].key)
      BY <2>2, <2>3 DEF Look
    <3>2. Given(r, resident[reader[r].key])
      BY <2>3, <3>1 DEF Look, Return
    <3> QED
      BY <1>1, <2>2, <3>1, <3>2 DEF Fresh
  <2>4. CASE Receive(r)
    <3>1. /\ reader[r].got = Failure \/ Usable(r)
          /\ Given(r, reader[r].got) /\ reader[r].at = "got"
      BY <2>2, <2>4 DEF Receive, Return
    <3> QED
      BY <1>1, <2>2, <3>1 DEF Usable
  <2>5. CASE Call(r) \/ GiveUp(r)
    BY <1>1, <2>2, <2>5 DEF Call, GiveUp, Return
  <2>6. CASE Join(r)
    BY <2>2, <2>6 DEF Join
  <2> QED
    BY <2>1, <2>3, <2>4, <2>5, <2>6
<1>2. CInv /\ [Next]_vars =>
        [\A r \in Readers :
            reader[r].key \in ended /\ answer'[r] # answer[r] /\ answer'[r] # Failure
                => reader[r].at = "got" /\ ~ reader[r].dated]_vars
  BY <1>1
<1> QED
  BY <1>2, InitCInv, NextCInv, PTL DEF Spec, EndedIsNotServed

-----------------------------------------------------------------------------
(* What is loaded *)

\* There is one load of a key for a generation.
OneLoad ==
    \A f, g \in flights : f.gen = g.gen /\ f.key = g.key => f = g

LoadInv == CInv /\ OneLoad /\ NoRedundantLoad

\* Steps that start no load and make nothing resident.
LEMMA LoadsStay ==
    ASSUME LoadInv, flights' \subseteq flights, UNCHANGED generation,
           \A k \in Keys : resident'[k] \in {None, resident[k]}
    PROVE  OneLoad' /\ NoRedundantLoad'
<1>1. \A f \in flights : f.key \in Keys
  BY DEF LoadInv, CInv, FlightSafe
<1> QED
  BY <1>1 DEF LoadInv, OneLoad, NoRedundantLoad, Stale

\* A new generation: every load there is comes too late.
LEMMA LoadsGetStale ==
    ASSUME LoadInv, flights' = flights, generation' = generation + 1
    PROVE  OneLoad' /\ NoRedundantLoad'
<1>1. \A f \in flights' : f.gen \in Nat /\ f.gen <= generation /\ generation \in Nat
  BY DEF LoadInv, CInv, Shape, FlightSafe
<1>2. \A f \in flights' : Stale(f)'
  BY <1>1 DEF Stale
<1> QED
  BY <1>2 DEF LoadInv, OneLoad, NoRedundantLoad

\* A load that goes on, and finds its entry still missing unless it is stale.
LEMMA LoadAdvances ==
    ASSUME LoadInv, NEW f \in flights, NEW phase, NEW got, Advance(f, phase, got),
           UNCHANGED generation,
           \A k \in Keys : resident'[k] \in {None, resident[k]},
           ~ Stale(f) => resident'[f.key] = None
    PROVE  OneLoad' /\ NoRedundantLoad'
<1> DEFINE g == [f EXCEPT !.phase = phase, !.got = got]
<1>1. /\ flights' = (flights \ {f}) \cup {g}
      /\ g.gen = f.gen /\ g.key = f.key
      /\ \A h \in flights : h.key \in Keys
  BY DEF Advance, LoadInv, CInv, FlightSafe
<1> HIDE DEF g
<1>2. ASSUME NEW h \in flights', NEW j \in flights', h.gen = j.gen, h.key = j.key
      PROVE  h = j
  <2>1. \A i \in flights' : i = g \/ (i \in flights /\ i # f)
    BY <1>1
  <2> QED
    BY <1>1, <1>2, <2>1 DEF LoadInv, OneLoad
<1>3. NoRedundantLoad'
  BY <1>1 DEF LoadInv, NoRedundantLoad, Stale
<1> QED
  BY <1>2, <1>3 DEF OneLoad

LEMMA JoinLoads ==
    ASSUME LoadInv, NEW r \in Readers, Join(r)
    PROVE  OneLoad' /\ NoRedundantLoad'
<1>1. CASE InFlight(reader[r].key, reader[r].gen)
  BY <1>1, LoadsStay DEF Join
<1>2. CASE ~ InFlight(reader[r].key, reader[r].gen)
  <2> DEFINE g == [gen |-> reader[r].gen, key |-> reader[r].key,
                   phase |-> "check", got |-> None]
  <2>1. /\ flights' = flights \cup {g}
        /\ UNCHANGED <<generation, resident>>
    BY <1>2 DEF Join
  <2>2. \A f \in flights : ~ (f.gen = g.gen /\ f.key = g.key)
    BY <1>2 DEF InFlight
  <2> QED
    BY <2>1, <2>2 DEF LoadInv, OneLoad, NoRedundantLoad, Stale
<1> QED
  BY <1>1, <1>2

LEMMA LookupLoads ==
    ASSUME CInv, NEW k \in Keys, Lookup(k), ~ Fresh(k)
    PROVE  resident'[k] = None
BY DEF CInv, Shape, Lookup, Drop, Fresh

LEMMA FlightCheckLoads ==
    ASSUME LoadInv, NEW f \in flights, FlightCheck(f)
    PROVE  OneLoad' /\ NoRedundantLoad'
<1>1. UNCHANGED generation /\ f.key \in Keys /\ CInv
  BY DEF FlightCheck, LoadInv, CInv, FlightSafe
<1>2. CASE Stale(f)
  <2>1. flights' \subseteq flights /\ UNCHANGED resident
    BY <1>2 DEF FlightCheck, Deliver
  <2> QED
    BY <1>1, <2>1, LoadsStay
<1>3. CASE ~ Stale(f)
  <2>1. Lookup(f.key)
    BY <1>3 DEF FlightCheck
  <2>2. \A k \in Keys : resident'[k] \in {None, resident[k]}
    BY <1>1, <2>1, LookupKeeps
  <2>3. CASE Fresh(f.key)
    <3>1. flights' \subseteq flights
      BY <1>3, <2>3 DEF FlightCheck, Deliver
    <3> QED
      BY <1>1, <2>2, <3>1, LoadsStay
  <2>4. CASE ~ Fresh(f.key)
    <3>1. Advance(f, "load", None)
      BY <1>3, <2>4 DEF FlightCheck
    <3>2. resident'[f.key] = None
      BY <1>1, <2>1, <2>4, LookupLoads
    <3> QED
      BY <1>1, <2>2, <3>1, <3>2, LoadAdvances
  <2> QED
    BY <2>3, <2>4
<1> QED
  BY <1>2, <1>3

LEMMA FlightLoadLoads ==
    ASSUME LoadInv, NEW f \in flights, FlightLoad(f)
    PROVE  OneLoad' /\ NoRedundantLoad'
<1>1. UNCHANGED <<generation, resident>>
  BY DEF FlightLoad
<1>2. CASE f.key \in ended
  <2>1. flights' \subseteq flights
    BY <1>2 DEF FlightLoad, Deliver
  <2> QED
    BY <1>1, <2>1, LoadsStay
<1>3. CASE f.key \notin ended
  <2>1. Advance(f, "store", Value(f.key, db))
    BY <1>3 DEF FlightLoad
  <2>2. ~ Stale(f) => resident'[f.key] = None
    BY <1>1 DEF FlightLoad, LoadInv, NoRedundantLoad
  <2> QED
    BY <1>1, <2>1, <2>2, LoadAdvances
<1> QED
  BY <1>2, <1>3

\* Storing is where an entry appears: it was this load's alone.
LEMMA FlightStoreLoads ==
    ASSUME LoadInv, NEW f \in flights, FlightStore(f)
    PROVE  OneLoad' /\ NoRedundantLoad'
<1>1. flights' = flights \ {f} /\ UNCHANGED generation
  BY DEF FlightStore, Deliver
<1>2. CASE Storable(f)
  <2>1. \A k \in Keys : resident'[k] \in {None, resident[k]} \/ k = f.key
    BY <1>2 DEF FlightStore, Insert
  <2>2. \A g \in flights' : ~ Stale(g) => g.key # f.key /\ g.key \in Keys
    BY <1>1, <1>2 DEF LoadInv, OneLoad, Storable, Stale, CInv, FlightSafe
  <2>3. \A g \in flights' : Stale(g)' <=> Stale(g)
    BY <1>1 DEF Stale
  <2>4. NoRedundantLoad'
    BY <1>1, <2>1, <2>2, <2>3 DEF LoadInv, NoRedundantLoad
  <2> QED
    BY <1>1, <2>4 DEF LoadInv, OneLoad
<1>3. CASE ~ Storable(f)
  BY <1>1, <1>3, LoadsStay DEF FlightStore
<1> QED
  BY <1>2, <1>3

LEMMA NextLoadInv ==
    ASSUME LoadInv, [Next]_vars
    PROVE  LoadInv'
<1> USE DEF LoadInv
<1>1. CInv'
  BY NextCInv
<1>2. ASSUME NEW w \in Writers, CommitBegin(w) \/ CommitEnd(w)
      PROVE  OneLoad' /\ NoRedundantLoad'
  BY <1>2, LoadsGetStale DEF CommitBegin, CommitEnd
<1>3. ASSUME NEW r \in Readers, Look(r)
      PROVE  OneLoad' /\ NoRedundantLoad'
  <2>1. reader[r].key \in Keys /\ Lookup(reader[r].key)
    BY <1>3 DEF Look, CInv, ReaderSafe
  <2>2. \A k \in Keys : resident'[k] \in {None, resident[k]}
    BY <2>1, LookupKeeps
  <2> QED
    BY <1>3, <2>2, LoadsStay DEF Look
<1>4. ASSUME NEW r \in Readers, Call(r) \/ Receive(r) \/ GiveUp(r)
      PROVE  OneLoad' /\ NoRedundantLoad'
  BY <1>4, LoadsStay DEF Call, Receive, GiveUp
<1>5. ASSUME NEW f \in flights, FlightFails(f)
      PROVE  OneLoad' /\ NoRedundantLoad'
  BY <1>5, LoadsStay DEF FlightFails, Deliver
<1>6. ASSUME \/ \E w \in Writers : CommitTakesEffect(w)
             \/ \E k \in Keys : End(k)
             \/ UNCHANGED vars
      PROVE  OneLoad' /\ NoRedundantLoad'
  BY <1>6, LoadsStay DEF CommitTakesEffect, End, vars
<1>7. OneLoad' /\ NoRedundantLoad'
  BY <1>2, <1>3, <1>4, <1>5, <1>6, JoinLoads, FlightCheckLoads, FlightLoadLoads,
     FlightStoreLoads DEF Next, Writing, Reading, Loading
<1> QED
  BY <1>1, <1>7

\* Nobody queries the database for what the cache holds.
THEOREM LoadsAreNeeded == Spec => []NoRedundantLoad
<1>1. Init => LoadInv
  BY InitCInv DEF Init, LoadInv, OneLoad, NoRedundantLoad
<1>2. LoadInv => NoRedundantLoad
  BY DEF LoadInv
<1> QED
  BY <1>1, <1>2, NextLoadInv, PTL DEF Spec

-----------------------------------------------------------------------------
(* The list of entries *)

LEMMA LeastNumber ==
    ASSUME NEW S \in SUBSET Nat, S # {}
    PROVE  \E x \in S : \A y \in S : x <= y
<1> DEFINE Below == OpToRel(<, Nat)
<1>1. IsWellFoundedOn(Below, Nat)
  BY NatLessThanWellFounded
<1>2. PICK x \in S : \A y \in S : ~ (<<y, x>> \in Below)
  BY <1>1, WFMin
<1>3. Below = {ss \in Nat \X Nat : ss[1] < ss[2]}
  BY DEF OpToRel
<1>4. \A y \in S : <<y, x>> \in Nat \X Nat /\ <<y, x>>[1] = y /\ <<y, x>>[2] = x
  OBVIOUS
<1> HIDE DEF Below
<1>5. \A y \in S : ~ (y < x)
  BY <1>2, <1>3, <1>4
<1> QED
  BY <1>5

\* Induction over the numbers, for a set of them.
LEMMA AllNumbers ==
    ASSUME NEW S, 0 \in S, \A n \in Nat : n \in S => n + 1 \in S
    PROVE  Nat \subseteq S
<1> SUFFICES ASSUME Nat \ S # {} PROVE FALSE
  OBVIOUS
<1>1. PICK x \in Nat \ S : \A y \in Nat \ S : x <= y
  BY LeastNumber
<1>2. x # 0 /\ x - 1 \in Nat /\ x - 1 \in S
  BY <1>1
<1> QED
  BY <1>1, <1>2

LEMMA GreatestNumber ==
    ASSUME NEW n \in Nat, NEW S \in SUBSET (0 .. n), S # {}
    PROVE  \E x \in S : \A y \in S : x >= y
<1> DEFINE T == {n - x : x \in S}
<1>1. \A x \in S : x \in 0 .. n /\ n - x \in Nat
  OBVIOUS
<1>2. T \subseteq Nat
  BY <1>1
<1>3. PICK z \in S : TRUE
  OBVIOUS
<1>4. n - z \in T
  BY <1>3
<1> HIDE DEF T
<1>5. PICK m \in T : \A y \in T : m <= y
  BY <1>2, <1>4, LeastNumber
<1>6. PICK x \in S : m = n - x
  BY <1>5 DEF T
<1>7. ASSUME NEW y \in S
      PROVE  x >= y
  <2>1. n - y \in T
    BY DEF T
  <2> QED
    BY <1>1, <1>5, <1>6, <2>1
<1> QED
  BY <1>7

\* f lists the set of positions L in their order.
Lists(f, L) ==
    /\ f \in [1 .. Cardinality(L) -> L]
    /\ Held(f) = L /\ \A m, n \in DOMAIN f : m < n => f[m] < f[n]

LEMMA ListsExtended ==
    ASSUME NEW n \in Nat, NEW L \in SUBSET (1 .. n), NEW f, Lists(f, L)
    PROVE  \E g : Lists(g, L \cup {n + 1})
<1> DEFINE c == Cardinality(L)
           M == L \cup {n + 1}
           g == [i \in 1 .. c + 1 |-> IF i = c + 1 THEN n + 1 ELSE f[i]]
<1>1. IsFiniteSet(L)
  <2>1. IsFiniteSet(1 .. n)
    BY FS_Interval
  <2> QED
    BY <2>1, FS_Subset
<1>2. c \in Nat
  BY <1>1, FS_CardinalityType
<1>3. Cardinality(M) = c + 1
  BY <1>1, FS_AddElement
<1> HIDE DEF c
<1>4. f \in [1 .. c -> L] /\ Held(f) = L /\ \A m, k \in 1 .. c : m < k => f[m] < f[k]
  BY DEF Lists, c
<1>5. g \in [1 .. c + 1 -> M]
  BY <1>2, <1>4
<1>6. Held(g) = M
  <2>1. ASSUME NEW x \in L PROVE x \in Held(g)
    <3>1. PICK i \in 1 .. c : x = f[i]
      BY <1>4 DEF Held
    <3>2. i \in 1 .. c + 1 /\ g[i] = x
      BY <1>2, <3>1
    <3> QED
      BY <3>2 DEF Held
  <2>2. n + 1 \in Held(g)
    <3>1. c + 1 \in 1 .. c + 1 /\ g[c + 1] = n + 1
      BY <1>2
    <3> QED
      BY <3>1 DEF Held
  <2>3. Held(g) \subseteq M
    BY <1>5 DEF Held
  <2> QED
    BY <2>1, <2>2, <2>3
<1>7. ASSUME NEW m \in 1 .. c + 1, NEW k \in 1 .. c + 1, m < k
      PROVE  g[m] < g[k]
  <2>1. m \in 1 .. c
    BY <1>2, <1>7
  <2>2. g[m] = f[m] /\ f[m] \in 1 .. n
    <3>1. m # c + 1 /\ m \in 1 .. c + 1
      BY <1>2, <2>1
    <3>2. f[m] \in L
      BY <1>4, <2>1
    <3> QED
      BY <3>1, <3>2
  <2>3. CASE k = c + 1
    <3>1. g[k] = n + 1
      BY <2>3
    <3> QED
      BY <2>2, <3>1
  <2>4. CASE k # c + 1
    <3>1. k \in 1 .. c
      BY <1>2, <2>4
    <3>2. g[k] = f[k] /\ f[m] < f[k]
      BY <1>2, <1>4, <1>7, <2>1, <2>4, <3>1
    <3> QED
      BY <2>2, <3>2
  <2> QED
    BY <2>3, <2>4
<1>8. DOMAIN g = 1 .. c + 1
  OBVIOUS
<1> HIDE DEF g
<1> QED
  BY <1>3, <1>5, <1>6, <1>7, <1>8 DEF Lists

LEMMA ListsExist ==
    ASSUME NEW n \in Nat, NEW L \in SUBSET (1 .. n)
    PROVE  \E f : Lists(f, L)
<1> DEFINE S == {m \in Nat : \A K \in SUBSET (1 .. m) : \E f : Lists(f, K)}
<1>1. 0 \in S
  <2>1. \A K \in SUBSET (1 .. 0) : K = {}
    OBVIOUS
  <2>2. Lists(<<>>, {})
    BY FS_EmptySet DEF Lists, Held
  <2> QED
    BY <2>1, <2>2
<1>2. ASSUME NEW m \in Nat, m \in S
      PROVE  m + 1 \in S
  <2>1. ASSUME NEW K \in SUBSET (1 .. m + 1)
        PROVE  \E f : Lists(f, K)
    <3> DEFINE J == K \ {m + 1}
    <3>1. J \in SUBSET (1 .. m)
      OBVIOUS
    <3>2. PICK f : Lists(f, J)
      BY <1>2, <3>1
    <3>3. CASE m + 1 \in K
      <4>1. J \cup {m + 1} = K
        BY <3>3
      <4> QED
        BY <3>1, <3>2, <4>1, ListsExtended
    <3>4. CASE m + 1 \notin K
      BY <3>2, <3>4
    <3> QED
      BY <3>3, <3>4
  <2> QED
    BY <2>1
<1> HIDE DEF S
<1>3. n \in S
  BY <1>1, <1>2, AllNumbers
<1> QED
  BY <1>3 DEF S

\* No entry is in the list twice.
Distinct(q) == \A i, j \in DOMAIN q : q[i] = q[j] => i = j

\* Removing entries leaves the others, each once.
LEMMA WithoutLeaves ==
    ASSUME NEW q \in Seq(Keys), NEW gone
    PROVE  /\ Without(q, gone) \in Seq(Keys)
           /\ Held(Without(q, gone)) = Held(q) \ gone
           /\ Distinct(q) => Distinct(Without(q, gone))
<1> DEFINE left == {i \in DOMAIN q : q[i] \notin gone}
           c == Cardinality(left)
           nth == CHOOSE f \in [1 .. c -> left] :
                     Held(f) = left /\ \A m, n \in DOMAIN f : m < n => f[m] < f[n]
           p == [n \in DOMAIN nth |-> q[nth[n]]]
<1>1. Len(q) \in Nat /\ left \in SUBSET (1 .. Len(q)) /\ DOMAIN q = 1 .. Len(q)
  OBVIOUS
<1>2. c \in Nat
  <2>1. IsFiniteSet(1 .. Len(q))
    BY <1>1, FS_Interval
  <2>2. IsFiniteSet(left)
    BY <1>1, <2>1, FS_Subset
  <2> QED
    BY <2>2, FS_CardinalityType
<1>3. \E f : Lists(f, left)
  BY <1>1, ListsExist
<1>4. /\ nth \in [1 .. c -> left] /\ Held(nth) = left
      /\ \A m, n \in DOMAIN nth : m < n => nth[m] < nth[n]
  BY <1>3 DEF Lists
<1>5. Without(q, gone) = p
  BY DEF Without
<1> HIDE DEF c, nth
<1>6. DOMAIN nth = 1 .. c /\ p = [n \in 1 .. c |-> q[nth[n]]]
  BY <1>4
<1>7. \A n \in 1 .. c : nth[n] \in left /\ q[nth[n]] \in Keys
  BY <1>1, <1>4
<1>8. p \in Seq(Keys)
  BY <1>2, <1>6, <1>7
<1>9. Held(p) = Held(q) \ gone
  <2>1. ASSUME NEW k \in Held(q) \ gone PROVE k \in Held(p)
    <3>1. PICK i \in DOMAIN q : k = q[i]
      BY DEF Held
    <3>2. i \in left
      BY <3>1
    <3>3. PICK n \in 1 .. c : i = nth[n]
      BY <1>4, <1>6, <3>2 DEF Held
    <3> QED
      BY <1>6, <3>1, <3>3 DEF Held
  <2>2. ASSUME NEW k \in Held(p) PROVE k \in Held(q) \ gone
    <3>1. PICK n \in 1 .. c : k = q[nth[n]]
      BY <1>6, <2>2 DEF Held
    <3> QED
      BY <1>7, <3>1 DEF Held
  <2> QED
    BY <2>1, <2>2
<1>10. ASSUME Distinct(q), NEW i \in DOMAIN p, NEW j \in DOMAIN p, p[i] = p[j]
       PROVE  i = j
  <2>1. i \in 1 .. c /\ j \in 1 .. c /\ q[nth[i]] = q[nth[j]]
    BY <1>6, <1>10
  <2>2. nth[i] = nth[j] /\ nth[i] \in Nat
    BY <1>1, <1>7, <1>10, <2>1 DEF Distinct
  <2> QED
    BY <1>2, <1>4, <1>6, <2>1, <2>2
<1> QED
  BY <1>5, <1>8, <1>9, <1>10 DEF Distinct

\* A list without repetitions is as long as its set of keys.
LEMMA DistinctLength ==
    ASSUME NEW q \in Seq(Keys), Distinct(q)
    PROVE  IsFiniteSet(Held(q)) /\ Cardinality(Held(q)) = Len(q) /\ Len(q) \in Nat
<1>1. Len(q) \in Nat /\ DOMAIN q = 1 .. Len(q)
  OBVIOUS
<1>2. q \in Bijection(1 .. Len(q), Held(q))
  BY <1>1 DEF Held, Distinct, Bijection, Injection, Surjection, IsInjective
<1>3. ExistsBijection(1 .. Len(q), Held(q))
  BY <1>2 DEF ExistsBijection
<1> QED
  BY <1>1, <1>3, FS_NatBijection, FS_CountingElements

\* Fewer entries take fewer bytes.
LEMMA FewerBytes ==
    ASSUME NEW K \in SUBSET Keys, IsFiniteSet(K), NEW J \in SUBSET K
    PROVE  Bytes(J) \in Nat /\ Bytes(J) <= Bytes(K)
<1> DEFINE Of(k) == {k} \X (1 .. Size[k])
           All(H) == {Of(k) : k \in H}
<1>1. ASSUME NEW k \in Keys PROVE IsFiniteSet(Of(k))
  <2>1. Size[k] \in Nat
    BY CacheAssumption
  <2>2. \A n \in Nat : IsFiniteSet(1 .. n)
    BY FS_Interval
  <2>3. IsFiniteSet({k})
    BY FS_Singleton
  <2> QED
    BY <2>1, <2>2, <2>3, FS_Product
<1> HIDE DEF Of
<1>2. IsFiniteSet(All(K))
  <2> DEFINE of == [k \in K |-> Of(k)]
  <2>1. of \in Surjection(K, All(K))
    BY DEF Surjection
  <2> QED
    BY <2>1, FS_Surjection
<1>3. \A T \in All(K) : IsFiniteSet(T)
  BY <1>1
<1>4. UNION All(J) \in SUBSET UNION All(K)
  OBVIOUS
<1>5. IsFiniteSet(UNION All(K))
  BY <1>2, <1>3, FS_UNION
<1>6. /\ Cardinality(UNION All(J)) \in Nat
      /\ Cardinality(UNION All(J)) <= Cardinality(UNION All(K))
  BY <1>4, <1>5, FS_Subset, FS_CardinalityType
<1>7. \A H : Bytes(H) = Cardinality(UNION All(H))
  BY DEF Bytes, Of
<1> QED
  BY <1>6, <1>7

LEMMA NoBytes == Bytes({}) = 0
<1>1. UNION {{k} \X (1 .. Size[k]) : k \in {}} = {}
  OBVIOUS
<1> QED
  BY <1>1, FS_EmptySet DEF Bytes

\* Evicting leaves the front of the list, within both capacities.
LEMMA FittingFits ==
    ASSUME NEW q \in Seq(Keys), Distinct(q)
    PROVE  /\ Fitting(q) \in Seq(Keys) /\ Distinct(Fitting(q))
           /\ Held(Fitting(q)) \subseteq Held(q)
           /\ Len(Fitting(q)) <= MaxEntries
           /\ Bytes(Held(Fitting(q))) <= MaxBytes
<1> DEFINE fits == {n \in 0 .. Len(q) :
                      n <= MaxEntries /\ Bytes(Held(SubSeq(q, 1, n))) <= MaxBytes}
<1>1. Len(q) \in Nat /\ DOMAIN q = 1 .. Len(q) /\ fits \in SUBSET (0 .. Len(q))
  OBVIOUS
<1>2. 0 \in fits
  <2>1. Held(SubSeq(q, 1, 0)) = {}
    BY DEF Held
  <2>2. Bytes(Held(SubSeq(q, 1, 0))) = 0
    BY <2>1, NoBytes, Zenon
  <2>3. Bytes(Held(SubSeq(q, 1, 0))) <= MaxBytes
    BY <2>2, CacheAssumption
  <2>4. 0 \in 0 .. Len(q) /\ 0 <= MaxEntries
    BY <1>1, CacheAssumption
  <2> QED
    BY <2>3, <2>4
<1>3. Max(fits) \in fits
  <2>1. \E x \in fits : \A y \in fits : x >= y
    BY <1>1, <1>2, GreatestNumber
  <2> QED
    BY <2>1 DEF Max
<1>4. PICK n \in fits : Fitting(q) = SubSeq(q, 1, n)
  BY <1>3 DEF Fitting
<1>5. /\ n \in 0 .. Len(q) /\ n <= MaxEntries /\ Bytes(Held(Fitting(q))) <= MaxBytes
  BY <1>4
<1>6. /\ Fitting(q) \in Seq(Keys) /\ Len(Fitting(q)) = n
      /\ \A i \in 1 .. n : Fitting(q)[i] = q[i]
  BY <1>1, <1>4, <1>5
<1>7. Held(Fitting(q)) \subseteq Held(q) /\ Distinct(Fitting(q))
  BY <1>1, <1>5, <1>6 DEF Held, Distinct
<1> QED
  BY <1>5, <1>6, <1>7

-----------------------------------------------------------------------------
(* Capacities *)

\* The list holds the keys of the resident entries, each once.
Tidy ==
    /\ lru \in Seq(Keys) /\ Distinct(lru)
    /\ Held(lru) = {k \in Keys : resident[k] # None}
    /\ Len(lru) <= MaxEntries
    /\ Bytes(Held(lru)) <= MaxBytes

LEMMA TidyFits == Tidy => WithinCapacity
BY DistinctLength DEF Tidy, WithinCapacity

\* A list of fewer keys fits where the longer one did.
LEMMA TidyShrinks ==
    ASSUME Tidy, NEW q \in Seq(Keys), Distinct(q), Held(q) \subseteq Held(lru)
    PROVE  Len(q) <= MaxEntries /\ Bytes(Held(q)) <= MaxBytes
<1>1. /\ IsFiniteSet(Held(lru)) /\ Cardinality(Held(lru)) = Len(lru)
      /\ Cardinality(Held(q)) = Len(q) /\ Len(q) \in Nat /\ Len(lru) \in Nat
  BY DistinctLength DEF Tidy
<1>2. Cardinality(Held(q)) <= Cardinality(Held(lru))
  BY <1>1, FS_Subset
<1>3. Len(q) <= MaxEntries
  BY <1>1, <1>2, CacheAssumption DEF Tidy
<1>4. Held(lru) \in SUBSET Keys
  BY DEF Tidy
<1>5. Bytes(Held(q)) \in Nat /\ Bytes(Held(lru)) \in Nat
      /\ Bytes(Held(q)) <= Bytes(Held(lru))
  BY <1>1, <1>4, FewerBytes
<1>6. Bytes(Held(q)) <= MaxBytes
  BY <1>5, CacheAssumption DEF Tidy
<1> QED
  BY <1>3, <1>6

LEMMA TidyDrop ==
    ASSUME Tidy, NEW gone, Drop(gone)
    PROVE  Tidy'
<1> DEFINE q == Without(lru, gone)
<1>1. /\ lru' = q
      /\ resident' = [k \in Keys |-> IF k \in gone THEN None ELSE resident[k]]
  BY DEF Drop
<1>2. q \in Seq(Keys) /\ Held(q) = Held(lru) \ gone /\ Distinct(q)
  BY WithoutLeaves DEF Tidy
<1>3. Len(q) <= MaxEntries /\ Bytes(Held(q)) <= MaxBytes
  BY <1>2, TidyShrinks
<1>4. Held(q) = {k \in Keys : resident'[k] # None}
  BY <1>1, <1>2 DEF Tidy
<1> HIDE DEF q
<1> QED
  BY <1>1, <1>2, <1>3, <1>4 DEF Tidy

\* The key k in front of a list without it.
LEMMA InFront ==
    ASSUME NEW q \in Seq(Keys), Distinct(q), NEW k \in Keys
    PROVE  LET p == <<k>> \o Without(q, {k})
           IN  p \in Seq(Keys) /\ Distinct(p) /\ Held(p) = Held(q) \cup {k}
<1> DEFINE w == Without(q, {k})
           p == <<k>> \o w
<1>1. w \in Seq(Keys) /\ Held(w) = Held(q) \ {k} /\ Distinct(w)
  BY WithoutLeaves
<1> HIDE DEF w
<1>2. /\ Len(w) \in Nat /\ DOMAIN w = 1 .. Len(w)
      /\ p \in Seq(Keys) /\ DOMAIN p = 1 .. Len(w) + 1
      /\ p[1] = k /\ \A i \in 1 .. Len(w) : p[i + 1] = w[i]
      /\ \A i \in 2 .. Len(w) + 1 : i - 1 \in 1 .. Len(w) /\ p[i] = w[i - 1]
  BY <1>1
<1> HIDE DEF p
<1>3. \A i \in 1 .. Len(w) : w[i] # k
  BY <1>1, <1>2 DEF Held
<1>4. ASSUME NEW i \in DOMAIN p, NEW j \in DOMAIN p, p[i] = p[j]
      PROVE  i = j
  <2>1. CASE i = 1 \/ j = 1
    BY <1>2, <1>3, <1>4, <2>1
  <2>2. CASE i # 1 /\ j # 1
    <3>1. i \in 2 .. Len(w) + 1 /\ j \in 2 .. Len(w) + 1
      BY <1>2, <2>2
    <3>2. w[i - 1] = w[j - 1] /\ i - 1 \in 1 .. Len(w) /\ j - 1 \in 1 .. Len(w)
      BY <1>2, <1>4, <3>1
    <3>3. i - 1 = j - 1
      BY <1>1, <1>2, <3>2 DEF Distinct
    <3> QED
      BY <3>1, <3>3
  <2> QED
    BY <2>1, <2>2
<1>5. Held(p) = Held(w) \cup {k}
  <2>1. ASSUME NEW x \in Held(w) PROVE x \in Held(p)
    <3>1. PICK i \in 1 .. Len(w) : x = w[i]
      BY <1>2 DEF Held
    <3>2. i + 1 \in DOMAIN p /\ p[i + 1] = x
      BY <1>2, <3>1
    <3> QED
      BY <3>2 DEF Held
  <2>2. k \in Held(p)
    <3>1. 1 \in DOMAIN p
      BY <1>2
    <3> QED
      BY <1>2, <3>1 DEF Held
  <2>3. ASSUME NEW x \in Held(p) PROVE x \in Held(w) \cup {k}
    <3>1. PICK i \in DOMAIN p : x = p[i]
      BY DEF Held
    <3>2. CASE i = 1
      BY <1>2, <3>1, <3>2
    <3>3. CASE i # 1
      <4>1. i \in 2 .. Len(w) + 1
        BY <1>2, <3>1, <3>3
      <4>2. i - 1 \in DOMAIN w /\ x = w[i - 1]
        BY <1>2, <3>1, <4>1
      <4> QED
        BY <4>2 DEF Held
    <3> QED
      BY <3>2, <3>3
  <2> QED
    BY <2>1, <2>2, <2>3
<1>6. Held(p) = Held(q) \cup {k}
  BY <1>1, <1>5
<1> QED
  BY <1>2, <1>4, <1>6 DEF Distinct, p, w

LEMMA TidyLookup ==
    ASSUME CInv, Tidy, NEW k \in Keys, Lookup(k)
    PROVE  Tidy'
<1>1. CASE ~ Fresh(k)
  BY <1>1, TidyDrop DEF Lookup
<1>2. CASE Fresh(k)
  <2> DEFINE q == <<k>> \o Without(lru, {k})
  <2>1. lru' = q /\ resident' = resident
    BY <1>2 DEF Lookup
  <2>2. k \in Held(lru)
    BY <1>2 DEF Fresh, Tidy
  <2>3. q \in Seq(Keys) /\ Distinct(q) /\ Held(q) = Held(lru)
    BY <2>2, InFront DEF Tidy
  <2> HIDE DEF q
  <2>4. Len(q) <= MaxEntries /\ Bytes(Held(q)) <= MaxBytes
    BY <2>3, TidyShrinks
  <2> QED
    BY <2>1, <2>3, <2>4 DEF Tidy
<1> QED
  BY <1>1, <1>2

LEMMA TidyInsert ==
    ASSUME CInv, Tidy, NEW k \in Keys, NEW data, data # None, Insert(k, data)
    PROVE  Tidy'
<1> DEFINE q == <<k>> \o Without(lru, {k})
           kept == Fitting(q)
<1>1. /\ lru' = kept
      /\ resident' = [j \in Keys |-> IF j \notin Held(kept) THEN None
                                     ELSE IF j = k THEN data ELSE resident[j]]
  BY DEF Insert
<1>2. q \in Seq(Keys) /\ Distinct(q) /\ Held(q) = Held(lru) \cup {k}
  BY InFront DEF Tidy
<1> HIDE DEF q
<1>3. /\ kept \in Seq(Keys) /\ Distinct(kept) /\ Held(kept) \subseteq Held(q)
      /\ Len(kept) <= MaxEntries /\ Bytes(Held(kept)) <= MaxBytes
  BY <1>2, FittingFits
<1> HIDE DEF kept
<1>4. ASSUME NEW j \in Keys
      PROVE  j \in Held(kept) <=> resident'[j] # None
  BY <1>1, <1>2, <1>3 DEF Tidy
<1>5. Held(kept) \subseteq Keys
  BY <1>3 DEF Held
<1> QED
  BY <1>1, <1>3, <1>4, <1>5 DEF Tidy

-----------------------------------------------------------------------------
(* Types *)

FlightTyped(f) ==
    /\ f.got \in DataOf(f.key) \cup {None}
    /\ f.phase = "store" => f.got \in DataOf(f.key)

ReaderTyped(r) ==
    /\ reader[r].at \in {"idle", "look", "settle", "join", "wait", "got"}
    /\ reader[r].dated \in BOOLEAN
    /\ IF reader[r].at = "idle" THEN reader[r] = AtRest
       ELSE reader[r].got \in DataOf(reader[r].key) \cup {None, Failure}

Typed ==
    /\ ended \subseteq Lapsing
    /\ writer \in [Writers -> [stage : {"idle", "fenced", "effective"},
                               changes : SUBSET Dependencies]]
    /\ failures \in Nat
    /\ \A f \in flights : FlightTyped(f)
    /\ \A r \in Readers : ReaderTyped(r)

LEMMA ValueTyped ==
    ASSUME CInv, NEW k \in Keys
    PROVE  Value(k, db) \in DataOf(k) /\ Value(k, db) # None
<1>1. DependsOn[k] \subseteq Dependencies /\ None \notin [DependsOn[k] -> Nat]
  BY CacheAssumption
<1>2. Value(k, db) \in [DependsOn[k] -> Nat]
  BY <1>1 DEF CInv, Shape, Value
<1> QED
  BY <1>1, <1>2 DEF DataOf

LEMMA TypedOK == CInv /\ Tidy /\ Typed => TypeOK
<1> SUFFICES ASSUME CInv, Tidy, Typed PROVE TypeOK
  OBVIOUS
<1>1. \A k \in Keys : resident[k] \in DataOf(k) \cup {None}
  BY ValueTyped DEF CInv, ResidentSafe
<1>2. ASSUME NEW f \in flights
      PROVE  /\ DOMAIN f = {"gen", "key", "phase", "got"}
             /\ f.gen \in Nat /\ f.key \in Keys
             /\ f.phase \in {"check", "load", "store"}
             /\ f.got \in DataOf(f.key) \cup {None}
  BY DEF CInv, FlightSafe, Typed, FlightTyped
<1>3. ASSUME NEW r \in Readers
      PROVE  /\ DOMAIN reader[r] = {"at", "key", "gen", "got", "dated"}
             /\ reader[r].at \in {"idle", "look", "settle", "join", "wait", "got"}
             /\ reader[r].gen \in Nat /\ reader[r].dated \in BOOLEAN
             /\ IF reader[r].at = "idle" THEN reader[r] = AtRest
                ELSE /\ reader[r].key \in Keys
                     /\ reader[r].got \in DataOf(reader[r].key) \cup {None, Failure}
  BY DEF CInv, Shape, ReaderSafe, Typed, ReaderTyped
<1>4. /\ db \in [Dependencies -> Nat] /\ generation \in Nat
      /\ DOMAIN resident = Keys /\ DOMAIN reader = Readers /\ DOMAIN answer = Readers
  BY DEF CInv, Shape
<1> QED
  BY <1>1, <1>2, <1>3, <1>4 DEF TypeOK, Typed, Tidy

\* A step of one reader.
LEMMA ReaderStepTyped ==
    ASSUME CInv, Typed, NEW r \in Readers, NEW rec,
           reader' = [reader EXCEPT ![r] = rec],
           rec.at \in {"idle", "look", "settle", "join", "wait", "got"},
           rec.dated \in BOOLEAN,
           IF rec.at = "idle" THEN rec = AtRest
           ELSE rec.got \in DataOf(rec.key) \cup {None, Failure},
           \A f \in flights' : FlightTyped(f),
           UNCHANGED <<ended, writer, failures>>
    PROVE  Typed'
<1>1. reader'[r] = rec /\ \A q \in Readers : q # r => reader'[q] = reader[q]
  BY DEF CInv, Shape
<1>2. \A q \in Readers : ReaderTyped(q)'
  BY <1>1 DEF Typed, ReaderTyped, DataOf
<1>3. \A f \in flights' : FlightTyped(f)'
  BY DEF FlightTyped, DataOf
<1> QED
  BY <1>2, <1>3 DEF Typed

LEMMA ReturnTyped ==
    ASSUME CInv, Typed, NEW r \in Readers, NEW got, Return(r, got),
           UNCHANGED <<ended, writer, failures, flights>>
    PROVE  Typed'
<1> DEFINE rec == AtRest
<1>1. rec.at = "idle" /\ rec.dated \in BOOLEAN /\ rec = AtRest
  BY DEF AtRest, Starting
<1>2. reader' = [reader EXCEPT ![r] = rec] /\ \A f \in flights' : FlightTyped(f)
  BY DEF Return, Typed
<1> HIDE DEF rec
<1> QED
  BY <1>1, <1>2, ReaderStepTyped

LEMMA CallTyped ==
    ASSUME CInv, Typed, NEW r \in Readers, Call(r)
    PROVE  Typed'
<1>1. PICK k \in Keys : reader' = [reader EXCEPT ![r] = Starting("look", k)]
  BY DEF Call
<1> DEFINE rec == Starting("look", k)
<1>2. rec.at = "look" /\ rec.dated \in BOOLEAN /\ rec.got = None
  BY DEF Starting
<1>3. UNCHANGED <<ended, writer, failures>> /\ \A f \in flights' : FlightTyped(f)
  BY DEF Call, Typed
<1> HIDE DEF rec
<1> QED
  BY <1>1, <1>2, <1>3, ReaderStepTyped DEF rec

LEMMA LookTyped ==
    ASSUME CInv, Typed, NEW r \in Readers, Look(r)
    PROVE  Typed'
<1>1. UNCHANGED <<ended, writer, failures, flights>> /\ reader[r].at = "look"
  BY DEF Look
<1>2. CASE Fresh(reader[r].key)
  BY <1>1, <1>2, ReturnTyped DEF Look
<1>3. CASE ~ Fresh(reader[r].key)
  <2> DEFINE rec == [reader[r] EXCEPT !.at = IF MustSettle THEN "settle" ELSE "join",
                                      !.gen = generation]
  <2>1. reader' = [reader EXCEPT ![r] = rec]
    BY <1>3 DEF Look
  <2>2. /\ rec.at \in {"settle", "join"} /\ rec.dated = reader[r].dated
        /\ rec.got = reader[r].got /\ rec.key = reader[r].key
    BY DEF CInv, Shape
  <2> HIDE DEF rec
  <2>3. \A f \in flights' : FlightTyped(f)
    BY <1>1 DEF Typed
  <2> QED
    BY <1>1, <2>1, <2>2, <2>3, ReaderStepTyped DEF Typed, ReaderTyped
<1> QED
  BY <1>2, <1>3

LEMMA JoinTyped ==
    ASSUME CInv, Typed, NEW r \in Readers, Join(r)
    PROVE  Typed'
<1> DEFINE rec == [reader[r] EXCEPT !.at = "wait"]
           new == [gen |-> reader[r].gen, key |-> reader[r].key,
                   phase |-> "check", got |-> None]
<1>1. /\ reader' = [reader EXCEPT ![r] = rec] /\ flights' \subseteq flights \cup {new}
      /\ UNCHANGED <<ended, writer, failures>> /\ reader[r].at = "join"
  BY DEF Join
<1>2. /\ rec.at = "wait" /\ rec.dated = reader[r].dated
      /\ rec.got = reader[r].got /\ rec.key = reader[r].key
  BY DEF CInv, Shape
<1>3. FlightTyped(new)
  BY DEF FlightTyped
<1> HIDE DEF rec, new
<1>4. \A f \in flights' : FlightTyped(f)
  BY <1>1, <1>3 DEF Typed
<1> QED
  BY <1>1, <1>2, <1>4, ReaderStepTyped DEF Typed, ReaderTyped

LEMMA ReceiveTyped ==
    ASSUME CInv, Typed, NEW r \in Readers, Receive(r)
    PROVE  Typed'
<1>1. UNCHANGED <<ended, writer, failures, flights>> /\ reader[r].at = "got"
  BY DEF Receive
<1>2. CASE reader[r].got = Failure \/ Usable(r)
  BY <1>1, <1>2, ReturnTyped DEF Receive
<1>3. CASE ~ (reader[r].got = Failure \/ Usable(r))
  <2> DEFINE rec == [reader[r] EXCEPT !.at = "look", !.got = None]
  <2>1. reader' = [reader EXCEPT ![r] = rec]
    BY <1>3 DEF Receive
  <2>2. rec.at = "look" /\ rec.dated = reader[r].dated /\ rec.got = None
    BY DEF CInv, Shape
  <2> HIDE DEF rec
  <2>3. \A f \in flights' : FlightTyped(f)
    BY <1>1 DEF Typed
  <2> QED
    BY <1>1, <2>1, <2>2, <2>3, ReaderStepTyped DEF Typed, ReaderTyped
<1> QED
  BY <1>2, <1>3

\* A step that delivers what a load got.
LEMMA DeliverTyped ==
    ASSUME CInv, Typed, NEW f \in flights, NEW got, NEW dated \in BOOLEAN,
           Deliver(f, got, dated),
           got \in DataOf(f.key) \cup {None, Failure},
           UNCHANGED <<ended, writer>>, failures' \in Nat
    PROVE  Typed'
<1>1. ASSUME NEW r \in Readers
      PROVE  ReaderTyped(r)'
  <2>1. \/ reader'[r] = reader[r]
        \/ /\ reader[r].at = "wait" /\ reader[r].key = f.key
           /\ reader'[r] = [reader[r] EXCEPT !.at = "got", !.got = got, !.dated = dated]
    BY DEF Deliver
  <2>2. CASE reader'[r] = reader[r]
    BY <2>2 DEF Typed, ReaderTyped, DataOf
  <2>3. CASE /\ reader[r].at = "wait" /\ reader[r].key = f.key
             /\ reader'[r] = [reader[r] EXCEPT !.at = "got", !.got = got, !.dated = dated]
    <3>1. /\ reader'[r].at = "got" /\ reader'[r].got = got /\ reader'[r].dated = dated
          /\ reader'[r].key = f.key
      BY <2>3 DEF CInv, Shape
    <3> QED
      BY <3>1 DEF ReaderTyped, DataOf
  <2> QED
    BY <2>1, <2>2, <2>3
<1>2. \A g \in flights' : FlightTyped(g)'
  BY DEF Deliver, Typed, FlightTyped, DataOf
<1> QED
  BY <1>1, <1>2 DEF Typed

LEMMA AdvanceTyped ==
    ASSUME CInv, Typed, NEW f \in flights, NEW phase, NEW got, Advance(f, phase, got),
           got \in DataOf(f.key) \/ (got = None /\ phase # "store"),
           UNCHANGED <<ended, writer, failures>>
    PROVE  Typed'
<1> DEFINE g == [f EXCEPT !.phase = phase, !.got = got]
<1>1. flights' = (flights \ {f}) \cup {g} /\ reader' = reader
  BY DEF Advance
<1>2. g.phase = phase /\ g.got = got /\ g.key = f.key
  BY DEF CInv, FlightSafe
<1> HIDE DEF g
<1>3. FlightTyped(g)
  BY <1>2 DEF FlightTyped
<1>4. \A h \in flights' : FlightTyped(h)'
  BY <1>1, <1>3 DEF Typed, FlightTyped, DataOf
<1>5. \A r \in Readers : ReaderTyped(r)'
  BY <1>1 DEF Typed, ReaderTyped, DataOf
<1> QED
  BY <1>4, <1>5 DEF Typed

LEMMA FlightTypedStep ==
    ASSUME CInv, Typed, NEW f \in flights,
           FlightCheck(f) \/ FlightLoad(f) \/ FlightFails(f) \/ FlightStore(f)
    PROVE  Typed'
<1>1. f.key \in Keys /\ Failure \in DataOf(f.key) \cup {None, Failure}
  BY DEF CInv, FlightSafe
<1>2. Value(f.key, db) \in DataOf(f.key)
  BY <1>1, ValueTyped
<1>3. CASE FlightCheck(f)
  <2>1. UNCHANGED <<ended, writer, failures>> /\ failures' \in Nat
    BY <1>3 DEF FlightCheck, Typed
  <2>2. \/ Deliver(f, None, FALSE)
        \/ Fresh(f.key) /\ Deliver(f, resident[f.key], FALSE)
        \/ Advance(f, "load", None)
    BY <1>3 DEF FlightCheck
  <2>3. Fresh(f.key) => resident[f.key] \in DataOf(f.key) \cup {None, Failure}
    BY <1>1, <1>2 DEF CInv, ResidentSafe, Fresh
  <2> QED
    BY <2>1, <2>2, <2>3, DeliverTyped, AdvanceTyped
<1>4. CASE FlightLoad(f)
  <2>1. UNCHANGED <<ended, writer, failures>> /\ failures' \in Nat
    BY <1>4 DEF FlightLoad, Typed
  <2>2. Deliver(f, Failure, FALSE) \/ Advance(f, "store", Value(f.key, db))
    BY <1>4 DEF FlightLoad
  <2> QED
    BY <1>1, <1>2, <2>1, <2>2, DeliverTyped, AdvanceTyped
<1>5. CASE FlightFails(f)
  <2>1. UNCHANGED <<ended, writer>> /\ Deliver(f, Failure, FALSE)
    BY <1>5 DEF FlightFails
  <2>2. failures' = failures + 1 /\ failures \in Nat
    BY <1>5 DEF FlightFails, Typed
  <2>3. failures' \in Nat
    BY <2>2
  <2> QED
    BY <1>1, <2>1, <2>3, DeliverTyped
<1>6. CASE FlightStore(f)
  <2> DEFINE dated == f.key \in Lapsing
  <2>1. /\ UNCHANGED <<ended, writer, failures>> /\ failures' \in Nat
        /\ Deliver(f, f.got, dated)
    BY <1>6 DEF FlightStore, Typed
  <2>2. f.got \in DataOf(f.key) \cup {None, Failure} /\ dated \in BOOLEAN
    BY DEF Typed, FlightTyped
  <2> HIDE DEF dated
  <2> QED
    BY <2>1, <2>2, DeliverTyped
<1> QED
  BY <1>3, <1>4, <1>5, <1>6

LEMMA NextTyped ==
    ASSUME CInv, Typed, [Next]_vars
    PROVE  Typed'
<1>1. ASSUME NEW w \in Writers, CommitBegin(w)
      PROVE  Typed'
  <2>1. PICK D \in SUBSET Dependencies \ {{}} :
          writer' = [writer EXCEPT ![w] = [stage |-> "fenced", changes |-> D]]
    BY <1>1 DEF CommitBegin
  <2> QED
    BY <1>1, <2>1 DEF CommitBegin, Typed, FlightTyped, ReaderTyped, DataOf
<1>2. ASSUME NEW w \in Writers, CommitTakesEffect(w)
      PROVE  Typed'
  BY <1>2 DEF CommitTakesEffect, Typed, FlightTyped, ReaderTyped, DataOf
<1>3. ASSUME NEW w \in Writers, CommitEnd(w)
      PROVE  Typed'
  <2>1. /\ writer' = [writer EXCEPT ![w] = NoCommit]
        /\ UNCHANGED <<ended, flights, failures>>
        /\ \A f \in flights' : FlightTyped(f)'
    BY <1>3 DEF CommitEnd, Typed, FlightTyped, DataOf
  <2>2. ASSUME NEW r \in Readers
        PROVE  ReaderTyped(r)'
    <3>1. \/ reader'[r] = reader[r]
          \/ reader[r].at = "settle" /\ reader'[r] = [reader[r] EXCEPT !.at = "look"]
      BY <1>3 DEF CommitEnd
    <3>2. CASE reader'[r] = reader[r]
      BY <3>2 DEF Typed, ReaderTyped, DataOf
    <3>3. CASE /\ reader[r].at = "settle"
               /\ reader'[r] = [reader[r] EXCEPT !.at = "look"]
      <4>1. /\ reader'[r].at = "look" /\ reader'[r].dated = reader[r].dated
            /\ reader'[r].got = reader[r].got /\ reader'[r].key = reader[r].key
        BY <3>3 DEF CInv, Shape
      <4> QED
        BY <3>3, <4>1 DEF Typed, ReaderTyped, DataOf
    <3> QED
      BY <3>1, <3>2, <3>3
  <2>3. writer' \in [Writers -> [stage : {"idle", "fenced", "effective"},
                                 changes : SUBSET Dependencies]]
    BY <2>1 DEF Typed, NoCommit
  <2> QED
    BY <2>1, <2>2, <2>3 DEF Typed
<1>4. ASSUME NEW r \in Readers, GiveUp(r)
      PROVE  Typed'
  BY <1>4, ReturnTyped DEF GiveUp
<1>5. ASSUME (\E k \in Keys : End(k)) \/ UNCHANGED vars
      PROVE  Typed'
  BY <1>5 DEF End, vars, Typed, FlightTyped, ReaderTyped, DataOf, AtRest, Starting
<1> QED
  BY <1>1, <1>2, <1>3, <1>4, <1>5, CallTyped, LookTyped, JoinTyped, ReceiveTyped,
     FlightTypedStep DEF Next, Writing, Reading, Loading

LEMMA NextTidy ==
    ASSUME CInv, Tidy, Typed, [Next]_vars
    PROVE  Tidy'
<1>1. ASSUME UNCHANGED <<resident, lru>>
      PROVE  Tidy'
  BY <1>1 DEF Tidy
<1>2. ASSUME NEW w \in Writers, CommitBegin(w) \/ CommitTakesEffect(w) \/ CommitEnd(w)
      PROVE  Tidy'
  BY <1>1, <1>2, TidyDrop DEF CommitBegin, CommitTakesEffect, CommitEnd
<1>3. ASSUME NEW r \in Readers, Look(r)
      PROVE  Tidy'
  BY <1>3, TidyLookup DEF Look, CInv, ReaderSafe
<1>4. ASSUME NEW f \in flights, FlightCheck(f)
      PROVE  Tidy'
  <2>1. f.key \in Keys
    BY DEF CInv, FlightSafe
  <2> QED
    BY <1>1, <1>4, <2>1, TidyLookup DEF FlightCheck
<1>5. ASSUME NEW f \in flights, FlightStore(f)
      PROVE  Tidy'
  <2>1. f.key \in Keys
    BY DEF CInv, FlightSafe
  <2>2. f.got # None
    BY <1>5, <2>1, CacheAssumption DEF FlightStore, Typed, FlightTyped, DataOf
  <2> QED
    BY <1>1, <1>5, <2>1, <2>2, TidyInsert DEF FlightStore
<1>6. ASSUME NEW r \in Readers, Call(r) \/ Join(r) \/ Receive(r) \/ GiveUp(r)
      PROVE  Tidy'
  BY <1>1, <1>6 DEF Call, Join, Receive, GiveUp
<1>7. ASSUME NEW f \in flights, FlightLoad(f) \/ FlightFails(f)
      PROVE  Tidy'
  BY <1>1, <1>7 DEF FlightLoad, FlightFails
<1>8. ASSUME (\E k \in Keys : End(k)) \/ UNCHANGED vars
      PROVE  Tidy'
  BY <1>1, <1>8 DEF End, vars
<1> QED
  BY <1>2, <1>3, <1>4, <1>5, <1>6, <1>7, <1>8 DEF Next, Writing, Reading, Loading

LEMMA HeldInvariant == Spec => [](CInv /\ Tidy /\ Typed)
<1>1. Init => Tidy
  <2> SUFFICES ASSUME Init PROVE Tidy
    OBVIOUS
  <2>1. lru = <<>> /\ Held(lru) = {} /\ {k \in Keys : resident[k] # None} = {}
    BY DEF Init, Held
  <2>2. Bytes(Held(lru)) = 0
    BY <2>1, NoBytes, Zenon
  <2>3. lru \in Seq(Keys) /\ Distinct(lru) /\ Len(lru) = 0
    BY <2>1 DEF Distinct
  <2> QED
    BY <2>1, <2>2, <2>3, CacheAssumption DEF Tidy
<1>2. Init => Typed
  <2> SUFFICES ASSUME Init PROVE Typed
    OBVIOUS
  <2>1. \A r \in Readers : reader[r] = AtRest
    BY DEF Init
  <2>2. AtRest.at = "idle" /\ AtRest.dated = FALSE
    BY DEF AtRest, Starting
  <2>3. \A r \in Readers : ReaderTyped(r)
    BY <2>1, <2>2 DEF ReaderTyped
  <2>4. ended = {} /\ failures = 0 /\ flights = {} /\ writer = [w \in Writers |-> NoCommit]
    BY DEF Init
  <2> QED
    BY <2>3, <2>4 DEF Typed, NoCommit
<1> QED
  BY <1>1, <1>2, InitCInv, NextCInv, NextTyped, NextTidy, PTL DEF Spec

\* Every variable keeps its type; data is what its key is made of.
THEOREM TypeCorrect == Spec => []TypeOK
BY HeldInvariant, TypedOK, PTL

\* The map and the list of a cache hold the same keys, each once, and never
\* more than the capacities allow, whatever is stored, hit, dropped or evicted.
THEOREM CapacitiesHold == Spec => []WithinCapacity
BY HeldInvariant, TidyFits, PTL

=============================================================================

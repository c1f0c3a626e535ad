---------------------------- MODULE GameMetadata ----------------------------
(***************************************************************************)
(* The games of the Flashpoint database and their data packs               *)
(* (service/siteservice.go, database/postgresdal.go,                       *)
(* service/autounfreezer.go).  A game is a row of PostgreSQL, a data pack  *)
(* a file that lies in one of three directories.  The handlers change both *)
(* in several steps: the row in a transaction, the files one by one.       *)
(*                                                                         *)
(* Three things order them: MetadataMutex, the connections of the pool,    *)
(* and the row lock an UPDATE keeps until its transaction ends.  A commit  *)
(* publishes what its transaction wrote, so it is one step here.           *)
(***************************************************************************)
EXTENDS Naturals, FiniteSets

CONSTANTS
    Games, Packs,
    Clients,      \* requests that can be served at the same time
    Unfreezer,    \* the goroutine of RunAutounfreezer
    None,
    Ops,          \* operations posted in this instance
    InitialRows,  \* the rows this instance begins with
    Kept,         \* games the autounfreezer skips: listed, young, bad date
    Connections,  \* size of the connection pool
    MaxRequests,  \* bound: requests served
    MaxFailures   \* bound: failed calls and stops of the server

AllOps ==
    {"delete", "restore", "freeze", "unfreeze", "save", "redirect", "import"}

ASSUME ProcessesAssumption ==
    /\ Unfreezer \notin Clients
    /\ None \notin Clients \cup {Unfreezer} \cup Games \cup Packs \cup AllOps
    /\ Ops \subseteq AllOps
Dirs == {"data", "frozen", "deleted"}
Processes == Clients \cup {Unfreezer}

RowType == [state : {"absent", "live", "deleted"},
            archive : {"available", "archived"},
            packs : SUBSET Packs]
AbsentRow == [state |-> "absent", archive |-> "available", packs |-> {}]

ASSUME StoreAssumption ==
    /\ InitialRows \subseteq [Games -> RowType]
    /\ \A r \in InitialRows : \A g, h \in Games :
         /\ r[g].state = "absent" => r[g] = AbsentRow
         /\ g # h => r[g].packs \cap r[h].packs = {}
    /\ Kept \subseteq Games
    /\ {Connections, MaxRequests, MaxFailures} \subseteq Nat

\* seen: the row as the request read it; icy: IsFrozen of an import;
\* todo: packs still to be moved; pack: the one being moved.
RequestType ==
    [op : AllOps \cup {None}, game : Games \cup {None},
     dest : Games \cup {None}, icy : BOOLEAN,
     pc : {"idle", "peek", "lock", "connect", "save", "mark", "pick",
           "copy", "remove", "link", "commit"},
     conn : BOOLEAN, seen : RowType, todo : SUBSET Packs,
     pack : Packs \cup {None}]
Idle == [op |-> None, game |-> None, dest |-> None, icy |-> FALSE,
         pc |-> "idle", conn |-> FALSE, seen |-> AbsentRow, todo |-> {},
         pack |-> None]

VARIABLES
    row,        \* the game table
    redirects,  \* game_redirect, as pairs <<source_id, id>>
    files,      \* what a directory has of a pack
    mutex,      \* who holds MetadataMutex
    req,        \* the requests in progress
    listing,    \* the autounfreezer holds the session it lists games with
    served,     \* requests started
    failures,   \* failed calls and restarts
    \* History, read by no action:
    interrupted,\* packs a copy of which did not end
    disturbed   \* games met by one of the events Disturb names

vars == <<row, redirects, files, mutex, req, listing, served, failures,
          interrupted, disturbed>>
store == <<row, redirects, files>>
history == <<interrupted, disturbed>>
counters == <<served, failures>>

\* The directory in which the packs of a game belong.
Home(r) == IF r.archive = "archived" THEN "frozen"
           ELSE IF r.state = "deleted" THEN "deleted" ELSE "data"

NoFiles == [d \in Dirs |-> "none"]

TypeOK ==
    /\ row \in [Games -> RowType]
    /\ redirects \subseteq Games \X Games
    /\ files \in [Packs -> [Dirs -> {"none", "torn", "whole"}]]
    /\ mutex \in Processes \cup {None}
    /\ req \in [Processes -> RequestType]
    /\ listing \in BOOLEAN
    /\ served \in Nat /\ failures \in Nat
    /\ interrupted \subseteq Packs
    /\ disturbed \subseteq Games

\* Every pack lies where the row of its game says.
Init ==
    /\ row \in InitialRows
    /\ redirects = {}
    /\ files = [p \in Packs |-> [d \in Dirs |->
                    IF \E g \in Games : p \in row[g].packs /\ d = Home(row[g])
                    THEN "whole" ELSE "none"]]
    /\ mutex = None
    /\ req = [c \in Processes |-> Idle]
    /\ listing = FALSE
    /\ served = 0 /\ failures = 0
    /\ interrupted = {} /\ disturbed = {}

-----------------------------------------------------------------------------
(* Sessions, locks and answers *)

Free == Connections - Cardinality({c \in Processes : req[c].conn})
                    - (IF listing THEN 1 ELSE 0)

Goto(c, pc) == req' = [req EXCEPT ![c].pc = pc]

\* A transaction that has updated the row keeps it from other updates.
RowLocked(g) == \E c \in Processes :
    /\ req[c].op \in {"delete", "restore", "import"} /\ req[c].game = g
    /\ req[c].pc \in {"pick", "copy", "remove", "link", "commit"}

\* Slip: the early returns do not unlock.
Return_Locked(c) ==
    /\ req' = [req EXCEPT ![c] = Idle]
    /\ mutex' = mutex
    /\ listing' = (listing /\ c # Unfreezer)

\* The request answers: its session and MetadataMutex are given back, and the
\* autounfreezer, whose UnfreezeGame has returned an error in any case, ends
\* its round.
Return(c) ==
    /\ req' = [req EXCEPT ![c] = Idle]
    /\ mutex' = IF mutex = c THEN None ELSE mutex
    /\ listing' = (listing /\ c # Unfreezer)

\* Slip: nobody waits for the mutex.
LockMetadata_Shared(c) ==
    /\ req[c].pc = "lock"
    /\ mutex' = c
    /\ Goto(c, IF req[c].op \in {"freeze", "unfreeze"} THEN "save"
                                                       ELSE "connect")
    /\ UNCHANGED <<store, listing, counters, history>>

LockMetadata(c) ==
    /\ req[c].pc = "lock" /\ mutex = None
    /\ mutex' = c
    /\ Goto(c, IF req[c].op \in {"freeze", "unfreeze"} THEN "save"
                                                       ELSE "connect")
    /\ UNCHANGED <<store, listing, counters, history>>

-----------------------------------------------------------------------------
(* The handlers, up to the first session or lock *)

Serve(c, op, g, d, icy, pc) ==
    /\ op \in Ops
    /\ req[c].pc = "idle" /\ served < MaxRequests
    /\ req' = [req EXCEPT ![c] = [Idle EXCEPT
                  !.op = op, !.game = g, !.dest = d, !.icy = icy, !.pc = pc]]
    /\ served' = served + 1
    /\ UNCHANGED <<store, mutex, listing, failures, history>>

HandleDeleteGame(c, g) ==
    \E d \in Games \cup {None} : Serve(c, "delete", g, d, FALSE, "lock")
HandleRestoreGame(c, g) == Serve(c, "restore", g, None, FALSE, "lock")
HandleFreezeGame(c, g) == Serve(c, "freeze", g, None, FALSE, "connect")
HandleUnfreezeGame(c, g) == Serve(c, "unfreeze", g, None, FALSE, "connect")
HandleGamePage(c, g) == Serve(c, "save", g, None, FALSE, "lock")
HandleGameDataEditPage(c, g) == Serve(c, "save", g, None, FALSE, "connect")
HandleGameImage(c, g) == Serve(c, "save", g, None, FALSE, "peek")
\* A source that is no game is left out: it never becomes one.
HandleGameRedirects(c, g) ==
    /\ row[g].state # "absent"
    /\ \E d \in Games : Serve(c, "redirect", g, d, FALSE, "connect")
\* mark-added, for a submission that may be frozen.
MarkAdded(c, g) ==
    \E icy \in BOOLEAN : Serve(c, "import", g, None, icy, "lock")

\* An image is refused when the game is deleted, before it is uploaded.
PeekGame(c) ==
    /\ req[c].pc = "peek" /\ Free > 0
    /\ IF row[req[c].game].state = "live"
       THEN Goto(c, "connect") /\ UNCHANGED <<mutex, listing>>
       ELSE Return(c)
    /\ UNCHANGED <<store, counters, history>>

NextAfterRead(op) == CASE op \in {"freeze", "unfreeze"}         -> "lock"
                       [] op = "save"                           -> "save"
                       [] op \in {"delete", "restore", "import"} -> "mark"

\* NewSession and the read that follows it: a session sees what is committed
\* when it reads.
NewSession(c) == req[c].pc = "connect" /\ Free > 0

\* GetGame finds deleted games too; an import that finds none adds one.
GetGame(c) ==
    /\ NewSession(c) /\ req[c].op # "redirect"
    /\ IF row[req[c].game].state = "absent" /\ req[c].op # "import"
       THEN Return(c)
       ELSE /\ req' = [req EXCEPT ![c].seen = row[req[c].game],
                                  ![c].conn = TRUE,
                                  ![c].pc = NextAfterRead(req[c].op)]
            /\ UNCHANGED <<mutex, listing>>
    /\ UNCHANGED <<store, counters, history>>

-----------------------------------------------------------------------------
(* SaveGame writes back every column the caller read, except deleted, and  *)
(* commits.                                                                *)

SaveGame(c, archive) ==
    LET g == req[c].game IN
    /\ ~ RowLocked(g)
    /\ row' = [row EXCEPT ![g].archive = archive]

\* The row has changed since the request read it.
Stale(c) == req[c].seen # row[req[c].game]

\* saveGame and SaveGameData: the row they read keeps its archive state.
SaveMetadata(c) ==
    LET g == req[c].game IN
    /\ req[c].pc = "save" /\ req[c].op = "save"
    /\ SaveGame(c, req[c].seen.archive)
    /\ disturbed' = IF row'[g] # row[g] THEN disturbed \cup {g} ELSE disturbed
    /\ Return(c)
    /\ UNCHANGED <<redirects, files, counters, interrupted>>

\* FreezeGame and UnfreezeGame move the files after SaveGame has committed
\* and given the session back.
SaveAndMove(c, op, archive) ==
    LET g == req[c].game IN
    /\ req[c].pc = "save" /\ req[c].op = op
    /\ SaveGame(c, archive)
    /\ req' = [req EXCEPT ![c].conn = FALSE, ![c].pc = "pick",
                          ![c].todo = req[c].seen.packs]
    /\ disturbed' = IF Stale(c) THEN disturbed \cup {g} ELSE disturbed
    /\ UNCHANGED <<redirects, files, mutex, listing, counters, interrupted>>

\* Slip: the zero value of ArchiveState, NotArchived, is saved.
FreezeGame_ZeroState(c) == SaveAndMove(c, "freeze", "not-archived")

FreezeGame(c) == SaveAndMove(c, "freeze", "archived")

UnfreezeGame(c) == SaveAndMove(c, "unfreeze", "available")

-----------------------------------------------------------------------------
(* Delete, restore and import change the row inside their transaction      *)

Mark(c, op, todo) ==
    /\ req[c].pc = "mark" /\ req[c].op = op
    /\ ~ RowLocked(req[c].game)
    /\ req' = [req EXCEPT ![c].pc = "pick", ![c].todo = todo]
    /\ UNCHANGED <<store, mutex, listing, counters, history>>

\* The files of a game that is archived stay where they are.
MovablePacks(c) ==
    IF req[c].seen.archive = "available" THEN req[c].seen.packs ELSE {}

DeleteGame(c) == Mark(c, "delete", MovablePacks(c))
RestoreGame(c) == Mark(c, "restore", MovablePacks(c))

\* Where the files of a request come from and go to, by what it read.
Source(c) ==
    CASE req[c].op = "unfreeze" -> "frozen"
      [] req[c].op = "restore"  -> "deleted"
      [] req[c].op = "freeze" /\ req[c].seen.state = "deleted" -> "deleted"
      [] OTHER -> "data"

\* Slip: an unfrozen pack goes to the data packs, deleted game or not.
Target_Data(c) ==
    CASE req[c].op = "freeze" -> "frozen"
      [] req[c].op = "delete" -> "deleted"
      [] req[c].op = "import" -> IF req[c].icy THEN "frozen" ELSE "data"
      [] OTHER -> "data"

Target(c) ==
    CASE req[c].op = "freeze" -> "frozen"
      [] req[c].op = "delete" -> "deleted"
      [] req[c].op = "unfreeze" /\ req[c].seen.state = "deleted" -> "deleted"
      [] req[c].op = "import" /\ req[c].icy -> "frozen"
      [] OTHER -> "data"

Fresh(p) ==
    /\ files[p] = NoFiles
    /\ \A g \in Games : p \notin row[g].packs
    /\ \A c \in Processes : p # req[c].pack

\* AddGameData updates the row of the game; AddSubmissionFromValidator inserts
\* one.  The file has the name of the new pack and is copied at once.
AddGameData(c) ==
    /\ req[c].pc = "mark" /\ req[c].op = "import"
    /\ req[c].seen.state = "absent" \/ ~ RowLocked(req[c].game)
    /\ \E p \in Packs : Fresh(p)
    /\ LET p == CHOOSE q \in Packs : Fresh(q) IN
        /\ files' = [files EXCEPT ![p][Target(c)] = "torn"]
        /\ req' = [req EXCEPT ![c].pc = "copy", ![c].pack = p]
    /\ UNCHANGED <<row, redirects, mutex, listing, counters, history>>

-----------------------------------------------------------------------------
(* Moving one pack: copy, then remove *)

\* Only copy if the file exists: os.Create empties the destination.
CopyBegins(c) ==
    /\ req[c].pc = "pick"
    /\ \E p \in req[c].todo :
        IF files[p][Source(c)] = "none"
        THEN /\ req' = [req EXCEPT ![c].todo = @ \ {p}]
             /\ UNCHANGED files
        ELSE /\ req' = [req EXCEPT ![c].todo = @ \ {p}, ![c].pack = p,
                                   ![c].pc = "copy"]
             /\ files' = [files EXCEPT ![p][Target(c)] = "torn"]
    /\ UNCHANGED <<row, redirects, mutex, listing, counters, history>>

\* The copy is what the source is; that of an import is the repacked archive,
\* which is nobody else's.
CopyEnds(c) ==
    LET p == req[c].pack IN
    /\ req[c].pc = "copy"
    /\ files' = [files EXCEPT ![p][Target(c)] =
                    IF req[c].op = "import" THEN "whole"
                                            ELSE files[p][Source(c)]]
    /\ Goto(c, IF req[c].op = "import" THEN "commit" ELSE "remove")
    /\ UNCHANGED <<row, redirects, mutex, listing, counters, history>>

RemoveSource(c) ==
    LET p == req[c].pack IN
    /\ req[c].pc = "remove"
    /\ files' = [files EXCEPT ![p][Source(c)] = "none"]
    /\ req' = [req EXCEPT ![c].pc = "pick", ![c].pack = None]
    /\ UNCHANGED <<row, redirects, mutex, listing, counters, history>>

\* The second commit of FreezeGame and UnfreezeGame fails, and they answer
\* with its error.
AnswerFreeze(c) ==
    /\ req[c].pc = "pick" /\ req[c].todo = {}
    /\ req[c].op \in {"freeze", "unfreeze"}
    /\ Return(c)
    /\ UNCHANGED <<store, counters, history>>

-----------------------------------------------------------------------------
(* Redirects, and the commits that publish a deletion or a restoration *)

\* AddGameRedirect: the source is not a live game, the destination is one.
MayRedirect(state, s, d) == state[s] # "live" /\ state[d] = "live"

States == [g \in Games |-> row[g].state]

AddNewGameRedirect(c) ==
    LET s == req[c].game
        d == req[c].dest
    IN  /\ NewSession(c) /\ req[c].op = "redirect"
        /\ IF MayRedirect(States, s, d)
           THEN /\ req' = [req EXCEPT ![c].conn = TRUE, ![c].pc = "link"]
                /\ UNCHANGED <<mutex, listing>>
           ELSE Return(c)
        /\ UNCHANGED <<store, counters, history>>

\* (id, source_id) is the primary key.  Nothing keeps the two games as they
\* were when they were checked.
CommitRedirect(c) ==
    LET s == req[c].game
        d == req[c].dest
    IN  /\ req[c].pc = "link" /\ req[c].op = "redirect"
        /\ redirects' = redirects \cup {<<s, d>>}
        /\ disturbed' = IF MayRedirect(States, s, d) THEN disturbed
                                                 ELSE disturbed \cup {s, d}
        /\ Return(c)
        /\ UNCHANGED <<row, files, counters, interrupted>>

\* Slip: what pointed to the deleted game still does.
Repoint_Forgotten(g, d) ==
    redirects \cup (IF d = None THEN {} ELSE {<<g, d>>})

\* AddGameRedirect and UpdateGameRedirects, or RemoveGameRedirectsTo.
Repoint(g, d) ==
    IF d = None THEN {r \in redirects : r[2] # g}
    ELSE {r \in redirects : r[2] # g} \cup {<<g, d>>}
            \cup {<<r[1], d>> : r \in {q \in redirects : q[2] = g}}

\* The redirect of a deletion is refused when its destination is not a live
\* game, the deleted one among them, or when a row of that key exists.
MayRepoint(g, d) ==
    d # None =>
        /\ d # g /\ row[d].state = "live"
        /\ <<g, d>> \notin redirects
        /\ \A s \in Games :
             <<s, g>> \in redirects => <<s, d>> \notin redirects

CommitDelete(c) ==
    LET g == req[c].game IN
    /\ req[c].pc = "pick" /\ req[c].todo = {} /\ req[c].op = "delete"
    /\ MayRepoint(g, req[c].dest)
    /\ row' = [row EXCEPT ![g].state = "deleted"]
    /\ redirects' = Repoint(g, req[c].dest)
    /\ Return(c)
    /\ UNCHANGED <<files, counters, history>>

\* The refusal comes after the files were moved, and only the row is restored.
RefuseDelete(c) ==
    LET g == req[c].game IN
    /\ req[c].pc = "pick" /\ req[c].todo = {} /\ req[c].op = "delete"
    /\ ~ MayRepoint(g, req[c].dest)
    /\ disturbed' = disturbed \cup {g}
    /\ Return(c)
    /\ UNCHANGED <<store, counters, interrupted>>

\* Slip: redirects from the restored game stay.
CommitRestore_KeepRedirects(c) ==
    LET g == req[c].game IN
    /\ req[c].pc = "pick" /\ req[c].todo = {} /\ req[c].op = "restore"
    /\ row' = [row EXCEPT ![g].state = "live"]
    /\ Return(c)
    /\ UNCHANGED <<redirects, files, counters, history>>

\* RemoveGameRedirectsFrom.
CommitRestore(c) ==
    LET g == req[c].game IN
    /\ req[c].pc = "pick" /\ req[c].todo = {} /\ req[c].op = "restore"
    /\ row' = [row EXCEPT ![g].state = "live"]
    /\ redirects' = {r \in redirects : r[1] # g}
    /\ Return(c)
    /\ UNCHANGED <<files, counters, history>>

\* The directory followed the submission; a game that exists keeps its state.
CommitImport(c) ==
    LET g == req[c].game
        r == req[c].seen
        added == IF r.state = "absent"
                 THEN [state |-> "live",
                       archive |-> IF req[c].icy THEN "archived"
                                                 ELSE "available",
                       packs |-> {req[c].pack}]
                 ELSE [row[g] EXCEPT !.packs = @ \cup {req[c].pack}]
    IN  /\ req[c].pc = "commit"
        /\ row' = [row EXCEPT ![g] = added]
        /\ disturbed' = IF Target(c) = Home(added) THEN disturbed
                                               ELSE disturbed \cup {g}
        /\ Return(c)
        /\ UNCHANGED <<redirects, files, counters, interrupted>>

-----------------------------------------------------------------------------
(* Failures and the autounfreezer *)

Moving(c) == req[c].pc \in {"pick", "copy", "remove", "commit"}
Torn(c) == IF req[c].pc = "copy" THEN {req[c].pack} ELSE {}
Touched(c) == IF Moving(c) THEN {req[c].game} ELSE {}

\* A call of a database, the validator or the file system fails.  What was
\* not committed is rolled back; the files stay as they are.
Fail(c) ==
    /\ req[c].pc \notin {"idle", "lock"} /\ failures < MaxFailures
    /\ failures' = failures + 1
    /\ Return(c)
    /\ interrupted' = interrupted \cup Torn(c)
    /\ disturbed' = disturbed \cup Touched(c)
    /\ UNCHANGED <<store, served>>

Restart ==
    /\ failures < MaxFailures
    /\ failures' = failures + 1
    /\ req' = [c \in Processes |-> Idle]
    /\ mutex' = None /\ listing' = FALSE
    /\ interrupted' = interrupted \cup UNION {Torn(c) : c \in Processes}
    /\ disturbed' = disturbed \cup UNION {Touched(c) : c \in Processes}
    /\ UNCHANGED <<store, served>>

\* Slip: deleted games are not listed.
Due_LiveOnly == {g \in Games : row[g].archive = "archived"
                            /\ row[g].state = "live"} \ Kept

\* GetFrozenGames without those that are skipped.
Due == {g \in Games : row[g].archive = "archived"} \ Kept

\* A tick: the goroutine lists the games in a session it keeps and unfreezes
\* the first one that is due.
RunAutounfreezer ==
    /\ req[Unfreezer].pc = "idle" /\ Free > 0
    /\ \E g \in Due :
        req' = [req EXCEPT ![Unfreezer] =
                   [Idle EXCEPT !.op = "unfreeze", !.game = g,
                                !.pc = "connect"]]
    /\ listing' = TRUE
    /\ UNCHANGED <<store, mutex, counters, history>>

-----------------------------------------------------------------------------
Begin(c) == \E g \in Games :
    \/ HandleDeleteGame(c, g) \/ HandleRestoreGame(c, g)
    \/ HandleFreezeGame(c, g) \/ HandleUnfreezeGame(c, g)
    \/ HandleGamePage(c, g) \/ HandleGameDataEditPage(c, g)
    \/ HandleGameImage(c, g) \/ HandleGameRedirects(c, g) \/ MarkAdded(c, g)

Step(c) ==
    \/ LockMetadata(c) \/ PeekGame(c) \/ GetGame(c)
    \/ SaveMetadata(c) \/ FreezeGame(c) \/ UnfreezeGame(c)
    \/ DeleteGame(c) \/ RestoreGame(c) \/ AddGameData(c)
    \/ CopyBegins(c) \/ CopyEnds(c) \/ RemoveSource(c) \/ AnswerFreeze(c)
    \/ AddNewGameRedirect(c) \/ CommitRedirect(c)
    \/ CommitDelete(c) \/ RefuseDelete(c) \/ CommitRestore(c)
    \/ CommitImport(c)

Next ==
    \/ \E c \in Clients : Begin(c)
    \/ \E c \in Processes : Step(c) \/ Fail(c)
    \/ Restart
    \/ RunAutounfreezer

Spec == Init /\ [][Next]_vars

\* The scheduler runs every request, mutexes and pools serve every waiter, and
\* the ticker ticks.
Fairness ==
    /\ \A c \in Processes : WF_vars(Step(c))
    /\ WF_vars(RunAutounfreezer)
FairSpec == Spec /\ Fairness

-----------------------------------------------------------------------------
(* Properties *)

\* A pack of a game is whole in some directory unless a copy of it was cut
\* short, which is later taken for the pack and moved over it: the moves of
\* CopyFile and Remove never meet, and never lose a file.
PackSurvives == \A g \in Games : \A p \in row[g].packs \ interrupted :
    \E d \in Dirs : files[p][d] = "whole"

\* Between requests every pack lies where the row of its game says, and only
\* there.  What displaces one: a failure after the first file was touched, a
\* deletion refused after its moves, an import whose submission is frozen and
\* whose game is not (or the reverse), and a save of a row that has changed.
PacksInPlace == mutex = None =>
    \A g \in Games \ disturbed : \A p \in row[g].packs :
        files[p] = [NoFiles EXCEPT ![Home(row[g])] = "whole"]

\* A redirect leads from a game that is not live to one that is.
RedirectsSound == \A r \in redirects :
    {r[1], r[2]} \cap disturbed = {} => MayRedirect(States, r[1], r[2])

\* The pool has run dry: who holds MetadataMutex waits for a session, and all
\* who hold one wait for MetadataMutex.  DeleteGame, RestoreGame, HandleGamePage
\* and an import lock before they connect, FreezeGame and UnfreezeGame connect
\* before they lock, and the autounfreezer keeps a second session all the while.
Exhausted ==
    /\ Free = 0
    /\ mutex # None /\ req[mutex].pc = "connect"
    /\ \A c \in Processes : req[c].conn => req[c].pc = "lock"

AllAnswered == \A c \in Processes : req[c].pc = "idle"

\* "Lock the database for sequential write" (siteservice.go:253, 3185) promises
\* that requests take turns: once no more arrive all are answered.
EveryRequestReturns == <>[]AllAnswered

\* Nothing but an exhausted pool keeps a request waiting for ever: no row, no
\* early return that leaves MetadataMutex locked, no failure.
OnlyThePoolBlocks == <>[](AllAnswered \/ Exhausted)

Thawed == \A g \in Games \ Kept : row[g].archive = "available"

\* Every archived game that is old enough is unfrozen in the end, although a
\* round of the autounfreezer stops at the first game (UnfreezeGame always
\* answers with an error) and whatever else is archived, unless the pool runs
\* dry.
OldGamesThaw == <>[](Thawed \/ Exhausted)
=============================================================================

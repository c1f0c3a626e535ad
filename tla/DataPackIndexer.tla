--------------------------- MODULE DataPackIndexer ---------------------------
(***************************************************************************)
(* The data pack indexer (service/zipindexer.go) and the end of the server *)
(* process (transport/app.go), which waits for the background tasks one    *)
(* after the other and for the requests at last.                           *)
(*                                                                         *)
(* The indexer looks for a pack that PostgreSQL says is not indexed, opens *)
(* its archive and writes one row for each file in it.  Each statement is  *)
(* a transaction of its own, and the first of them marks the whole pack.   *)
(* Meanwhile requests import packs and move them in and out of the data    *)
(* packs directory; what they do to games is in GameMetadata.              *)
(***************************************************************************)
EXTENDS Naturals, FiniteSets

CONSTANTS
    Packs, Files,
    Contents,     \* the files of a pack, directories and content.json left out
    Tasks,        \* tasks of the wait group: none in source-only mode
    NoPack,
    MaxMoves,     \* bound: packs moved out of the directory
    MaxFailures   \* bound: failed calls and crashes

ASSUME PacksAssumption ==
    /\ Contents \in [Packs -> SUBSET Files]
    /\ NoPack \notin Packs

ASSUME BoundsAssumption == MaxMoves \in Nat /\ MaxFailures \in Nat

VARIABLES
    row,         \* PostgreSQL: the row of a pack in game_data
    index,       \* PostgreSQL: rows of game_data_index of a pack and file
    file,        \* the archive in the data packs directory
    copying,     \* packs a request is copying into it
    pc, cur, todo,  \* run(): where it is, its pack, the files it has yet to read
    stopped,
    server,      \* InitApp: serving, or how far the shutdown is
    tasks,       \* consumer and autounfreezer, while they run
    moves, failures,
    \* History, read by no action:
    moved,       \* packs that were not in the directory though their row was
    interrupted  \* packs the indexer left after it had written rows of them

vars == <<row, index, file, copying, pc, cur, todo, stopped, server, tasks,
          moves, failures, moved, interrupted>>
indexer == <<pc, cur, todo>>
process == <<server, tasks>>
directory == <<file, copying, moves, moved>>

RowType == [known : BOOLEAN, indexed : BOOLEAN, index_error : BOOLEAN]
NoRow == [known |-> FALSE, indexed |-> FALSE, index_error |-> FALSE]

\* pc "none": there is no goroutine.  server "cancel": wg.Wait of InitApp;
\* "stop": Stop has read stopped; "send": it waits on stopSignal; "drain":
\* srv.Shutdown; "gone": it is down.
TypeOK ==
    /\ row \in [Packs -> RowType]
    /\ index \in [Packs -> [Files -> Nat]]
    /\ file \in [Packs -> {"absent", "torn", "whole"}]
    /\ copying \subseteq Packs
    /\ pc \in {"none", "top", "sleep", "open", "read", "mark", "missing"}
    /\ cur \in Packs \cup {NoPack}
    /\ todo \subseteq Files
    /\ stopped \in BOOLEAN
    /\ server \in {"up", "cancel", "stop", "send", "drain", "gone"}
    /\ tasks \subseteq Tasks
    /\ moves \in Nat /\ failures \in Nat
    /\ moved \subseteq Packs /\ interrupted \subseteq Packs

\* NewZipIndexer, and nothing imported yet.
Init ==
    /\ row = [p \in Packs |-> NoRow]
    /\ index = [p \in Packs |-> [f \in Files |-> 0]]
    /\ file = [p \in Packs |-> "absent"]
    /\ copying = {}
    /\ pc = "none" /\ cur = NoPack /\ todo = {}
    /\ stopped = TRUE
    /\ server = "gone" /\ tasks = {}
    /\ moves = 0 /\ failures = 0
    /\ moved = {} /\ interrupted = {}

-----------------------------------------------------------------------------
(* The process *)

\* InitApp: Start, which begins a run only if there is none, and the tasks.
Start ==
    /\ server = "gone" /\ stopped
    /\ server' = "up" /\ tasks' = Tasks
    /\ stopped' = FALSE /\ pc' = "top"
    /\ UNCHANGED <<row, index, directory, cur, todo, failures, interrupted>>

\* A signal: the context of the tasks is cancelled.
Cancel ==
    /\ server = "up"
    /\ server' = "cancel"
    /\ UNCHANGED <<row, index, directory, indexer, stopped, tasks, failures,
                   interrupted>>

\* A task sees that its context is cancelled and ends.
TaskEnds(t) ==
    /\ server = "cancel" /\ t \in tasks
    /\ tasks' = tasks \ {t}
    /\ UNCHANGED <<row, index, directory, indexer, stopped, server, failures,
                   interrupted>>

\* Stop reads stopped, without the mutex: if it is set there is nothing to stop.
Stop ==
    /\ server = "cancel" /\ tasks = {}
    /\ server' = IF stopped THEN "drain" ELSE "stop"
    /\ UNCHANGED <<row, index, directory, indexer, stopped, tasks, failures,
                   interrupted>>

\* Until the signal is posted run() goes on.
SendStop ==
    /\ server = "stop"
    /\ server' = "send"
    /\ UNCHANGED <<row, index, directory, indexer, stopped, tasks, failures,
                   interrupted>>

\* stopSignal has no buffer: it is sent when run() is at its select, and then
\* wg.Wait of the indexer ends too.
ReceiveStop ==
    /\ server = "send" /\ pc = "top"
    /\ stopped' = TRUE /\ pc' = "none"
    /\ server' = "drain"
    /\ UNCHANGED <<row, index, directory, cur, todo, tasks, failures,
                   interrupted>>

\* srv.Shutdown waits for the requests that are being served.
Exit ==
    /\ server = "drain" /\ copying = {}
    /\ server' = "gone"
    /\ UNCHANGED <<row, index, directory, indexer, stopped, tasks, failures,
                   interrupted>>

-----------------------------------------------------------------------------
(* run() *)

Unindexed == {p \in Packs : row[p].known /\ ~row[p].indexed
                                         /\ ~row[p].index_error}

\* The select has a default: a signal that waits goes first.
AtSelect == pc = "top" /\ server # "send"

\* IndexerGetNext, in no order.
IndexerGetNext ==
    /\ AtSelect
    /\ \E p \in Unindexed : cur' = p
    /\ pc' = "open"
    /\ UNCHANGED <<row, index, directory, todo, stopped, process, failures,
                   interrupted>>

\* pgx.ErrNoRows: it sleeps ten seconds.
Sleep ==
    /\ AtSelect /\ Unindexed = {}
    /\ pc' = "sleep"
    /\ UNCHANGED <<row, index, directory, cur, todo, stopped, process, failures,
                   interrupted>>

Wake ==
    /\ pc = "sleep"
    /\ pc' = "top"
    /\ UNCHANGED <<row, index, directory, cur, todo, stopped, process, failures,
                   interrupted>>

\* os.Stat and zip.OpenReader; once open, the archive can be read to its end
\* though it is moved.
OpenZip ==
    /\ pc = "open" /\ file[cur] = "whole"
    /\ pc' = "read" /\ todo' = Contents[cur]
    /\ UNCHANGED <<row, index, directory, cur, stopped, process, failures,
                   interrupted>>

NoSuchFile ==
    /\ pc = "open" /\ file[cur] = "absent"
    /\ pc' = "missing"
    /\ UNCHANGED <<row, index, directory, cur, todo, stopped, process, failures,
                   interrupted>>

\* IndexerInsert, first statement.
InsertFile(f) ==
    /\ pc = "read" /\ f \in todo
    /\ index' = [index EXCEPT ![cur][f] = @ + 1]
    /\ todo' = todo \ {f}
    /\ pc' = "mark"
    /\ UNCHANGED <<row, directory, cur, stopped, process, failures, interrupted>>

Indexed(r) == [r EXCEPT !.indexed = TRUE, !.index_error = FALSE]

\* Slip: the pack is marked, and left, at the first of its files.
MarkIndexed_First ==
    /\ pc = "mark"
    /\ row' = [row EXCEPT ![cur] = Indexed(@)]
    /\ pc' = "top"
    /\ UNCHANGED <<index, directory, cur, todo, stopped, process, failures,
                   interrupted>>

\* IndexerInsert, second statement: with each file the pack is marked again.
MarkIndexed ==
    /\ pc = "mark"
    /\ row' = [row EXCEPT ![cur] = Indexed(@)]
    /\ pc' = IF todo = {} THEN "top" ELSE "read"
    /\ UNCHANGED <<index, directory, cur, todo, stopped, process, failures,
                   interrupted>>

IndexerMarkEmpty ==
    /\ pc = "read" /\ Contents[cur] = {}
    /\ row' = [row EXCEPT ![cur] = Indexed(@)]
    /\ pc' = "top"
    /\ UNCHANGED <<index, directory, cur, todo, stopped, process, failures,
                   interrupted>>

\* The pack is not looked for again, though it may come back.
IndexerMarkFailure ==
    /\ pc = "missing"
    /\ row' = [row EXCEPT ![cur].index_error = TRUE]
    /\ pc' = "top"
    /\ UNCHANGED <<index, directory, cur, todo, stopped, process, failures,
                   interrupted>>

\* Some rows of the pack have been written, and others have not, or the pack
\* has not been marked.
HalfDone == pc = "mark" \/ (pc = "read" /\ todo # Contents[cur])
Left == IF HalfDone THEN {cur} ELSE {}

\* Slip: stopped is only set where the signal is received.
EndWithError_Running ==
    /\ pc' = "none"
    /\ interrupted' = interrupted \cup Left
    /\ UNCHANGED <<row, index, directory, cur, todo, stopped, process>>

\* run() keeps the error and returns: nothing starts it again.
EndWithError ==
    /\ pc' = "none" /\ stopped' = TRUE
    /\ interrupted' = interrupted \cup Left
    /\ UNCHANGED <<row, index, directory, cur, todo, process>>

\* The archive is being copied, or its copy was cut short.
BadArchive ==
    /\ pc = "open" /\ file[cur] = "torn"
    /\ EndWithError
    /\ UNCHANGED failures

\* A statement or a read fails.
IndexerFails ==
    /\ AtSelect \/ pc \in {"open", "read", "mark", "missing"}
    /\ failures < MaxFailures
    /\ failures' = failures + 1
    /\ EndWithError

-----------------------------------------------------------------------------
(* Requests, and the autounfreezer *)

\* srv.Shutdown comes last and lets the requests in progress go on.
Serving == server # "gone"

\* An import, or a restored or unfrozen game: CopyFile creates the file.
CopyBegins(p) ==
    /\ Serving /\ p \notin copying
    /\ file[p] # "whole"
    /\ file' = [file EXCEPT ![p] = "torn"]
    /\ copying' = copying \cup {p}
    /\ UNCHANGED <<row, index, moves, moved, indexer, stopped, process,
                   failures, interrupted>>

CopyEnds(p) ==
    /\ p \in copying
    /\ file' = [file EXCEPT ![p] = "whole"]
    /\ copying' = copying \ {p}
    /\ UNCHANGED <<row, index, moves, moved, indexer, stopped, process,
                   failures, interrupted>>

\* Slip: the row is committed, then the pack is copied.
CommitImport_First(p) ==
    /\ Serving /\ ~row[p].known
    /\ row' = [row EXCEPT ![p].known = TRUE]
    /\ UNCHANGED <<index, directory, indexer, stopped, process, failures,
                   interrupted>>

\* AddSubmissionToFlashpoint commits the row of a pack after it has copied it.
CommitImport(p) ==
    /\ Serving /\ ~row[p].known /\ file[p] = "whole"
    /\ row' = [row EXCEPT ![p].known = TRUE]
    /\ UNCHANGED <<index, directory, indexer, stopped, process, failures,
                   interrupted>>

\* The pack of a frozen submission goes to the frozen packs directory.
CommitFrozenImport(p) ==
    /\ Serving /\ ~row[p].known /\ file[p] = "absent"
    /\ row' = [row EXCEPT ![p].known = TRUE]
    /\ moved' = moved \cup {p}
    /\ UNCHANGED <<index, file, copying, moves, indexer, stopped, process,
                   failures, interrupted>>

\* A game is frozen or deleted: the copy elsewhere is made, the source removed.
MoveOut(p) ==
    /\ Serving /\ row[p].known /\ file[p] = "whole"
    /\ moves < MaxMoves
    /\ moves' = moves + 1
    /\ file' = [file EXCEPT ![p] = "absent"]
    /\ moved' = moved \cup {p}
    /\ UNCHANGED <<row, index, copying, indexer, stopped, process, failures,
                   interrupted>>

\* The process dies: what was being copied stays as it is.
Crash ==
    /\ server # "gone" /\ failures < MaxFailures
    /\ failures' = failures + 1
    /\ server' = "gone" /\ tasks' = {}
    /\ pc' = "none" /\ stopped' = TRUE
    /\ copying' = {}
    /\ interrupted' = interrupted \cup Left
    /\ UNCHANGED <<row, index, file, moves, moved, cur, todo>>

-----------------------------------------------------------------------------
ShutDown == Cancel \/ (\E t \in Tasks : TaskEnds(t)) \/ Stop \/ SendStop
            \/ Exit

Run == \/ ReceiveStop \/ IndexerGetNext \/ Sleep \/ Wake \/ OpenZip \/ NoSuchFile
       \/ (\E f \in Files : InsertFile(f))
       \/ MarkIndexed \/ IndexerMarkEmpty \/ IndexerMarkFailure \/ BadArchive

Request(p) == \/ CopyBegins(p) \/ CopyEnds(p) \/ MoveOut(p)
              \/ CommitImport(p) \/ CommitFrozenImport(p)

Next == Start \/ ShutDown \/ Run \/ (\E p \in Packs : Request(p))
        \/ IndexerFails \/ Crash

Spec == Init /\ [][Next]_vars

\* The goroutine runs; a task looks at its context; copies come to an end.
Fairness ==
    /\ WF_vars(Run) /\ WF_vars(Stop) /\ WF_vars(SendStop)
    /\ WF_vars(Exit)
    /\ \A t \in Tasks : WF_vars(TaskEnds(t))
    /\ \A p \in Packs : WF_vars(CopyEnds(p))

FairSpec == Spec /\ Fairness

-----------------------------------------------------------------------------
(* Properties *)

Reading(p) == cur = p /\ pc \in {"read", "mark"}

\* A pack that was never away from its directory and on which the indexer was
\* never interrupted is right in the index: it is not given up, it has either
\* no row of its files or, once it is marked and left, exactly one of each.
\* (Failures and crashes in the middle leave a marked pack half indexed.)
IndexedIsWhole == \A p \in Packs :
    /\ row[p].index_error => p \in moved
    /\ p \in interrupted \/ Reading(p)
       \/ \A f \in Files :
            index[p][f] = IF row[p].indexed /\ f \in Contents[p] THEN 1 ELSE 0

\* A shutdown comes to its end, save when the indexer ends with an error after
\* Stop has seen it running: then Stop waits on a channel nobody reads.
StopReturns ==
    /\ (server = "cancel" /\ pc = "none") ~> (server = "gone")
    /\ (server = "cancel") ~>
         (server = "gone" \/ (server = "send" /\ pc = "none"))
=============================================================================

------------------------- MODULE GameMetadataProofs -------------------------
(***************************************************************************)
(* What the files of the games survive, for any number of games, packs,    *)
(* requests, connections, failures and restarts.                           *)
(*                                                                         *)
(* The invariant rests on MetadataMutex: whoever touches a file holds it,  *)
(* so that at most one pack is being moved, and a pack that is neither     *)
(* being copied nor was ever cut short has no torn copy.                   *)
(*                                                                         *)
(* PlaceInv adds what a request remembers of the row it read and how far   *)
(* it has moved the packs (TrackInv), that a game nobody is changing has   *)
(* its packs where its row says (CalmInv), and that redirects lead from a  *)
(* game that is not live to one that is (LinkInv).                         *)
(*                                                                         *)
(* The end of the module is about the pool: SessionInv, and that nobody    *)
(* gets out of an exhausted pool.                                          *)
(***************************************************************************)
EXTENDS GameMetadata, TLAPS

Movers == {"delete", "restore", "freeze", "unfreeze"}

\* What a request is doing where it is, and where it holds MetadataMutex.
Stages(c) ==
    LET r == req[c] IN
    /\ r.pc # "idle" => r.op \in AllOps /\ r.game \in Games
    /\ r.pc = "peek" => r.op = "save"
    /\ r.pc = "lock" => r.op # "redirect"
    /\ r.pc = "save" => r.op \in {"freeze", "unfreeze", "save"}
    /\ r.pc = "mark" => r.op \in {"delete", "restore", "import"}
    /\ r.pc = "pick" => r.op \in Movers
    /\ r.pc = "copy" => r.op \in Movers \cup {"import"} /\ r.pack \in Packs
    /\ r.pc = "remove" => r.op \in Movers /\ r.pack \in Packs
    /\ r.pc = "commit" => r.op = "import" /\ r.pack \in Packs
    /\ r.pc = "link" => r.op = "redirect" /\ r.dest \in Games
    /\ r.op = "redirect" => r.dest \in Games
    /\ r.pc \in {"mark", "pick", "copy", "remove", "commit"} => mutex = c
    /\ r.pc = "connect" /\ r.op \in {"delete", "restore", "import"}
         => mutex = c
    /\ r.pc = "save" /\ r.op \in {"freeze", "unfreeze"} => mutex = c

StageInv == \A c \in Processes : Stages(c)

\* The files of a pack no copy of which was cut short.
OnlyTorn(p, d) == \E c \in Processes :
    req[c].pc = "copy" /\ req[c].pack = p /\ Target(c) = d

PackInv ==
    /\ \A p \in Packs \ interrupted : \A d \in Dirs :
         files[p][d] = "torn" => OnlyTorn(p, d)
    /\ \A c \in Processes : req[c].pack \notin interrupted =>
         /\ req[c].pc = "copy" /\ req[c].op # "import"
              => files[req[c].pack][Source(c)] = "whole"
         /\ req[c].pc \in {"remove", "commit"}
              => files[req[c].pack][Target(c)] = "whole"
    /\ \A c \in Processes : req[c].op = "import"
           /\ req[c].pc \in {"copy", "commit"}
         => \A g \in Games : req[c].pack \notin row[g].packs

GInv == TypeOK /\ StageInv /\ PackInv /\ PackSurvives

-----------------------------------------------------------------------------
(* Requests and rows are records of their types *)

LEMMA IdleTyped == Idle \in RequestType
BY DEF Idle, RequestType, AbsentRow, RowType

LEMMA HomeIsDir == ASSUME NEW r PROVE Home(r) \in Dirs
BY DEF Home, Dirs

LEMMA PlacesAreDirs ==
    ASSUME NEW c
    PROVE  Source(c) \in Dirs /\ Target(c) \in Dirs
BY DEF Source, Target, Dirs

\* A file is never copied onto itself.
LEMMA SourceIsNotTarget ==
    ASSUME NEW c, req[c].op \in Movers
    PROVE  Source(c) # Target(c)
BY DEF Source, Target, Movers

LEMMA InitGInv == Init => GInv
<1> SUFFICES ASSUME Init PROVE GInv
  OBVIOUS
<1>1. row \in [Games -> RowType]
  BY StoreAssumption DEF Init
<1>2. files \in [Packs -> [Dirs -> {"none", "torn", "whole"}]]
  BY DEF Init
<1>3. req \in [Processes -> RequestType]
  BY IdleTyped DEF Init
<1>4. TypeOK
  BY <1>1, <1>2, <1>3 DEF Init, TypeOK
<1>5. StageInv
  BY ProcessesAssumption DEF Init, StageInv, Stages, Idle, AllOps
<1>6. PackInv
  BY DEF Init, PackInv, Idle
<1>7. PackSurvives
  <2> SUFFICES ASSUME NEW g \in Games, NEW p \in row[g].packs
               PROVE  \E d \in Dirs : files[p][d] = "whole"
    BY DEF PackSurvives
  <2>1. p \in Packs
    BY <1>1 DEF RowType
  <2>2. Home(row[g]) \in Dirs
    BY HomeIsDir
  <2> QED
    BY <2>1, <2>2 DEF Init
<1> QED
  BY <1>4, <1>5, <1>6, <1>7 DEF GInv

-----------------------------------------------------------------------------
(* Every step is typed and keeps the stages *)

USE DEF Processes

LEMMA ReturnSteps ==
    ASSUME TypeOK, StageInv, NEW c \in Processes, Return(c)
    PROVE  /\ req' \in [Processes -> RequestType]
           /\ mutex' \in Processes \cup {None}
           /\ listing' \in BOOLEAN
           /\ StageInv'
<1>1. req' \in [Processes -> RequestType]
  BY IdleTyped DEF TypeOK, Return
<1>2. StageInv'
  <2> SUFFICES ASSUME NEW k \in Processes PROVE Stages(k)'
    BY DEF StageInv
  <2>1. CASE k = c
    BY <2>1, ProcessesAssumption DEF TypeOK, Return, Stages, Idle, AllOps
  <2>2. CASE k # c
    BY <2>2, ProcessesAssumption DEF TypeOK, Return, StageInv, Stages
  <2> QED
    BY <2>1, <2>2
<1> QED
  BY <1>1, <1>2 DEF TypeOK, Return

\* The other requests keep their stages when the mutex stays or is taken free.
LEMMA OthersKeepStages ==
    ASSUME TypeOK, StageInv, NEW c \in Processes, NEW r,
           req' = [req EXCEPT ![c] = r],
           mutex' = mutex \/ (mutex = None /\ mutex' = c),
           Stages(c)'
    PROVE  StageInv'
<1> SUFFICES ASSUME NEW k \in Processes, k # c PROVE Stages(k)'
  BY DEF StageInv
<1>1. req'[k] = req[k]
  BY DEF TypeOK
<1>2. mutex = k => mutex' = k
  BY ProcessesAssumption
<1> QED
  BY <1>1, <1>2 DEF StageInv, Stages

LEMMA ServeStep ==
    ASSUME TypeOK, StageInv, NEW c \in Processes, NEW op \in AllOps,
           NEW g \in Games, NEW d \in Games \cup {None}, NEW icy \in BOOLEAN,
           NEW pc \in {"peek", "lock", "connect"},
           op = "redirect" => d \in Games /\ pc # "lock",
           op \in {"delete", "restore", "import"} => pc = "lock",
           pc = "peek" => op = "save",
           req' = [req EXCEPT ![c] = [Idle EXCEPT
                  !.op = op, !.game = g, !.dest = d, !.icy = icy, !.pc = pc]],
           UNCHANGED mutex
    PROVE  req' \in [Processes -> RequestType] /\ StageInv'
<1> DEFINE r == [Idle EXCEPT
                  !.op = op, !.game = g, !.dest = d, !.icy = icy, !.pc = pc]
<1>1. r \in RequestType
  BY IdleTyped DEF Idle, RequestType
<1>2. req' = [req EXCEPT ![c] = r]
  OBVIOUS
<1>3. r.op = op /\ r.game = g /\ r.dest = d /\ r.pc = pc
  BY DEF Idle
<1> HIDE DEF r
<1>4. req'[c] = r /\ req' \in [Processes -> RequestType]
  BY <1>1, <1>2 DEF TypeOK
<1>5. Stages(c)'
  BY <1>3, <1>4 DEF Stages
<1> QED
  BY <1>2, <1>4, <1>5, OthersKeepStages

LEMMA BeginSteps ==
    ASSUME TypeOK, StageInv, NEW c \in Clients, Begin(c)
    PROVE  TypeOK' /\ StageInv'
<1>1. PICK g \in Games :
        \/ HandleDeleteGame(c, g) \/ HandleRestoreGame(c, g)
        \/ HandleFreezeGame(c, g) \/ HandleUnfreezeGame(c, g)
        \/ HandleGamePage(c, g) \/ HandleGameDataEditPage(c, g)
        \/ HandleGameImage(c, g) \/ HandleGameRedirects(c, g) \/ MarkAdded(c, g)
  BY DEF Begin
<1>2. PICK op \in AllOps, d \in Games \cup {None}, icy \in BOOLEAN,
           pc \in {"peek", "lock", "connect"} :
        /\ Serve(c, op, g, d, icy, pc)
        /\ op = "redirect" => d \in Games /\ pc # "lock"
        /\ op \in {"delete", "restore", "import"} => pc = "lock"
        /\ pc = "peek" => op = "save"
  BY <1>1 DEF HandleDeleteGame, HandleRestoreGame, HandleFreezeGame,
      HandleUnfreezeGame, HandleGamePage, HandleGameDataEditPage,
      HandleGameImage, HandleGameRedirects, MarkAdded, AllOps
<1>3. req' \in [Processes -> RequestType] /\ StageInv'
  BY <1>2, ServeStep DEF Serve
<1> QED
  BY <1>2, <1>3 DEF TypeOK, Serve, store, history

LEMMA LockStep ==
    ASSUME TypeOK, StageInv, NEW c \in Processes, LockMetadata(c)
    PROVE  TypeOK' /\ StageInv'
<1>1. req'[c] = [req[c] EXCEPT !.pc =
          IF req[c].op \in {"freeze", "unfreeze"} THEN "save" ELSE "connect"]
  BY DEF LockMetadata, Goto, TypeOK
<1>2. req' \in [Processes -> RequestType]
  BY DEF LockMetadata, Goto, TypeOK, RequestType
<1>3. Stages(c)'
  BY <1>1 DEF LockMetadata, TypeOK, RequestType, StageInv, Stages
<1>4. StageInv'
  BY <1>3, OthersKeepStages DEF LockMetadata, Goto
<1> QED
  BY <1>2, <1>4 DEF LockMetadata, TypeOK, store, counters, history

LEMMA GetGameStep ==
    ASSUME TypeOK, StageInv, NEW c \in Processes, GetGame(c)
    PROVE  TypeOK' /\ StageInv'
<1>0. UNCHANGED <<row, redirects, files, served, failures, interrupted,
                  disturbed>>
  BY DEF GetGame, store, counters, history
<1>1. CASE Return(c)
  BY <1>0, <1>1, ReturnSteps DEF TypeOK
<1>2. CASE ~ Return(c)
  <2> DEFINE pc == NextAfterRead(req[c].op)
             r == [req[c] EXCEPT !.seen = row[req[c].game], !.conn = TRUE,
                                 !.pc = pc]
  <2>1. req' = [req EXCEPT ![c] = r] /\ UNCHANGED <<mutex, listing>>
    BY <1>2 DEF GetGame
  <2>2. /\ req[c].op \in AllOps \ {"redirect"} /\ req[c].game \in Games
        /\ req[c] \in RequestType /\ Stages(c) /\ req[c].pc = "connect"
    BY DEF GetGame, NewSession, StageInv, Stages, TypeOK
  <2>3. row[req[c].game] \in RowType
    BY <2>2 DEF TypeOK
  <2>4. pc \in {"lock", "save", "mark"}
    BY <2>2 DEF NextAfterRead, AllOps
  <2>5. /\ pc = "save" => req[c].op = "save"
        /\ pc = "mark" => req[c].op \in {"delete", "restore", "import"}
    BY <2>2 DEF NextAfterRead, AllOps
  <2> HIDE DEF pc
  <2>6. r \in RequestType
    BY <2>2, <2>3, <2>4 DEF RequestType
  <2>7. r.pc = pc /\ r.op = req[c].op /\ r.game = req[c].game
        /\ r.dest = req[c].dest
    BY <2>2 DEF RequestType
  <2> HIDE DEF r
  <2>8. req'[c] = r /\ req' \in [Processes -> RequestType]
    BY <2>1, <2>6 DEF TypeOK
  <2>9. Stages(c)'
    BY <2>1, <2>2, <2>4, <2>5, <2>7, <2>8 DEF Stages
  <2> QED
    BY <1>0, <2>1, <2>8, <2>9, OthersKeepStages DEF TypeOK
<1> QED
  BY <1>1, <1>2

LEMMA PeekStep ==
    ASSUME TypeOK, StageInv, NEW c \in Processes, PeekGame(c)
    PROVE  TypeOK' /\ StageInv'
<1>1. CASE Return(c)
  BY <1>1, ReturnSteps DEF PeekGame, TypeOK, store, counters, history
<1>2. CASE Goto(c, "connect") /\ UNCHANGED <<mutex, listing>>
  <2>1. req' \in [Processes -> RequestType]
    BY <1>2 DEF Goto, TypeOK, RequestType
  <2>2. Stages(c)'
    BY <1>2 DEF PeekGame, Goto, TypeOK, RequestType, StageInv, Stages
  <2> QED
    BY <1>2, <2>1, <2>2, OthersKeepStages
       DEF PeekGame, Goto, TypeOK, store, counters, history
<1> QED
  BY <1>1, <1>2 DEF PeekGame

\* A step that answers types what Return leaves alone by itself.
LEMMA AnswerSteps ==
    ASSUME TypeOK, StageInv, NEW c \in Processes,
           \/ SaveMetadata(c) \/ AnswerFreeze(c) \/ CommitRedirect(c)
           \/ CommitDelete(c) \/ RefuseDelete(c) \/ CommitRestore(c)
           \/ CommitImport(c) \/ Fail(c)
    PROVE  TypeOK' /\ StageInv'
<1>1. Return(c)
  BY DEF SaveMetadata, AnswerFreeze, CommitRedirect, CommitDelete,
      RefuseDelete, CommitRestore, CommitImport, Fail
<1>2. /\ req' \in [Processes -> RequestType] /\ mutex' \in Processes \cup {None}
      /\ listing' \in BOOLEAN /\ StageInv'
  BY <1>1, ReturnSteps
<1>3. req[c] \in RequestType /\ Stages(c) /\ row \in [Games -> RowType]
  BY DEF TypeOK, StageInv
<1>4. CASE SaveMetadata(c)
  <2>1. row' \in [Games -> RowType]
    BY <1>3, <1>4 DEF SaveMetadata, SaveGame, RequestType, RowType
  <2> QED
    BY <1>2, <1>3, <1>4, <2>1 DEF SaveMetadata, TypeOK, Stages, counters
<1>5. CASE AnswerFreeze(c)
  BY <1>2, <1>5 DEF AnswerFreeze, TypeOK, store, counters, history
<1>6. CASE CommitRedirect(c)
  BY <1>2, <1>3, <1>6 DEF CommitRedirect, TypeOK, Stages, counters
<1>7. CASE CommitDelete(c)
  <2>1. row' \in [Games -> RowType]
    BY <1>3, <1>7 DEF CommitDelete, RowType
  <2>2. req[c].game \in Games /\ req[c].dest \in Games \cup {None}
    BY <1>3, <1>7 DEF CommitDelete, Stages, RequestType
  <2>3. redirects' \in SUBSET (Games \X Games)
    BY <1>7, <2>2 DEF CommitDelete, Repoint, TypeOK
  <2> QED
    BY <1>2, <1>7, <2>1, <2>3 DEF CommitDelete, TypeOK, counters, history
<1>8. CASE RefuseDelete(c)
  BY <1>2, <1>3, <1>8 DEF RefuseDelete, TypeOK, Stages, store, counters
<1>9. CASE CommitRestore(c)
  <2>1. row' \in [Games -> RowType]
    BY <1>3, <1>9 DEF CommitRestore, RowType
  <2> QED
    BY <1>2, <1>9, <2>1 DEF CommitRestore, TypeOK, counters, history
<1>10. CASE CommitImport(c)
  <2>1. req[c].pack \in Packs /\ req[c].game \in Games
    BY <1>3, <1>10 DEF CommitImport, Stages
  <2>2. row' \in [Games -> RowType]
    <3> DEFINE g == req[c].game
    <3>1. row[g] \in RowType
      BY <1>3, <2>1
    <3>2. [row[g] EXCEPT !.packs = @ \cup {req[c].pack}] \in RowType
      BY <2>1, <3>1 DEF RowType
    <3>3. [state |-> "live",
           archive |-> IF req[c].icy THEN "archived" ELSE "available",
           packs |-> {req[c].pack}] \in RowType
      BY <2>1 DEF RowType
    <3>4. PICK x \in RowType : row' = [row EXCEPT ![g] = x]
      BY <1>10, <3>2, <3>3 DEF CommitImport
    <3> QED
      BY <1>3, <3>4
  <2> QED
    BY <1>2, <1>10, <2>1, <2>2 DEF CommitImport, TypeOK, counters
<1>11. CASE Fail(c)
  <2>1. Torn(c) \subseteq Packs /\ Touched(c) \subseteq Games
    BY <1>3, <1>11 DEF Torn, Touched, Moving, Stages, Fail
  <2> QED
    BY <1>2, <1>11, <2>1 DEF Fail, TypeOK, store
<1> QED
  BY <1>4, <1>5, <1>6, <1>7, <1>8, <1>9, <1>10, <1>11

LEMMA SaveAndMoveStep ==
    ASSUME TypeOK, StageInv, NEW c \in Processes,
           NEW op \in {"freeze", "unfreeze"},
           NEW archive \in {"available", "archived"},
           SaveAndMove(c, op, archive)
    PROVE  TypeOK' /\ StageInv'
<1> DEFINE r == [req[c] EXCEPT !.conn = FALSE, !.pc = "pick",
                               !.todo = req[c].seen.packs]
<1>1. req[c] \in RequestType /\ Stages(c) /\ row \in [Games -> RowType]
  BY DEF TypeOK, StageInv
<1>2. r \in RequestType
  BY <1>1 DEF RequestType, RowType
<1>3. req' = [req EXCEPT ![c] = r] /\ req' \in [Processes -> RequestType]
  BY <1>2 DEF SaveAndMove, TypeOK
<1>4. Stages(c)'
  BY <1>1, <1>3 DEF SaveAndMove, Stages, RequestType, TypeOK, Movers
<1>5. row' \in [Games -> RowType]
  BY <1>1 DEF SaveAndMove, SaveGame, RowType
<1>6. req[c].game \in Games
  BY <1>1 DEF SaveAndMove, Stages
<1> QED
  BY <1>3, <1>4, <1>5, <1>6, OthersKeepStages DEF SaveAndMove, TypeOK, counters

LEMMA MarkStep ==
    ASSUME TypeOK, StageInv, NEW c \in Processes,
           DeleteGame(c) \/ RestoreGame(c)
    PROVE  TypeOK' /\ StageInv'
<1>1. PICK op \in {"delete", "restore"} : Mark(c, op, MovablePacks(c))
  BY DEF DeleteGame, RestoreGame
<1> DEFINE r == [req[c] EXCEPT !.pc = "pick", !.todo = MovablePacks(c)]
<1>2. req[c] \in RequestType /\ Stages(c)
  BY DEF TypeOK, StageInv
<1>3. r \in RequestType
  BY <1>2 DEF RequestType, RowType, MovablePacks
<1>4. req' = [req EXCEPT ![c] = r] /\ req' \in [Processes -> RequestType]
  BY <1>1, <1>3 DEF Mark, TypeOK
<1>5. Stages(c)'
  BY <1>1, <1>2, <1>4 DEF Mark, Stages, RequestType, TypeOK, Movers
<1> QED
  BY <1>1, <1>4, <1>5, OthersKeepStages
     DEF Mark, TypeOK, store, counters, history

LEMMA FileStep ==
    ASSUME TypeOK, StageInv, NEW c \in Processes,
           AddGameData(c) \/ CopyBegins(c) \/ CopyEnds(c) \/ RemoveSource(c)
    PROVE  TypeOK' /\ StageInv'
<1>1. req[c] \in RequestType /\ Stages(c) /\ Source(c) \in Dirs
      /\ Target(c) \in Dirs
  BY PlacesAreDirs DEF TypeOK, StageInv
<1>2. CASE AddGameData(c)
  <2>1. PICK p \in Packs : p = CHOOSE q \in Packs : Fresh(q)
    BY <1>2 DEF AddGameData
  <2>2. /\ req' = [req EXCEPT ![c].pc = "copy", ![c].pack = p]
        /\ files' = [files EXCEPT ![p][Target(c)] = "torn"]
        /\ UNCHANGED <<row, redirects, mutex, listing, served, failures,
                       interrupted, disturbed>>
        /\ req[c].pc = "mark" /\ req[c].op = "import"
    BY <1>2, <2>1 DEF AddGameData, counters, history
  <2>3. req' \in [Processes -> RequestType]
    BY <2>2 DEF TypeOK, RequestType
  <2>4. Stages(c)'
    BY <1>1, <2>2 DEF Stages, RequestType, TypeOK
  <2>5. StageInv'
    BY <2>2, <2>4, OthersKeepStages
  <2> QED
    BY <1>1, <2>2, <2>3, <2>5 DEF TypeOK
<1>3. CASE CopyBegins(c)
  <2>1. PICK p \in req[c].todo :
        IF files[p][Source(c)] = "none"
        THEN /\ req' = [req EXCEPT ![c].todo = @ \ {p}]
             /\ UNCHANGED files
        ELSE /\ req' = [req EXCEPT ![c].todo = @ \ {p}, ![c].pack = p,
                                   ![c].pc = "copy"]
             /\ files' = [files EXCEPT ![p][Target(c)] = "torn"]
    BY <1>3 DEF CopyBegins
  <2>2. p \in Packs
    BY <1>1 DEF RequestType
  <2> DEFINE skip == [req[c] EXCEPT !.todo = @ \ {p}]
             copy == [req[c] EXCEPT !.todo = @ \ {p}, !.pack = p, !.pc = "copy"]
  <2>a. skip \in RequestType /\ copy \in RequestType
    BY <1>1, <2>2 DEF RequestType
  <2>b. /\ skip.op = req[c].op /\ skip.pc = "pick"
        /\ copy.op = req[c].op /\ copy.pc = "copy" /\ copy.pack = p
        /\ skip.game = req[c].game /\ copy.game = req[c].game
        /\ skip.dest = req[c].dest /\ copy.dest = req[c].dest
    BY <1>1, <1>3 DEF RequestType, CopyBegins
  <2>c. \/ req' = [req EXCEPT ![c] = skip]
        \/ req' = [req EXCEPT ![c] = copy]
    BY <2>1
  <2> HIDE DEF skip, copy
  <2>3. req' \in [Processes -> RequestType]
    BY <2>a, <2>c DEF TypeOK
  <2>d. req'[c] = skip \/ req'[c] = copy
    BY <2>c DEF TypeOK
  <2>4. Stages(c)'
    BY <1>1, <1>3, <2>b, <2>d, <2>2 DEF CopyBegins, Stages, Movers
  <2>5. StageInv'
    BY <1>3, <2>c, <2>4, OthersKeepStages DEF CopyBegins
  <2>6. files' \in [Packs -> [Dirs -> {"none", "torn", "whole"}]]
    BY <1>1, <2>1, <2>2 DEF TypeOK
  <2> QED
    BY <1>3, <2>3, <2>5, <2>6 DEF CopyBegins, TypeOK, counters, history
<1>4. CASE CopyEnds(c)
  <2>1. req' \in [Processes -> RequestType]
    BY <1>4 DEF CopyEnds, Goto, TypeOK, RequestType
  <2>2. Stages(c)'
    BY <1>1, <1>4 DEF CopyEnds, Goto, Stages, RequestType, TypeOK
  <2>3. StageInv'
    BY <1>4, <2>2, OthersKeepStages DEF CopyEnds, Goto
  <2>4. req[c].pack \in Packs
    BY <1>1, <1>4 DEF CopyEnds, Stages
  <2>5. files' \in [Packs -> [Dirs -> {"none", "torn", "whole"}]]
    BY <1>1, <1>4, <2>4 DEF CopyEnds, TypeOK
  <2> QED
    BY <1>4, <2>1, <2>3, <2>5 DEF CopyEnds, TypeOK, counters, history
<1>5. CASE RemoveSource(c)
  <2>1. req' \in [Processes -> RequestType]
    BY <1>5 DEF RemoveSource, TypeOK, RequestType
  <2>2. Stages(c)'
    BY <1>1, <1>5 DEF RemoveSource, Stages, RequestType, TypeOK, Movers
  <2>3. StageInv'
    BY <1>5, <2>2, OthersKeepStages DEF RemoveSource
  <2> QED
    BY <1>1, <1>5, <2>1, <2>3 DEF RemoveSource, TypeOK, counters, history
<1> QED
  BY <1>2, <1>3, <1>4, <1>5

LEMMA LinkStep ==
    ASSUME TypeOK, StageInv, NEW c \in Processes, AddNewGameRedirect(c)
    PROVE  TypeOK' /\ StageInv'
<1>1. CASE Return(c)
  BY <1>1, ReturnSteps DEF AddNewGameRedirect, TypeOK, store, counters, history
<1>2. CASE req' = [req EXCEPT ![c].conn = TRUE, ![c].pc = "link"]
           /\ UNCHANGED <<mutex, listing>>
  <2> DEFINE r == [req[c] EXCEPT !.conn = TRUE, !.pc = "link"]
  <2>a. req[c] \in RequestType /\ Stages(c) /\ req[c].op = "redirect"
        /\ req[c].pc = "connect"
    BY DEF TypeOK, StageInv, AddNewGameRedirect, NewSession
  <2>b. r \in RequestType
    BY <2>a DEF RequestType
  <2>c. r.pc = "link" /\ r.op = "redirect" /\ r.dest = req[c].dest
        /\ r.game = req[c].game
    BY <2>a DEF RequestType
  <2>d. req' = [req EXCEPT ![c] = r]
    BY <1>2
  <2> HIDE DEF r
  <2>1. req' \in [Processes -> RequestType] /\ req'[c] = r
    BY <2>b, <2>d DEF TypeOK
  <2>2. Stages(c)'
    BY <2>a, <2>c, <2>1 DEF Stages
  <2>3. StageInv'
    BY <1>2, <2>d, <2>2, OthersKeepStages
  <2> QED
    BY <1>2, <2>1, <2>3 DEF AddNewGameRedirect, TypeOK, store, counters, history
<1> QED
  BY <1>1, <1>2 DEF AddNewGameRedirect

LEMMA RestartStep ==
    ASSUME TypeOK, StageInv, Restart
    PROVE  TypeOK' /\ StageInv'
<1>1. StageInv'
  BY ProcessesAssumption DEF Restart, StageInv, Stages, Idle, AllOps
<1>2. \A c \in Processes : Torn(c) \subseteq Packs /\ Touched(c) \subseteq Games
  BY DEF StageInv, Stages, Torn, Touched, Moving
<1>3. req' \in [Processes -> RequestType]
  BY IdleTyped DEF Restart
<1>4. interrupted' \subseteq Packs /\ disturbed' \subseteq Games
  BY <1>2 DEF Restart, TypeOK
<1>5. UNCHANGED <<row, redirects, files, served>>
  BY DEF Restart, store
<1>6. mutex' = None /\ listing' = FALSE /\ failures' = failures + 1
  BY DEF Restart
<1>7. failures' \in Nat /\ served' \in Nat
  BY <1>5, <1>6 DEF TypeOK
<1>8. TypeOK'
  BY <1>3, <1>4, <1>5, <1>6, <1>7 DEF TypeOK
<1> QED
  BY <1>1, <1>8

LEMMA UnfreezerStep ==
    ASSUME TypeOK, StageInv, RunAutounfreezer
    PROVE  TypeOK' /\ StageInv'
<1>1. PICK g \in Games : req' = [req EXCEPT ![Unfreezer] =
            [Idle EXCEPT !.op = "unfreeze", !.game = g, !.pc = "connect"]]
  BY DEF RunAutounfreezer, Due
<1> DEFINE r == [Idle EXCEPT !.op = "unfreeze", !.game = g, !.pc = "connect"]
<1>2. r.op = "unfreeze" /\ r.game = g /\ r.pc = "connect"
  BY DEF Idle
<1>3. r \in RequestType
  BY IdleTyped DEF RequestType, Idle, AllOps
<1> HIDE DEF r
<1>4. req' = [req EXCEPT ![Unfreezer] = r]
  BY <1>1 DEF r
<1>5. req' \in [Processes -> RequestType] /\ req'[Unfreezer] = r
  BY <1>3, <1>4 DEF TypeOK
<1>6. Stages(Unfreezer)'
  BY <1>2, <1>5 DEF Stages, AllOps
<1>7. StageInv'
  BY <1>4, <1>6, OthersKeepStages DEF RunAutounfreezer, store
<1>8. /\ listing' = TRUE
      /\ UNCHANGED <<row, redirects, files, mutex, served, failures,
                      interrupted, disturbed>>
  BY DEF RunAutounfreezer, store, counters, history
<1> QED
  BY <1>5, <1>7, <1>8 DEF TypeOK

LEMMA TypedSteps == TypeOK /\ StageInv /\ [Next]_vars => TypeOK' /\ StageInv'
<1> SUFFICES ASSUME TypeOK, StageInv, [Next]_vars PROVE TypeOK' /\ StageInv'
  OBVIOUS
<1>1. ASSUME NEW c \in Clients, Begin(c) PROVE TypeOK' /\ StageInv'
  BY <1>1, BeginSteps
<1>2. ASSUME NEW c \in Processes, Step(c) PROVE TypeOK' /\ StageInv'
  BY <1>2, LockStep, PeekStep, GetGameStep, AnswerSteps, SaveAndMoveStep,
     MarkStep, FileStep, LinkStep DEF Step, FreezeGame, UnfreezeGame
<1>3. ASSUME NEW c \in Processes, Fail(c) PROVE TypeOK' /\ StageInv'
  BY <1>3, AnswerSteps
<1>4. CASE Restart
  BY <1>4, RestartStep
<1>5. CASE RunAutounfreezer
  BY <1>5, UnfreezerStep
<1>6. CASE UNCHANGED vars
  BY <1>6 DEF vars, TypeOK, StageInv, Stages
<1> QED
  BY <1>1, <1>2, <1>3, <1>4, <1>5, <1>6 DEF Next

\* Every reachable state of rows, files and requests is typed.
THEOREM GamesTypeCorrect == Spec => []TypeOK
<1>1. Init => TypeOK /\ StageInv
  BY InitGInv DEF GInv
<1>2. TypeOK /\ StageInv /\ [Next]_vars => (TypeOK /\ StageInv)'
  BY TypedSteps
<1> QED
  BY <1>1, <1>2, PTL DEF Spec

-----------------------------------------------------------------------------
(* The files of a pack no copy of which was cut short *)

\* Steps that neither touch a file nor begin or end a copy.
LEMMA FilesLeftAlone ==
    ASSUME TypeOK, PackInv, PackSurvives,
           UNCHANGED files, interrupted \subseteq interrupted',
           \A g \in Games : row'[g].packs \subseteq row[g].packs,
           \A c \in Processes :
             \/ req'[c].pc \notin {"copy", "remove", "commit"}
             \/ req'[c] = req[c],
           \A c \in Processes :
             req[c].pc = "copy" /\ req'[c] # req[c]
               => req[c].pack \in interrupted'
    PROVE  PackInv' /\ PackSurvives'
<1>1. ASSUME NEW p \in Packs \ interrupted', NEW d \in Dirs,
             files'[p][d] = "torn"
      PROVE  OnlyTorn(p, d)'
  <2>1. PICK c \in Processes :
          req[c].pc = "copy" /\ req[c].pack = p /\ Target(c) = d
    BY <1>1 DEF PackInv, OnlyTorn
  <2>2. req'[c] = req[c]
    BY <1>1, <2>1
  <2> QED
    BY <2>1, <2>2 DEF OnlyTorn, Target
<1>2. ASSUME NEW c \in Processes, req'[c].pack \notin interrupted'
      PROVE  /\ req'[c].pc = "copy" /\ req'[c].op # "import"
                  => files'[req'[c].pack][Source(c)'] = "whole"
             /\ req'[c].pc \in {"remove", "commit"}
                  => files'[req'[c].pack][Target(c)'] = "whole"
  <2>1. CASE req'[c] = req[c]
    BY <1>2, <2>1 DEF PackInv, Source, Target
  <2>2. CASE req'[c].pc \notin {"copy", "remove", "commit"}
    BY <2>2
  <2> QED
    BY <2>1, <2>2
<1>3. ASSUME NEW c \in Processes, req'[c].op = "import",
             req'[c].pc \in {"copy", "commit"}, NEW g \in Games
      PROVE  req'[c].pack \notin row'[g].packs
  BY <1>3 DEF PackInv
<1>4. PackInv'
  BY <1>1, <1>2, <1>3 DEF PackInv
<1>5. PackSurvives'
  BY DEF PackSurvives
<1> QED
  BY <1>4, <1>5

LEMMA AnswersLeaveFiles ==
    ASSUME GInv, NEW c \in Processes, Return(c),
           UNCHANGED files, interrupted' = interrupted \cup Torn(c),
           \A g \in Games : row'[g].packs \subseteq row[g].packs
    PROVE  PackInv' /\ PackSurvives'
<1>1. \A k \in Processes : k # c => req'[k] = req[k]
  BY DEF Return, GInv, TypeOK
<1>2. req'[c].pc = "idle"
  BY DEF Return, Idle, GInv, TypeOK
<1> QED
  BY <1>1, <1>2, FilesLeftAlone DEF GInv, Torn

\* Steps of a request that is not copying and does not begin to.
LEMMA StepsLeaveFiles ==
    ASSUME GInv, NEW c \in Processes, NEW r,
           req' = [req EXCEPT ![c] = r],
           r.pc \notin {"copy", "remove", "commit"}, req[c].pc # "copy",
           UNCHANGED <<files, interrupted>>,
           \A g \in Games : row'[g].packs \subseteq row[g].packs
    PROVE  PackInv' /\ PackSurvives'
<1>1. \A k \in Processes : k # c => req'[k] = req[k]
  BY DEF GInv, TypeOK
<1>2. req'[c] = r
  BY DEF GInv, TypeOK
<1> QED
  BY <1>1, <1>2, FilesLeftAlone DEF GInv

\* Who touches a file holds MetadataMutex, so that nobody else does.
LEMMA OneMover ==
    ASSUME GInv, NEW c \in Processes, NEW k \in Processes, k # c,
           req[c].pc \in {"mark", "pick", "copy", "remove", "commit"}
    PROVE  req[k].pc \notin {"mark", "pick", "copy", "remove", "commit"}
BY ProcessesAssumption DEF GInv, StageInv, Stages

\* One request, r from now on, touches the files of one pack, which keeps a
\* whole one.
OnePackOf(c, p, r) ==
    /\ req[c].pc \in {"mark", "pick", "copy", "remove"}
    /\ req[c].pc = "copy" => req[c].pack = p
    /\ req' = [req EXCEPT ![c] = r]
    /\ row' = row /\ interrupted' = interrupted
    /\ \A q \in Packs \ {p} : files'[q] = files[q]
    /\ p \notin interrupted => \A d \in Dirs : files'[p][d] = "torn" =>
         r.pc = "copy" /\ r.pack = p /\ Target(c)' = d
    /\ p \notin interrupted => \A g \in Games : p \in row[g].packs =>
         \E d \in Dirs : files'[p][d] = "whole"
    /\ r.pc \in {"copy", "remove", "commit"} => r.pack = p
    /\ r.pc = "copy" /\ r.op # "import" /\ p \notin interrupted
         => files'[p][Source(c)'] = "whole"
    /\ r.pc \in {"remove", "commit"} /\ p \notin interrupted
         => files'[p][Target(c)'] = "whole"
    /\ r.op = "import" /\ r.pc \in {"copy", "commit"}
         => \A g \in Games : p \notin row[g].packs

LEMMA OnePackMoves ==
    ASSUME GInv, NEW c \in Processes, NEW p \in Packs, NEW r,
           OnePackOf(c, p, r)
    PROVE  PackInv' /\ PackSurvives'
<1> USE DEF OnePackOf
<1>1. req'[c] = r /\ \A k \in Processes \ {c} : req'[k] = req[k]
  BY DEF GInv, TypeOK
<1>2. \A k \in Processes \ {c} :
        req[k].pc \notin {"mark", "pick", "copy", "remove", "commit"}
  BY OneMover
<1>3. ASSUME NEW q \in Packs \ interrupted', NEW d \in Dirs,
             files'[q][d] = "torn"
      PROVE  OnlyTorn(q, d)'
  <2>1. CASE q = p
    BY <1>1, <1>3, <2>1 DEF OnlyTorn
  <2>2. CASE q # p
    <3>1. PICK k \in Processes :
            req[k].pc = "copy" /\ req[k].pack = q /\ Target(k) = d
      BY <1>3, <2>2 DEF GInv, PackInv, OnlyTorn
    <3> QED
      BY <1>2, <2>2, <3>1
  <2> QED
    BY <2>1, <2>2
<1>4. ASSUME NEW k \in Processes, req'[k].pack \notin interrupted'
      PROVE  /\ req'[k].pc = "copy" /\ req'[k].op # "import"
                  => files'[req'[k].pack][Source(k)'] = "whole"
             /\ req'[k].pc \in {"remove", "commit"}
                  => files'[req'[k].pack][Target(k)'] = "whole"
  BY <1>1, <1>2, <1>4
<1>5. ASSUME NEW k \in Processes, req'[k].op = "import",
             req'[k].pc \in {"copy", "commit"}, NEW g \in Games
      PROVE  req'[k].pack \notin row'[g].packs
  BY <1>1, <1>2, <1>5
<1>6. PackInv'
  BY <1>3, <1>4, <1>5 DEF PackInv
<1>7. ASSUME NEW g \in Games, NEW q \in row[g].packs \ interrupted
      PROVE  \E d \in Dirs : files'[q][d] = "whole"
  <2>1. q \in Packs
    BY <1>7 DEF GInv, TypeOK, RowType
  <2> QED
    BY <1>7, <2>1 DEF GInv, PackSurvives
<1>8. PackSurvives'
  BY <1>7 DEF PackSurvives
<1> QED
  BY <1>6, <1>8

LEMMA AddGameDataKeepsPacks ==
    ASSUME GInv, NEW c \in Processes, AddGameData(c)
    PROVE  PackInv' /\ PackSurvives'
<1>1. PICK p \in Packs : Fresh(p) /\ p = CHOOSE q \in Packs : Fresh(q)
  BY DEF AddGameData
<1> DEFINE r == [req[c] EXCEPT !.pc = "copy", !.pack = p]
<1>2. req[c] \in RequestType /\ req[c].pc = "mark" /\ req[c].op = "import"
  BY DEF GInv, TypeOK, AddGameData
<1>3. r.pc = "copy" /\ r.pack = p /\ r.op = "import"
  BY <1>2 DEF RequestType
<1>4. /\ req' = [req EXCEPT ![c] = r]
      /\ files' = [files EXCEPT ![p][Target(c)] = "torn"]
      /\ UNCHANGED <<row, interrupted>>
  BY <1>1 DEF AddGameData, history
<1> HIDE DEF r
<1>5. req'[c] = r
  BY <1>4 DEF GInv, TypeOK
<1>6. Target(c)' = Target(c)
  BY <1>2, <1>3, <1>5, <1>4 DEF Target, r, RequestType
<1>7. \A g \in Games : p \notin row[g].packs
  BY <1>1 DEF Fresh
<1>8. ASSUME NEW d \in Dirs, files'[p][d] = "torn" PROVE Target(c)' = d
  BY <1>1, <1>4, <1>6, <1>8 DEF Fresh, NoFiles, GInv, TypeOK
<1>9. \A q \in Packs \ {p} : files'[q] = files[q]
  BY <1>4 DEF GInv, TypeOK
<1>10. OnePackOf(c, p, r)
  BY <1>2, <1>3, <1>4, <1>7, <1>8, <1>9 DEF OnePackOf
<1> QED
  BY <1>1, <1>10, OnePackMoves

LEMMA CopyBeginsKeepsPacks ==
    ASSUME GInv, NEW c \in Processes, CopyBegins(c)
    PROVE  PackInv' /\ PackSurvives'
<1>1. PICK p \in req[c].todo :
      IF files[p][Source(c)] = "none"
      THEN /\ req' = [req EXCEPT ![c].todo = @ \ {p}]
           /\ UNCHANGED files
      ELSE /\ req' = [req EXCEPT ![c].todo = @ \ {p}, ![c].pack = p,
                                 ![c].pc = "copy"]
           /\ files' = [files EXCEPT ![p][Target(c)] = "torn"]
  BY DEF CopyBegins
<1>2. /\ req[c] \in RequestType /\ req[c].pc = "pick" /\ req[c].op \in Movers
      /\ UNCHANGED <<row, interrupted>>
  BY DEF GInv, TypeOK, StageInv, Stages, CopyBegins, history
<1>3. p \in Packs
  BY <1>2 DEF RequestType
<1>4. CASE files[p][Source(c)] = "none"
  <2> DEFINE r == [req[c] EXCEPT !.todo = @ \ {p}]
  <2>1. r.pc = "pick"
    BY <1>2 DEF RequestType
  <2>2. req' = [req EXCEPT ![c] = r] /\ UNCHANGED files
    BY <1>1, <1>4
  <2> HIDE DEF r
  <2> QED
    BY <1>2, <2>1, <2>2, StepsLeaveFiles
<1>5. CASE files[p][Source(c)] # "none"
  <2> DEFINE r == [req[c] EXCEPT !.todo = @ \ {p}, !.pack = p, !.pc = "copy"]
  <2>1. /\ r.pc = "copy" /\ r.pack = p /\ r.op = req[c].op
        /\ r.seen = req[c].seen /\ r.icy = req[c].icy
    BY <1>2 DEF RequestType
  <2>2. /\ req' = [req EXCEPT ![c] = r]
        /\ files' = [files EXCEPT ![p][Target(c)] = "torn"]
    BY <1>1, <1>5
  <2> HIDE DEF r
  <2>3. req'[c] = r
    BY <2>2 DEF GInv, TypeOK
  <2>4. Target(c)' = Target(c) /\ Source(c)' = Source(c)
    BY <2>1, <2>3 DEF Target, Source
  <2>5. Source(c) \in Dirs /\ Target(c) \in Dirs /\ Source(c) # Target(c)
    BY <1>2, PlacesAreDirs, SourceIsNotTarget
  <2>6. p \notin interrupted => \A d \in Dirs : files[p][d] # "torn"
    BY <1>2, <1>3, OneMover DEF GInv, PackInv, OnlyTorn
  <2>7. files \in [Packs -> [Dirs -> {"none", "torn", "whole"}]]
    BY DEF GInv, TypeOK
  <2>8. p \notin interrupted => files'[p][Source(c)'] = "whole"
    BY <1>3, <1>5, <2>2, <2>4, <2>5, <2>6, <2>7
  <2>9. ASSUME NEW d \in Dirs, files'[p][d] = "torn", p \notin interrupted
        PROVE  Target(c)' = d
    BY <1>3, <2>2, <2>4, <2>6, <2>7, <2>9
  <2>10. \A q \in Packs \ {p} : files'[q] = files[q]
    BY <2>2, <2>7
  <2>11. r.op # "import"
    BY <1>2, <2>1 DEF Movers
  <2>12. OnePackOf(c, p, r)
    BY <1>2, <1>3, <2>1, <2>2, <2>4, <2>5, <2>8, <2>9, <2>10, <2>11 DEF OnePackOf
  <2> QED
    BY <1>3, <2>12, OnePackMoves
<1> QED
  BY <1>4, <1>5

LEMMA CopyEndsKeepsPacks ==
    ASSUME GInv, NEW c \in Processes, CopyEnds(c)
    PROVE  PackInv' /\ PackSurvives'
<1> DEFINE p == req[c].pack
           pc == IF req[c].op = "import" THEN "commit" ELSE "remove"
           r == [req[c] EXCEPT !.pc = pc]
<1>1. /\ req[c] \in RequestType /\ req[c].pc = "copy" /\ p \in Packs
      /\ req[c].op \in Movers \cup {"import"}
      /\ UNCHANGED <<row, interrupted>>
  BY DEF GInv, TypeOK, StageInv, Stages, CopyEnds, history
<1>2. /\ r.pc = pc /\ r.pack = p /\ r.op = req[c].op
      /\ r.seen = req[c].seen /\ r.icy = req[c].icy
  BY <1>1 DEF RequestType
<1>3. /\ req' = [req EXCEPT ![c] = r]
      /\ files' = [files EXCEPT ![p][Target(c)] =
                      IF req[c].op = "import" THEN "whole"
                                              ELSE files[p][Source(c)]]
  BY DEF CopyEnds, Goto
<1>4. pc \in {"commit", "remove"}
  OBVIOUS
<1> HIDE DEF r, p, pc
<1>5. req'[c] = r
  BY <1>3 DEF GInv, TypeOK
<1>6. Target(c)' = Target(c) /\ Target(c) \in Dirs
  BY <1>2, <1>5, PlacesAreDirs DEF Target
<1>7. files \in [Packs -> [Dirs -> {"none", "torn", "whole"}]]
  BY DEF GInv, TypeOK
<1>8. p \notin interrupted => files'[p][Target(c)'] = "whole"
  BY <1>1, <1>3, <1>6, <1>7 DEF GInv, PackInv, p
<1>9. ASSUME NEW d \in Dirs, p \notin interrupted PROVE files'[p][d] # "torn"
  <2>1. CASE d = Target(c)
    BY <1>6, <1>8, <1>9, <2>1
  <2>2. CASE d # Target(c)
    <3>1. files'[p][d] = files[p][d]
      BY <1>1, <1>3, <1>7, <2>2
    <3>2. ~ OnlyTorn(p, d)
      BY <1>1, <2>2, OneMover DEF OnlyTorn
    <3> QED
      BY <1>1, <1>9, <3>1, <3>2 DEF GInv, PackInv
  <2> QED
    BY <2>1, <2>2
<1>10. \A q \in Packs \ {p} : files'[q] = files[q]
  BY <1>3, <1>7
<1>11. r.op = "import" => \A g \in Games : p \notin row[g].packs
  BY <1>1, <1>2 DEF GInv, PackInv, p
<1>12. p = req[c].pack
  BY DEF p
<1>13. OnePackOf(c, p, r)
  BY <1>1, <1>2, <1>3, <1>4, <1>6, <1>8, <1>9, <1>10, <1>11, <1>12 DEF OnePackOf
<1> QED
  BY <1>1, <1>13, OnePackMoves

LEMMA RemoveSourceKeepsPacks ==
    ASSUME GInv, NEW c \in Processes, RemoveSource(c)
    PROVE  PackInv' /\ PackSurvives'
<1> DEFINE p == req[c].pack
           r == [req[c] EXCEPT !.pc = "pick", !.pack = None]
<1>1. /\ req[c] \in RequestType /\ req[c].pc = "remove" /\ p \in Packs
      /\ req[c].op \in Movers
      /\ UNCHANGED <<row, interrupted>>
  BY DEF GInv, TypeOK, StageInv, Stages, RemoveSource, history
<1>2. r.pc = "pick" /\ r.op = req[c].op
  BY <1>1 DEF RequestType
<1>3. /\ req' = [req EXCEPT ![c] = r]
      /\ files' = [files EXCEPT ![p][Source(c)] = "none"]
  BY DEF RemoveSource
<1> HIDE DEF r
<1>4. Source(c) \in Dirs /\ Target(c) \in Dirs /\ Source(c) # Target(c)
  BY <1>1, PlacesAreDirs, SourceIsNotTarget
<1>5. files \in [Packs -> [Dirs -> {"none", "torn", "whole"}]]
  BY DEF GInv, TypeOK
<1>6. p \notin interrupted => files'[p][Target(c)] = "whole"
  BY <1>1, <1>3, <1>4, <1>5 DEF GInv, PackInv
<1>7. ASSUME NEW d \in Dirs, p \notin interrupted PROVE files'[p][d] # "torn"
  <2>1. ~ OnlyTorn(p, d)
    BY <1>1, OneMover DEF OnlyTorn
  <2>2. files[p][d] # "torn"
    BY <1>1, <1>7, <2>1 DEF GInv, PackInv
  <2> QED
    BY <1>1, <1>3, <1>5, <2>2
<1>8. \A q \in Packs \ {p} : files'[q] = files[q]
  BY <1>3, <1>5
<1> HIDE DEF p
<1>9. OnePackOf(c, p, r)
  BY <1>1, <1>2, <1>3, <1>4, <1>6, <1>7, <1>8 DEF OnePackOf
<1> QED
  BY <1>1, <1>9, OnePackMoves

\* The pack of an import is whole when its game gets it.
LEMMA CommitImportKeepsPacks ==
    ASSUME GInv, NEW c \in Processes, CommitImport(c)
    PROVE  PackInv' /\ PackSurvives'
<1>1. /\ req[c] \in RequestType /\ req[c].pc = "commit"
      /\ req[c].pack \in Packs /\ req[c].op = "import"
      /\ UNCHANGED <<files, interrupted>> /\ Return(c)
  BY DEF GInv, TypeOK, StageInv, Stages, CommitImport
<1>2. \A g \in Games : row'[g].packs \subseteq row[g].packs \cup {req[c].pack}
  BY DEF CommitImport, GInv, TypeOK, RowType
<1>3. \A k \in Processes :
        req'[k].pc \notin {"mark", "pick", "copy", "remove", "commit"}
  <2>1. req'[c].pc = "idle" /\ \A k \in Processes \ {c} : req'[k] = req[k]
    BY <1>1 DEF Return, Idle, GInv, TypeOK
  <2> QED
    BY <1>1, <2>1, OneMover
<1>4. ASSUME NEW p \in Packs \ interrupted', NEW d \in Dirs
      PROVE  files'[p][d] # "torn"
  <2>1. ~ OnlyTorn(p, d)
    BY <1>1, OneMover DEF OnlyTorn
  <2> QED
    BY <1>1, <1>4, <2>1 DEF GInv, PackInv
<1>5. PackInv'
  BY <1>3, <1>4 DEF PackInv
<1>6. ASSUME NEW g \in Games, NEW p \in row'[g].packs \ interrupted'
      PROVE  \E d \in Dirs : files'[p][d] = "whole"
  <2>1. CASE p \in row[g].packs
    BY <1>1, <1>6, <2>1 DEF GInv, PackSurvives
  <2>2. CASE p = req[c].pack
    BY <1>1, <1>6, <2>2, PlacesAreDirs DEF GInv, PackInv
  <2> QED
    BY <1>2, <2>1, <2>2
<1>7. PackSurvives'
  BY <1>6 DEF PackSurvives
<1> QED
  BY <1>5, <1>7

\* The answers, failures and steps in the databases leave the files alone.
LEMMA AnswersKeepPacks ==
    ASSUME GInv, NEW c \in Processes,
           \/ SaveMetadata(c) \/ AnswerFreeze(c) \/ CommitRedirect(c)
           \/ CommitDelete(c) \/ RefuseDelete(c) \/ CommitRestore(c)
           \/ Fail(c)
    PROVE  PackInv' /\ PackSurvives'
<1>1. Return(c) /\ UNCHANGED files
  BY DEF SaveMetadata, AnswerFreeze, CommitRedirect, CommitDelete,
     RefuseDelete, CommitRestore, Fail, store
<1>2. interrupted' = interrupted \cup Torn(c)
  BY DEF SaveMetadata, AnswerFreeze, CommitRedirect, CommitDelete,
     RefuseDelete, CommitRestore, Fail, history, Torn
<1>3. \A g \in Games : row'[g].packs \subseteq row[g].packs
  BY DEF SaveMetadata, AnswerFreeze, CommitRedirect, CommitDelete,
     RefuseDelete, CommitRestore, Fail, store, SaveGame, GInv, TypeOK, RowType
<1> QED
  BY <1>1, <1>2, <1>3, AnswersLeaveFiles

LEMMA WaitsKeepPacks ==
    ASSUME GInv, NEW c \in Processes,
           \/ LockMetadata(c) \/ PeekGame(c) \/ GetGame(c)
           \/ FreezeGame(c) \/ UnfreezeGame(c)
           \/ DeleteGame(c) \/ RestoreGame(c) \/ AddNewGameRedirect(c)
    PROVE  PackInv' /\ PackSurvives'
<1>1. UNCHANGED <<files, interrupted>> /\ req[c].pc # "copy"
  BY DEF LockMetadata, PeekGame, GetGame, NewSession, FreezeGame,
     UnfreezeGame, SaveAndMove, DeleteGame, RestoreGame, Mark,
     AddNewGameRedirect, store, history
<1>2. \A g \in Games : row'[g].packs \subseteq row[g].packs
  <2>1. CASE FreezeGame(c)
    BY <2>1 DEF FreezeGame, SaveAndMove, SaveGame, GInv, TypeOK, RowType
  <2>2. CASE UnfreezeGame(c)
    BY <2>2 DEF UnfreezeGame, SaveAndMove, SaveGame, GInv, TypeOK, RowType
  <2>3. CASE row' = row
    BY <2>3
  <2> QED
    BY <2>1, <2>2, <2>3 DEF LockMetadata, PeekGame, GetGame, DeleteGame,
       RestoreGame, Mark, AddNewGameRedirect, store
<1>3. \/ Return(c)
      \/ /\ \A k \in Processes \ {c} : req'[k] = req[k]
         /\ req'[c].pc \notin {"copy", "remove", "commit"}
  <2>1. req \in [Processes -> RequestType] /\ req[c] \in RequestType
    BY DEF GInv, TypeOK
  <2>2. CASE LockMetadata(c)
    BY <2>1, <2>2 DEF LockMetadata, Goto, RequestType
  <2>3. CASE PeekGame(c)
    BY <2>1, <2>3 DEF PeekGame, Goto, RequestType
  <2>4. CASE GetGame(c)
    BY <2>1, <2>4 DEF GetGame, NextAfterRead, RequestType, NewSession, GInv,
       StageInv, Stages, AllOps
  <2>5. CASE FreezeGame(c) \/ UnfreezeGame(c)
    BY <2>1, <2>5 DEF FreezeGame, UnfreezeGame, SaveAndMove, RequestType
  <2>6. CASE DeleteGame(c) \/ RestoreGame(c)
    BY <2>1, <2>6 DEF DeleteGame, RestoreGame, Mark, RequestType
  <2>7. CASE AddNewGameRedirect(c)
    BY <2>1, <2>7 DEF AddNewGameRedirect, RequestType
  <2> QED
    BY <2>2, <2>3, <2>4, <2>5, <2>6, <2>7
<1>4. CASE Return(c)
  BY <1>1, <1>2, <1>4, AnswersLeaveFiles DEF Torn
<1>5. CASE /\ \A k \in Processes \ {c} : req'[k] = req[k]
           /\ req'[c].pc \notin {"copy", "remove", "commit"}
  BY <1>1, <1>2, <1>5, FilesLeftAlone DEF GInv
<1> QED
  BY <1>3, <1>4, <1>5

LEMMA OthersKeepPacks ==
    ASSUME GInv,
           \/ \E c \in Clients : Begin(c)
           \/ Restart \/ RunAutounfreezer \/ UNCHANGED vars
    PROVE  PackInv' /\ PackSurvives'
<1>1. ASSUME NEW c \in Clients, Begin(c) PROVE PackInv' /\ PackSurvives'
  <2>1. PICK op, g, d, icy, pc :
          Serve(c, op, g, d, icy, pc) /\ pc \in {"lock", "connect", "peek"}
    BY <1>1 DEF Begin, HandleDeleteGame, HandleRestoreGame, HandleFreezeGame,
       HandleUnfreezeGame, HandleGamePage, HandleGameDataEditPage,
       HandleGameImage, HandleGameRedirects, MarkAdded
  <2> DEFINE r == [Idle EXCEPT !.op = op, !.game = g, !.dest = d, !.icy = icy,
                               !.pc = pc]
  <2>2. r.pc = pc
    BY DEF Idle
  <2>3. /\ req' = [req EXCEPT ![c] = r] /\ req[c].pc = "idle"
        /\ UNCHANGED <<row, files, interrupted>>
    BY <2>1 DEF Serve, store, history
  <2> HIDE DEF r
  <2> QED
    BY <2>1, <2>2, <2>3, StepsLeaveFiles
<1>2. CASE Restart
  <2>1. UNCHANGED <<row, files>> /\ interrupted \subseteq interrupted'
    BY <1>2 DEF Restart, store
  <2>2. \A c \in Processes : req'[c].pc = "idle"
    BY <1>2 DEF Restart, Idle
  <2>3. \A c \in Processes :
          req[c].pc = "copy" => req[c].pack \in interrupted'
    BY <1>2 DEF Restart, Torn
  <2> QED
    BY <2>1, <2>2, <2>3, FilesLeftAlone DEF GInv
<1>3. CASE RunAutounfreezer
  <2>1. PICK g \in Games : req' = [req EXCEPT ![Unfreezer] =
              [Idle EXCEPT !.op = "unfreeze", !.game = g, !.pc = "connect"]]
    BY <1>3 DEF RunAutounfreezer, Due
  <2> DEFINE r == [Idle EXCEPT !.op = "unfreeze", !.game = g, !.pc = "connect"]
  <2>2. r.pc = "connect"
    BY DEF Idle
  <2>3. /\ req' = [req EXCEPT ![Unfreezer] = r] /\ req[Unfreezer].pc = "idle"
        /\ UNCHANGED <<row, files, interrupted>>
    BY <1>3, <2>1 DEF RunAutounfreezer, store, history
  <2> HIDE DEF r
  <2> QED
    BY <2>2, <2>3, StepsLeaveFiles
<1>4. CASE UNCHANGED vars
  BY <1>4, FilesLeftAlone DEF vars, GInv
<1> QED
  BY <1>1, <1>2, <1>3, <1>4

LEMMA GInvStep == GInv /\ [Next]_vars => GInv'
<1> SUFFICES ASSUME GInv, [Next]_vars PROVE GInv'
  OBVIOUS
<1>1. TypeOK' /\ StageInv'
  BY TypedSteps DEF GInv
<1>2. ASSUME NEW c \in Processes, Step(c) PROVE PackInv' /\ PackSurvives'
  BY <1>2, WaitsKeepPacks, AnswersKeepPacks, AddGameDataKeepsPacks,
     CopyBeginsKeepsPacks, CopyEndsKeepsPacks, RemoveSourceKeepsPacks,
     CommitImportKeepsPacks DEF Step
<1>3. ASSUME NEW c \in Processes, Fail(c) PROVE PackInv' /\ PackSurvives'
  BY <1>3, AnswersKeepPacks
<1>4. PackInv' /\ PackSurvives'
  BY <1>2, <1>3, OthersKeepPacks DEF Next
<1> QED
  BY <1>1, <1>4 DEF GInv

\* No order of deletions, restorations, freezings, imports, failures and
\* restarts loses the last whole copy of a pack, save the pack a copy of which
\* was cut short.
THEOREM PacksSurviveMoves == Spec => []PackSurvives
<1>1. GInv => PackSurvives
  BY DEF GInv
<1> QED
  BY <1>1, InitGInv, GInvStep, PTL DEF Spec
-----------------------------------------------------------------------------
(* Where the packs are while a request moves them                           *)

At(d) == [NoFiles EXCEPT ![d] = "whole"]

InPlace(g) == \A p \in row[g].packs : files[p] = At(Home(row[g]))

\* The request moves the packs of its game.
Busy(c) == req[c].op \in Movers /\ req[c].pc \in {"pick", "copy", "remove"}

Calm(g) == \A c \in Processes : Busy(c) => req[c].game # g

\* The row the game had before the request, and where its packs end up.
Changed(c) == CASE req[c].op = "freeze"   -> [req[c].seen EXCEPT !.archive = "archived"]
                [] req[c].op = "unfreeze" -> [req[c].seen EXCEPT !.archive = "available"]
                [] OTHER                  -> req[c].seen

Final(c) == IF req[c].op \in {"delete", "restore"} /\ req[c].seen.archive = "archived"
            THEN "frozen" ELSE Target(c)

\* A pack that is to be moved lies on either side, since an earlier request
\* may have moved it; one that is being moved is torn or on both.
Placed(c, p) ==
    LET moved == p = req[c].pack IN
    /\ moved /\ req[c].pc = "copy" =>
         files[p] = [At(Source(c)) EXCEPT ![Target(c)] = "torn"]
    /\ moved /\ req[c].pc = "remove" =>
         files[p] = [At(Source(c)) EXCEPT ![Target(c)] = "whole"]
    /\ p \in req[c].todo => files[p] \in {At(Source(c)), At(Target(c))}
    /\ p \notin req[c].todo /\ ~ (moved /\ req[c].pc \in {"copy", "remove"}) =>
         files[p] = At(Final(c))

\* What a request knows of its game stays true in part.
Recalls(c) ==
    LET r == req[c] IN
    /\ r.seen.packs \subseteq row[r.game].packs
    /\ r.seen.state # "absent" => row[r.game].state # "absent"
    /\ r.op = "redirect" => row[r.game].state # "absent"
    /\ (\/ r.pc \in {"save", "mark", "pick", "copy", "remove"} /\ r.op # "import"
        \/ r.pc = "lock" /\ r.op \in {"freeze", "unfreeze"})
         => r.seen.state # "absent"
    /\ r.op = "import" /\ r.pc \in {"mark", "copy", "commit"}
         /\ r.seen.state = "absent" => row[r.game].state = "absent"
    /\ (\/ r.op \in {"delete", "restore"} /\ r.pc = "mark"
        \/ Busy(c))
         => r.game \in disturbed \/ row[r.game] = Changed(c)

\* What it has done and has left to do.
Carries(c) ==
    LET r == req[c] IN
    /\ Busy(c) =>
         /\ r.todo \subseteq r.seen.packs
         /\ r.pc # "pick" => r.pack \in r.seen.packs \ r.todo
         /\ r.op \in {"delete", "restore"} /\ (r.pc # "pick" \/ r.todo # {})
              => r.seen.archive = "available"
         /\ r.game \in disturbed \/ \A p \in r.seen.packs : Placed(c, p)
    /\ r.op = "import" /\ r.pc = "copy" =>
         files[r.pack] = [NoFiles EXCEPT ![Target(c)] = "torn"]
    /\ r.op = "import" /\ r.pc = "commit" => files[r.pack] = At(Target(c))

TrackInv == \A c \in Processes : req[c].pc # "idle" => Recalls(c) /\ Carries(c)

RowsInv ==
    /\ \A g, h \in Games : g # h => row[g].packs \cap row[h].packs = {}
    /\ \A g \in Games : row[g].state = "absent" => row[g].packs = {}

CalmInv == \A g \in Games \ disturbed : Calm(g) => InPlace(g)

\* Each end of a redirect is as it should be, by itself.
LinkInv == \A r \in redirects :
    /\ row[r[1]].state # "absent"
    /\ r[1] \notin disturbed => row[r[1]].state # "live"
    /\ r[2] \notin disturbed => row[r[2]].state = "live"


PlaceInv == GInv /\ TrackInv /\ RowsInv /\ CalmInv /\ LinkInv

\* How a step of c may change a row under the other requests.
Amends(c, g) ==
    /\ row[g].packs \subseteq row'[g].packs
    /\ row[g].state # "absent" => row'[g].state # "absent"
    /\ mutex = c \/ (g \in disturbed' /\ row'[g].state = row[g].state)

LEMMA OthersTrack ==
    ASSUME PlaceInv, NEW c \in Processes, NEW k \in Processes,
           k # c, req'[k] = req[k], req[k].pc # "idle",
           disturbed \subseteq disturbed', files' = files \/ mutex = c,
           \A g \in Games : row'[g] = row[g] \/ Amends(c, g)
    PROVE  Recalls(k)' /\ Carries(k)'
<1> DEFINE g == req[k].game
<1>1. Recalls(k) /\ Carries(k) /\ Stages(k) /\ g \in Games
  BY DEF PlaceInv, TrackInv, GInv, StageInv, Stages
<1>2. row'[g] = row[g] \/ Amends(c, g)
  BY <1>1
<1>3. /\ row[g].packs \subseteq row'[g].packs
      /\ row[g].state # "absent" => row'[g].state # "absent"
  BY <1>2 DEF Amends
<1>4. CASE mutex = c
  <2>1. ~ Busy(k) /\ ~ Busy(k)'
    BY <1>1, <1>4 DEF Busy, Stages
  <2>2. /\ req[k].pc \notin {"mark", "pick", "copy", "remove", "commit"}
    BY <1>1, <1>4 DEF Stages
  <2>3. Recalls(k)'
    BY <1>1, <1>3, <2>1, <2>2 DEF Recalls
  <2> QED
    BY <2>1, <2>2, <2>3 DEF Carries
<1>5. CASE mutex # c
  <2>1. /\ files' = files /\ row'[g].state = row[g].state
        /\ row'[g] = row[g] \/ g \in disturbed'
    BY <1>2, <1>5 DEF Amends
  <2>2. /\ Busy(k)' = Busy(k) /\ Changed(k)' = Changed(k)
        /\ Source(k)' = Source(k) /\ Target(k)' = Target(k) /\ Final(k)' = Final(k)
    BY DEF Busy, Changed, Source, Target, Final
  <2>3. Recalls(k)'
    BY <1>1, <1>3, <2>1, <2>2 DEF Recalls
  <2>4. \A p : Placed(k, p) => Placed(k, p)'
    BY <2>1, <2>2 DEF Placed
  <2>5. Carries(k)'
    BY <1>1, <2>1, <2>2, <2>4 DEF Carries
  <2> QED
    BY <2>3, <2>5
<1> QED
  BY <1>4, <1>5

LEMMA OthersCalm ==
    ASSUME PlaceInv, NEW c \in Processes, NEW g \in Games \ disturbed',
           g # req[c].game \/ ~ Busy(c),
           \A k \in Processes \ {c} : req'[k] = req[k],
           disturbed \subseteq disturbed', row'[g] = row[g],
           \A p \in row[g].packs : files'[p] = files[p],
           Calm(g)'
    PROVE  InPlace(g)'
<1>1. Calm(g)
  BY DEF Calm, Busy
<1>2. InPlace(g)
  BY <1>1 DEF PlaceInv, CalmInv
<1> QED
  BY <1>2 DEF InPlace, Home

\* Steps that change neither a row nor a file.
LEMMA QuietStep ==
    ASSUME PlaceInv, NEW c \in Processes, UNCHANGED <<row, files>>,
           disturbed \subseteq disturbed',
           \A k \in Processes \ {c} : req'[k] = req[k],
           req'[c].pc # "idle" => Recalls(c)' /\ Carries(c)',
           Busy(c) => req[c].game \in disturbed' \/ InPlace(req[c].game)
    PROVE  TrackInv' /\ RowsInv' /\ CalmInv'
<1>1. ASSUME NEW k \in Processes, req'[k].pc # "idle"
      PROVE  Recalls(k)' /\ Carries(k)'
  <2>1. CASE k = c
    BY <1>1, <2>1
  <2>2. CASE k # c
    BY <1>1, <2>2, OthersTrack
  <2> QED
    BY <2>1, <2>2
<1>2. ASSUME NEW g \in Games \ disturbed', Calm(g)'
      PROVE  InPlace(g)'
  <2>1. CASE Busy(c) /\ g = req[c].game
    BY <1>2, <2>1 DEF InPlace, Home
  <2>2. CASE ~ (Busy(c) /\ g = req[c].game)
    BY <1>2, <2>2, OthersCalm
  <2> QED
    BY <2>1, <2>2
<1>3. RowsInv'
  BY DEF PlaceInv, RowsInv
<1> QED
  BY <1>1, <1>2, <1>3 DEF TrackInv, CalmInv

\* Steps on one file, which is that of a pack of the game or of no game.
LEMMA FilesStep ==
    ASSUME PlaceInv, NEW c \in Processes, mutex = c, NEW p \in Packs,
           UNCHANGED <<row, disturbed>>,
           \A k \in Processes \ {c} : req'[k] = req[k],
           \A q \in Packs \ {p} : files'[q] = files[q],
           \/ /\ req[c].game \in Games /\ p \in row[req[c].game].packs
              /\ Busy(c)' /\ req'[c].game = req[c].game
           \/ ~ Busy(c) /\ \A g \in Games : p \notin row[g].packs,
           Recalls(c)', Carries(c)'
    PROVE  TrackInv' /\ RowsInv' /\ CalmInv'
<1>1. ASSUME NEW k \in Processes, req'[k].pc # "idle"
      PROVE  Recalls(k)' /\ Carries(k)'
  <2>1. CASE k = c
    BY <2>1
  <2>2. CASE k # c
    BY <1>1, <2>2, OthersTrack
  <2> QED
    BY <2>1, <2>2
<1>2. ASSUME NEW g \in Games \ disturbed', Calm(g)'
      PROVE  InPlace(g)'
  <2>1. g # req[c].game \/ ~ Busy(c)
    BY <1>2 DEF Calm
  <2>2. p \notin row[g].packs
    <3>1. CASE \A h \in Games : p \notin row[h].packs
      BY <3>1
    <3>2. CASE /\ req[c].game \in Games /\ p \in row[req[c].game].packs
               /\ Busy(c)' /\ req'[c].game = req[c].game
      <4>1. g # req[c].game
        BY <1>2, <3>2 DEF Calm
      <4> QED
        BY <3>2, <4>1 DEF PlaceInv, RowsInv
    <3> QED
      BY <3>1, <3>2
  <2>3. row[g].packs \subseteq Packs
    BY DEF PlaceInv, GInv, TypeOK, RowType
  <2>4. \A q \in row[g].packs : files'[q] = files[q]
    BY <2>2, <2>3
  <2> QED
    BY <1>2, <2>1, <2>4, OthersCalm
<1>3. RowsInv'
  BY DEF PlaceInv, RowsInv
<1> QED
  BY <1>1, <1>2, <1>3 DEF TrackInv, CalmInv

\* Steps on one row.
LEMMA RowStep ==
    ASSUME PlaceInv, NEW c \in Processes, NEW x, NEW g \in Games,
           g = req[c].game, UNCHANGED files, row' = [row EXCEPT ![g] = x],
           disturbed \subseteq disturbed', Amends(c, g),
           \A k \in Processes \ {c} : req'[k] = req[k],
           \A h \in Games \ {g} : x.packs \cap row[h].packs = {},
           x.state = "absent" => x.packs = {},
           req'[c].pc # "idle" => Recalls(c)' /\ Carries(c)',
           \/ g \in disturbed'
           \/ Busy(c)' /\ req'[c].game = g
           \/ InPlace(g)'
    PROVE  TrackInv' /\ RowsInv' /\ CalmInv'
<1>0. row'[g] = x /\ \A h \in Games \ {g} : row'[h] = row[h]
  BY DEF PlaceInv, GInv, TypeOK
<1>1. ASSUME NEW k \in Processes, req'[k].pc # "idle"
      PROVE  Recalls(k)' /\ Carries(k)'
  <2>1. CASE k = c
    BY <1>1, <2>1
  <2>2. CASE k # c
    <3>1. \A h \in Games : row'[h] = row[h] \/ Amends(c, h)
      BY <1>0
    <3> QED
      BY <1>1, <2>2, <3>1, OthersTrack
  <2> QED
    BY <2>1, <2>2
<1>2. ASSUME NEW h \in Games \ disturbed', Calm(h)'
      PROVE  InPlace(h)'
  <2>1. CASE h = g
    BY <1>2, <2>1 DEF Calm
  <2>2. CASE h # g
    BY <1>0, <1>2, <2>2, OthersCalm
  <2> QED
    BY <2>1, <2>2
<1>3. RowsInv'
  <2>1. ASSUME NEW h \in Games, NEW i \in Games, h # i
        PROVE  row'[h].packs \cap row'[i].packs = {}
    BY <1>0, <2>1 DEF PlaceInv, RowsInv
  <2>2. ASSUME NEW h \in Games, row'[h].state = "absent"
        PROVE  row'[h].packs = {}
    BY <1>0, <2>2 DEF PlaceInv, RowsInv
  <2> QED
    BY <2>1, <2>2 DEF RowsInv
<1> QED
  BY <1>1, <1>2, <1>3 DEF TrackInv, CalmInv

LEMMA LinksStay ==
    ASSUME PlaceInv, UNCHANGED redirects, disturbed \subseteq disturbed',
           \A g \in Games : row'[g].state = row[g].state
    PROVE  LinkInv'
<1>1. redirects \subseteq Games \X Games
  BY DEF PlaceInv, GInv, TypeOK
<1> QED
  BY <1>1 DEF PlaceInv, LinkInv

-----------------------------------------------------------------------------
(* Steps that leave the rows and the files                                  *)

Places == TrackInv /\ RowsInv /\ CalmInv

\* A request that answers has its packs in place or its game is disturbed.
LEMMA ReturnsInPlace ==
    ASSUME PlaceInv, NEW c \in Processes, Return(c), UNCHANGED <<row, files>>,
           disturbed \subseteq disturbed',
           Busy(c) => req[c].game \in disturbed' \/ InPlace(req[c].game)
    PROVE  Places'
<1>1. req'[c].pc = "idle" /\ \A k \in Processes \ {c} : req'[k] = req[k]
  BY DEF Return, Idle, PlaceInv, GInv, TypeOK
<1> QED
  BY <1>1, QuietStep DEF Places

\* A request that goes on, and is not yet moving anything.
LEMMA WaitsInPlace ==
    ASSUME PlaceInv, NEW c \in Processes, NEW r, req' = [req EXCEPT ![c] = r],
           UNCHANGED <<row, files>>, disturbed \subseteq disturbed', ~ Busy(c),
           r.pc \notin {"pick", "copy", "remove", "commit"},
           Recalls(c)'
    PROVE  Places'
<1>1. req'[c] = r /\ \A k \in Processes \ {c} : req'[k] = req[k]
  BY DEF PlaceInv, GInv, TypeOK
<1>2. Carries(c)'
  BY <1>1 DEF Carries, Busy
<1> QED
  BY <1>1, <1>2, QuietStep DEF Places

BeginsWith(c, op, g, pc) ==
    /\ \E d, icy : Serve(c, op, g, d, icy, pc)
    /\ op = "redirect" => row[g].state # "absent"
    /\ op \in {"freeze", "unfreeze"} => pc # "lock"

LEMMA BeginPlaces ==
    ASSUME PlaceInv, NEW c \in Clients, Begin(c)
    PROVE  Places' /\ LinkInv'
<1>1. PICK op \in AllOps, g \in Games, pc \in {"lock", "connect", "peek"} :
        BeginsWith(c, op, g, pc)
  <2>1. PICK g \in Games :
          \/ HandleDeleteGame(c, g) \/ HandleRestoreGame(c, g)
          \/ HandleFreezeGame(c, g) \/ HandleUnfreezeGame(c, g)
          \/ HandleGamePage(c, g) \/ HandleGameDataEditPage(c, g)
          \/ HandleGameImage(c, g) \/ HandleGameRedirects(c, g) \/ MarkAdded(c, g)
    BY DEF Begin
  <2>2. HandleDeleteGame(c, g) => BeginsWith(c, "delete", g, "lock")
    BY DEF HandleDeleteGame, BeginsWith
  <2>3. HandleRestoreGame(c, g) => BeginsWith(c, "restore", g, "lock")
    BY DEF HandleRestoreGame, BeginsWith
  <2>4. HandleFreezeGame(c, g) => BeginsWith(c, "freeze", g, "connect")
    BY DEF HandleFreezeGame, BeginsWith
  <2>5. HandleUnfreezeGame(c, g) => BeginsWith(c, "unfreeze", g, "connect")
    BY DEF HandleUnfreezeGame, BeginsWith
  <2>6. HandleGamePage(c, g) => BeginsWith(c, "save", g, "lock")
    BY DEF HandleGamePage, BeginsWith
  <2>7. HandleGameDataEditPage(c, g) => BeginsWith(c, "save", g, "connect")
    BY DEF HandleGameDataEditPage, BeginsWith
  <2>8. HandleGameImage(c, g) => BeginsWith(c, "save", g, "peek")
    BY DEF HandleGameImage, BeginsWith
  <2>9. HandleGameRedirects(c, g) => BeginsWith(c, "redirect", g, "connect")
    BY DEF HandleGameRedirects, BeginsWith
  <2>10. MarkAdded(c, g) => BeginsWith(c, "import", g, "lock")
    BY DEF MarkAdded, BeginsWith
  <2> QED
    BY <2>1, <2>2, <2>3, <2>4, <2>5, <2>6, <2>7, <2>8, <2>9, <2>10 DEF AllOps
<1>1a. PICK d, icy : Serve(c, op, g, d, icy, pc)
  BY <1>1 DEF BeginsWith
<1> DEFINE r == [Idle EXCEPT !.op = op, !.game = g, !.dest = d, !.icy = icy,
                             !.pc = pc]
<1>2. r.pc = pc /\ r.op = op /\ r.game = g /\ r.seen.packs = {} /\ r.seen.state = "absent"
  BY DEF Idle, AbsentRow
<1>3. /\ req' = [req EXCEPT ![c] = r] /\ req[c].pc = "idle"
      /\ UNCHANGED <<row, redirects, files, disturbed>>
  BY <1>1a DEF Serve, store, history
<1> HIDE DEF r
<1>4. req'[c] = r
  BY <1>3 DEF PlaceInv, GInv, TypeOK
<1>5. Recalls(c)'
  BY <1>1, <1>2, <1>3, <1>4 DEF Recalls, Busy, BeginsWith
<1>6. ~ Busy(c)
  BY <1>3 DEF Busy
<1>7. Places'
  BY <1>1, <1>2, <1>3, <1>5, <1>6, WaitsInPlace
<1> QED
  BY <1>3, <1>7, LinksStay

LEMMA UnfreezerPlaces ==
    ASSUME PlaceInv, RunAutounfreezer
    PROVE  Places' /\ LinkInv'
<1>1. PICK g \in Games : req' = [req EXCEPT ![Unfreezer] =
            [Idle EXCEPT !.op = "unfreeze", !.game = g, !.pc = "connect"]]
  BY DEF RunAutounfreezer, Due
<1> DEFINE r == [Idle EXCEPT !.op = "unfreeze", !.game = g, !.pc = "connect"]
<1>2. r.pc = "connect" /\ r.op = "unfreeze" /\ r.game = g
      /\ r.seen.packs = {} /\ r.seen.state = "absent"
  BY DEF Idle, AbsentRow
<1>3. /\ req' = [req EXCEPT ![Unfreezer] = r] /\ req[Unfreezer].pc = "idle"
      /\ UNCHANGED <<row, redirects, files, disturbed>>
  BY <1>1 DEF RunAutounfreezer, store, history
<1> HIDE DEF r
<1>4. req'[Unfreezer] = r
  BY <1>3 DEF PlaceInv, GInv, TypeOK
<1>5. Recalls(Unfreezer)'
  BY <1>1, <1>2, <1>3, <1>4 DEF Recalls, Busy
<1>6. ~ Busy(Unfreezer)
  BY <1>3 DEF Busy
<1>7. Places'
  BY <1>2, <1>3, <1>5, <1>6, WaitsInPlace
<1> QED
  BY <1>3, <1>7, LinksStay

LEMMA LockPlaces ==
    ASSUME PlaceInv, NEW c \in Processes, LockMetadata(c)
    PROVE  Places' /\ LinkInv'
<1> DEFINE pc == IF req[c].op \in {"freeze", "unfreeze"} THEN "save" ELSE "connect"
           r == [req[c] EXCEPT !.pc = pc]
<1>1. /\ req[c] \in RequestType /\ req[c].pc = "lock"
      /\ req' = [req EXCEPT ![c] = r] /\ Recalls(c)
      /\ UNCHANGED <<row, redirects, files, disturbed>>
  BY DEF PlaceInv, TrackInv, GInv, TypeOK, LockMetadata, Goto, store, history
<1>2. /\ r.pc = pc /\ r.op = req[c].op /\ r.game = req[c].game /\ r.seen = req[c].seen
  BY <1>1 DEF RequestType
<1>3. pc \in {"save", "connect"} /\ (pc = "save" => req[c].op \in {"freeze", "unfreeze"})
  OBVIOUS
<1> HIDE DEF r, pc
<1>4. req'[c] = r
  BY <1>1 DEF PlaceInv, GInv, TypeOK
<1>5. Recalls(c)'
  BY <1>1, <1>2, <1>3, <1>4 DEF Recalls, Busy
<1>6. ~ Busy(c)
  BY <1>1 DEF Busy
<1>7. Places'
  BY <1>1, <1>2, <1>3, <1>5, <1>6, WaitsInPlace
<1> QED
  BY <1>1, <1>7, LinksStay

LEMMA PeekPlaces ==
    ASSUME PlaceInv, NEW c \in Processes, PeekGame(c)
    PROVE  Places' /\ LinkInv'
<1>1. /\ req[c].pc = "peek" /\ ~ Busy(c) /\ req[c] \in RequestType
      /\ Recalls(c) /\ Stages(c)
      /\ UNCHANGED <<row, redirects, files, disturbed>>
  BY DEF PeekGame, Busy, PlaceInv, TrackInv, GInv, StageInv, TypeOK, store, history
<1>2. CASE Return(c)
  BY <1>1, <1>2, ReturnsInPlace, LinksStay
<1>3. CASE Goto(c, "connect")
  <2> DEFINE r == [req[c] EXCEPT !.pc = "connect"]
  <2>1. /\ r.pc = "connect" /\ r.op = req[c].op /\ r.game = req[c].game
        /\ r.seen = req[c].seen
    BY <1>1 DEF RequestType
  <2>2. req' = [req EXCEPT ![c] = r]
    BY <1>3 DEF Goto
  <2> HIDE DEF r
  <2>3. req'[c] = r
    BY <2>2 DEF PlaceInv, GInv, TypeOK
  <2>4. Recalls(c)'
    BY <1>1, <2>1, <2>3 DEF Recalls, Busy, Stages
  <2>5. Places'
    BY <1>1, <2>1, <2>2, <2>4, WaitsInPlace
  <2> QED
    BY <1>1, <2>5, LinksStay
<1> QED
  BY <1>2, <1>3 DEF PeekGame

LEMMA GetGamePlaces ==
    ASSUME PlaceInv, NEW c \in Processes, GetGame(c)
    PROVE  Places' /\ LinkInv'
<1>1. /\ req[c].pc = "connect" /\ ~ Busy(c) /\ req[c] \in RequestType
      /\ req[c].op \in AllOps \ {"redirect"} /\ req[c].game \in Games
      /\ UNCHANGED <<row, redirects, files, disturbed>>
  BY DEF GetGame, NewSession, Busy, PlaceInv, GInv, StageInv, Stages, TypeOK,
     store, history
<1>2. CASE Return(c)
  BY <1>1, <1>2, ReturnsInPlace, LinksStay
<1>3. CASE ~ Return(c)
  <2> DEFINE pc == NextAfterRead(req[c].op)
             g == req[c].game
             r == [req[c] EXCEPT !.seen = row[g], !.conn = TRUE, !.pc = pc]
  <2>1. /\ req' = [req EXCEPT ![c] = r]
        /\ row[g].state # "absent" \/ req[c].op = "import"
    BY <1>3 DEF GetGame
  <2>2. /\ r.pc = pc /\ r.op = req[c].op /\ r.game = g /\ r.seen = row[g]
    BY <1>1 DEF RequestType
  <2>3. pc \in {"lock", "save", "mark"}
    BY <1>1 DEF NextAfterRead, AllOps
  <2> HIDE DEF r, pc
  <2>4. req'[c] = r
    BY <2>1 DEF PlaceInv, GInv, TypeOK
  <2>5. ~ Busy(c)'
    BY <2>2, <2>3, <2>4 DEF Busy
  <2>6. req[c].op \in {"delete", "restore"} => Changed(c)' = row[g]
    BY <2>2, <2>4 DEF Changed
  <2>7. Recalls(c)'
    BY <1>1, <2>1, <2>2, <2>3, <2>4, <2>5, <2>6 DEF Recalls
  <2>8. Places'
    BY <1>1, <2>1, <2>2, <2>3, <2>7, WaitsInPlace
  <2> QED
    BY <1>1, <2>8, LinksStay
<1> QED
  BY <1>2, <1>3

LEMMA LinkPlaces ==
    ASSUME PlaceInv, NEW c \in Processes, AddNewGameRedirect(c)
    PROVE  Places' /\ LinkInv'
<1>1. /\ req[c].pc = "connect" /\ ~ Busy(c) /\ req[c] \in RequestType
      /\ req[c].op = "redirect" /\ Recalls(c)
      /\ UNCHANGED <<row, redirects, files, disturbed>>
  BY DEF AddNewGameRedirect, NewSession, Busy, PlaceInv, TrackInv, GInv, TypeOK,
     store, history
<1>2. CASE Return(c)
  BY <1>1, <1>2, ReturnsInPlace, LinksStay
<1>3. CASE req' = [req EXCEPT ![c].conn = TRUE, ![c].pc = "link"]
  <2> DEFINE r == [req[c] EXCEPT !.conn = TRUE, !.pc = "link"]
  <2>1. /\ r.pc = "link" /\ r.op = req[c].op /\ r.game = req[c].game
        /\ r.seen = req[c].seen
    BY <1>1 DEF RequestType
  <2>2. req' = [req EXCEPT ![c] = r]
    BY <1>3
  <2> HIDE DEF r
  <2>3. req'[c] = r
    BY <2>2 DEF PlaceInv, GInv, TypeOK
  <2>4. Recalls(c)'
    BY <1>1, <2>1, <2>3 DEF Recalls, Busy
  <2>5. Places'
    BY <1>1, <2>1, <2>2, <2>4, WaitsInPlace
  <2> QED
    BY <1>1, <2>5, LinksStay
<1> QED
  BY <1>2, <1>3 DEF AddNewGameRedirect

-----------------------------------------------------------------------------
(* Steps that move the files                                                *)

\* Two directories of one pack.
LEMMA TwoPlaces ==
    ASSUME NEW s \in Dirs, NEW t \in Dirs, s # t
    PROVE  /\ At(s)[s] = "whole" /\ At(s)[t] = "none" /\ At(t)[s] = "none"
           /\ [[At(s) EXCEPT ![t] = "torn"] EXCEPT ![t] = "whole"]
                 = [At(s) EXCEPT ![t] = "whole"]
           /\ [At(s) EXCEPT ![t] = "torn"][s] = "whole"
           /\ [[At(s) EXCEPT ![t] = "whole"] EXCEPT ![s] = "none"] = At(t)
           /\ [[NoFiles EXCEPT ![t] = "torn"] EXCEPT ![t] = "whole"] = At(t)
BY DEF At, NoFiles

SameErrand(c) ==
    /\ req'[c].op = req[c].op /\ req'[c].game = req[c].game
    /\ req'[c].seen = req[c].seen /\ req'[c].icy = req[c].icy

LEMMA SamePlaces ==
    ASSUME NEW c, SameErrand(c)
    PROVE  /\ Source(c)' = Source(c) /\ Target(c)' = Target(c)
           /\ Final(c)' = Final(c) /\ Changed(c)' = Changed(c)
BY DEF SameErrand, Source, Target, Final, Changed

\* Who holds MetadataMutex is the only one who may move packs.
LEMMA OnlyMover ==
    ASSUME PlaceInv, NEW c \in Processes, mutex = c
    PROVE  /\ \A k \in Processes \ {c} : ~ Busy(k)
           /\ ~ Busy(c) => \A g \in Games : Calm(g)
<1>1. ASSUME NEW k \in Processes \ {c} PROVE ~ Busy(k)
  BY DEF PlaceInv, GInv, StageInv, Stages, Busy
<1> QED
  BY <1>1 DEF Calm

\* Where a move begins, the packs are on one of its sides.
LEMMA MoveBegins ==
    ASSUME PlaceInv, NEW c \in Processes, mutex = c, ~ Busy(c),
           req[c].op \in Movers, req[c].game \in Games \ disturbed,
           req[c].seen = row[req[c].game], req[c].seen.state # "absent",
           NEW p \in req[c].seen.packs
    PROVE  \/ files[p] \in {At(Source(c)), At(Target(c))}
           \/ files[p] = At(Final(c))
<1>1. InPlace(req[c].game)
  BY OnlyMover DEF PlaceInv, CalmInv
<1>2. files[p] = At(Home(req[c].seen))
  BY <1>1 DEF InPlace
<1>3. req[c].seen \in RowType
  BY DEF PlaceInv, GInv, TypeOK
<1>4. Home(req[c].seen) \in {Source(c), Target(c), Final(c)}
  BY <1>3 DEF Home, Source, Target, Final, Movers, RowType
<1> QED
  BY <1>2, <1>4

LEMMA MarkPlaces ==
    ASSUME PlaceInv, NEW c \in Processes, DeleteGame(c) \/ RestoreGame(c)
    PROVE  Places' /\ LinkInv'
<1> DEFINE todo == MovablePacks(c)
           r == [req[c] EXCEPT !.pc = "pick", !.todo = todo]
           g == req[c].game
<1>1. /\ req[c].pc = "mark" /\ req[c].op \in {"delete", "restore"}
      /\ req' = [req EXCEPT ![c] = r]
      /\ UNCHANGED <<row, redirects, files, disturbed>>
  BY DEF DeleteGame, RestoreGame, Mark, store, history
<1>2. /\ req[c] \in RequestType /\ Recalls(c) /\ mutex = c /\ g \in Games
      /\ ~ Busy(c)
  BY <1>1 DEF PlaceInv, TrackInv, GInv, StageInv, Stages, TypeOK, Busy
<1>3. /\ r.pc = "pick" /\ r.op = req[c].op /\ r.game = g /\ r.seen = req[c].seen
      /\ r.icy = req[c].icy /\ r.todo = todo /\ r.pack = req[c].pack
  BY <1>2 DEF RequestType
<1>4. todo \subseteq req[c].seen.packs
  BY DEF MovablePacks
<1>5. req[c].seen \in RowType
  BY <1>2 DEF RequestType
<1> HIDE DEF r, todo
<1>6. req'[c] = r /\ SameErrand(c) /\ \A k \in Processes \ {c} : req'[k] = req[k]
  BY <1>1, <1>3 DEF PlaceInv, GInv, TypeOK, SameErrand
<1>7. Changed(c)' = Changed(c) /\ Changed(c) = req[c].seen
  BY <1>1, <1>6, SamePlaces DEF Changed
<1>8. Recalls(c)'
  BY <1>1, <1>2, <1>3, <1>6, <1>7 DEF Recalls
<1>9. ASSUME g \notin disturbed, NEW p \in req[c].seen.packs
      PROVE  Placed(c, p)'
  <2>1. req[c].seen = row[g] /\ req[c].seen.state # "absent"
    BY <1>1, <1>2, <1>7, <1>9 DEF Recalls
  <2>2. files[p] \in {At(Source(c)), At(Target(c))} \/ files[p] = At(Final(c))
    BY <1>1, <1>2, <1>9, <2>1, MoveBegins DEF Movers
  <2>3. CASE req[c].seen.archive = "available"
    <3>1. Final(c) = Target(c) /\ todo = req[c].seen.packs
      BY <2>3 DEF Final, todo, MovablePacks
    <3> QED
      BY <1>1, <1>3, <1>6, <1>9, <2>2, <3>1, SamePlaces DEF Placed
  <2>4. CASE req[c].seen.archive = "archived"
    <3>0. Home(row[g]) = "frozen"
      BY <2>1, <2>4 DEF Home
    <3>0a. Calm(g)
      BY <1>2, OnlyMover
    <3>1. InPlace(g) /\ Home(row[g]) = "frozen"
      BY <1>2, <1>9, <3>0, <3>0a DEF PlaceInv, CalmInv
    <3>2. files[p] = At("frozen")
      BY <1>9, <2>1, <3>1 DEF InPlace
    <3>3. Final(c) = "frozen" /\ todo = {}
      BY <1>1, <2>4 DEF Final, todo, MovablePacks
    <3> QED
      BY <1>1, <1>3, <1>6, <3>2, <3>3, SamePlaces DEF Placed
  <2> QED
    BY <1>5, <2>3, <2>4 DEF RowType
<1>10. req[c].seen.archive = "available" \/ todo = {}
  BY DEF todo, MovablePacks
<1>11. Carries(c)'
  BY <1>1, <1>3, <1>4, <1>6, <1>9, <1>10 DEF Carries
<1>12. Places'
  BY <1>1, <1>2, <1>6, <1>8, <1>11, QuietStep DEF Places
<1> QED
  BY <1>1, <1>12, LinksStay

LEMMA AddGameDataPlaces ==
    ASSUME PlaceInv, NEW c \in Processes, AddGameData(c)
    PROVE  Places' /\ LinkInv'
<1>1. PICK p \in Packs : Fresh(p) /\ p = CHOOSE q \in Packs : Fresh(q)
  BY DEF AddGameData
<1> DEFINE r == [req[c] EXCEPT !.pc = "copy", !.pack = p]
<1>2. /\ req[c].pc = "mark" /\ req[c].op = "import"
      /\ req' = [req EXCEPT ![c] = r]
      /\ files' = [files EXCEPT ![p][Target(c)] = "torn"]
      /\ UNCHANGED <<row, redirects, disturbed>>
  BY <1>1 DEF AddGameData, history
<1>3. /\ req[c] \in RequestType /\ Recalls(c) /\ mutex = c /\ ~ Busy(c)
  BY <1>2 DEF PlaceInv, TrackInv, GInv, StageInv, Stages, TypeOK, Busy, Movers
<1>4. /\ r.pc = "copy" /\ r.op = req[c].op /\ r.game = req[c].game
      /\ r.seen = req[c].seen /\ r.icy = req[c].icy /\ r.pack = p
  BY <1>3 DEF RequestType
<1> HIDE DEF r
<1>5. req'[c] = r /\ SameErrand(c) /\ \A k \in Processes \ {c} : req'[k] = req[k]
  BY <1>2, <1>4 DEF PlaceInv, GInv, TypeOK, SameErrand
<1>6. ~ Busy(c)'
  BY <1>2, <1>4, <1>5 DEF Busy, Movers
<1>7. Recalls(c)'
  BY <1>2, <1>3, <1>4, <1>5, <1>6 DEF Recalls
<1>8. /\ files'[p] = [NoFiles EXCEPT ![Target(c)] = "torn"]
      /\ \A q \in Packs \ {p} : files'[q] = files[q]
  BY <1>1, <1>2 DEF Fresh, PlaceInv, GInv, TypeOK
<1>9. Carries(c)'
  BY <1>4, <1>5, <1>6, <1>8, SamePlaces DEF Carries
<1>10. \A g \in Games : p \notin row[g].packs
  BY <1>1 DEF Fresh
<1>11. Places'
  BY <1>2, <1>3, <1>5, <1>7, <1>8, <1>9, <1>10, FilesStep DEF Places
<1> QED
  BY <1>2, <1>11, LinksStay

LEMMA CopyBeginsPlaces ==
    ASSUME PlaceInv, NEW c \in Processes, CopyBegins(c)
    PROVE  Places' /\ LinkInv'
<1>1. PICK p \in req[c].todo :
      IF files[p][Source(c)] = "none"
      THEN /\ req' = [req EXCEPT ![c].todo = @ \ {p}]
           /\ UNCHANGED files
      ELSE /\ req' = [req EXCEPT ![c].todo = @ \ {p}, ![c].pack = p,
                                 ![c].pc = "copy"]
           /\ files' = [files EXCEPT ![p][Target(c)] = "torn"]
  BY DEF CopyBegins
<1> DEFINE g == req[c].game
           s == Source(c)
           t == Target(c)
           skip == [req[c] EXCEPT !.todo = @ \ {p}]
           copy == [req[c] EXCEPT !.todo = @ \ {p}, !.pack = p, !.pc = "copy"]
<1>2. /\ req[c] \in RequestType /\ req[c].pc = "pick" /\ req[c].op \in Movers
      /\ Recalls(c) /\ Carries(c) /\ Busy(c) /\ mutex = c /\ g \in Games
      /\ UNCHANGED <<row, redirects, disturbed>>
  BY DEF PlaceInv, TrackInv, GInv, TypeOK, StageInv, Stages, CopyBegins, history, Busy
<1>3. /\ p \in Packs /\ p \in req[c].seen.packs /\ p \in row[g].packs
      /\ req[c].op \in {"delete", "restore"} => req[c].seen.archive = "available"
  BY <1>2 DEF RequestType, Recalls, Carries
<1>4. Final(c) = t
  BY <1>3 DEF Final
<1>5. s \in Dirs /\ t \in Dirs /\ s # t
  BY <1>2, PlacesAreDirs, SourceIsNotTarget
<1>6. g \notin disturbed => files[p] \in {At(s), At(t)}
  BY <1>2, <1>3 DEF Carries, Placed
<1>7. files \in [Packs -> [Dirs -> {"none", "torn", "whole"}]]
  BY DEF PlaceInv, GInv, TypeOK
<1> HIDE DEF s, t
<1>8. CASE files[p][s] = "none"
  <2>1. /\ skip.pc = "pick" /\ skip.op = req[c].op /\ skip.game = g
        /\ skip.seen = req[c].seen /\ skip.icy = req[c].icy
        /\ skip.todo = req[c].todo \ {p}
    BY <1>2 DEF RequestType
  <2>2. req' = [req EXCEPT ![c] = skip] /\ UNCHANGED files
    BY <1>1, <1>8 DEF s
  <2> HIDE DEF skip
  <2>3. req'[c] = skip /\ SameErrand(c) /\ \A k \in Processes \ {c} : req'[k] = req[k]
    BY <2>1, <2>2 DEF PlaceInv, GInv, TypeOK, SameErrand
  <2>4. Busy(c)'
    BY <1>2, <2>1, <2>3 DEF Busy
  <2>5. Recalls(c)'
    BY <1>2, <2>1, <2>3, <2>4, SamePlaces DEF Recalls
  <2>6. g \notin disturbed => files[p] = At(Final(c))
    BY <1>4, <1>5, <1>6, <1>8, TwoPlaces
  <2>7. ASSUME g \notin disturbed, NEW q \in req[c].seen.packs
        PROVE  Placed(c, q)'
    <3>1. Placed(c, q)
      BY <1>2, <2>7 DEF Carries
    <3> QED
      BY <1>2, <2>1, <2>2, <2>3, <2>6, <2>7, <3>1, SamePlaces DEF Placed
  <2>8. Carries(c)'
    BY <1>2, <1>3, <2>1, <2>3, <2>4, <2>7 DEF Carries, Movers
  <2>9. Places'
    BY <1>2, <1>3, <2>1, <2>2, <2>3, <2>4, <2>5, <2>8, FilesStep DEF Places
  <2> QED
    BY <1>2, <2>9, LinksStay
<1>9. CASE files[p][s] # "none"
  <2>1. /\ copy.pc = "copy" /\ copy.op = req[c].op /\ copy.game = g
        /\ copy.seen = req[c].seen /\ copy.icy = req[c].icy
        /\ copy.todo = req[c].todo \ {p} /\ copy.pack = p
    BY <1>2 DEF RequestType
  <2>2. req' = [req EXCEPT ![c] = copy] /\ files' = [files EXCEPT ![p][t] = "torn"]
    BY <1>1, <1>9 DEF s, t
  <2> HIDE DEF copy
  <2>3. req'[c] = copy /\ SameErrand(c) /\ \A k \in Processes \ {c} : req'[k] = req[k]
    BY <2>1, <2>2 DEF PlaceInv, GInv, TypeOK, SameErrand
  <2>4. Busy(c)'
    BY <1>2, <2>1, <2>3 DEF Busy
  <2>5. Recalls(c)'
    BY <1>2, <2>1, <2>3, <2>4, SamePlaces DEF Recalls, Movers
  <2>6. g \notin disturbed => files[p] = At(s)
    <3>1. At(t)[s] = "none"
      BY <1>5, TwoPlaces
    <3>2. files[p] # At(t)
      BY <1>9, <3>1
    <3> QED
      BY <1>6, <3>2
  <2>6a. \A q \in Packs \ {p} : files'[q] = files[q]
    BY <1>7, <2>2
  <2>6b. g \notin disturbed => files'[p] = [At(s) EXCEPT ![t] = "torn"]
    BY <1>3, <1>7, <2>2, <2>6
  <2>6c. Source(c)' = s /\ Target(c)' = t /\ Final(c)' = Final(c)
    BY <2>3, SamePlaces DEF s, t
  <2>7. ASSUME g \notin disturbed, NEW q \in req[c].seen.packs
        PROVE  Placed(c, q)'
    <3>1. Placed(c, q)
      BY <1>2, <2>7 DEF Carries
    <3>2. q \in Packs
      BY <1>2, <2>7 DEF RequestType, RowType
    <3>3. CASE q = p
      BY <2>1, <2>3, <2>6b, <2>6c, <2>7, <3>3 DEF Placed
    <3>4. CASE q # p
      BY <1>2, <2>1, <2>3, <2>6a, <2>6c, <3>1, <3>2, <3>4 DEF Placed, s, t
    <3> QED
      BY <3>3, <3>4
  <2>8. Carries(c)'
    BY <1>2, <1>3, <2>1, <2>3, <2>4, <2>7 DEF Carries, Movers
  <2>9. Places'
    BY <1>2, <1>3, <2>1, <2>3, <2>4, <2>5, <2>6a, <2>8, FilesStep DEF Places
  <2> QED
    BY <1>2, <2>9, LinksStay
<1> QED
  BY <1>8, <1>9

LEMMA CopyEndsPlaces ==
    ASSUME PlaceInv, NEW c \in Processes, CopyEnds(c)
    PROVE  Places' /\ LinkInv'
<1> DEFINE p == req[c].pack
           g == req[c].game
           s == Source(c)
           t == Target(c)
           pc == IF req[c].op = "import" THEN "commit" ELSE "remove"
           r == [req[c] EXCEPT !.pc = pc]
<1>1. /\ req[c] \in RequestType /\ req[c].pc = "copy" /\ p \in Packs
      /\ req[c].op \in Movers \cup {"import"} /\ g \in Games
      /\ Recalls(c) /\ Carries(c) /\ mutex = c
      /\ UNCHANGED <<row, redirects, disturbed>>
  BY DEF PlaceInv, TrackInv, GInv, TypeOK, StageInv, Stages, CopyEnds, history
<1>2. /\ r.pc = pc /\ r.op = req[c].op /\ r.game = g /\ r.seen = req[c].seen
      /\ r.icy = req[c].icy /\ r.todo = req[c].todo /\ r.pack = p
  BY <1>1 DEF RequestType
<1>3. /\ req' = [req EXCEPT ![c] = r]
      /\ files' = [files EXCEPT ![p][t] =
                      IF req[c].op = "import" THEN "whole" ELSE files[p][s]]
  BY DEF CopyEnds, Goto
<1>4. files \in [Packs -> [Dirs -> {"none", "torn", "whole"}]]
  BY DEF PlaceInv, GInv, TypeOK
<1>5. s \in Dirs /\ t \in Dirs
  BY PlacesAreDirs
<1>6. p = req[c].pack
  OBVIOUS
<1> HIDE DEF r, s, t, p
<1>7. req'[c] = r /\ SameErrand(c) /\ \A k \in Processes \ {c} : req'[k] = req[k]
  BY <1>2, <1>3 DEF PlaceInv, GInv, TypeOK, SameErrand
<1>8. Source(c)' = s /\ Target(c)' = t /\ Final(c)' = Final(c) /\ Changed(c)' = Changed(c)
  BY <1>7, SamePlaces DEF s, t
<1>9. \A q \in Packs \ {p} : files'[q] = files[q]
  BY <1>3, <1>4
<1>10. CASE req[c].op = "import"
  <2>1. ~ Busy(c) /\ ~ Busy(c)'
    BY <1>2, <1>7, <1>10 DEF Busy, Movers
  <2>2. Recalls(c)'
    BY <1>1, <1>2, <1>7, <1>10, <2>1 DEF Recalls
  <2>3. files[p] = [NoFiles EXCEPT ![t] = "torn"]
    BY <1>1, <1>6, <1>10 DEF Carries, t
  <2>4. files'[p] = At(t)
    <3>1. files'[p] = [files[p] EXCEPT ![t] = "whole"]
      BY <1>1, <1>3, <1>4, <1>10
    <3> QED
      BY <1>5, <2>3, <3>1 DEF At, NoFiles
  <2>5. Carries(c)'
    BY <1>2, <1>7, <1>8, <1>10, <2>1, <2>4 DEF Carries
  <2>6. \A h \in Games : p \notin row[h].packs
    BY <1>1, <1>6, <1>10 DEF PlaceInv, GInv, PackInv
  <2>7. Places'
    BY <1>1, <1>7, <1>9, <2>1, <2>2, <2>5, <2>6, FilesStep DEF Places
  <2> QED
    BY <1>1, <2>7, LinksStay
<1>11. CASE req[c].op # "import"
  <2>0. req[c].op \in Movers /\ s # t /\ Busy(c)
    BY <1>1, <1>11, SourceIsNotTarget DEF s, t, Busy
  <2>1. r.pc = "remove" /\ Busy(c)'
    BY <1>2, <1>7, <1>11, <2>0 DEF Busy
  <2>2. Recalls(c)'
    BY <1>1, <1>2, <1>7, <1>8, <2>0, <2>1 DEF Recalls
  <2>3. p \in req[c].seen.packs /\ p \in row[g].packs
    BY <1>1, <1>6, <2>0 DEF Carries, Recalls
  <2>4. ASSUME g \notin disturbed PROVE files'[p] = [At(s) EXCEPT ![t] = "whole"]
    <3>1. files[p] = [At(s) EXCEPT ![t] = "torn"]
      BY <1>1, <1>6, <2>0, <2>3, <2>4 DEF Carries, Placed, s, t
    <3>2. files'[p] = [files[p] EXCEPT ![t] = files[p][s]]
      BY <1>1, <1>3, <1>4, <1>11
    <3>3. [At(s) EXCEPT ![t] = "torn"][s] = "whole"
      BY <1>5, <2>0, TwoPlaces
    <3>4. files'[p] = [[At(s) EXCEPT ![t] = "torn"] EXCEPT ![t] = "whole"]
      BY <3>1, <3>2, <3>3
    <3> QED
      BY <1>5, <2>0, <3>4, TwoPlaces
  <2>5. ASSUME g \notin disturbed, NEW q \in req[c].seen.packs
        PROVE  Placed(c, q)'
    <3>1. Placed(c, q) /\ p \notin req[c].todo
      BY <1>1, <1>6, <2>0, <2>5 DEF Carries
    <3>2. q \in Packs
      BY <1>1, <2>5 DEF RequestType, RowType
    <3>3. CASE q = p
      BY <1>2, <1>7, <1>8, <2>1, <2>4, <2>5, <3>1, <3>3 DEF Placed
    <3>4. CASE q # p
      BY <1>1, <1>2, <1>6, <1>7, <1>8, <1>9, <3>1, <3>2, <3>4 DEF Placed, s, t
    <3> QED
      BY <3>3, <3>4
  <2>6. Carries(c)'
    BY <1>1, <1>2, <1>6, <1>7, <1>11, <2>0, <2>1, <2>5 DEF Carries
  <2>7. Places'
    BY <1>1, <1>2, <1>7, <1>9, <2>1, <2>2, <2>3, <2>6, FilesStep DEF Places
  <2> QED
    BY <1>1, <2>7, LinksStay
<1> QED
  BY <1>10, <1>11

LEMMA RemoveSourcePlaces ==
    ASSUME PlaceInv, NEW c \in Processes, RemoveSource(c)
    PROVE  Places' /\ LinkInv'
<1> DEFINE p == req[c].pack
           g == req[c].game
           s == Source(c)
           t == Target(c)
           r == [req[c] EXCEPT !.pc = "pick", !.pack = None]
<1>1. /\ req[c] \in RequestType /\ req[c].pc = "remove" /\ p \in Packs
      /\ req[c].op \in Movers /\ g \in Games
      /\ Recalls(c) /\ Carries(c) /\ mutex = c /\ Busy(c)
      /\ UNCHANGED <<row, redirects, disturbed>>
  BY DEF PlaceInv, TrackInv, GInv, TypeOK, StageInv, Stages, RemoveSource, history, Busy
<1>2. /\ r.pc = "pick" /\ r.op = req[c].op /\ r.game = g /\ r.seen = req[c].seen
      /\ r.icy = req[c].icy /\ r.todo = req[c].todo
  BY <1>1 DEF RequestType
<1>3. /\ req' = [req EXCEPT ![c] = r]
      /\ files' = [files EXCEPT ![p][s] = "none"]
  BY DEF RemoveSource
<1>4. files \in [Packs -> [Dirs -> {"none", "torn", "whole"}]]
  BY DEF PlaceInv, GInv, TypeOK
<1>5. s \in Dirs /\ t \in Dirs /\ s # t
  BY <1>1, PlacesAreDirs, SourceIsNotTarget
<1>6. p = req[c].pack /\ p \in req[c].seen.packs \ req[c].todo /\ p \in row[g].packs
  BY <1>1 DEF Carries, Recalls
<1>6a. Final(c) = t
  BY <1>1 DEF Carries, Final
<1> HIDE DEF r, s, t, p
<1>7. req'[c] = r /\ SameErrand(c) /\ \A k \in Processes \ {c} : req'[k] = req[k]
  BY <1>2, <1>3 DEF PlaceInv, GInv, TypeOK, SameErrand
<1>8. Source(c)' = s /\ Target(c)' = t /\ Final(c)' = Final(c) /\ Changed(c)' = Changed(c)
  BY <1>7, SamePlaces DEF s, t
<1>9. \A q \in Packs \ {p} : files'[q] = files[q]
  BY <1>3, <1>4
<1>10. Busy(c)'
  BY <1>1, <1>2, <1>7 DEF Busy
<1>11. Recalls(c)'
  BY <1>1, <1>2, <1>7, <1>8, <1>10 DEF Recalls
<1>12. ASSUME g \notin disturbed PROVE files'[p] = At(t)
  <2>1. files[p] = [At(s) EXCEPT ![t] = "whole"]
    BY <1>1, <1>6, <1>12 DEF Carries, Placed, s, t
  <2>2. files'[p] = [files[p] EXCEPT ![s] = "none"]
    BY <1>1, <1>3, <1>4
  <2>3. files'[p] = [[At(s) EXCEPT ![t] = "whole"] EXCEPT ![s] = "none"]
    BY <2>1, <2>2
  <2> QED
    BY <1>5, <2>3, TwoPlaces
<1>13. ASSUME g \notin disturbed, NEW q \in req[c].seen.packs
       PROVE  Placed(c, q)'
  <2>1. Placed(c, q)
    BY <1>1, <1>13 DEF Carries
  <2>2. q \in Packs
    BY <1>1, <1>13 DEF RequestType, RowType
  <2>3. CASE q = p
    BY <1>2, <1>6, <1>6a, <1>7, <1>8, <1>12, <1>13, <2>3 DEF Placed
  <2>4. CASE q # p
    BY <1>1, <1>2, <1>6, <1>7, <1>8, <1>9, <2>1, <2>2, <2>4 DEF Placed, s, t
  <2> QED
    BY <2>3, <2>4
<1>14. Carries(c)'
  BY <1>1, <1>2, <1>7, <1>10, <1>13 DEF Carries, Movers
<1>15. Places'
  BY <1>1, <1>2, <1>6, <1>7, <1>9, <1>10, <1>11, <1>14, FilesStep DEF Places
<1> QED
  BY <1>1, <1>15, LinksStay

-----------------------------------------------------------------------------
(* Answers, and the steps that change a row                                 *)

\* A request that has nothing left to move has its packs where they end up.
LEMMA AllMoved ==
    ASSUME PlaceInv, NEW c \in Processes, Busy(c), req[c].pc = "pick",
           req[c].todo = {}, req[c].game \notin disturbed
    PROVE  /\ row[req[c].game] = Changed(c)
           /\ \A p \in row[req[c].game].packs : files[p] = At(Final(c))
<1>1. Recalls(c) /\ Carries(c) /\ req[c].seen \in RowType
  BY DEF PlaceInv, TrackInv, GInv, TypeOK, RequestType
<1>2. row[req[c].game] = Changed(c)
  BY <1>1 DEF Recalls
<1>3. Changed(c).packs = req[c].seen.packs
  BY <1>1 DEF Changed, RowType
<1>4. \A p \in req[c].seen.packs : files[p] = At(Final(c))
  BY <1>1 DEF Carries, Placed
<1> QED
  BY <1>2, <1>3, <1>4

LEMMA AnswerFreezePlaces ==
    ASSUME PlaceInv, NEW c \in Processes, AnswerFreeze(c)
    PROVE  Places' /\ LinkInv'
<1>1. /\ req[c].pc = "pick" /\ req[c].todo = {} /\ req[c].op \in {"freeze", "unfreeze"}
      /\ Return(c) /\ UNCHANGED <<row, redirects, files, disturbed>>
  BY DEF AnswerFreeze, store, history
<1>2. Busy(c)
  BY <1>1 DEF Busy, Movers
<1>3. ASSUME req[c].game \notin disturbed
      PROVE  InPlace(req[c].game)
  <2>1. row[req[c].game] = Changed(c)
    BY <1>1, <1>2, <1>3, AllMoved
  <2>2. req[c].seen \in RowType
    BY DEF PlaceInv, GInv, TypeOK, RequestType
  <2>3. Home(row[req[c].game]) = Final(c)
    BY <1>1, <2>1, <2>2 DEF Changed, Home, Final, Target, RowType
  <2> QED
    BY <1>1, <1>2, <1>3, <2>3, AllMoved DEF InPlace
<1>4. Places'
  BY <1>1, <1>3, ReturnsInPlace
<1> QED
  BY <1>1, <1>4, LinksStay

LEMMA RefuseDeletePlaces ==
    ASSUME PlaceInv, NEW c \in Processes, RefuseDelete(c)
    PROVE  Places' /\ LinkInv'
BY ReturnsInPlace, LinksStay DEF RefuseDelete, store

LEMMA FailPlaces ==
    ASSUME PlaceInv, NEW c \in Processes, Fail(c)
    PROVE  Places' /\ LinkInv'
<1>1. Busy(c) => req[c].game \in disturbed'
  BY DEF Fail, Busy, Touched, Moving
<1> QED
  BY <1>1, ReturnsInPlace, LinksStay DEF Fail, store

LEMMA RestartPlaces ==
    ASSUME PlaceInv, Restart
    PROVE  Places' /\ LinkInv'
<1>1. /\ UNCHANGED <<row, redirects, files>> /\ disturbed \subseteq disturbed'
      /\ \A c \in Processes : req'[c].pc = "idle"
      /\ \A c \in Processes : Touched(c) \subseteq disturbed'
  BY DEF Restart, store, Idle
<1>2. \A c \in Processes : Busy(c) => req[c].game \in disturbed'
  BY <1>1 DEF Busy, Touched, Moving
<1>3. CalmInv'
  <2> SUFFICES ASSUME NEW g \in Games \ disturbed' PROVE InPlace(g)'
    BY DEF CalmInv
  <2>1. Calm(g)
    BY <1>2 DEF Calm
  <2>2. InPlace(g)
    BY <1>1, <2>1 DEF PlaceInv, CalmInv
  <2> QED
    BY <1>1, <2>2 DEF InPlace
<1>4. TrackInv' /\ RowsInv'
  BY <1>1 DEF TrackInv, RowsInv, PlaceInv
<1> QED
  BY <1>1, <1>3, <1>4, LinksStay DEF Places

LEMMA CommitRedirectPlaces ==
    ASSUME PlaceInv, NEW c \in Processes, CommitRedirect(c)
    PROVE  Places' /\ LinkInv'
<1> DEFINE s == req[c].game
           d == req[c].dest
<1>1. /\ req[c].pc = "link" /\ req[c].op = "redirect" /\ ~ Busy(c)
      /\ UNCHANGED <<row, files>> /\ Return(c) /\ disturbed \subseteq disturbed'
      /\ redirects' = redirects \cup {<<s, d>>}
      /\ MayRedirect(States, s, d) \/ {s, d} \subseteq disturbed'
  BY DEF CommitRedirect, Busy
<1>2. s \in Games /\ d \in Games /\ Recalls(c)
  BY <1>1 DEF PlaceInv, TrackInv, GInv, StageInv, Stages
<1>3. Places'
  BY <1>1, ReturnsInPlace
<1>4. row[s].state # "absent"
  BY <1>1, <1>2 DEF Recalls
<1>5. /\ s \notin disturbed' => row[s].state # "live"
      /\ d \notin disturbed' => row[d].state = "live"
  BY <1>1, <1>2 DEF MayRedirect, States
<1> HIDE DEF s, d
<1>6. ASSUME NEW r \in redirects'
      PROVE  /\ row'[r[1]].state # "absent"
             /\ r[1] \notin disturbed' => row'[r[1]].state # "live"
             /\ r[2] \notin disturbed' => row'[r[2]].state = "live"
  <2>1. CASE r \in redirects
    BY <1>1, <2>1 DEF PlaceInv, LinkInv
  <2>2. CASE r = <<s, d>>
    BY <1>1, <1>4, <1>5, <2>2
  <2> QED
    BY <1>1, <1>6, <2>1, <2>2
<1> QED
  BY <1>3, <1>6 DEF LinkInv

LEMMA SaveMetadataPlaces ==
    ASSUME PlaceInv, NEW c \in Processes, SaveMetadata(c)
    PROVE  Places' /\ LinkInv'
<1> DEFINE g == req[c].game
           x == [row[g] EXCEPT !.archive = req[c].seen.archive]
<1>1. /\ req[c].pc = "save" /\ req[c].op = "save" /\ ~ Busy(c)
      /\ row' = [row EXCEPT ![g] = x] /\ UNCHANGED <<redirects, files>>
      /\ Return(c) /\ disturbed \subseteq disturbed'
      /\ row'[g] = row[g] \/ g \in disturbed'
  BY DEF SaveMetadata, SaveGame, Busy
<1>2. /\ g \in Games /\ row[g] \in RowType /\ Recalls(c)
      /\ row \in [Games -> RowType]
  BY <1>1 DEF PlaceInv, TrackInv, GInv, TypeOK, StageInv, Stages
<1>3. x.packs = row[g].packs /\ x.state = row[g].state /\ row'[g] = x
      /\ \A h \in Games \ {g} : row'[h] = row[h]
  BY <1>1, <1>2 DEF RowType
<1>4. req'[c].pc = "idle" /\ \A k \in Processes \ {c} : req'[k] = req[k]
  BY <1>1 DEF Return, Idle, PlaceInv, GInv, TypeOK
<1> HIDE DEF x
<1>5. CASE row'[g] = row[g]
  <2>1. row' = row
    BY <1>1, <1>2, <1>3, <1>5
  <2> QED
    BY <1>1, <2>1, ReturnsInPlace, LinksStay
<1>6. CASE g \in disturbed'
  <2>1. Amends(c, g)
    BY <1>3, <1>6 DEF Amends
  <2>2. /\ \A h \in Games \ {g} : x.packs \cap row[h].packs = {}
        /\ x.state = "absent" => x.packs = {}
    BY <1>2, <1>3 DEF PlaceInv, RowsInv
  <2>3. g = req[c].game
    OBVIOUS
  <2> HIDE DEF g
  <2>4. Places'
    BY <1>1, <1>2, <1>4, <1>6, <2>1, <2>2, <2>3, RowStep DEF Places
  <2>5. \A h \in Games : row'[h].state = row[h].state
    BY <1>3
  <2> QED
    BY <1>1, <2>4, <2>5, LinksStay
<1> QED
  BY <1>1, <1>5, <1>6

LEMMA SaveAndMovePlaces ==
    ASSUME PlaceInv, NEW c \in Processes,
           FreezeGame(c) \/ UnfreezeGame(c)
    PROVE  Places' /\ LinkInv'
<1> DEFINE g == req[c].game
           archive == IF req[c].op = "freeze" THEN "archived" ELSE "available"
           x == [row[g] EXCEPT !.archive = archive]
           r == [req[c] EXCEPT !.conn = FALSE, !.pc = "pick", !.todo = req[c].seen.packs]
<1>1. /\ req[c].pc = "save" /\ req[c].op \in {"freeze", "unfreeze"}
      /\ row' = [row EXCEPT ![g] = x] /\ UNCHANGED <<redirects, files>>
      /\ req' = [req EXCEPT ![c] = r] /\ disturbed \subseteq disturbed'
      /\ req[c].seen = row[g] \/ g \in disturbed'
  BY DEF FreezeGame, UnfreezeGame, SaveAndMove, SaveGame, Stale
<1>2. /\ g \in Games /\ row[g] \in RowType /\ Recalls(c) /\ mutex = c
      /\ row \in [Games -> RowType] /\ req[c] \in RequestType /\ ~ Busy(c)
  BY <1>1 DEF PlaceInv, TrackInv, GInv, TypeOK, StageInv, Stages, Busy
<1>3. x.packs = row[g].packs /\ x.state = row[g].state /\ row'[g] = x
      /\ \A h \in Games \ {g} : row'[h] = row[h]
  BY <1>1, <1>2 DEF RowType
<1>4. /\ r.pc = "pick" /\ r.op = req[c].op /\ r.game = g /\ r.seen = req[c].seen
      /\ r.icy = req[c].icy /\ r.todo = req[c].seen.packs
  BY <1>2 DEF RequestType
<1>5. req[c].seen = row[g] => x = Changed(c)
  BY <1>1 DEF Changed
<1>6. g = req[c].game
  OBVIOUS
<1> HIDE DEF x, r, g, archive
<1>7. req'[c] = r /\ SameErrand(c) /\ \A k \in Processes \ {c} : req'[k] = req[k]
  BY <1>1, <1>4, <1>6 DEF PlaceInv, GInv, TypeOK, SameErrand
<1>8. Busy(c)'
  BY <1>1, <1>4, <1>7 DEF Busy, Movers
<1>9. Recalls(c)'
  BY <1>1, <1>2, <1>3, <1>4, <1>5, <1>6, <1>7, <1>8, SamePlaces DEF Recalls
<1>10. ASSUME g \notin disturbed', NEW p \in req[c].seen.packs
       PROVE  Placed(c, p)'
  <2>1. req[c].seen = row[g] /\ req[c].seen.state # "absent" /\ g \notin disturbed
    BY <1>1, <1>2, <1>6, <1>10 DEF Recalls
  <2>2. Final(c) = Target(c)
    BY <1>1 DEF Final
  <2>3. files[p] \in {At(Source(c)), At(Target(c))}
    BY <1>1, <1>2, <1>6, <1>10, <2>1, <2>2, MoveBegins DEF Movers
  <2> QED
    BY <1>1, <1>4, <1>7, <1>10, <2>3, SamePlaces DEF Placed
<1>11. Carries(c)'
  BY <1>1, <1>4, <1>7, <1>10 DEF Carries
<1>12. Amends(c, g)
  BY <1>2, <1>3 DEF Amends
<1>13. /\ \A h \in Games \ {g} : x.packs \cap row[h].packs = {}
       /\ x.state = "absent" => x.packs = {}
  BY <1>2, <1>3 DEF PlaceInv, RowsInv
<1>14. Places'
  BY <1>1, <1>2, <1>4, <1>6, <1>7, <1>8, <1>9, <1>11, <1>12, <1>13, RowStep DEF Places
<1>15. \A h \in Games : row'[h].state = row[h].state
  BY <1>3
<1> QED
  BY <1>1, <1>14, <1>15, LinksStay

\* What a commit needs beside the places: a deletion or a restoration that
\* has moved everything, with the row it read.
LEMMA StateCommits ==
    ASSUME PlaceInv, NEW c \in Processes,
           NEW state \in {"live", "deleted"}, NEW g \in Games,
           g = req[c].game, req[c].op = IF state = "live" THEN "restore" ELSE "delete",
           req[c].pc = "pick", req[c].todo = {},
           row' = [row EXCEPT ![g].state = state],
           Return(c), UNCHANGED <<files, disturbed>>
    PROVE  /\ Places'
           /\ row[g].state # "absent"
           /\ row'[g].state = state
           /\ \A h \in Games \ {g} : row'[h] = row[h]
<1> DEFINE x == [row[g] EXCEPT !.state = state]
<1>1. Busy(c)
  BY DEF Busy, Movers
<1>2. /\ row[g] \in RowType /\ Recalls(c) /\ mutex = c
      /\ row \in [Games -> RowType] /\ req[c].seen \in RowType
  BY DEF PlaceInv, TrackInv, GInv, TypeOK, StageInv, Stages, RequestType
<1>3. /\ x.packs = row[g].packs /\ x.state = state /\ row'[g] = x
      /\ x.archive = row[g].archive
      /\ \A h \in Games \ {g} : row'[h] = row[h]
  BY <1>2 DEF RowType
<1>4. row' = [row EXCEPT ![g] = x]
  BY <1>2
<1>5. req'[c].pc = "idle" /\ \A k \in Processes \ {c} : req'[k] = req[k]
  BY DEF Return, Idle, PlaceInv, GInv, TypeOK
<1> HIDE DEF x
<1>6. row[g].state # "absent"
  BY <1>2 DEF Recalls
<1>7. Amends(c, g)
  BY <1>2, <1>3 DEF Amends
<1>8. /\ \A h \in Games \ {g} : x.packs \cap row[h].packs = {}
      /\ x.state = "absent" => x.packs = {}
  BY <1>3 DEF PlaceInv, RowsInv
<1>9. ASSUME g \notin disturbed
      PROVE  InPlace(g)'
  <2>1. row[g] = req[c].seen /\ \A p \in row[g].packs : files[p] = At(Final(c))
    BY <1>1, <1>9, AllMoved DEF Changed
  <2>2. Home(x) = Final(c)
    BY <1>2, <1>3, <2>1 DEF Home, Final, Target, RowType
  <2>3. Home(row[g])' = Home(x)
    BY <1>3 DEF Home
  <2> QED
    BY <1>3, <2>1, <2>2, <2>3 DEF InPlace
<1>10. Places'
  BY <1>4, <1>5, <1>7, <1>8, <1>9, RowStep DEF Places
<1> QED
  BY <1>3, <1>6, <1>10

LEMMA CommitRestorePlaces ==
    ASSUME PlaceInv, NEW c \in Processes, CommitRestore(c)
    PROVE  Places' /\ LinkInv'
<1>1. PICK g \in Games :
        /\ g = req[c].game /\ req[c].op = "restore"
        /\ req[c].pc = "pick" /\ req[c].todo = {}
        /\ row' = [row EXCEPT ![g].state = "live"]
        /\ redirects' = {r \in redirects : r[1] # g}
        /\ Return(c) /\ UNCHANGED <<files, disturbed>>
  BY DEF CommitRestore, PlaceInv, GInv, StageInv, Stages, history
<1>2. /\ Places' /\ row'[g].state = "live"
      /\ \A h \in Games \ {g} : row'[h] = row[h]
  BY <1>1, StateCommits
<1>3. redirects \subseteq Games \X Games
  BY DEF PlaceInv, GInv, TypeOK
<1>4. ASSUME NEW r \in redirects'
      PROVE  /\ row'[r[1]].state # "absent"
             /\ r[1] \notin disturbed' => row'[r[1]].state # "live"
             /\ r[2] \notin disturbed' => row'[r[2]].state = "live"
  <2>1. r \in redirects /\ r[1] \in Games \ {g} /\ r[2] \in Games
    BY <1>1, <1>3
  <2> QED
    BY <1>1, <1>2, <2>1 DEF PlaceInv, LinkInv
<1> QED
  BY <1>2, <1>4 DEF LinkInv

LEMMA CommitDeletePlaces ==
    ASSUME PlaceInv, NEW c \in Processes, CommitDelete(c)
    PROVE  Places' /\ LinkInv'
<1> DEFINE d == req[c].dest
<1>1. PICK g \in Games :
        /\ g = req[c].game /\ req[c].op = "delete"
        /\ req[c].pc = "pick" /\ req[c].todo = {}
        /\ row' = [row EXCEPT ![g].state = "deleted"]
        /\ redirects' = Repoint(g, d) /\ MayRepoint(g, d)
        /\ Return(c) /\ UNCHANGED <<files, disturbed>>
  BY DEF CommitDelete, PlaceInv, GInv, StageInv, Stages, history
<1>2. /\ Places' /\ row'[g].state = "deleted"
      /\ \A h \in Games \ {g} : row'[h] = row[h]
  BY <1>1, StateCommits
<1>3. redirects \subseteq Games \X Games /\ d \in Games \cup {None}
  BY DEF PlaceInv, GInv, TypeOK, RequestType
<1>4. \A q \in redirects :
        /\ q[1] \in Games /\ q[2] \in Games
        /\ row[q[1]].state # "absent"
        /\ q[1] \notin disturbed => row[q[1]].state # "live"
        /\ q[2] \notin disturbed => row[q[2]].state = "live"
  BY <1>3 DEF PlaceInv, LinkInv
<1> HIDE DEF d
<1>5. \A q \in redirects :
        /\ row'[q[1]].state # "absent"
        /\ q[1] \notin disturbed => row'[q[1]].state # "live"
        /\ q[2] \notin disturbed /\ q[2] # g => row'[q[2]].state = "live"
  BY <1>2, <1>4
<1>6. d # None => row'[d].state = "live"
  BY <1>1, <1>2, <1>3 DEF MayRepoint
<1>7. ASSUME NEW r \in redirects'
      PROVE  /\ row'[r[1]].state # "absent"
             /\ r[1] \notin disturbed' => row'[r[1]].state # "live"
             /\ r[2] \notin disturbed' => row'[r[2]].state = "live"
  <2>1. \/ r \in redirects /\ r[2] # g
        \/ d # None /\ r = <<g, d>>
        \/ d # None /\ \E q \in redirects : r = <<q[1], d>>
    BY <1>1, <1>7 DEF Repoint
  <2> QED
    BY <1>1, <1>2, <1>5, <1>6, <2>1
<1> QED
  BY <1>2, <1>7 DEF LinkInv

LEMMA CommitImportPlaces ==
    ASSUME PlaceInv, NEW c \in Processes, CommitImport(c)
    PROVE  Places' /\ LinkInv'
<1> DEFINE p == req[c].pack
           new == [state |-> "live",
                   archive |-> IF req[c].icy THEN "archived" ELSE "available",
                   packs |-> {p}]
<1>0. PICK g \in Games : g = req[c].game /\ req[c].op = "import"
  BY DEF CommitImport, PlaceInv, GInv, StageInv, Stages
<1>1. PICK x :
        /\ g = req[c].game
        /\ x = IF req[c].seen.state = "absent" THEN new
               ELSE [row[g] EXCEPT !.packs = @ \cup {p}]
        /\ req[c].pc = "commit" /\ req[c].op = "import"
        /\ row' = [row EXCEPT ![g] = x]
        /\ disturbed' = IF Target(c) = Home(x) THEN disturbed ELSE disturbed \cup {g}
        /\ Return(c) /\ UNCHANGED <<files, redirects>>
  BY <1>0 DEF CommitImport
<1>1a. /\ g = req[c].game /\ row' = [row EXCEPT ![g] = x]
       /\ UNCHANGED <<files, redirects>>
  BY <1>1
<1>2. /\ row[g] \in RowType /\ Recalls(c) /\ Carries(c) /\ mutex = c /\ ~ Busy(c)
      /\ row \in [Games -> RowType] /\ p \in Packs
      /\ \A h \in Games : p \notin row[h].packs
  BY <1>1 DEF PlaceInv, TrackInv, GInv, PackInv, TypeOK, StageInv, Stages, Busy
<1>3. row'[g] = x /\ \A h \in Games \ {g} : row'[h] = row[h]
  BY <1>1, <1>2
<1>4. req'[c].pc = "idle" /\ \A k \in Processes \ {c} : req'[k] = req[k]
  BY <1>1 DEF Return, Idle, PlaceInv, GInv, TypeOK
<1>5. CASE req[c].seen.state = "absent"
  <2>1. row[g].state = "absent" /\ row[g].packs = {}
    BY <1>1, <1>2, <1>5 DEF Recalls, PlaceInv, RowsInv
  <2>2. x.packs = {p} /\ x.state = "live"
    BY <1>1, <1>5
  <2>3. Amends(c, g)
    BY <1>2, <1>3, <2>1, <2>2 DEF Amends
  <2>4. ASSUME g \notin disturbed' PROVE InPlace(g)'
    <3>1. Target(c) = Home(x)
      BY <1>1, <2>4
    <3>2. files[p] = At(Target(c))
      BY <1>1, <1>2 DEF Carries
    <3>3. Home(row[g])' = Home(x)
      BY <1>3 DEF Home
    <3> QED
      BY <1>1, <1>3, <2>2, <3>1, <3>2, <3>3 DEF InPlace
  <2>5. \A h \in Games \ {g} : x.packs \cap row[h].packs = {}
    BY <1>2, <2>2
  <2>6. disturbed \subseteq disturbed'
    BY <1>1
  <2>7. Places'
    <3>1. x.state = "absent" => x.packs = {}
      BY <2>2
    <3>2. g \in disturbed' \/ InPlace(g)'
      BY <2>4
    <3> HIDE DEF p, new
    <3> QED
      BY <1>1a, <1>4, <2>3, <2>5, <2>6, <3>1, <3>2, RowStep DEF Places
  <2>8. redirects \subseteq Games \X Games
    BY DEF PlaceInv, GInv, TypeOK
  <2>9. ASSUME NEW r \in redirects
        PROVE  /\ row'[r[1]].state # "absent"
               /\ r[1] \notin disturbed' => row'[r[1]].state # "live"
               /\ r[2] \notin disturbed' => row'[r[2]].state = "live"
    <3>1. /\ row[r[1]].state # "absent"
          /\ r[1] \notin disturbed => row[r[1]].state # "live"
          /\ r[2] \notin disturbed => row[r[2]].state = "live"
      BY DEF PlaceInv, LinkInv
    <3>2. r[1] \in Games \ {g} /\ r[2] \in Games
      BY <2>1, <2>8, <3>1
    <3> QED
      BY <1>3, <2>2, <2>6, <3>1, <3>2
  <2> QED
    BY <1>1, <2>7, <2>9 DEF LinkInv
<1>6. CASE req[c].seen.state # "absent"
  <2>1. row[g].state # "absent"
    BY <1>1, <1>2, <1>6 DEF Recalls
  <2>2. x.packs = row[g].packs \cup {p} /\ x.state = row[g].state
        /\ x.archive = row[g].archive
    BY <1>1, <1>2, <1>6 DEF RowType
  <2>3. Amends(c, g)
    BY <1>2, <1>3, <2>2 DEF Amends
  <2>4. ASSUME g \notin disturbed' PROVE InPlace(g)'
    <3>1. Target(c) = Home(x) /\ g \notin disturbed
      BY <1>1, <2>4
    <3>2. files[p] = At(Target(c))
      BY <1>1, <1>2 DEF Carries
    <3>3. Home(row[g])' = Home(x) /\ Home(x) = Home(row[g])
      BY <1>3, <2>2 DEF Home
    <3>4. InPlace(g)
      BY <1>2, <3>1, OnlyMover DEF PlaceInv, CalmInv
    <3> QED
      BY <1>1, <1>3, <2>2, <3>1, <3>2, <3>3, <3>4 DEF InPlace
  <2>5. \A h \in Games \ {g} : x.packs \cap row[h].packs = {}
    BY <1>2, <2>2 DEF PlaceInv, RowsInv
  <2>6. disturbed \subseteq disturbed'
    BY <1>1
  <2>7. Places'
    <3>1. x.state = "absent" => x.packs = {}
      BY <2>1, <2>2
    <3>2. g \in disturbed' \/ InPlace(g)'
      BY <2>4
    <3> HIDE DEF p, new
    <3> QED
      BY <1>1a, <1>4, <2>3, <2>5, <2>6, <3>1, <3>2, RowStep DEF Places
  <2>8. \A h \in Games : row'[h].state = row[h].state
    BY <1>3, <2>2
  <2> QED
    BY <1>1, <2>6, <2>7, <2>8, LinksStay
<1> QED
  BY <1>5, <1>6

-----------------------------------------------------------------------------
LEMMA InitPlaceInv == Init => PlaceInv
<1> SUFFICES ASSUME Init PROVE PlaceInv
  OBVIOUS
<1>1. GInv
  BY InitGInv
<1>2. \A c \in Processes : req[c].pc = "idle"
  BY DEF Init, Idle
<1>3. TrackInv
  BY <1>2 DEF TrackInv
<1>4. row \in InitialRows /\ row \in [Games -> RowType]
  BY StoreAssumption DEF Init
<1>5. RowsInv
  BY <1>4, StoreAssumption DEF RowsInv, AbsentRow
<1>6. ASSUME NEW g \in Games PROVE InPlace(g)
  <2> SUFFICES ASSUME NEW p \in row[g].packs PROVE files[p] = At(Home(row[g]))
    BY DEF InPlace
  <2>1. p \in Packs /\ Home(row[g]) \in Dirs
    BY <1>4, HomeIsDir DEF RowType
  <2>2. \A h \in Games : p \in row[h].packs => h = g
    BY <1>5 DEF RowsInv
  <2>3. files[p] = [d \in Dirs |-> IF d = Home(row[g]) THEN "whole" ELSE "none"]
    BY <2>1, <2>2 DEF Init
  <2> QED
    BY <2>1, <2>3 DEF At, NoFiles
<1>7. CalmInv
  BY <1>6 DEF CalmInv
<1>8. LinkInv
  BY DEF Init, LinkInv
<1> QED
  BY <1>1, <1>3, <1>5, <1>7, <1>8 DEF PlaceInv

LEMMA NextPlaceInv == PlaceInv /\ [Next]_vars => PlaceInv'
<1> SUFFICES ASSUME PlaceInv, [Next]_vars PROVE PlaceInv'
  OBVIOUS
<1>1. GInv'
  BY GInvStep DEF PlaceInv
<1>2. ASSUME NEW c \in Processes, Step(c) PROVE Places' /\ LinkInv'
  BY <1>2, LockPlaces, PeekPlaces, GetGamePlaces, LinkPlaces, MarkPlaces,
     AddGameDataPlaces, CopyBeginsPlaces, CopyEndsPlaces, RemoveSourcePlaces,
     AnswerFreezePlaces, RefuseDeletePlaces, CommitRedirectPlaces,
     SaveMetadataPlaces, SaveAndMovePlaces, CommitRestorePlaces,
     CommitDeletePlaces, CommitImportPlaces DEF Step
<1>3. ASSUME UNCHANGED vars PROVE Places' /\ LinkInv'
  <2>1. /\ UNCHANGED <<row, redirects, files, disturbed>> /\ req' = req
        /\ disturbed \subseteq disturbed'
    BY <1>3 DEF vars
  <2>2. ASSUME NEW c \in Processes
        PROVE  /\ Busy(c)' = Busy(c) /\ Changed(c)' = Changed(c)
               /\ Source(c)' = Source(c) /\ Target(c)' = Target(c)
               /\ Final(c)' = Final(c)
    BY <2>1 DEF Busy, Changed, Source, Target, Final
  <2>3. ASSUME NEW c \in Processes, req'[c].pc # "idle"
        PROVE  Recalls(c)' /\ Carries(c)'
    <3>1. Recalls(c) /\ Carries(c)
      BY <2>1, <2>3 DEF PlaceInv, TrackInv
    <3>2. \A p : Placed(c, p) => Placed(c, p)'
      BY <2>1, <2>2 DEF Placed
    <3>3. Recalls(c)'
      BY <2>1, <2>2, <3>1 DEF Recalls
    <3> QED
      BY <2>1, <2>2, <3>1, <3>2, <3>3 DEF Carries
  <2>4. TrackInv'
    BY <2>3 DEF TrackInv
  <2>5. CalmInv'
    BY <2>1, <2>2 DEF PlaceInv, CalmInv, Calm, InPlace, Home
  <2>6. RowsInv'
    BY <2>1 DEF PlaceInv, RowsInv
  <2>7. LinkInv'
    BY <2>1, LinksStay
  <2> QED
    BY <2>4, <2>5, <2>6, <2>7 DEF Places
<1>4. ASSUME Next PROVE Places' /\ LinkInv'
  <2>1. ASSUME NEW c \in Clients, Begin(c) PROVE Places' /\ LinkInv'
    BY <2>1, BeginPlaces
  <2>2. ASSUME NEW c \in Processes, Fail(c) PROVE Places' /\ LinkInv'
    BY <2>2, FailPlaces
  <2> QED
    BY <1>2, <1>4, <2>1, <2>2, RestartPlaces, UnfreezerPlaces DEF Next
<1> QED
  BY <1>1, <1>3, <1>4 DEF PlaceInv, Places

\* Whenever nobody holds MetadataMutex the packs of every game that met none
\* of the events of disturbed lie where its row says and nowhere else: the
\* handlers undo each other whatever the order they are served in.
THEOREM PacksAreInPlace == Spec => []PacksInPlace
<1>1. PlaceInv => PacksInPlace
  <2> SUFFICES ASSUME PlaceInv, mutex = None, NEW g \in Games \ disturbed
               PROVE  InPlace(g)
    BY DEF PacksInPlace, InPlace, At
  <2>1. \A c \in Processes : ~ Busy(c)
    BY ProcessesAssumption DEF PlaceInv, GInv, StageInv, Stages, Busy
  <2>2. Calm(g)
    BY <2>1 DEF Calm
  <2> QED
    BY <2>2 DEF PlaceInv, CalmInv
<1> QED
  BY <1>1, InitPlaceInv, NextPlaceInv, PTL DEF Spec

\* A redirect keeps leading from a game that is not live to one that is:
\* a deletion repoints what led to its game, a restoration drops what left
\* from it, and an import only adds a game nothing leads from.
THEOREM RedirectsAreSound == Spec => []RedirectsSound
<1>1. PlaceInv => RedirectsSound
  <2> SUFFICES ASSUME PlaceInv, NEW r \in redirects, {r[1], r[2]} \cap disturbed = {}
               PROVE  MayRedirect(States, r[1], r[2])
    BY DEF RedirectsSound
  <2>1. r[1] \in Games /\ r[2] \in Games
    BY DEF PlaceInv, GInv, TypeOK
  <2> QED
    BY <2>1 DEF PlaceInv, LinkInv, MayRedirect, States
<1> QED
  BY <1>1, InitPlaceInv, NextPlaceInv, PTL DEF Spec

-----------------------------------------------------------------------------
(* An exhausted pool *)

\* Who is past its reads outside MetadataMutex still has its session.
SessionInv == \A c \in Processes :
    req[c].pc = "link" \/ (req[c].pc = "save" /\ req[c].op = "save")
        => req[c].conn

\* A step that gives process c a new place keeps the sessions of the others.
LEMMA OneSession ==
    ASSUME TypeOK, SessionInv, NEW c \in Processes, NEW r,
           req' = [req EXCEPT ![c] = r],
           r.pc = "link" \/ (r.pc = "save" /\ r.op = "save") => r.conn
    PROVE  SessionInv'
BY DEF TypeOK, SessionInv

\* An answer gives the session back.
LEMMA ReturnedSession ==
    ASSUME TypeOK, SessionInv, NEW c \in Processes, Return(c)
    PROVE  SessionInv'
BY OneSession DEF Return, Idle

\* The steps of a request that is being served.
LEMMA StepSession ==
    ASSUME TypeOK, StageInv, SessionInv, NEW c \in Processes, Step(c)
    PROVE  SessionInv'
<1>0. req[c] \in RequestType
  BY DEF TypeOK
<1>1. CASE LockMetadata(c)
  <2>1. PICK pc \in {"save", "connect"} :
          /\ req' = [req EXCEPT ![c] = [req[c] EXCEPT !.pc = pc]]
          /\ pc = "save" => req[c].op \in {"freeze", "unfreeze"}
    BY <1>0, <1>1 DEF LockMetadata, Goto, TypeOK, RequestType
  <2> QED
    BY <1>0, <2>1, OneSession DEF RequestType
<1>2. CASE PeekGame(c)
  <2>1. CASE Return(c)
    BY <2>1, ReturnedSession
  <2>2. CASE Goto(c, "connect")
    BY <1>0, <2>2 DEF Goto, SessionInv, TypeOK, RequestType
  <2> QED
    BY <1>2, <2>1, <2>2 DEF PeekGame
<1>3. CASE GetGame(c)
  <2>1. CASE Return(c)
    BY <2>1, ReturnedSession
  <2>2. CASE req' = [req EXCEPT ![c].seen = row[req[c].game],
                                ![c].conn = TRUE,
                                ![c].pc = NextAfterRead(req[c].op)]
    BY <1>0, <2>2 DEF SessionInv, TypeOK, RequestType
  <2> QED
    BY <1>3, <2>1, <2>2 DEF GetGame
<1>4. CASE AddNewGameRedirect(c)
  <2>1. CASE Return(c)
    BY <2>1, ReturnedSession
  <2>2. CASE req' = [req EXCEPT ![c].conn = TRUE, ![c].pc = "link"]
    BY <1>0, <2>2 DEF SessionInv, TypeOK, RequestType
  <2> QED
    BY <1>4, <2>1, <2>2 DEF AddNewGameRedirect
<1>5. CASE \/ SaveMetadata(c) \/ AnswerFreeze(c) \/ CommitRedirect(c)
           \/ CommitDelete(c) \/ RefuseDelete(c) \/ CommitRestore(c)
           \/ CommitImport(c)
  <2>1. Return(c)
    BY <1>5 DEF SaveMetadata, AnswerFreeze, CommitRedirect, CommitDelete,
        RefuseDelete, CommitRestore, CommitImport
  <2> QED
    BY <2>1, ReturnedSession
<1>6. CASE FreezeGame(c) \/ UnfreezeGame(c)
  BY <1>0, <1>6 DEF FreezeGame, UnfreezeGame, SaveAndMove, SessionInv, TypeOK,
      RequestType
<1>7. CASE DeleteGame(c) \/ RestoreGame(c)
  <2>1. PICK todo : req' = [req EXCEPT ![c].pc = "pick", ![c].todo = todo]
    BY <1>7 DEF DeleteGame, RestoreGame, Mark
  <2> QED
    BY <1>0, <2>1 DEF SessionInv, TypeOK, RequestType
<1>8. CASE AddGameData(c)
  BY <1>0, <1>8 DEF AddGameData, SessionInv, TypeOK, RequestType
<1>9. CASE CopyBegins(c)
  BY <1>0, <1>9 DEF CopyBegins, SessionInv, TypeOK, RequestType
<1>10. CASE CopyEnds(c)
  BY <1>0, <1>10 DEF CopyEnds, Goto, SessionInv, TypeOK, RequestType
<1>11. CASE RemoveSource(c)
  BY <1>0, <1>11 DEF RemoveSource, SessionInv, TypeOK, RequestType
<1> QED
  BY <1>1, <1>2, <1>3, <1>4, <1>5, <1>6, <1>7, <1>8, <1>9, <1>10, <1>11 DEF Step

\* A new request waits for MetadataMutex or for a session.
LEMMA BeginWaits ==
    ASSUME NEW c \in Clients, Begin(c)
    PROVE  \E r : /\ req' = [req EXCEPT ![c] = r] /\ req[c].pc = "idle"
                  /\ r.conn = FALSE /\ r.pc \in {"peek", "lock", "connect"}
                  /\ UNCHANGED <<mutex, listing>>
<1>1. PICK op \in AllOps, g \in Games, d \in Games \cup {None},
           icy \in BOOLEAN, pc \in {"peek", "lock", "connect"} :
        Serve(c, op, g, d, icy, pc)
  BY DEF AllOps, Begin, HandleDeleteGame, HandleRestoreGame, HandleFreezeGame,
      HandleUnfreezeGame, HandleGamePage, HandleGameDataEditPage,
      HandleGameImage, HandleGameRedirects, MarkAdded
<1> DEFINE r == [Idle EXCEPT !.op = op, !.game = g, !.dest = d, !.icy = icy,
                             !.pc = pc]
<1>2. r.conn = FALSE /\ r.pc = pc
  BY DEF Idle
<1>3. /\ req' = [req EXCEPT ![c] = r] /\ req[c].pc = "idle"
      /\ UNCHANGED <<mutex, listing>>
  BY <1>1 DEF Serve
<1> HIDE DEF r
<1> QED
  BY <1>2, <1>3

\* No step loses a session that is needed.
LEMMA NextSession ==
    TypeOK /\ StageInv /\ SessionInv /\ [Next]_vars => SessionInv'
<1> SUFFICES ASSUME TypeOK, StageInv, SessionInv, [Next]_vars PROVE SessionInv'
  OBVIOUS
<1>1. ASSUME NEW c \in Clients, Begin(c) PROVE SessionInv'
  <2>1. PICK r : /\ req' = [req EXCEPT ![c] = r]
                 /\ r.pc \in {"peek", "lock", "connect"}
    BY <1>1, BeginWaits
  <2> QED
    BY <2>1, OneSession
<1>2. ASSUME NEW c \in Processes, Fail(c) PROVE SessionInv'
  BY <1>2, ReturnedSession DEF Fail
<1>3. CASE Restart
  BY <1>3 DEF Restart, SessionInv, Idle
<1>4. CASE RunAutounfreezer
  <2>1. PICK g \in Due :
          req' = [req EXCEPT ![Unfreezer] =
                    [Idle EXCEPT !.op = "unfreeze", !.game = g, !.pc = "connect"]]
    BY <1>4 DEF RunAutounfreezer
  <2> DEFINE r == [Idle EXCEPT !.op = "unfreeze", !.game = g, !.pc = "connect"]
  <2>2. r.pc = "connect"
    BY DEF Idle
  <2>3. req' = [req EXCEPT ![Unfreezer] = r]
    BY <2>1
  <2> HIDE DEF r
  <2> QED
    BY <2>2, <2>3, OneSession
<1>5. CASE UNCHANGED vars
  BY <1>5 DEF vars, SessionInv
<1> QED
  BY <1>1, <1>2, <1>3, <1>4, <1>5, StepSession DEF Next

\* Nobody goes on in an exhausted pool.
LEMMA NobodySteps ==
    ASSUME TypeOK, StageInv, SessionInv, Exhausted, NEW c \in Processes
    PROVE  ~ Step(c)
<1>1. mutex # None /\ req[mutex].pc = "connect" /\ ~ (Free > 0)
  BY DEF Exhausted
<1>2. /\ req[c].pc \in {"mark", "pick", "copy", "remove", "commit"} => mutex = c
      /\ req[c].pc = "save" /\ req[c].op \in {"freeze", "unfreeze"} => mutex = c
  BY DEF StageInv, Stages
<1>3. req[c].pc \notin {"mark", "pick", "copy", "remove", "commit"}
  BY <1>1, <1>2
<1>4. req[c].pc \notin {"link", "save"}
  <2>1. req[c].pc = "save" => req[c].op \in {"freeze", "unfreeze", "save"}
    BY DEF StageInv, Stages
  <2> QED
    BY <1>1, <1>2, <2>1 DEF SessionInv, Exhausted
<1>5. ~ LockMetadata(c) /\ ~ PeekGame(c) /\ ~ GetGame(c) /\ ~ AddNewGameRedirect(c)
  BY <1>1 DEF LockMetadata, PeekGame, GetGame, AddNewGameRedirect, NewSession
<1>6. /\ ~ SaveMetadata(c) /\ ~ FreezeGame(c) /\ ~ UnfreezeGame(c)
      /\ ~ CommitRedirect(c)
  BY <1>4 DEF SaveMetadata, FreezeGame, UnfreezeGame, SaveAndMove, CommitRedirect
<1>7. /\ ~ DeleteGame(c) /\ ~ RestoreGame(c) /\ ~ AddGameData(c)
      /\ ~ CopyBegins(c) /\ ~ CopyEnds(c) /\ ~ RemoveSource(c)
      /\ ~ AnswerFreeze(c) /\ ~ CommitDelete(c) /\ ~ RefuseDelete(c)
      /\ ~ CommitRestore(c) /\ ~ CommitImport(c)
  BY <1>3 DEF DeleteGame, RestoreGame, Mark, AddGameData, CopyBegins, CopyEnds,
      RemoveSource, AnswerFreeze, CommitDelete, RefuseDelete, CommitRestore,
      CommitImport
<1> QED
  BY <1>5, <1>6, <1>7 DEF Step

\* Whatever the size of the pool and the number of requests, an exhausted pool
\* stays exhausted, however many requests still arrive, until a call fails (a
\* client that gives up is one), or the server stops: the waiters are waiting
\* for each other.
THEOREM ExhaustedForGood ==
    Spec => [][Exhausted => Exhausted' \/ failures' # failures]_vars
<1> DEFINE Inv == TypeOK /\ StageInv /\ SessionInv
<1>1. Init => Inv
  BY InitGInv DEF GInv, Init, SessionInv, Idle
<1>2. Inv /\ [Next]_vars => Inv'
  BY TypedSteps, NextSession
<1>3. Inv /\ [Next]_vars => [Exhausted => Exhausted' \/ failures' # failures]_vars
  <2> SUFFICES ASSUME Inv, Next, Exhausted, failures' = failures
               PROVE  Exhausted'
    OBVIOUS
  <2>1. ~ (Free > 0) /\ failures \in Nat
    BY DEF Exhausted, TypeOK
  <2>2. ~ Restart /\ ~ RunAutounfreezer
    <3>1. ~ Restart
      BY <2>1 DEF Restart
    <3>2. ~ RunAutounfreezer
      BY <2>1 DEF RunAutounfreezer
    <3> QED
      BY <3>1, <3>2
  <2>3. \A c \in Processes : ~ Step(c) /\ ~ Fail(c)
    BY <2>1, NobodySteps DEF Fail
  <2>4. PICK c \in Clients : Begin(c)
    BY <2>2, <2>3 DEF Next
  <2>5. PICK r : /\ req' = [req EXCEPT ![c] = r] /\ req[c].pc = "idle"
                 /\ r.conn = FALSE /\ r.pc \in {"peek", "lock", "connect"}
                 /\ UNCHANGED <<mutex, listing>>
    BY <2>4, BeginWaits
  <2>6. /\ req'[c] = r
        /\ \A k \in Processes \ {c} : req'[k] = req[k]
    BY <2>5 DEF TypeOK
  <2>7. req[c].conn = FALSE
    BY <2>5 DEF Exhausted, TypeOK, RequestType
  <2>8. \A k \in Processes : req'[k].conn = req[k].conn
    BY <2>5, <2>6, <2>7
  <2>9. {k \in Processes : req'[k].conn} = {k \in Processes : req[k].conn}
    BY <2>8
  <2>10. Free' = Free
    BY <2>5, <2>9 DEF Free
  <2>11. mutex' # None /\ req'[mutex'].pc = "connect"
    BY <2>5, <2>6 DEF Exhausted, TypeOK
  <2>12. \A k \in Processes : req'[k].conn => req'[k].pc = "lock"
    BY <2>5, <2>6 DEF Exhausted
  <2> QED
    BY <2>10, <2>11, <2>12 DEF Exhausted
<1> HIDE DEF Inv
<1> QED
  BY <1>1, <1>2, <1>3, PTL DEF Spec
=============================================================================

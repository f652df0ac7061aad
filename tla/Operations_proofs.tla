------------------------- MODULE Operations_proofs -------------------------
(***************************************************************************)
(* Theorems about what people are shown and sent (the maintenance mode in  *)
(* the rooms of the WebSocket server, the files of the entities, the       *)
(* answer sheets of events), and about the instances that compose all      *)
(* components.                                                             *)
(***************************************************************************)
EXTENDS MCOperations, Members_proofs, Money_proofs, Catalogue_proofs, People_proofs,
        FiniteSetTheorems, TLAPS
-----------------------------------------------------------------------------
(***************************************************************************)
(* The maintenance mode, on every client of every worker.                  *)
(***************************************************************************)

LEMMA RoomInitType == RoomInit => RoomTypeOK
BY DEF RoomInit, RoomTypeOK, RoomTask, Modes

LEMMA RoomGoes ==
  ASSUME RoomTypeOK, NEW h \in Handlers, NEW task \in RoomTask, RoomGo(h, task)
  PROVE  /\ roomTask' \in [Handlers -> RoomTask] /\ roomTask'[h] = task
         /\ \A g \in Handlers \ {h} : roomTask'[g] = roomTask[g]
BY DEF RoomTypeOK, RoomGo

LEMMA RoomTaskOf ==
  ASSUME RoomTypeOK, NEW h \in Handlers
  PROVE  /\ RoomAt(h, "read") => roomTask[h] \in [pc : {"read"}, worker : Workers]
         /\ RoomAt(h, "save") \/ RoomAt(h, "emit") =>
              roomTask[h] \in [pc : {"save", "emit"}, worker : Workers, value : Modes]
         /\ RoomAt(h, "idle") <=> roomTask[h] = Idle
BY DEF RoomTypeOK, RoomTask, RoomAt, Idle

\* What the steps of a request make of it.
LEMMA RoomTasks ==
  ASSUME RoomTypeOK, NEW h \in Handlers
  PROVE  /\ \A w \in Workers, value \in Modes : SetMode(h, w, value) =>
              roomTask'[h] = [pc |-> "save", worker |-> w, value |-> value] /\ roomTask' \in [Handlers -> RoomTask]
         /\ \A c \in Clients, w \in Workers : JoinRoom(h, c, w) =>
              roomTask'[h] = [pc |-> "read", worker |-> w] /\ roomTask' \in [Handlers -> RoomTask]
         /\ SaveMode(h) =>
              /\ roomTask[h].value \in Modes /\ roomTask' \in [Handlers -> RoomTask]
              /\ roomTask'[h].pc = "emit" /\ roomTask'[h].value = roomTask[h].value
         /\ ReadMode(h) =>
              /\ roomTask' \in [Handlers -> RoomTask] /\ roomTask[h].worker \in Workers
              /\ roomTask'[h].pc = "emit" /\ roomTask'[h].value = mode
         /\ EmitMode(h) =>
              /\ roomTask[h].value \in Modes
              /\ roomTask'[h] = Idle /\ roomTask' \in [Handlers -> RoomTask]
<1>1. ASSUME NEW w \in Workers, NEW value \in Modes, SetMode(h, w, value)
      PROVE  roomTask'[h] = [pc |-> "save", worker |-> w, value |-> value] /\ roomTask' \in [Handlers -> RoomTask]
  <2>1. [pc |-> "save", worker |-> w, value |-> value] \in RoomTask
    BY DEF RoomTask
  <2> QED BY <1>1, <2>1, RoomGoes DEF SetMode
<1>2. ASSUME NEW c \in Clients, NEW w \in Workers, JoinRoom(h, c, w)
      PROVE  roomTask'[h] = [pc |-> "read", worker |-> w] /\ roomTask' \in [Handlers -> RoomTask]
  <2>1. [pc |-> "read", worker |-> w] \in RoomTask
    BY DEF RoomTask
  <2> QED BY <1>2, <2>1, RoomGoes DEF JoinRoom
<1>3. ASSUME SaveMode(h)
      PROVE  /\ roomTask[h].value \in Modes /\ roomTask' \in [Handlers -> RoomTask]
             /\ roomTask'[h].pc = "emit" /\ roomTask'[h].value = roomTask[h].value
  <2> DEFINE task == [roomTask[h] EXCEPT !.pc = "emit"]
  <2>1. roomTask[h] \in [pc : {"save", "emit"}, worker : Workers, value : Modes]
    BY <1>3, RoomTaskOf DEF SaveMode
  <2>2. task \in RoomTask /\ task.pc = "emit" /\ task.value = roomTask[h].value
    BY <2>1 DEF RoomTask
  <2>3. RoomGo(h, task)
    BY <1>3 DEF SaveMode
  <2> HIDE DEF task
  <2> QED BY <2>1, <2>2, <2>3, RoomGoes
<1>4. ASSUME ReadMode(h)
      PROVE  /\ roomTask' \in [Handlers -> RoomTask] /\ roomTask[h].worker \in Workers
             /\ roomTask'[h].pc = "emit" /\ roomTask'[h].value = mode
  <2> DEFINE task == [pc |-> "emit", worker |-> roomTask[h].worker, value |-> mode]
  <2>1. roomTask[h].worker \in Workers
    BY <1>4, RoomTaskOf DEF ReadMode
  <2>2. task \in RoomTask /\ task.pc = "emit" /\ task.value = mode
    BY <2>1 DEF RoomTask, RoomTypeOK
  <2>3. RoomGo(h, task)
    BY <1>4 DEF ReadMode
  <2> HIDE DEF task
  <2> QED BY <2>1, <2>2, <2>3, RoomGoes
<1>5. ASSUME EmitMode(h)
      PROVE  /\ roomTask[h].value \in Modes
             /\ roomTask'[h] = Idle /\ roomTask' \in [Handlers -> RoomTask]
  <2>1. Idle \in RoomTask
    BY DEF RoomTask
  <2>2. roomTask[h].value \in Modes
    BY <1>5, RoomTaskOf DEF EmitMode
  <2> QED BY <1>5, <2>1, <2>2, RoomGoes DEF EmitMode
<1> QED BY <1>1, <1>2, <1>3, <1>4, <1>5

LEMMA RestartTasks ==
  ASSUME RoomTypeOK, NEW w \in Workers, RestartWorker(w)
  PROVE  RoomTypeOK'
<1>1. roomTask' \in [Handlers -> RoomTask]
  <2>1. Idle \in RoomTask
    BY DEF RoomTask
  <2> QED BY <2>1 DEF RestartWorker, RoomTypeOK
<1>2. /\ cached' = [cached EXCEPT ![w] = mode]
      /\ connected' = [c \in Clients |-> IF connected[c] = w THEN Nowhere ELSE connected[c]]
      /\ UNCHANGED <<mode, shown>>
  BY DEF RestartWorker
<1>3. connected' \in [Clients -> Workers \cup {Nowhere}]
  BY <1>2 DEF RoomTypeOK
<1> QED BY <1>1, <1>2, <1>3 DEF RoomTypeOK

LEMMA RoomStepType == RoomTypeOK /\ RoomStep => RoomTypeOK'
<1> SUFFICES ASSUME RoomTypeOK, RoomStep PROVE RoomTypeOK'
  OBVIOUS
<1>1. ASSUME NEW c \in Clients, LeaveRoom(c) PROVE RoomTypeOK'
  BY <1>1 DEF LeaveRoom, RoomTypeOK
<1>2. ASSUME NEW h \in Handlers, SaveMode(h) PROVE RoomTypeOK'
  BY <1>2, RoomTasks DEF SaveMode, RoomTypeOK
<1>3. ASSUME NEW h \in Handlers, ReadMode(h) PROVE RoomTypeOK'
  <2>1. roomTask' \in [Handlers -> RoomTask] /\ roomTask[h].worker \in Workers
    BY <1>3, RoomTasks
  <2> QED BY <1>3, <2>1 DEF ReadMode, RoomTypeOK
<1>4. ASSUME NEW h \in Handlers, EmitMode(h) PROVE RoomTypeOK'
  <2>1. roomTask' \in [Handlers -> RoomTask] /\ roomTask[h].value \in Modes
    BY <1>4, RoomTasks
  <2>2. [c \in Clients |-> IF InRoom(c) THEN roomTask[h].value ELSE shown[c]] \in [Clients -> Modes \cup {"unknown"}]
    BY <2>1 DEF RoomTypeOK
  <2> QED BY <1>4, <2>1, <2>2 DEF EmitMode, RoomTypeOK
<1>5. ASSUME NEW h \in Handlers, NEW w \in Workers, NEW value \in Modes, SetMode(h, w, value) PROVE RoomTypeOK'
  BY <1>5, RoomTasks DEF SetMode, RoomTypeOK
<1>6. ASSUME NEW h \in Handlers, NEW c \in Clients, NEW w \in Workers, JoinRoom(h, c, w) PROVE RoomTypeOK'
  <2>1. roomTask' \in [Handlers -> RoomTask]
    BY <1>6, RoomTasks
  <2>2. /\ connected' = [connected EXCEPT ![c] = w]
        /\ shown' = shown \/ shown' = [shown EXCEPT ![c] = "unknown"]
        /\ UNCHANGED <<mode, cached>>
    BY <1>6 DEF JoinRoom
  <2> QED BY <2>1, <2>2 DEF RoomTypeOK
<1> QED BY <1>1, <1>2, <1>3, <1>4, <1>5, <1>6 DEF RoomStep

LEMMA RoomTypeNext == RoomTypeOK /\ [RoomNext]_roomVars => RoomTypeOK'
<1>1. RoomTypeOK /\ UNCHANGED roomVars => RoomTypeOK'
  BY DEF roomVars, RoomTypeOK
<1> QED BY <1>1, RoomStepType, RestartTasks DEF RoomNext

(***************************************************************************)
(* Every reachable state of the model of the room is well typed.           *)
(***************************************************************************)
THEOREM RoomTypeCorrect == RoomSpec => []RoomTypeOK
BY RoomInitType, RoomTypeNext, PTL DEF RoomSpec
-----------------------------------------------------------------------------
(***************************************************************************)
(* What a request is about to tell the room is the mode of the database,   *)
(* and without a request everybody in the room has been told.              *)
(***************************************************************************)
RoomInv ==
  /\ RoomTypeOK /\ ModeIsShown
  /\ \A h \in Handlers : RoomAt(h, "emit") => roomTask[h].value = mode

LEMMA RoomInitInv == RoomInit => RoomInv
<1> SUFFICES ASSUME RoomInit PROVE RoomInv
  OBVIOUS
<1>1. RoomTypeOK
  BY RoomInitType
<1> QED BY <1>1 DEF RoomInit, RoomInv, RoomAt, Idle, ModeIsShown, InRoom

LEMMA RoomQuietInv ==
  ASSUME RoomInv, \A g, h \in Handlers : g = h, [RoomQuietNext]_roomVars
  PROVE  RoomInv'
<1>1. RoomTypeOK /\ RoomTypeOK'
  BY RoomTypeNext DEF RoomInv, RoomQuietNext, RoomNext, RestartIdle
<1>2. ASSUME NEW h \in Handlers, roomTask'[h].pc \in {"save", "read"} PROVE RoomInv'
  BY <1>1, <1>2 DEF RoomInv, ModeIsShown, RoomAt
<1>3. ASSUME NEW h \in Handlers, roomTask'[h].pc = "emit", roomTask'[h].value = mode' PROVE RoomInv'
  BY <1>1, <1>3 DEF RoomInv, ModeIsShown, RoomAt
<1>4. ASSUME NEW h \in Handlers, NEW w \in Workers, NEW value \in Modes, SetMode(h, w, value) PROVE RoomInv'
  <2>1. roomTask'[h] = [pc |-> "save", worker |-> w, value |-> value]
    BY <1>1, <1>4, RoomTasks
  <2> QED BY <1>2, <2>1
<1>5. ASSUME NEW h \in Handlers, NEW c \in Clients, NEW w \in Workers, JoinRoom(h, c, w) PROVE RoomInv'
  <2>1. roomTask'[h] = [pc |-> "read", worker |-> w]
    BY <1>1, <1>5, RoomTasks
  <2> QED BY <1>2, <2>1
<1>6. ASSUME NEW h \in Handlers, SaveMode(h) PROVE RoomInv'
  <2>1. roomTask'[h].pc = "emit" /\ roomTask'[h].value = mode'
    BY <1>1, <1>6, RoomTasks DEF SaveMode
  <2> QED BY <1>3, <2>1
<1>7. ASSUME NEW h \in Handlers, ReadMode(h) PROVE RoomInv'
  <2>1. roomTask'[h].pc = "emit" /\ roomTask'[h].value = mode'
    BY <1>1, <1>7, RoomTasks DEF ReadMode
  <2> QED BY <1>3, <2>1
<1>8. ASSUME NEW h \in Handlers, EmitMode(h) PROVE RoomInv'
  <2>1. /\ roomTask'[h] = Idle /\ roomTask[h].value = mode /\ UNCHANGED <<mode, connected>>
        /\ shown' = [c \in Clients |-> IF InRoom(c) THEN roomTask[h].value ELSE shown[c]]
    BY <1>1, <1>8, RoomTasks DEF EmitMode, RoomInv
  <2> QED BY <1>1, <2>1 DEF RoomInv, ModeIsShown, RoomAt, Idle, InRoom
<1>9. ASSUME NEW c \in Clients, LeaveRoom(c) PROVE RoomInv'
  <2>1. /\ connected' = [connected EXCEPT ![c] = Nowhere] /\ UNCHANGED <<mode, shown, roomTask>>
        /\ connected \in [Clients -> Workers \cup {Nowhere}]
    BY <1>1, <1>9 DEF LeaveRoom, RoomTypeOK
  <2>2. \A d \in Clients : InRoom(d)' => InRoom(d)
    BY <2>1 DEF InRoom
  <2> QED BY <1>1, <2>1, <2>2 DEF RoomInv, ModeIsShown, RoomAt
<1>10. ASSUME NEW w \in Workers, RestartIdle(w) PROVE RoomInv'
  <2>1. /\ connected' = [c \in Clients |-> IF connected[c] = w THEN Nowhere ELSE connected[c]]
        /\ UNCHANGED <<mode, shown>> /\ roomTask' = [h \in Handlers |-> roomTask[h]]
    BY <1>10 DEF RestartIdle, RestartWorker
  <2>2. \A d \in Clients : InRoom(d)' => InRoom(d)
    BY <2>1 DEF InRoom
  <2> QED BY <1>1, <2>1, <2>2 DEF RoomInv, ModeIsShown, RoomAt
<1>11. CASE UNCHANGED roomVars
  BY <1>1, <1>11 DEF roomVars, RoomInv, ModeIsShown, RoomAt, InRoom
<1> QED BY <1>4, <1>5, <1>6, <1>7, <1>8, <1>9, <1>10, <1>11 DEF RoomQuietNext, RoomStep

(***************************************************************************)
(* For any number of workers and clients, one request at a time and no     *)
(* worker restarting in the middle of one: when no request is in progress, *)
(* every client in the room has been told the mode the database holds.     *)
(***************************************************************************)
THEOREM ModeIsShownAlways ==
  ASSUME \A g, h \in Handlers : g = h
  PROVE  RoomInit /\ [][RoomQuietNext]_roomVars => []ModeIsShown
<1>1. RoomInv /\ [RoomQuietNext]_roomVars => RoomInv'
  BY RoomQuietInv
<1>2. RoomInv => ModeIsShown
  BY DEF RoomInv
<1> QED BY <1>1, <1>2, RoomInitInv, PTL
-----------------------------------------------------------------------------
(***************************************************************************)
(* Ids are given in order, so the next one was never given.                *)
(***************************************************************************)
LEMMA CountUpTo ==
  ASSUME NEW n \in 0 .. MaxUploads, NEW S, S = {f \in FileIds : f <= n}
  PROVE  Cardinality(S) = n
<1>1. S = 1 .. n
  BY FilesAssumption DEF FileIds
<1>2. n \in Nat
  BY FilesAssumption
<1>3. Cardinality(1 .. n) = IF 1 > n THEN 0 ELSE n - 1 + 1
  BY <1>2, FS_Interval
<1>4. Cardinality(1 .. n) = n
  BY <1>2, <1>3
<1> QED BY <1>1, <1>4

LEMMA NextIds ==
  /\ NextRow \in Nat \ {0} /\ NextFile \in Nat \ {0}
  /\ NextRow <= MaxUploads => NextRow \in FileIds
  /\ NextFile <= MaxUploads => NextFile \in FileIds
<1>1. IsFiniteSet(FileIds)
  BY FilesAssumption, FS_Interval DEF FileIds
<1>2. ASSUME NEW S \in SUBSET FileIds PROVE Cardinality(S) \in Nat
  BY <1>1, FS_Subset, FS_CardinalityType
<1>3. Cardinality({f \in FileIds : fileRow[f].state # "unused"}) \in Nat
  BY <1>2
<1>4. Cardinality({f \in FileIds : disk[f] # Unwritten}) \in Nat
  BY <1>2
<1> QED BY <1>3, <1>4, FilesAssumption DEF NextRow, NextFile, FileIds

-----------------------------------------------------------------------------
(***************************************************************************)
(* Types.                                                                  *)
(***************************************************************************)
FilePhases == {"check", "render", "hash", "insert", "write", "locate", "name", "link",
               "unlink", "unstore", "unrow", "delete"}

Contents == {0} \cup Versions

FileRequest ==
  [pc : FilePhases, row : 0 .. MaxUploads, old : FileRows, fresh : BOOLEAN, shows : Versions,
   content : Contents, hash : Contents, file : 0 .. MaxUploads]

LEMMA FileTaskIs == FileTask = {Idle} \cup FileRequest
BY DEF FileTask, FileRequest, FilePhases, Contents

LEMMA FileRequestOf ==
  ASSUME FilesTypeOK, NEW h \in Handlers, ~ FileAt(h, "idle")
  PROVE  fileTask[h] \in FileRequest
<1>1. fileTask[h] \in {Idle} \cup FileRequest
  BY FileTaskIs DEF FilesTypeOK
<1> QED BY <1>1 DEF FileAt, Idle

LEMMA FileGoes ==
  ASSUME FilesTypeOK, NEW h \in Handlers, NEW task, task = Idle \/ task \in FileRequest, FileGo(h, task)
  PROVE  /\ fileTask' \in [Handlers -> FileTask] /\ fileTask'[h] = task
         /\ \A g \in Handlers \ {h} : fileTask'[g] = fileTask[g]
BY FileTaskIs DEF FilesTypeOK, FileGo

\* The request of h goes to another phase, with this row, content, hash and file.
FileNext(h, pc, row, content, hash, file) ==
  /\ fileTask[h] \in FileRequest /\ fileTask' \in [Handlers -> FileTask]
  /\ fileTask'[h] \in FileRequest /\ fileTask'[h].pc = pc /\ fileTask'[h].row = row
  /\ fileTask'[h].content = content /\ fileTask'[h].hash = hash /\ fileTask'[h].file = file
  /\ fileTask'[h].old = fileTask[h].old /\ fileTask'[h].fresh = fileTask[h].fresh
  /\ fileTask'[h].shows = fileTask[h].shows
  /\ \A g \in Handlers \ {h} : fileTask'[g] = fileTask[g]

LEMMA FileGoesTo ==
  ASSUME FilesTypeOK, NEW h \in Handlers, ~ FileAt(h, "idle"), NEW pc \in FilePhases,
         NEW row \in 0 .. MaxUploads, NEW content \in Contents, NEW hash \in Contents, NEW file \in 0 .. MaxUploads,
         FileGo(h, [fileTask[h] EXCEPT !.pc = pc, !.row = row, !.content = content, !.hash = hash, !.file = file])
  PROVE  FileNext(h, pc, row, content, hash, file)
<1> DEFINE task == [fileTask[h] EXCEPT !.pc = pc, !.row = row, !.content = content, !.hash = hash, !.file = file]
<1>1. fileTask[h] \in FileRequest
  BY FileRequestOf
<1>2. /\ task \in FileRequest /\ task.pc = pc /\ task.row = row
      /\ task.content = content /\ task.hash = hash /\ task.file = file
      /\ task.old = fileTask[h].old /\ task.fresh = fileTask[h].fresh /\ task.shows = fileTask[h].shows
  BY <1>1 DEF FileRequest
<1>3. FileGo(h, task)
  OBVIOUS
<1> HIDE DEF task
<1> QED BY <1>1, <1>2, <1>3, FileGoes DEF FileNext

(***************************************************************************)
(* What each step makes of the request at hand.                            *)
(***************************************************************************)
Loaded(task, pc, content) ==
  /\ task \in FileRequest /\ task.pc = pc /\ task.row = fileLink /\ (task.fresh <=> fileLink = 0)
  /\ task.old = (IF fileLink = 0 THEN NoFile ELSE fileRow[fileLink])
  /\ task.shows = shows /\ task.content = content /\ task.hash = 0 /\ task.file = 0

LEMMA LoadGoes ==
  ASSUME FilesTypeOK, NEW h \in Handlers, NEW pc \in FilePhases, NEW content \in Contents,
         LoadEntity(h, pc, content)
  PROVE  /\ fileTask' \in [Handlers -> FileTask] /\ Loaded(fileTask'[h], pc, content)
         /\ \A g \in Handlers \ {h} : fileTask'[g] = fileTask[g]
<1> DEFINE old == IF fileLink = 0 THEN NoFile ELSE fileRow[fileLink]
           fresh == fileLink = 0
           task == [pc |-> pc, row |-> fileLink, fresh |-> fresh, old |-> old,
                    shows |-> shows, content |-> content, hash |-> 0, file |-> 0]
<1>1. old \in FileRows
  BY FilesAssumption DEF FilesTypeOK, FileRows, NoFile, FileIds
<1>2. fresh \in BOOLEAN /\ (fresh <=> fileLink = 0)
  OBVIOUS
<1>3. FileGo(h, task)
  BY DEF LoadEntity
<1> HIDE DEF fresh
<1>4. task \in FileRequest /\ task.fresh = fresh /\ task.old = old /\ task.pc = pc /\ task.row = fileLink
        /\ task.shows = shows /\ task.content = content /\ task.hash = 0 /\ task.file = 0
  <2> HIDE DEF old
  <2> QED BY <1>1, <1>2, FilesAssumption DEF FileRequest, FilesTypeOK, Contents
<1>5. old = IF fileLink = 0 THEN NoFile ELSE fileRow[fileLink]
  OBVIOUS
<1> HIDE DEF task, old
<1> QED BY <1>2, <1>3, <1>4, <1>5, FileGoes DEF Loaded

FileStops(h) ==
  /\ fileTask[h] \in FileRequest
  /\ fileTask' \in [Handlers -> FileTask] /\ fileTask'[h] = Idle
  /\ \A g \in Handlers \ {h} : fileTask'[g] = fileTask[g]

LEMMA FileStopsBy ==
  ASSUME FilesTypeOK, NEW h \in Handlers, ~ FileAt(h, "idle"), FileGo(h, Idle)
  PROVE  FileStops(h)
BY FileGoes, FileRequestOf DEF FileStops

LEMMA ParametersType ==
  ASSUME FilesTypeOK, NEW task \in FileRequest
  PROVE  Parameters(task) \in Versions
BY DEF Parameters, FilesTypeOK, FileRequest

\* Each step is of this form.
LEMMA FileSteps ==
  ASSUME FilesTypeOK, NEW h \in Handlers
  PROVE  /\ RenderPdf(h) => FileNext(h, "hash", fileTask[h].row, Parameters(fileTask[h]), fileTask[h].hash, fileTask[h].file)
         /\ HashPdf(h) => FileNext(h, IF fileTask[h].fresh THEN "insert" ELSE "write", fileTask[h].row,
                                   fileTask[h].content, Parameters(fileTask[h]), fileTask[h].file)
         /\ InsertFile(h) => FileNext(h, "write", NextRow, fileTask[h].content, fileTask[h].hash, fileTask[h].file)
         /\ WriteFile(h) => FileNext(h, "locate", fileTask[h].row, fileTask[h].content, fileTask[h].hash, NextFile)
         /\ SaveLocation(h) => FileNext(h, "name", fileTask[h].row, fileTask[h].content, fileTask[h].hash, fileTask[h].file)
         /\ SaveName(h) => FileNext(h, "link", fileTask[h].row, fileTask[h].content, fileTask[h].hash, fileTask[h].file)
         /\ UnlinkFile(h) => FileNext(h, "unstore", fileTask[h].row, fileTask[h].content, fileTask[h].hash, fileTask[h].file)
         /\ RemoveStored(h) => FileNext(h, "unrow", fileTask[h].row, fileTask[h].content, fileTask[h].hash, fileTask[h].file)
         /\ RemoveFileRow(h) => FileNext(h, "delete", fileTask[h].row, fileTask[h].content, fileTask[h].hash, fileTask[h].file)
         /\ CheckPdf(h) =>
              \/ FileNext(h, "render", fileTask[h].row, fileTask[h].content, fileTask[h].hash, fileTask[h].file)
                   /\ UNCHANGED answered
              \/ /\ FileStops(h) /\ fileTask[h].row # 0 /\ Fits(fileTask[h].old, Parameters(fileTask[h]))
                 /\ answered' = IF OnDisk(fileTask[h].old.location) THEN disk[fileTask[h].old.location] ELSE 0
         /\ LinkFile(h) \/ RemoveBanner(h) \/ RenderFails(h) \/ FileFails(h) \/ CreateFails(h) => FileStops(h)
<1> DEFINE task == fileTask[h]
<1>1. LinkFile(h) \/ RemoveBanner(h) \/ RenderFails(h) \/ FileFails(h) \/ CreateFails(h) => FileStops(h)
  BY FileStopsBy DEF LinkFile, RemoveBanner, RenderFails, FileFails, CreateFails, FileAt
<1>2. CASE FileAt(h, "idle")
  BY <1>1, <1>2 DEF FileAt, RenderPdf, HashPdf, InsertFile, WriteFile, SaveLocation, SaveName, UnlinkFile,
     RemoveStored, RemoveFileRow, CheckPdf
<1>3. CASE ~ FileAt(h, "idle")
  <2>1. task \in FileRequest
    BY <1>3, FileRequestOf
  <2>2. task.row \in 0 .. MaxUploads /\ task.content \in Contents /\ task.hash \in Contents /\ task.file \in 0 .. MaxUploads
    BY <2>1 DEF FileRequest
  <2>3. Parameters(task) \in Contents
    BY <2>1, ParametersType DEF Contents
  <2>4. ASSUME NEW pc \in FilePhases, FileGo(h, [task EXCEPT !.pc = pc])
        PROVE  FileNext(h, pc, task.row, task.content, task.hash, task.file)
    <3>1. [task EXCEPT !.pc = pc] = [task EXCEPT !.pc = pc, !.row = task.row, !.content = task.content,
                                                 !.hash = task.hash, !.file = task.file]
      BY <2>1 DEF FileRequest
    <3>2. FileGo(h, [task EXCEPT !.pc = pc, !.row = task.row, !.content = task.content,
                                 !.hash = task.hash, !.file = task.file])
      BY <2>4, <3>1
    <3> QED BY <1>3, <2>2, <3>2, FileGoesTo
  <2>5. ASSUME RenderPdf(h)
        PROVE  FileNext(h, "hash", task.row, Parameters(task), task.hash, task.file)
    <3> DEFINE content == Parameters(task)
    <3>1. FileGo(h, [task EXCEPT !.content = content, !.pc = "hash"])
      BY <2>5 DEF RenderPdf
    <3> HIDE DEF content
    <3>2. [task EXCEPT !.content = content, !.pc = "hash"]
            = [task EXCEPT !.pc = "hash", !.row = task.row, !.content = content, !.hash = task.hash, !.file = task.file]
      BY <2>1 DEF FileRequest
    <3>3. FileGo(h, [task EXCEPT !.pc = "hash", !.row = task.row, !.content = content, !.hash = task.hash, !.file = task.file])
      BY <3>1, <3>2
    <3>4. "hash" \in FilePhases /\ content \in Contents
      BY <2>3 DEF FilePhases, content
    <3>5. FileNext(h, "hash", task.row, content, task.hash, task.file)
      BY <1>3, <2>2, <3>3, <3>4, FileGoesTo
    <3> QED BY <3>5 DEF content
  <2>6. ASSUME HashPdf(h)
        PROVE  FileNext(h, IF task.fresh THEN "insert" ELSE "write", task.row, task.content, Parameters(task), task.file)
    <3> DEFINE hash == Parameters(task)
               pc == IF task.fresh THEN "insert" ELSE "write"
    <3>1. FileGo(h, [task EXCEPT !.hash = hash, !.pc = pc])
      BY <2>6 DEF HashPdf
    <3>2. pc \in FilePhases /\ hash \in Contents
      BY <2>3 DEF FilePhases
    <3> HIDE DEF hash, pc
    <3>3. [task EXCEPT !.hash = hash, !.pc = pc]
            = [task EXCEPT !.pc = pc, !.row = task.row, !.content = task.content, !.hash = hash, !.file = task.file]
      BY <2>1 DEF FileRequest
    <3>4. FileGo(h, [task EXCEPT !.pc = pc, !.row = task.row, !.content = task.content, !.hash = hash, !.file = task.file])
      BY <3>1, <3>3
    <3>5. FileNext(h, pc, task.row, task.content, hash, task.file)
      BY <1>3, <2>2, <3>2, <3>4, FileGoesTo
    <3> QED BY <3>5 DEF hash, pc
  <2>7. ASSUME InsertFile(h)
        PROVE  FileNext(h, "write", NextRow, task.content, task.hash, task.file)
    <3>1. FileGo(h, [task EXCEPT !.pc = "write", !.row = NextRow]) /\ NextRow <= MaxUploads
      BY <2>7 DEF InsertFile
    <3>2. NextRow \in 0 .. MaxUploads /\ "write" \in FilePhases
      BY <3>1, NextIds, FilesAssumption DEF FilePhases
    <3>3. [task EXCEPT !.pc = "write", !.row = NextRow]
            = [task EXCEPT !.pc = "write", !.row = NextRow, !.content = task.content, !.hash = task.hash, !.file = task.file]
      BY <2>1 DEF FileRequest
    <3>4. FileGo(h, [task EXCEPT !.pc = "write", !.row = NextRow, !.content = task.content,
                                 !.hash = task.hash, !.file = task.file])
      BY <3>1, <3>3
    <3> QED BY <1>3, <2>2, <3>2, <3>4, FileGoesTo
  <2>8. ASSUME WriteFile(h)
        PROVE  FileNext(h, "locate", task.row, task.content, task.hash, NextFile)
    <3>1. FileGo(h, [task EXCEPT !.pc = "locate", !.file = NextFile]) /\ NextFile <= MaxUploads
      BY <2>8 DEF WriteFile
    <3>2. NextFile \in 0 .. MaxUploads /\ "locate" \in FilePhases
      BY <3>1, NextIds, FilesAssumption DEF FilePhases
    <3>3. [task EXCEPT !.pc = "locate", !.file = NextFile]
            = [task EXCEPT !.pc = "locate", !.row = task.row, !.content = task.content, !.hash = task.hash, !.file = NextFile]
      BY <2>1 DEF FileRequest
    <3>4. FileGo(h, [task EXCEPT !.pc = "locate", !.row = task.row, !.content = task.content,
                                 !.hash = task.hash, !.file = NextFile])
      BY <3>1, <3>3
    <3> QED BY <1>3, <2>2, <3>2, <3>4, FileGoesTo
  <2>9. ASSUME CheckPdf(h)
        PROVE  \/ FileNext(h, "render", task.row, task.content, task.hash, task.file) /\ UNCHANGED answered
               \/ /\ FileStops(h) /\ task.row # 0 /\ Fits(task.old, Parameters(task))
                  /\ answered' = IF OnDisk(task.old.location) THEN disk[task.old.location] ELSE 0
    BY <1>3, <2>4, <2>9, FileStopsBy DEF CheckPdf, FilePhases
  <2> QED BY <1>1, <2>4, <2>5, <2>6, <2>7, <2>8, <2>9 DEF SaveLocation, SaveName, UnlinkFile, RemoveStored,
          RemoveFileRow, FilePhases
<1> QED BY <1>2, <1>3

LEMMA FilesInitType == FilesInit => FilesTypeOK
<1> SUFFICES ASSUME FilesInit PROVE FilesTypeOK
  OBVIOUS
<1>1. shows \in Versions
  BY FilesAssumption DEF FilesInit
<1>2. NoFile \in FileRows
  BY FilesAssumption DEF NoFile, FileRows
<1> QED BY <1>1, <1>2, FilesAssumption DEF FilesInit, FilesTypeOK, FileTask

\* A change of one row, of an id or of none.
LEMMA RowChanges ==
  ASSUME FilesTypeOK, NEW f, NEW row \in FileRows
  PROVE  /\ [fileRow EXCEPT ![f] = row] \in [FileIds -> FileRows]
         /\ \A g \in FileIds : [fileRow EXCEPT ![f] = row][g] = IF g = f THEN row ELSE fileRow[g]
BY DEF FilesTypeOK

LEMMA WithoutIs ==
  ASSUME FilesTypeOK, NEW location
  PROVE  /\ Without(location) \in [FileIds -> {Unwritten, Erased} \cup Versions]
         /\ \A f \in FileIds : Without(location)[f] = IF f = location /\ OnDisk(location) THEN Erased ELSE disk[f]
BY DEF Without, FilesTypeOK

LEMMA WrittenIs ==
  ASSUME FilesTypeOK, NEW location, NEW f \in FileIds, NEW content \in Contents
  PROVE  /\ [Without(location) EXCEPT ![f] = content] \in [FileIds -> {Unwritten, Erased} \cup Versions]
         /\ \A g \in FileIds : [Without(location) EXCEPT ![f] = content][g]
                                 = IF g = f THEN content
                                   ELSE IF g = location /\ OnDisk(location) THEN Erased ELSE disk[g]
<1>1. content \in {Unwritten, Erased} \cup Versions
  BY DEF Contents, Unwritten
<1> HIDE DEF Unwritten, Erased
<1> QED BY <1>1, WithoutIs

(***************************************************************************)
(* What each step that writes the table of files does to it.               *)
(***************************************************************************)
RowSet(f, row) ==
  /\ fileRow' \in [FileIds -> FileRows] /\ row \in FileRows
  /\ \A g \in FileIds : fileRow'[g] = IF g = f THEN row ELSE fileRow[g]

LEMMA FileWrites ==
  ASSUME FilesTypeOK, NEW h \in Handlers
  PROVE  /\ InsertFile(h) =>
              RowSet(NextRow, [state |-> IF kind = "banner" THEN "absent" ELSE "stored", location |-> 0,
                               hash |-> fileTask[h].hash])
         /\ SaveLocation(h) =>
              \/ kind \in Images /\ fileTask[h].fresh /\ fileRow' = fileRow
              \/ /\ ~ (kind \in Images /\ fileTask[h].fresh)
                 /\ RowSet(fileTask[h].row, [state |-> "stored", location |-> fileTask[h].file,
                                             hash |-> IF fileTask[h].fresh THEN fileTask[h].hash ELSE fileTask[h].old.hash])
         /\ SaveName(h) =>
              RowSet(fileTask[h].row, [state |-> "stored", location |-> fileTask[h].file, hash |-> fileTask[h].hash])
         /\ RemoveFileRow(h) =>
              /\ fileRow' \in [FileIds -> FileRows]
              /\ \A g \in FileIds \ {fileTask[h].row} : fileRow'[g] = fileRow[g]
              /\ fileTask[h].row \in FileIds =>
                   /\ fileRow'[fileTask[h].row].state = "absent"
                   /\ fileRow'[fileTask[h].row].location = fileRow[fileTask[h].row].location
<1> DEFINE task == fileTask[h]
<1>1. ASSUME ~ FileAt(h, "idle")
      PROVE  /\ task \in FileRequest /\ task.hash \in Contents /\ task.file \in 0 .. MaxUploads
             /\ task.old \in FileRows /\ task.old.hash \in Contents
  <2>1. task \in FileRequest
    BY <1>1, FileRequestOf
  <2> QED BY <2>1 DEF FileRequest, FileRows, Contents
<1>2. InsertFile(h) \/ SaveLocation(h) \/ SaveName(h) \/ RemoveFileRow(h) => ~ FileAt(h, "idle")
  BY DEF InsertFile, SaveLocation, SaveName, RemoveFileRow, FileAt
<1>3. ASSUME NEW state \in {"stored", "absent"}, NEW location \in 0 .. MaxUploads, NEW hash \in Contents
      PROVE  [state |-> state, location |-> location, hash |-> hash] \in FileRows
  BY DEF FileRows, Contents
<1>4. ASSUME NEW f, NEW row \in FileRows, fileRow' = [fileRow EXCEPT ![f] = row] PROVE RowSet(f, row)
  BY <1>4, RowChanges DEF RowSet
<1>5. 0 \in 0 .. MaxUploads
  BY FilesAssumption
<1>6. ASSUME InsertFile(h)
      PROVE  RowSet(NextRow, [state |-> IF kind = "banner" THEN "absent" ELSE "stored", location |-> 0, hash |-> task.hash])
  <2> DEFINE row == [state |-> IF kind = "banner" THEN "absent" ELSE "stored", location |-> 0, hash |-> task.hash]
  <2>1. row \in FileRows
    BY <1>1, <1>2, <1>3, <1>5, <1>6
  <2>2. fileRow' = [fileRow EXCEPT ![NextRow] = row]
    BY <1>6 DEF InsertFile
  <2> HIDE DEF row
  <2>3. RowSet(NextRow, row)
    BY <1>4, <2>1, <2>2
  <2> QED BY <2>3 DEF row
<1>7. ASSUME SaveLocation(h)
      PROVE  \/ kind \in Images /\ task.fresh /\ fileRow' = fileRow
             \/ /\ ~ (kind \in Images /\ task.fresh)
                /\ RowSet(task.row, [state |-> "stored", location |-> task.file,
                                     hash |-> IF task.fresh THEN task.hash ELSE task.old.hash])
  <2> DEFINE row == [state |-> "stored", location |-> task.file, hash |-> IF task.fresh THEN task.hash ELSE task.old.hash]
  <2>1. row \in FileRows
    BY <1>1, <1>2, <1>3, <1>7
  <2>2. \/ kind \in Images /\ task.fresh /\ fileRow' = fileRow
        \/ ~ (kind \in Images /\ task.fresh) /\ fileRow' = [fileRow EXCEPT ![task.row] = row]
    BY <1>7 DEF SaveLocation
  <2> HIDE DEF row
  <2>3. fileRow' = [fileRow EXCEPT ![task.row] = row] => RowSet(task.row, row)
    BY <1>4, <2>1
  <2> QED BY <2>2, <2>3 DEF row
<1>8. ASSUME SaveName(h)
      PROVE  RowSet(task.row, [state |-> "stored", location |-> task.file, hash |-> task.hash])
  <2> DEFINE row == [state |-> "stored", location |-> task.file, hash |-> task.hash]
  <2>1. row \in FileRows
    BY <1>1, <1>2, <1>3, <1>8
  <2>2. fileRow' = [fileRow EXCEPT ![task.row] = row]
    BY <1>8 DEF SaveName
  <2> HIDE DEF row
  <2>3. RowSet(task.row, row)
    BY <1>4, <2>1, <2>2
  <2> QED BY <2>3 DEF row
<1>9. ASSUME RemoveFileRow(h)
      PROVE  /\ fileRow' \in [FileIds -> FileRows]
             /\ \A g \in FileIds \ {task.row} : fileRow'[g] = fileRow[g]
             /\ task.row \in FileIds =>
                  /\ fileRow'[task.row].state = "absent"
                  /\ fileRow'[task.row].location = fileRow[task.row].location
  <2>1. fileRow' = [fileRow EXCEPT ![task.row].state = "absent"] /\ fileRow \in [FileIds -> FileRows]
    BY <1>9 DEF RemoveFileRow, FilesTypeOK
  <2>2. CASE task.row \in FileIds
    <3>1. [fileRow[task.row] EXCEPT !.state = "absent"] \in FileRows
      BY <2>1, <2>2 DEF FileRows
    <3>2. /\ [fileRow[task.row] EXCEPT !.state = "absent"].state = "absent"
          /\ [fileRow[task.row] EXCEPT !.state = "absent"].location = fileRow[task.row].location
      BY <2>1, <2>2 DEF FileRows
    <3> QED BY <2>1, <2>2, <3>1, <3>2
  <2>3. CASE task.row \notin FileIds
    BY <2>1, <2>3
  <2> QED BY <2>2, <2>3
<1> QED BY <1>6, <1>7, <1>8, <1>9

\* A simple file's row names a file or nothing.
LEMMA SimpleWrites ==
  ASSUME FilesTypeOK, NEW h \in Handlers, SaveLocation(h) \/ CreateFails(h)
  PROVE  simpleRow' \in [FileIds -> 0 .. MaxUploads]
<1> DEFINE task == fileTask[h]
<1>1. task \in FileRequest
  BY FileRequestOf DEF SaveLocation, CreateFails, FileAt
<1>2. task.file \in 0 .. MaxUploads /\ 0 \in 0 .. MaxUploads
  BY <1>1, FilesAssumption DEF FileRequest
<1>3. \/ simpleRow' = simpleRow \/ simpleRow' = [simpleRow EXCEPT ![task.row] = 0]
      \/ simpleRow' = [simpleRow EXCEPT ![task.row] = task.file]
  BY DEF SaveLocation, CreateFails
<1> QED BY <1>2, <1>3 DEF FilesTypeOK

\* The other steps of a request leave the table alone.
LEMMA RowsStay ==
  ASSUME NEW h \in Handlers,
         \/ CheckPdf(h) \/ RenderPdf(h) \/ RenderFails(h) \/ HashPdf(h) \/ WriteFile(h) \/ LinkFile(h)
         \/ UnlinkFile(h) \/ RemoveStored(h) \/ RemoveBanner(h) \/ FileFails(h) \/ CreateFails(h)
         \/ (\E pc \in FilePhases, content \in Contents : LoadEntity(h, pc, content))
  PROVE  fileRow' = fileRow
BY DEF CheckPdf, RenderPdf, RenderFails, HashPdf, WriteFile, LinkFile, UnlinkFile, RemoveStored,
   RemoveBanner, FileFails, CreateFails, LoadEntity

\* The requests that begin, in one form.
LEMMA FileBegins ==
  ASSUME FilesTypeOK, NEW h \in Handlers
  PROVE  /\ LoadEntity(h, "check", 0) => \E pc \in FilePhases, content \in Contents : LoadEntity(h, pc, content)
         /\ \A v \in Versions : UploadImage(h, v) => \E pc \in FilePhases, content \in Contents : LoadEntity(h, pc, content)
         /\ DeleteBanner(h) => \E pc \in FilePhases, content \in Contents : LoadEntity(h, pc, content)
BY DEF UploadImage, DeleteBanner, FilePhases, Contents

LEMMA FilesStepType ==
  ASSUME FilesTypeOK, NEW h \in Handlers,
         \/ LoadEntity(h, "check", 0) \/ (\E v \in Versions : UploadImage(h, v)) \/ DeleteBanner(h)
         \/ CheckPdf(h) \/ RenderPdf(h) \/ RenderFails(h) \/ HashPdf(h)
         \/ InsertFile(h) \/ WriteFile(h) \/ SaveLocation(h) \/ SaveName(h) \/ LinkFile(h)
         \/ UnlinkFile(h) \/ RemoveStored(h) \/ RemoveFileRow(h) \/ RemoveBanner(h)
         \/ FileFails(h) \/ CreateFails(h)
  PROVE  FilesTypeOK'
<1> DEFINE task == fileTask[h]
<1>1. CASE LoadEntity(h, "check", 0) \/ (\E v \in Versions : UploadImage(h, v)) \/ DeleteBanner(h)
  <2>1. PICK pc \in FilePhases, content \in Contents : LoadEntity(h, pc, content)
    BY <1>1, FileBegins
  <2>2. fileTask' \in [Handlers -> FileTask]
    BY <2>1, LoadGoes
  <2> QED BY <2>1, <2>2 DEF LoadEntity, FilesTypeOK
<1>2. CASE CheckPdf(h)
  <2>1. fileTask' \in [Handlers -> FileTask]
    BY <1>2, FileSteps DEF FileNext, FileStops
  <2>2. answered' \in {0} \cup Versions
    BY <1>2, FileSteps DEF OnDisk, FilesTypeOK
  <2> QED BY <1>2, <2>1, <2>2 DEF CheckPdf, FilesTypeOK
<1>3. CASE RenderPdf(h) \/ RenderFails(h) \/ HashPdf(h) \/ FileFails(h)
  <2>1. fileTask' \in [Handlers -> FileTask]
    BY <1>3, FileSteps DEF FileNext, FileStops
  <2> QED BY <1>3, <2>1 DEF RenderPdf, RenderFails, HashPdf, FileFails, FilesTypeOK
<1>4. CASE InsertFile(h) \/ SaveLocation(h) \/ SaveName(h) \/ RemoveFileRow(h)
  <2>1. fileTask' \in [Handlers -> FileTask]
    BY <1>4, FileSteps DEF FileNext
  <2>2. fileRow' \in [FileIds -> FileRows]
    BY <1>4, FileWrites DEF RowSet, FilesTypeOK
  <2>3. simpleRow' \in [FileIds -> 0 .. MaxUploads]
    <3>1. CASE SaveLocation(h)
      BY <3>1, SimpleWrites
    <3>2. CASE InsertFile(h) \/ SaveName(h) \/ RemoveFileRow(h)
      BY <3>2 DEF InsertFile, SaveName, RemoveFileRow, FilesTypeOK
    <3> QED BY <1>4, <3>1, <3>2
  <2> QED BY <1>4, <2>1, <2>2, <2>3 DEF InsertFile, SaveLocation, SaveName, RemoveFileRow, FilesTypeOK
<1>5. CASE WriteFile(h)
  <2>1. fileTask' \in [Handlers -> FileTask] /\ task \in FileRequest
    BY <1>5, FileSteps DEF FileNext
  <2>2. NextFile \in FileIds /\ task.content \in Contents
    BY <1>5, <2>1, NextIds DEF WriteFile, FileRequest
  <2>3. disk' \in [FileIds -> {Unwritten, Erased} \cup Versions]
    BY <1>5, <2>2, WrittenIs DEF WriteFile
  <2> QED BY <1>5, <2>1, <2>3 DEF WriteFile, FilesTypeOK
<1>6. CASE RemoveStored(h) \/ CreateFails(h)
  <2>1. fileTask' \in [Handlers -> FileTask]
    BY <1>6, FileSteps DEF FileNext, FileStops
  <2>2. disk' \in [FileIds -> {Unwritten, Erased} \cup Versions]
    BY <1>6, WithoutIs DEF RemoveStored, CreateFails
  <2>3. simpleRow' \in [FileIds -> 0 .. MaxUploads]
    BY <1>6, SimpleWrites DEF RemoveStored, FilesTypeOK
  <2> QED BY <1>6, <2>1, <2>2, <2>3 DEF RemoveStored, CreateFails, FilesTypeOK
<1>7. CASE LinkFile(h)
  <2>1. fileTask' \in [Handlers -> FileTask] /\ task \in FileRequest
    BY <1>7, FileSteps DEF FileStops
  <2>2. /\ fileLink' = task.row /\ exists' = TRUE /\ UNCHANGED <<kind, fileRow, simpleRow, disk>>
        /\ shows' = IF kind = "invoice" THEN task.shows ELSE shows
        /\ answered' = IF kind \notin Images /\ OnDisk(task.file) THEN disk[task.file] ELSE 0
    BY <1>7 DEF LinkFile
  <2>3. task.row \in 0 .. MaxUploads /\ task.shows \in Versions
    BY <2>1 DEF FileRequest
  <2>4. answered' \in {0} \cup Versions
    BY <2>2 DEF OnDisk
  <2> QED BY <2>1, <2>2, <2>3, <2>4 DEF FilesTypeOK
<1>8. CASE UnlinkFile(h) \/ RemoveBanner(h)
  <2>1. fileTask' \in [Handlers -> FileTask]
    BY <1>8, FileSteps DEF FileNext, FileStops
  <2>2. fileLink' = 0 /\ exists' \in BOOLEAN /\ UNCHANGED <<kind, shows, fileRow, simpleRow, disk, answered>>
    BY <1>8 DEF UnlinkFile, RemoveBanner
  <2> QED BY <2>1, <2>2, FilesAssumption DEF FilesTypeOK
<1> QED BY <1>1, <1>2, <1>3, <1>4, <1>5, <1>6, <1>7, <1>8

LEMMA FilesNextType == FilesTypeOK /\ [FilesNext]_filesVars => FilesTypeOK'
<1>1. ASSUME FilesTypeOK, NEW v \in Versions, EntityChanges(v) PROVE FilesTypeOK'
  BY <1>1 DEF EntityChanges, FilesTypeOK
<1>2. ASSUME FilesTypeOK, UNCHANGED filesVars PROVE FilesTypeOK'
  BY <1>2 DEF filesVars, FilesTypeOK
<1> QED BY <1>1, <1>2, FilesStepType DEF FilesNext, FilesStep

(***************************************************************************)
(* Every reachable state of the model of the files is well typed.          *)
(***************************************************************************)
THEOREM FilesTypeCorrect == FilesSpec => []FilesTypeOK
BY FilesInitType, FilesNextType, PTL DEF FilesSpec
-----------------------------------------------------------------------------
(***************************************************************************)
(* Any number of requests.  A request that has a row got it when it loaded *)
(* or made it, one that has written has a place, and what it is about to   *)
(* link has one; rows stay used and located.                               *)
(***************************************************************************)
Given(f) == f \in FileIds /\ fileRow[f].state # "unused"

Stores(task) ==
  /\ ~ task.fresh \/ task.pc \in {"write", "locate", "name", "link", "unlink", "unstore", "unrow"} => Given(task.row)
  /\ task.pc \in {"locate", "name", "link"} => task.file # 0
  /\ task.pc = "link" => fileRow[task.row].location # 0

IdsInOrder == \E n \in 0 .. MaxUploads : \A f \in FileIds : fileRow[f].state # "unused" <=> f <= n

LinkInv ==
  /\ FilesTypeOK /\ LinkIsLocated /\ IdsInOrder
  /\ \A h \in Handlers : ~ FileAt(h, "idle") => Stores(fileTask[h])

LEMMA LinkInitInv == FilesInit => LinkInv
<1> SUFFICES ASSUME FilesInit PROVE LinkInv
  OBVIOUS
<1>1. FilesTypeOK
  BY FilesInitType
<1>2. IdsInOrder
  <2>1. \A f \in FileIds : fileRow[f].state # "unused" <=> f <= 0
    BY FilesAssumption DEF FilesInit, NoFile, FileIds
  <2> QED BY <2>1, FilesAssumption DEF IdsInOrder
<1>3. LinkIsLocated /\ \A h \in Handlers : FileAt(h, "idle")
  BY DEF FilesInit, LinkIsLocated, FileAt, Idle
<1> QED BY <1>1, <1>2, <1>3 DEF LinkInv

LEMMA NextRowIsNew ==
  ASSUME FilesTypeOK, NEW n \in 0 .. MaxUploads, \A f \in FileIds : fileRow[f].state # "unused" <=> f <= n
  PROVE  NextRow = n + 1
<1>1. {f \in FileIds : fileRow[f].state # "unused"} = {f \in FileIds : f <= n}
  OBVIOUS
<1>2. Cardinality({f \in FileIds : fileRow[f].state # "unused"}) = n
  BY <1>1, CountUpTo
<1> QED BY <1>2, FilesAssumption DEF NextRow

RowsGrow ==
  \A f \in FileIds : Given(f) => Given(f)' /\ (fileRow[f].location # 0 => fileRow'[f].location # 0)

\* The others keep what they rely on.
LEMMA OthersStore ==
  ASSUME LinkInv, RowsGrow, FilesTypeOK', LinkIsLocated', IdsInOrder', NEW h \in Handlers,
         \A g \in Handlers \ {h} : fileTask'[g] = fileTask[g],
         FileAt(h, "idle")' \/ Stores(fileTask[h])'
  PROVE  LinkInv'
<1>1. ASSUME NEW g \in Handlers, g # h, ~ FileAt(g, "idle")' PROVE Stores(fileTask[g])'
  <2>1. fileTask'[g] = fileTask[g] /\ Stores(fileTask[g])
    BY <1>1 DEF LinkInv, FileAt
  <2> QED BY <2>1 DEF Stores, RowsGrow, Given
<1> QED BY <1>1 DEF LinkInv

LEMMA OrderStays ==
  ASSUME IdsInOrder, \A f \in FileIds : fileRow'[f].state = "unused" <=> fileRow[f].state = "unused"
  PROVE  IdsInOrder'
BY DEF IdsInOrder

\* A step that leaves the rows and the link, or takes the link away.
LEMMA RowsStayInv ==
  ASSUME LinkInv, FilesTypeOK', fileRow' = fileRow, fileLink' \in {fileLink, 0}, NEW h \in Handlers,
         \A g \in Handlers \ {h} : fileTask'[g] = fileTask[g],
         FileAt(h, "idle")' \/ Stores(fileTask[h])'
  PROVE  LinkInv'
<1>1. RowsGrow /\ LinkIsLocated' /\ IdsInOrder'
  BY DEF LinkInv, RowsGrow, LinkIsLocated, IdsInOrder, Given
<1> QED BY <1>1, OthersStore

LEMMA BeginsStore ==
  ASSUME LinkInv, NEW h \in Handlers, NEW pc \in FilePhases, NEW content \in Contents, LoadEntity(h, pc, content),
         pc \in {"write", "unlink"} => fileLink # 0, pc \notin {"locate", "name", "link", "unstore", "unrow"}, FilesTypeOK'
  PROVE  LinkInv'
<1>1. /\ Loaded(fileTask'[h], pc, content) /\ UNCHANGED <<fileRow, fileLink>>
      /\ \A g \in Handlers \ {h} : fileTask'[g] = fileTask[g]
  BY LoadGoes DEF LinkInv, LoadEntity
<1>2. fileLink # 0 => Given(fileLink)
  BY FilesAssumption DEF LinkInv, LinkIsLocated, FilesTypeOK, FileIds, Given
<1>3. Stores(fileTask[h])'
  BY <1>1, <1>2 DEF Loaded, Stores, Given
<1> QED BY <1>1, <1>3, RowsStayInv

LEMMA LinkStep ==
  ASSUME LinkInv, NEW h \in Handlers,
         \/ LoadEntity(h, "check", 0) \/ (\E v \in Versions : UploadImage(h, v)) \/ DeleteBanner(h)
         \/ CheckPdf(h) \/ RenderPdf(h) \/ RenderFails(h) \/ HashPdf(h)
         \/ InsertFile(h) \/ WriteFile(h) \/ SaveLocation(h) \/ SaveName(h) \/ LinkFile(h)
         \/ UnlinkFile(h) \/ RemoveStored(h) \/ RemoveFileRow(h) \/ RemoveBanner(h)
         \/ FileFails(h) \/ CreateFails(h)
  PROVE  LinkInv'
<1> DEFINE task == fileTask[h]
<1>1. FilesTypeOK /\ FilesTypeOK'
  BY FilesStepType DEF LinkInv
<1>2. ~ FileAt(h, "idle") => task \in FileRequest /\ Stores(task)
  BY <1>1, FileRequestOf DEF LinkInv
<1>3. CASE LoadEntity(h, "check", 0) \/ (\E v \in Versions : UploadImage(h, v)) \/ DeleteBanner(h)
  <2>1. \/ LoadEntity(h, "check", 0)
        \/ \E v \in Versions : LoadEntity(h, IF fileLink = 0 THEN "insert" ELSE "write", v)
        \/ LoadEntity(h, IF fileLink = 0 THEN "delete" ELSE "unlink", 0)
    BY <1>3 DEF UploadImage, DeleteBanner
  <2> QED BY <1>1, <2>1, BeginsStore DEF FilePhases, Contents
<1>4. CASE \/ CheckPdf(h) \/ RenderFails(h) \/ FileFails(h) \/ CreateFails(h) \/ RemoveBanner(h)
  <2>1. fileRow' = fileRow /\ fileLink' \in {fileLink, 0}
    BY <1>4 DEF CheckPdf, RenderFails, FileFails, CreateFails, RemoveBanner
  <2>2. FileStops(h) \/ FileNext(h, "render", task.row, task.content, task.hash, task.file)
    BY <1>1, <1>4, FileSteps
  <2>3. FileNext(h, "render", task.row, task.content, task.hash, task.file) => ~ FileAt(h, "idle")
    BY <1>1 DEF FileNext, FileRequest, FilePhases, FileAt
  <2>4. \A g \in Handlers \ {h} : fileTask'[g] = fileTask[g]
    BY <2>2 DEF FileStops, FileNext
  <2>5. FileAt(h, "idle")' \/ Stores(fileTask[h])'
    BY <1>2, <2>1, <2>2, <2>3 DEF FileStops, FileNext, FileAt, Idle, Stores, Given
  <2> QED BY <1>1, <2>1, <2>4, <2>5, RowsStayInv
<1>5. CASE RenderPdf(h) \/ HashPdf(h) \/ UnlinkFile(h) \/ RemoveStored(h)
  <2>1. fileRow' = fileRow /\ fileLink' \in {fileLink, 0} /\ ~ FileAt(h, "idle")
    BY <1>5 DEF RenderPdf, HashPdf, UnlinkFile, RemoveStored, FileAt
  <2>2. /\ fileTask'[h].row = task.row /\ fileTask'[h].fresh = task.fresh
        /\ fileTask'[h].pc \in {"hash", "insert", "write", "unstore", "unrow"}
        /\ fileTask'[h].pc = "write" => ~ task.fresh
        /\ fileTask'[h].pc \in {"unstore", "unrow"} => task.pc \in {"unlink", "unstore"}
        /\ \A g \in Handlers \ {h} : fileTask'[g] = fileTask[g]
    <3>1. (RenderPdf(h) \/ HashPdf(h)) \/ (UnlinkFile(h) /\ task.pc = "unlink") \/ (RemoveStored(h) /\ task.pc = "unstore")
      BY <1>5 DEF UnlinkFile, RemoveStored, FileAt
    <3> QED BY <1>1, <3>1, FileSteps DEF FileNext
  <2>3. Stores(fileTask[h])'
    BY <1>2, <2>1, <2>2 DEF Stores, Given
  <2> QED BY <1>1, <2>1, <2>2, <2>3, RowsStayInv
<1>6. CASE WriteFile(h)
  <2>1. fileRow' = fileRow /\ fileLink' = fileLink /\ task.pc = "write" /\ ~ FileAt(h, "idle")
    BY <1>6 DEF WriteFile, FileAt
  <2>2. /\ fileTask'[h].row = task.row /\ fileTask'[h].pc = "locate" /\ fileTask'[h].file = NextFile
        /\ fileTask'[h].fresh = task.fresh
        /\ \A g \in Handlers \ {h} : fileTask'[g] = fileTask[g]
    BY <1>1, <1>6, FileSteps DEF FileNext
  <2>3. NextFile # 0
    BY NextIds
  <2>4. Stores(fileTask[h])'
    BY <1>2, <2>1, <2>2, <2>3 DEF Stores, Given
  <2> QED BY <1>1, <2>1, <2>2, <2>4, RowsStayInv
<1>7. CASE InsertFile(h)
  <2>1. /\ fileTask'[h].row = NextRow /\ fileTask'[h].pc = "write"
        /\ \A g \in Handlers \ {h} : fileTask'[g] = fileTask[g]
    BY <1>1, <1>7, FileSteps DEF FileNext
  <2>2. PICK row \in FileRows : RowSet(NextRow, row) /\ row.state \in {"absent", "stored"}
    <3>1. RowSet(NextRow, [state |-> IF kind = "banner" THEN "absent" ELSE "stored", location |-> 0, hash |-> task.hash])
      BY <1>1, <1>7, FileWrites
    <3> QED BY <3>1 DEF RowSet
  <2>3. PICK n \in 0 .. MaxUploads : \A f \in FileIds : fileRow[f].state # "unused" <=> f <= n
    BY DEF LinkInv, IdsInOrder
  <2>4. NextRow = n + 1 /\ NextRow <= MaxUploads /\ NextRow \in FileIds /\ fileLink' = fileLink
    BY <1>1, <1>7, <2>3, NextRowIsNew, NextIds DEF InsertFile
  <2>5. fileRow[NextRow].state = "unused"
    BY <2>3, <2>4, FilesAssumption
  <2>6. \A f \in FileIds : fileRow'[f] = IF f = NextRow THEN row ELSE fileRow[f]
    BY <2>2 DEF RowSet
  <2>7. RowsGrow
    BY <2>5, <2>6 DEF RowsGrow, Given
  <2>8. IdsInOrder'
    <3>1. n + 1 \in 0 .. MaxUploads
      BY <2>4, FilesAssumption
    <3>2. \A f \in FileIds : fileRow'[f].state # "unused" <=> f <= n + 1
      BY <2>2, <2>3, <2>4, <2>6, FilesAssumption DEF FileIds
    <3> QED BY <3>1, <3>2 DEF IdsInOrder
  <2>9. LinkIsLocated'
    <3>1. fileLink # 0 => fileLink # NextRow /\ fileLink \in FileIds
      BY <1>1, <2>5, FilesAssumption DEF LinkInv, LinkIsLocated, FilesTypeOK, FileIds
    <3> QED BY <2>4, <2>6, <3>1 DEF LinkInv, LinkIsLocated
  <2>10. Stores(fileTask[h])'
    BY <2>1, <2>2, <2>4, <2>6 DEF Stores, Given
  <2> QED BY <1>1, <2>1, <2>7, <2>8, <2>9, <2>10, OthersStore
<1>8. CASE SaveLocation(h) \/ SaveName(h)
  <2>1. fileLink' = fileLink /\ task.pc \in {"locate", "name"} /\ ~ FileAt(h, "idle")
    BY <1>8 DEF SaveLocation, SaveName, FileAt
  <2>2. Given(task.row) /\ task.file # 0
    BY <1>2, <2>1 DEF Stores
  <2>3. /\ fileTask'[h].row = task.row /\ fileTask'[h].file = task.file /\ fileTask'[h].fresh = task.fresh
        /\ (SaveLocation(h) => fileTask'[h].pc = "name") /\ (SaveName(h) => fileTask'[h].pc = "link")
        /\ \A g \in Handlers \ {h} : fileTask'[g] = fileTask[g]
    BY <1>1, <1>8, FileSteps DEF FileNext
  <2>4. \/ fileRow' = fileRow /\ ~ SaveName(h)
        \/ \E row \in FileRows : RowSet(task.row, row) /\ row.state = "stored" /\ row.location = task.file
    BY <1>1, <1>8, <2>1, FileWrites DEF RowSet, SaveName, SaveLocation, FileAt
  <2>5. /\ \A f \in FileIds : fileRow'[f] = fileRow[f]
             \/ (f = task.row /\ fileRow'[f].state = "stored" /\ fileRow'[f].location = task.file)
        /\ SaveName(h) => fileRow'[task.row].state = "stored" /\ fileRow'[task.row].location = task.file
    BY <2>2, <2>4 DEF RowSet, Given
  <2>6. RowsGrow
    BY <2>2, <2>5 DEF RowsGrow, Given
  <2>7. IdsInOrder'
    BY <2>2, <2>5, OrderStays DEF LinkInv, Given
  <2>8. LinkIsLocated'
    BY <1>1, <2>1, <2>2, <2>5, FilesAssumption DEF LinkInv, LinkIsLocated, FilesTypeOK, FileIds
  <2>9. Stores(fileTask[h])'
    BY <1>8, <2>2, <2>3, <2>5 DEF Stores, Given
  <2> QED BY <1>1, <2>3, <2>6, <2>7, <2>8, <2>9, OthersStore
<1>9. CASE LinkFile(h)
  <2>1. /\ task.pc = "link" /\ fileRow[task.row].state = "stored" /\ fileLink' = task.row /\ fileRow' = fileRow
        /\ ~ FileAt(h, "idle")
    BY <1>9 DEF LinkFile, FileAt
  <2>2. FileStops(h)
    BY <1>1, <1>9, FileSteps
  <2>3. LinkIsLocated' /\ RowsGrow /\ IdsInOrder'
    BY <1>2, <2>1 DEF LinkIsLocated, Stores, RowsGrow, Given, LinkInv, IdsInOrder
  <2> QED BY <1>1, <2>2, <2>3, OthersStore DEF FileStops, FileAt, Idle
<1>10. CASE RemoveFileRow(h)
  <2>1. fileLink' = fileLink /\ fileLink # task.row /\ ~ FileAt(h, "idle") /\ task.pc = "unrow"
    BY <1>10 DEF RemoveFileRow, FileAt
  <2>2. /\ fileTask'[h].pc = "delete" /\ fileTask'[h].row = task.row /\ fileTask'[h].fresh = task.fresh
        /\ \A g \in Handlers \ {h} : fileTask'[g] = fileTask[g]
    BY <1>1, <1>10, FileSteps DEF FileNext
  <2>3. /\ \A g \in FileIds \ {task.row} : fileRow'[g] = fileRow[g]
        /\ task.row \in FileIds => /\ fileRow'[task.row].state = "absent"
                                   /\ fileRow'[task.row].location = fileRow[task.row].location
    BY <1>1, <1>10, FileWrites
  <2>4. Given(task.row)
    BY <1>2, <2>1 DEF Stores
  <2>5. RowsGrow
    BY <2>3, <2>4 DEF RowsGrow, Given
  <2>6. LinkIsLocated'
    <3>1. fileLink \in FileIds => fileRow'[fileLink] = fileRow[fileLink]
      BY <2>1, <2>3
    <3>2. fileLink \in FileIds \cup {0}
      BY <1>1, FilesAssumption DEF FilesTypeOK, FileIds
    <3> QED BY <2>1, <3>1, <3>2 DEF LinkInv, LinkIsLocated
  <2>7. IdsInOrder'
    BY <2>3, <2>4, OrderStays DEF LinkInv, Given
  <2>8. Stores(fileTask[h])'
    BY <2>2, <2>3, <2>4 DEF Stores, Given
  <2> QED BY <1>1, <2>2, <2>5, <2>6, <2>7, <2>8, OthersStore
<1> QED BY <1>3, <1>4, <1>5, <1>6, <1>7, <1>8, <1>9, <1>10

LEMMA LinkNext == LinkInv /\ [FilesNext]_filesVars => LinkInv'
<1>1. ASSUME LinkInv, FilesTypeOK', UNCHANGED <<fileRow, fileLink, fileTask>> PROVE LinkInv'
  BY <1>1 DEF LinkInv, LinkIsLocated, IdsInOrder, FileAt, Stores, Given
<1>2. ASSUME LinkInv, (\E v \in Versions : EntityChanges(v)) \/ UNCHANGED filesVars PROVE LinkInv'
  <2>1. FilesTypeOK' /\ UNCHANGED <<fileRow, fileLink, fileTask>>
    BY <1>2, FilesNextType DEF LinkInv, FilesNext, EntityChanges, filesVars
  <2> QED BY <1>1, <1>2, <2>1
<1> QED BY <1>2, LinkStep DEF FilesNext, FilesStep

(***************************************************************************)
(* For any number of uploads, deletions and failures that interleave: the  *)
(* file an entity links to has its row, and the row names a file that was  *)
(* written.                                                                *)
(***************************************************************************)
THEOREM LinkIsLocatedAlways == FilesSpec => []LinkIsLocated
<1>1. LinkInv => LinkIsLocated
  BY DEF LinkInv
<1> QED BY <1>1, LinkInitInv, LinkNext, PTL DEF FilesSpec
-----------------------------------------------------------------------------
(***************************************************************************)
(* One request at a time that does not fail.  What the tables hold between *)
(* requests, and what a request relies on in each phase: before it writes, *)
(* the tables are as it loaded them; while it stores, its row and its file *)
(* are the only ones; while it deletes, there are fewer and fewer.         *)
(***************************************************************************)
OnlyRow(f) == \A g \in FileIds : fileRow[g].state = "stored" => g = f

OnlyFile(f) == \A g \in FileIds : OnDisk(g) => g = f

Tidy ==
  /\ fileLink # 0 =>
       /\ OnDisk(fileRow[fileLink].location)
       /\ kind \notin Images => disk[fileRow[fileLink].location] = fileRow[fileLink].hash
       /\ OnlyFile(fileRow[fileLink].location)
  /\ fileLink = 0 => OnlyFile(0)
  /\ OnlyRow(fileLink)

AsLoaded(task) ==
  /\ Tidy /\ task.row = fileLink /\ (task.fresh <=> fileLink = 0)
  /\ task.old = IF fileLink = 0 THEN NoFile ELSE fileRow[fileLink]

Ready(task) ==
  /\ task.content \in Versions
  /\ kind \notin Images => task.content = shows /\ task.hash = shows

Writing(task) ==
  /\ Ready(task) /\ task.row \in FileIds /\ OnlyRow(task.row)

Current(task) ==
  /\ task.shows = shows
  /\ task.pc \in {"check", "render", "hash"} => kind \notin Images /\ AsLoaded(task)
  /\ task.pc = "hash" => task.content = shows
  /\ task.pc = "insert" => AsLoaded(task) /\ fileLink = 0 /\ Ready(task)
  /\ task.pc = "write" => Writing(task) /\ OnlyFile(task.old.location)
  /\ task.pc \in {"locate", "name", "link"} =>
       Writing(task) /\ task.file \in FileIds /\ disk[task.file] = task.content /\ OnlyFile(task.file)
  /\ task.pc = "link" =>
       /\ fileRow[task.row].state = "stored" /\ fileRow[task.row].location = task.file
       /\ fileRow[task.row].hash = task.hash
  /\ task.pc = "unlink" => AsLoaded(task) /\ fileLink # 0
  /\ task.pc = "unstore" => fileLink = 0 /\ OnlyRow(task.row) /\ OnlyFile(task.old.location)
  /\ task.pc = "unrow" => fileLink = 0 /\ OnlyRow(task.row) /\ OnlyFile(0)
  /\ task.pc = "delete" => fileLink = 0 /\ OnlyRow(0) /\ OnlyFile(0)

CurrentInv ==
  /\ FilesTypeOK /\ answered \in {0, shows}
  /\ \A h \in Handlers : IF FileAt(h, "idle") THEN Tidy ELSE Current(fileTask[h])

LEMMA CurrentInitInv == FilesInit => CurrentInv
<1> SUFFICES ASSUME FilesInit PROVE CurrentInv
  OBVIOUS
<1>1. FilesTypeOK
  BY FilesInitType
<1>2. \A h \in Handlers : FileAt(h, "idle")
  BY DEF FilesInit, FileAt, Idle
<1>3. \A f \in FileIds : fileRow[f].state = "unused" /\ ~ OnDisk(f)
  BY FilesAssumption DEF FilesInit, NoFile, OnDisk, Unwritten
<1>4. Tidy /\ answered \in {0, shows}
  BY <1>3 DEF FilesInit, Tidy, OnlyRow, OnlyFile
<1> QED BY <1>1, <1>2, <1>4 DEF CurrentInv

LEMMA TidyIsCurrent == CurrentInv => FilesAreCurrent
<1> SUFFICES ASSUME CurrentInv, \A h \in Handlers : FileAt(h, "idle")
             PROVE  /\ answered \in {0, shows}
                    /\ fileLink # 0 =>
                         /\ OnDisk(fileRow[fileLink].location)
                         /\ kind \notin Images => disk[fileRow[fileLink].location] = fileRow[fileLink].hash
                    /\ \A f \in FileIds :
                         /\ fileRow[f].state = "stored" => f = fileLink
                         /\ OnDisk(f) => fileLink # 0 /\ f = fileRow[fileLink].location
  BY DEF FilesAreCurrent
<1>1. Tidy
  BY ServerAssumption DEF CurrentInv
<1>2. \A f \in FileIds : OnDisk(f) => f # 0
  BY DEF OnDisk
<1> QED BY <1>1, <1>2 DEF CurrentInv, Tidy, OnlyRow, OnlyFile

\* Nothing of the tables changes.
FilesStay == UNCHANGED <<kind, shows, fileLink, fileRow, disk>>

LEMMA TidyStays == FilesStay /\ Tidy => Tidy'
BY DEF FilesStay, Tidy, OnlyRow, OnlyFile, OnDisk

LEMMA ByOne ==
  ASSUME FilesTypeOK', (answered \in {0, shows})', \A g, h \in Handlers : g = h, NEW h \in Handlers,
         (fileTask'[h].pc = "idle" /\ Tidy') \/ (fileTask'[h].pc # "idle" /\ Current(fileTask[h])')
  PROVE  CurrentInv'
BY DEF CurrentInv, FileAt

LEMMA CurrentBegins ==
  ASSUME CurrentInv, NEW h \in Handlers, NEW pc \in FilePhases, NEW content \in Contents, LoadEntity(h, pc, content),
         \/ pc = "check" /\ kind \notin Images
         \/ pc = "insert" /\ fileLink = 0 /\ kind \in Images /\ content \in Versions
         \/ pc = "write" /\ fileLink # 0 /\ kind \in Images /\ content \in Versions
         \/ pc = "delete" /\ fileLink = 0
         \/ pc = "unlink" /\ fileLink # 0
  PROVE  fileTask'[h].pc # "idle" /\ Current(fileTask[h])'
<1>1. Loaded(fileTask'[h], pc, content) /\ FilesStay
  BY LoadGoes DEF CurrentInv, LoadEntity, FilesStay
<1>2. Tidy
  BY DEF CurrentInv, LoadEntity
<1>3. Tidy'
  BY <1>1, <1>2, TidyStays
<1> DEFINE task == fileTask'[h]
<1>4. /\ task.pc = pc /\ task.row = fileLink /\ (task.fresh <=> fileLink = 0)
      /\ task.old = (IF fileLink = 0 THEN NoFile ELSE fileRow[fileLink])
      /\ task.shows = shows /\ task.content = content
  BY <1>1 DEF Loaded
<1>5. AsLoaded(fileTask[h])'
  BY <1>1, <1>3, <1>4 DEF AsLoaded, FilesStay
<1>6. fileLink # 0 => fileLink \in FileIds
  BY FilesAssumption DEF CurrentInv, FilesTypeOK, FileIds
<1>7. pc = "write" => Writing(fileTask[h])' /\ OnlyFile(fileTask[h].old.location)'
  BY <1>1, <1>3, <1>4, <1>6 DEF Writing, Ready, FilesStay, Tidy, FilePhases
<1>8. pc = "delete" => OnlyRow(0)' /\ OnlyFile(0)'
  BY <1>1, <1>3 DEF Tidy, FilesStay
<1>9. pc # "idle" /\ pc \notin {"render", "hash", "locate", "name", "link", "unstore", "unrow"}
  OBVIOUS
<1>10. (content \in Versions /\ kind \in Images) => Ready(fileTask[h])'
  BY <1>1, <1>4 DEF Ready, FilesStay
<1> QED BY <1>1, <1>4, <1>5, <1>7, <1>8, <1>9, <1>10 DEF Current, FilesStay

\* The steps that only move the request on, and the tables stay.
LEMMA CurrentMoves ==
  ASSUME CurrentInv, NEW h \in Handlers,
         \/ CheckPdf(h) \/ RenderPdf(h) \/ RenderFails(h) \/ HashPdf(h) \/ RemoveBanner(h)
  PROVE  /\ (answered \in {0, shows})'
         /\ (fileTask'[h].pc = "idle" /\ Tidy') \/ (fileTask'[h].pc # "idle" /\ Current(fileTask[h])')
<1> DEFINE task == fileTask[h]
<1>1. /\ FilesTypeOK /\ answered \in {0, shows} /\ (~ FileAt(h, "idle") => task \in FileRequest /\ Current(task))
  BY FileRequestOf DEF CurrentInv
<1>2. ~ FileAt(h, "idle") /\ task.pc = task.pc
  BY DEF CheckPdf, RenderPdf, RenderFails, HashPdf, RemoveBanner, FileAt
<1>3. CASE RemoveBanner(h)
  <2>1. /\ UNCHANGED <<kind, shows, fileRow, simpleRow, disk, answered>> /\ fileLink' = 0 /\ FileStops(h)
        /\ task.pc = "delete"
    BY <1>1, <1>3, FileSteps DEF RemoveBanner, FileAt
  <2>2. OnlyRow(0) /\ OnlyFile(0)
    BY <1>1, <1>2, <2>1 DEF Current
  <2> QED BY <1>1, <2>1, <2>2 DEF FileStops, Idle, Tidy, OnlyRow, OnlyFile, OnDisk
<1>4. CASE CheckPdf(h) \/ RenderPdf(h) \/ RenderFails(h) \/ HashPdf(h)
  <2>1. FilesStay /\ task.pc \in {"check", "render", "hash"}
    BY <1>4 DEF CheckPdf, RenderPdf, RenderFails, HashPdf, FileAt, FilesStay
  <2>3. AsLoaded(task) /\ kind \notin Images /\ task.shows = shows
    BY <1>1, <1>2, <2>1 DEF Current
  <2>4. Parameters(task) = shows /\ shows \in Versions
    BY <1>1, <2>3 DEF Parameters, FilesTypeOK
  <2>5. Tidy /\ Tidy'
    BY <2>1, <2>3, TidyStays DEF AsLoaded
  <2>6. ASSUME CheckPdf(h), FileStops(h), task.row # 0, Fits(task.old, Parameters(task)),
               answered' = IF OnDisk(task.old.location) THEN disk[task.old.location] ELSE 0
        PROVE  answered' \in {0, shows'}
    <3>1. fileLink # 0 /\ task.old = fileRow[fileLink]
      BY <2>3, <2>6 DEF AsLoaded
    <3>2. disk[task.old.location] = task.old.hash
      BY <2>3, <2>5, <3>1 DEF Tidy
    <3> QED BY <2>1, <2>4, <2>6, <3>2 DEF Fits, FilesStay
  <2>7. ASSUME fileTask'[h].row = task.row, fileTask'[h].fresh = task.fresh, fileTask'[h].old = task.old
        PROVE  AsLoaded(fileTask[h])'
    BY <2>1, <2>3, <2>5, <2>7 DEF AsLoaded, FilesStay
  <2>8. (answered \in {0, shows})'
    <3>1. \/ UNCHANGED answered
          \/ CheckPdf(h) /\ FileStops(h) /\ task.row # 0 /\ Fits(task.old, Parameters(task))
             /\ answered' = IF OnDisk(task.old.location) THEN disk[task.old.location] ELSE 0
      BY <1>1, <1>4, FileSteps DEF RenderPdf, RenderFails, HashPdf
    <3> QED BY <1>1, <2>1, <2>6, <3>1 DEF FilesStay
  <2>9. CASE FileStops(h)
    BY <2>5, <2>8, <2>9 DEF FileStops, Idle
  <2>10. CASE CheckPdf(h) /\ FileNext(h, "render", task.row, task.content, task.hash, task.file)
    <3>1. fileTask'[h].pc = "render" /\ AsLoaded(fileTask[h])' /\ fileTask'[h].shows = task.shows
      BY <2>7, <2>10 DEF FileNext
    <3> QED BY <2>1, <2>3, <2>8, <3>1 DEF Current, FilesStay
  <2>11. CASE RenderPdf(h)
    <3>1. FileNext(h, "hash", task.row, Parameters(task), task.hash, task.file)
      BY <1>1, <2>11, FileSteps
    <3>2. fileTask'[h].pc = "hash" /\ AsLoaded(fileTask[h])' /\ fileTask'[h].shows = task.shows
           /\ fileTask'[h].content = shows
      BY <2>4, <2>7, <3>1 DEF FileNext
    <3> QED BY <2>1, <2>3, <2>8, <3>2 DEF Current, FilesStay
  <2>12. CASE HashPdf(h)
    <3>1. FileNext(h, IF task.fresh THEN "insert" ELSE "write", task.row, task.content, Parameters(task), task.file)
      BY <1>1, <2>12, FileSteps
    <3>2. task.content = shows
      BY <1>1, <1>2, <2>12 DEF Current, HashPdf, FileAt
    <3>3. /\ fileTask'[h].pc = (IF task.fresh THEN "insert" ELSE "write")
          /\ fileTask'[h].shows = task.shows /\ fileTask'[h].content = shows /\ fileTask'[h].hash = shows
          /\ fileTask'[h].row = task.row /\ fileTask'[h].old = task.old
      BY <2>4, <3>1, <3>2 DEF FileNext
    <3>4. AsLoaded(fileTask[h])'
      BY <2>7, <3>1 DEF FileNext
    <3>5. Ready(fileTask[h])'
      BY <2>1, <2>4, <3>3 DEF Ready, FilesStay
    <3>6. CASE task.fresh
      <4>1. fileLink' = 0 /\ fileTask'[h].pc = "insert"
        BY <2>1, <2>3, <3>3, <3>6 DEF AsLoaded, FilesStay
      <4> QED BY <2>1, <2>3, <2>8, <3>3, <3>4, <3>5, <4>1 DEF Current, FilesStay
    <3>7. CASE ~ task.fresh
      <4>1. fileTask'[h].pc = "write" /\ fileLink # 0 /\ fileLink \in FileIds /\ task.row = fileLink
              /\ task.old = fileRow[fileLink]
        BY <1>1, <2>3, <3>3, <3>7, FilesAssumption DEF AsLoaded, FilesTypeOK, FileIds
      <4>2. OnlyRow(fileTask[h].row)' /\ OnlyFile(fileTask[h].old.location)'
        BY <2>1, <2>5, <3>3, <4>1 DEF FilesStay, Tidy
      <4>3. Writing(fileTask[h])'
        BY <3>3, <3>5, <4>1, <4>2 DEF Writing
      <4> QED BY <2>1, <2>3, <2>8, <3>3, <4>1, <4>2, <4>3 DEF Current, FilesStay
    <3> QED BY <3>6, <3>7
  <2> QED BY <1>1, <1>4, <2>9, <2>10, <2>11, <2>12, FileSteps
<1> QED BY <1>3, <1>4

\* The steps that store the file.
LEMMA CurrentStores ==
  ASSUME CurrentInv, NEW h \in Handlers,
         \/ InsertFile(h) \/ WriteFile(h) \/ SaveLocation(h) \/ SaveName(h) \/ LinkFile(h)
  PROVE  /\ (answered \in {0, shows})'
         /\ (fileTask'[h].pc = "idle" /\ Tidy') \/ (fileTask'[h].pc # "idle" /\ Current(fileTask[h])')
<1> DEFINE task == fileTask[h]
<1>1. ~ FileAt(h, "idle")
  BY DEF InsertFile, WriteFile, SaveLocation, SaveName, LinkFile, FileAt
<1>2. FilesTypeOK /\ answered \in {0, shows} /\ task \in FileRequest /\ Current(task)
  BY <1>1, FileRequestOf DEF CurrentInv
<1>3. task.shows = shows
  BY <1>2 DEF Current
<1>4. \A f \in FileIds : f # 0
  BY DEF FileIds
<1>5. ASSUME fileTask'[h].content = task.content, fileTask'[h].hash = task.hash, fileTask'[h].shows = task.shows,
             UNCHANGED <<kind, shows>>, Ready(task)
      PROVE  Ready(fileTask[h])'
  BY <1>5 DEF Ready
<1>6. CASE InsertFile(h)
  <2>1. task.pc = "insert" /\ NextRow <= MaxUploads /\ UNCHANGED <<kind, shows, exists, fileLink, disk, answered>>
    BY <1>6 DEF InsertFile, FileAt
  <2>2. FileNext(h, "write", NextRow, task.content, task.hash, task.file)
    BY <1>2, <1>6, FileSteps
  <2>3. RowSet(NextRow, [state |-> IF kind = "banner" THEN "absent" ELSE "stored", location |-> 0, hash |-> task.hash])
    BY <1>2, <1>6, FileWrites
  <2>4. AsLoaded(task) /\ fileLink = 0 /\ Ready(task)
    BY <1>2, <2>1 DEF Current
  <2>5. NextRow \in FileIds
    BY <2>1, NextIds
  <2>6. OnlyRow(0) /\ OnlyFile(0) /\ task.old.location = 0
    BY <2>4 DEF AsLoaded, Tidy, NoFile
  <2>7. \A g \in FileIds \ {NextRow} : fileRow'[g] = fileRow[g]
    BY <2>3 DEF RowSet
  <2>8. /\ fileTask'[h].pc = "write" /\ fileTask'[h].row = NextRow /\ fileTask'[h].old = task.old
        /\ fileTask'[h].content = task.content /\ fileTask'[h].hash = task.hash /\ fileTask'[h].shows = task.shows
    BY <2>2 DEF FileNext
  <2>9. \A g \in FileIds \ {NextRow} : fileRow'[g].state # "stored"
    BY <1>4, <2>6, <2>7 DEF OnlyRow
  <2>10. OnlyRow(fileTask[h].row)'
    BY <2>8, <2>9 DEF OnlyRow
  <2>11. OnlyFile(fileTask[h].old.location)'
    BY <2>1, <2>6, <2>8 DEF OnlyFile, OnDisk
  <2>12. Writing(fileTask[h])'
    BY <1>5, <2>1, <2>4, <2>5, <2>8, <2>10 DEF Writing
  <2> QED BY <1>2, <1>3, <2>1, <2>8, <2>11, <2>12 DEF Current
<1>7. CASE WriteFile(h)
  <2>1. task.pc = "write" /\ NextFile <= MaxUploads /\ UNCHANGED <<kind, shows, exists, fileLink, fileRow, answered>>
    BY <1>7 DEF WriteFile, FileAt
  <2>2. disk' = [Without(task.old.location) EXCEPT ![NextFile] = task.content]
    BY <1>7 DEF WriteFile
  <2>3. FileNext(h, "locate", task.row, task.content, task.hash, NextFile)
    BY <1>2, <1>7, FileSteps
  <2>4. Writing(task) /\ OnlyFile(task.old.location)
    BY <1>2, <2>1 DEF Current
  <2>5. NextFile \in FileIds /\ task.content \in Contents
    BY <1>2, <2>1, NextIds DEF FileRequest
  <2>6. \A g \in FileIds : disk'[g] = IF g = NextFile THEN task.content
                                     ELSE IF g = task.old.location /\ OnDisk(task.old.location) THEN Erased ELSE disk[g]
    BY <1>2, <2>2, <2>5, WrittenIs
  <2>7. Erased \notin Versions
    BY FilesAssumption DEF Erased
  <2>8. \A g \in FileIds \ {NextFile} : disk'[g] \notin Versions
    BY <1>4, <2>4, <2>6, <2>7 DEF OnlyFile, OnDisk
  <2>9. /\ fileTask'[h].pc = "locate" /\ fileTask'[h].row = task.row /\ fileTask'[h].file = NextFile
        /\ fileTask'[h].content = task.content /\ fileTask'[h].hash = task.hash /\ fileTask'[h].shows = task.shows
    BY <2>3 DEF FileNext
  <2>10. OnlyFile(fileTask[h].file)'
    BY <2>8, <2>9 DEF OnlyFile, OnDisk
  <2>11. OnlyRow(fileTask[h].row)'
    BY <2>1, <2>4, <2>9 DEF OnlyRow, Writing
  <2>12. Writing(fileTask[h])'
    BY <1>5, <2>1, <2>4, <2>9, <2>11 DEF Writing
  <2>13. fileTask'[h].file \in FileIds /\ disk'[fileTask'[h].file] = fileTask'[h].content
    BY <2>5, <2>6, <2>9
  <2> QED BY <1>2, <1>3, <2>1, <2>9, <2>10, <2>12, <2>13 DEF Current
<1>8. CASE SaveLocation(h) \/ SaveName(h)
  <2>1. /\ UNCHANGED <<kind, shows, fileLink, disk, answered>> /\ task.pc \in {"locate", "name"}
        /\ task.pc = "locate" \/ SaveName(h)
    BY <1>8 DEF SaveLocation, SaveName, FileAt
  <2>2. Writing(task) /\ task.file \in FileIds /\ disk[task.file] = task.content /\ OnlyFile(task.file)
    BY <1>2, <2>1 DEF Current
  <2>3. \A g \in FileIds \ {task.row} : fileRow'[g] = fileRow[g]
    BY <1>2, <1>8, FileWrites DEF RowSet
  <2>4. SaveName(h) => /\ fileRow'[task.row].state = "stored" /\ fileRow'[task.row].location = task.file
                       /\ fileRow'[task.row].hash = task.hash
    <3> DEFINE row == [state |-> "stored", location |-> task.file, hash |-> task.hash]
    <3>1. row.state = "stored" /\ row.location = task.file /\ row.hash = task.hash
      OBVIOUS
    <3>2. SaveName(h) => RowSet(task.row, row)
      BY <1>2, FileWrites
    <3> HIDE DEF row
    <3> QED BY <2>2, <3>1, <3>2 DEF RowSet, Writing
  <2>5. /\ fileTask'[h].row = task.row /\ fileTask'[h].file = task.file
        /\ fileTask'[h].pc \in {"name", "link"} /\ (fileTask'[h].pc = "link" => SaveName(h))
        /\ fileTask'[h].content = task.content /\ fileTask'[h].hash = task.hash /\ fileTask'[h].shows = task.shows
    BY <1>2, <1>8, FileSteps DEF FileNext
  <2>6. OnlyRow(fileTask[h].row)'
    BY <2>2, <2>3, <2>5 DEF OnlyRow, Writing
  <2>7. OnlyFile(fileTask[h].file)'
    BY <2>1, <2>2, <2>5 DEF OnlyFile, OnDisk
  <2>8. Writing(fileTask[h])'
    BY <1>5, <2>1, <2>2, <2>5, <2>6 DEF Writing
  <2> QED BY <1>2, <1>3, <2>1, <2>2, <2>4, <2>5, <2>7, <2>8 DEF Current
<1>9. CASE LinkFile(h)
  <2>1. task.pc = "link" /\ fileLink' = task.row /\ UNCHANGED <<kind, fileRow, simpleRow, disk>>
    BY <1>9 DEF LinkFile, FileAt
  <2>2. /\ shows' = IF kind = "invoice" THEN task.shows ELSE shows
        /\ answered' = IF kind \notin Images /\ OnDisk(task.file) THEN disk[task.file] ELSE 0
    BY <1>9 DEF LinkFile
  <2>3. FileStops(h)
    BY <1>2, <1>9, FileSteps
  <2>4. Writing(task) /\ task.file \in FileIds /\ disk[task.file] = task.content /\ OnlyFile(task.file)
    BY <1>2, <2>1 DEF Current
  <2>5. /\ fileRow[task.row].state = "stored" /\ fileRow[task.row].location = task.file
        /\ fileRow[task.row].hash = task.hash
    BY <1>2, <2>1 DEF Current
  <2>6. shows' = shows
    BY <1>3, <2>2
  <2>7. answered' \in {0, shows'}
    BY <2>2, <2>4, <2>6 DEF Writing, Ready
  <2>8. fileLink' # 0 /\ fileRow'[fileLink'].location = task.file /\ fileRow'[fileLink'].hash = task.hash
    BY <1>4, <2>1, <2>4, <2>5 DEF Writing
  <2>9. OnDisk(fileRow[fileLink].location)'
    BY <1>4, <2>1, <2>4, <2>8 DEF OnDisk, Writing, Ready
  <2>10. OnlyFile(fileRow[fileLink].location)' /\ OnlyRow(fileLink)'
    BY <2>1, <2>4, <2>8 DEF OnlyFile, OnlyRow, OnDisk, Writing
  <2>11. kind \notin Images => disk'[fileRow'[fileLink'].location] = fileRow'[fileLink'].hash
    BY <2>1, <2>4, <2>8 DEF Writing, Ready
  <2>12. Tidy'
    BY <2>1, <2>8, <2>9, <2>10, <2>11 DEF Tidy
  <2> QED BY <2>3, <2>7, <2>12 DEF FileStops, Idle
<1> QED BY <1>6, <1>7, <1>8, <1>9

\* The steps that delete a banner.
LEMMA CurrentDeletes ==
  ASSUME CurrentInv, NEW h \in Handlers, UnlinkFile(h) \/ RemoveStored(h) \/ RemoveFileRow(h)
  PROVE  /\ (answered \in {0, shows})'
         /\ fileTask'[h].pc # "idle" /\ Current(fileTask[h])'
<1> DEFINE task == fileTask[h]
<1>1. ~ FileAt(h, "idle")
  BY DEF UnlinkFile, RemoveStored, RemoveFileRow, FileAt
<1>2. FilesTypeOK /\ answered \in {0, shows} /\ task \in FileRequest /\ Current(task)
  BY <1>1, FileRequestOf DEF CurrentInv
<1>3. task.shows = shows /\ UNCHANGED <<kind, shows, answered>>
  BY <1>2 DEF Current, UnlinkFile, RemoveStored, RemoveFileRow
<1>4. /\ fileTask'[h].row = task.row /\ fileTask'[h].old = task.old /\ fileTask'[h].shows = task.shows
      /\ UnlinkFile(h) => fileTask'[h].pc = "unstore"
      /\ RemoveStored(h) => fileTask'[h].pc = "unrow"
      /\ RemoveFileRow(h) => fileTask'[h].pc = "delete"
  BY <1>2, FileSteps DEF FileNext
<1>5. CASE UnlinkFile(h)
  <2>1. task.pc = "unlink" /\ fileLink' = 0 /\ UNCHANGED <<fileRow, disk>>
    BY <1>5 DEF UnlinkFile, FileAt
  <2>2. AsLoaded(task) /\ fileLink # 0
    BY <1>2, <2>1 DEF Current
  <2>3. OnlyRow(task.row) /\ OnlyFile(task.old.location)
    BY <2>2 DEF AsLoaded, Tidy
  <2>4. OnlyRow(fileTask[h].row)' /\ OnlyFile(fileTask[h].old.location)'
    BY <1>4, <2>1, <2>3 DEF OnlyRow, OnlyFile, OnDisk
  <2> QED BY <1>2, <1>3, <1>4, <1>5, <2>1, <2>4 DEF Current
<1>6. CASE RemoveStored(h)
  <2>1. task.pc = "unstore" /\ disk' = Without(task.old.location) /\ UNCHANGED <<fileLink, fileRow>>
    BY <1>6 DEF RemoveStored, FileAt
  <2>2. fileLink = 0 /\ OnlyRow(task.row) /\ OnlyFile(task.old.location)
    BY <1>2, <2>1 DEF Current
  <2>3. Erased \notin Versions
    BY FilesAssumption DEF Erased
  <2>4. \A g \in FileIds : disk'[g] \notin Versions
    BY <1>2, <2>1, <2>2, <2>3, WithoutIs DEF OnlyFile, OnDisk, FileIds
  <2>5. OnlyRow(fileTask[h].row)' /\ OnlyFile(0)'
    BY <1>4, <2>1, <2>2, <2>4 DEF OnlyRow, OnlyFile, OnDisk
  <2> QED BY <1>2, <1>3, <1>4, <1>6, <2>1, <2>2, <2>5 DEF Current
<1>7. CASE RemoveFileRow(h)
  <2>1. task.pc = "unrow" /\ UNCHANGED <<fileLink, disk>>
    BY <1>7 DEF RemoveFileRow, FileAt
  <2>2. fileLink = 0 /\ OnlyRow(task.row) /\ OnlyFile(0)
    BY <1>2, <2>1 DEF Current
  <2>3. \A g \in FileIds : fileRow'[g].state # "stored"
    BY <1>2, <1>7, <2>2, FileWrites DEF OnlyRow
  <2>4. OnlyRow(0)' /\ OnlyFile(0)'
    BY <2>1, <2>2, <2>3 DEF OnlyRow, OnlyFile, OnDisk
  <2> QED BY <1>2, <1>3, <1>4, <1>7, <2>1, <2>2, <2>4 DEF Current
<1> QED BY <1>5, <1>6, <1>7

LEMMA CurrentNext ==
  ASSUME \A g, h \in Handlers : g = h
  PROVE  CurrentInv /\ [FilesQuietNext]_filesVars => CurrentInv'
<1>1. ASSUME CurrentInv, NEW h \in Handlers,
             \/ kind \notin Images /\ LoadEntity(h, "check", 0)
             \/ \E v \in Versions : UploadImage(h, v)
             \/ DeleteBanner(h)
      PROVE  CurrentInv'
  <2>1. FilesTypeOK'
    BY <1>1, FilesStepType DEF CurrentInv
  <2>2. PICK pc \in FilePhases, content \in Contents :
          /\ LoadEntity(h, pc, content)
          /\ \/ pc = "check" /\ kind \notin Images
             \/ pc = "insert" /\ fileLink = 0 /\ kind \in Images /\ content \in Versions
             \/ pc = "write" /\ fileLink # 0 /\ kind \in Images /\ content \in Versions
             \/ pc = "delete" /\ fileLink = 0
             \/ pc = "unlink" /\ fileLink # 0
    BY <1>1 DEF UploadImage, DeleteBanner, FilePhases, Contents
  <2>3. fileTask'[h].pc # "idle" /\ Current(fileTask[h])'
    BY <1>1, <2>2, CurrentBegins
  <2>4. (answered \in {0, shows})'
    BY <1>1, <2>2 DEF CurrentInv, LoadEntity
  <2> QED BY <2>1, <2>3, <2>4, ByOne
<1>2. ASSUME CurrentInv, NEW h \in Handlers,
             \/ CheckPdf(h) \/ RenderPdf(h) \/ RenderFails(h) \/ HashPdf(h) \/ RemoveBanner(h)
             \/ InsertFile(h) \/ WriteFile(h) \/ SaveLocation(h) \/ SaveName(h) \/ LinkFile(h)
             \/ UnlinkFile(h) \/ RemoveStored(h) \/ RemoveFileRow(h)
      PROVE  CurrentInv'
  <2>1. FilesTypeOK'
    BY <1>2, FilesStepType DEF CurrentInv
  <2>2. /\ (answered \in {0, shows})'
        /\ (fileTask'[h].pc = "idle" /\ Tidy') \/ (fileTask'[h].pc # "idle" /\ Current(fileTask[h])')
    BY <1>2, CurrentMoves, CurrentStores, CurrentDeletes
  <2> QED BY <2>1, <2>2, ByOne
<1>3. ASSUME CurrentInv, \A h \in Handlers : FileAt(h, "idle"), NEW v \in Versions, EntityChanges(v)
      PROVE  CurrentInv'
  <2>1. /\ UNCHANGED <<kind, exists, fileLink, fileRow, simpleRow, disk, fileTask>> /\ shows' \in Versions /\ answered' = 0
    BY <1>3 DEF EntityChanges
  <2>2. Tidy => Tidy'
    BY <2>1 DEF Tidy, OnlyRow, OnlyFile, OnDisk
  <2>3. FilesTypeOK'
    BY <1>3, <2>1 DEF CurrentInv, FilesTypeOK
  <2> QED BY <1>3, <2>1, <2>2, <2>3 DEF CurrentInv, FileAt
<1>4. ASSUME CurrentInv, UNCHANGED filesVars PROVE CurrentInv'
  <2>1. FilesStay /\ UNCHANGED <<fileTask, answered>> /\ FilesTypeOK'
    BY <1>4 DEF filesVars, FilesStay, CurrentInv, FilesTypeOK
  <2>2. \A h \in Handlers : Current(fileTask[h]) => Current(fileTask[h])'
    BY <2>1, TidyStays DEF FilesStay, Current, AsLoaded, Writing, Ready, OnlyRow, OnlyFile, OnDisk
  <2> QED BY <1>4, <2>1, <2>2, TidyStays DEF CurrentInv, FileAt, FilesStay
<1> QED BY <1>1, <1>2, <1>3, <1>4 DEF FilesQuietNext, FilesStep

(***************************************************************************)
(* For one request at a time, none of which is cut short, and an entity    *)
(* that changes only between them: a PDF answered with shows what the      *)
(* entity shows, the linked file is on the disk as it was hashed, and      *)
(* there is no other file and no other row in the entity's own table.      *)
(***************************************************************************)
THEOREM FilesAreCurrentAlways ==
  ASSUME \A g, h \in Handlers : g = h
  PROVE  FilesInit /\ [][FilesQuietNext]_filesVars => []FilesAreCurrent
BY CurrentInitInv, CurrentNext, TidyIsCurrent, PTL
-----------------------------------------------------------------------------
(***************************************************************************)
(* Types, for any number of handlers.                                      *)
(***************************************************************************)
Listing ==
  [pc : {"list"}, shifts : SUBSET Shifts, loaded : SUBSET Sheets, all : BOOLEAN]

Making ==
  [pc : {"make"}, wanted : SUBSET Sheets, todo : SUBSET Sheets, loaded : SUBSET Sheets, all : BOOLEAN]

Filling == [pc : {"fill"}, sheet : Sheets]

DeletingShift == [pc : {"delete"}, shift : Shifts, answered : BOOLEAN]

LEMMA EventTaskIs == EventTask = {Idle} \cup Listing \cup Making \cup Filling \cup DeletingShift
BY DEF EventTask, Listing, Making, Filling, DeletingShift

LEMMA EventTaskOf ==
  ASSUME EventTypeOK, NEW h \in Handlers
  PROVE  /\ EventAt(h, "list") => eventTask[h] \in Listing
         /\ EventAt(h, "make") => eventTask[h] \in Making
         /\ EventAt(h, "fill") => eventTask[h] \in Filling
         /\ EventAt(h, "delete") => eventTask[h] \in DeletingShift
<1>1. eventTask[h] \in {Idle} \cup Listing \cup Making \cup Filling \cup DeletingShift
  BY EventTaskIs DEF EventTypeOK
<1> QED BY <1>1 DEF EventAt, Idle, Listing, Making, Filling, DeletingShift

EventGoes(h, task) ==
  /\ eventTask' \in [Handlers -> EventTask] /\ eventTask'[h] = task
  /\ \A g \in Handlers \ {h} : eventTask'[g] = eventTask[g]

LEMMA EventGoesTo ==
  ASSUME EventTypeOK, NEW h \in Handlers, NEW task \in EventTask, EventGo(h, task)
  PROVE  EventGoes(h, task)
BY DEF EventTypeOK, EventGo, EventGoes

\* A synchronisation of these shifts, of an event that was loaded with these sheets.
Lists(h, shifts, loaded, all) ==
  /\ eventTask' \in [Handlers -> EventTask] /\ eventTask'[h] \in Listing
  /\ eventTask'[h].shifts = shifts /\ eventTask'[h].loaded = loaded /\ (eventTask'[h].all <=> all)
  /\ \A g \in Handlers \ {h} : eventTask'[g] = eventTask[g]

LEMMA EventLists ==
  ASSUME EventTypeOK, NEW h \in Handlers, NEW shifts \in SUBSET Shifts, NEW loaded \in SUBSET Sheets,
         NEW all \in BOOLEAN,
         EventGo(h, [pc |-> "list", shifts |-> shifts, loaded |-> loaded, all |-> all])
  PROVE  Lists(h, shifts, loaded, all)
<1> DEFINE task == [pc |-> "list", shifts |-> shifts, loaded |-> loaded, all |-> all]
<1>1. task \in Listing /\ task.shifts = shifts /\ task.loaded = loaded /\ task.all = all
  BY DEF Listing
<1>2. task \in EventTask /\ EventGo(h, task)
  BY <1>1, EventTaskIs
<1> HIDE DEF task
<1> QED BY <1>1, <1>2, EventGoesTo DEF Lists, EventGoes

\* A synchronisation that makes sheets: those it wants, those it has still to make.
Makes(h, wanted, todo) ==
  /\ eventTask' \in [Handlers -> EventTask] /\ eventTask'[h] \in Making
  /\ eventTask'[h].wanted = wanted /\ eventTask'[h].todo = todo
  /\ eventTask'[h].loaded = eventTask[h].loaded /\ eventTask'[h].all = eventTask[h].all
  /\ \A g \in Handlers \ {h} : eventTask'[g] = eventTask[g]

LEMMA EventSteps ==
  ASSUME EventTypeOK, NEW h \in Handlers
  PROVE  /\ \A shifts \in SUBSET Shifts :
              /\ CreateEvent(h, shifts) => Lists(h, shifts, {}, TRUE)
              /\ UpdateEvent(h, shifts) => Lists(h, shifts, {}, FALSE)
         /\ BeginEventSync(h) => Lists(h, There(planned), Kept, TRUE)
         /\ ListSheets(h) => Makes(h, SheetsOf(eventTask[h].shifts), SheetsOf(eventTask[h].shifts))
         /\ \A p \in Sheets :
              /\ MakeSheet(h, p) => Makes(h, eventTask[h].wanted, eventTask[h].todo \ {p})
              /\ CheckSheet(h, p) => EventGoes(h, [pc |-> "fill", sheet |-> p])
         /\ EventGo(h, Idle) => EventGoes(h, Idle)
         /\ \A s \in Shifts : BeginDeleteShift(h, s) =>
              eventTask' \in [Handlers -> EventTask] /\ eventTask'[h].pc = "delete"
                /\ \A g \in Handlers \ {h} : eventTask'[g] = eventTask[g]
<1> DEFINE task == eventTask[h]
<1>1. There(planned) \in SUBSET Shifts /\ Kept \in SUBSET Sheets /\ \A shifts : SheetsOf(shifts) \in SUBSET Sheets
  BY DEF There, Kept, SheetsOf, EventTypeOK
<1>2. ASSUME NEW shifts \in SUBSET Shifts
      PROVE  /\ CreateEvent(h, shifts) => Lists(h, shifts, {}, TRUE)
             /\ UpdateEvent(h, shifts) => Lists(h, shifts, {}, FALSE)
  BY EventLists DEF CreateEvent, UpdateEvent
<1>3. BeginEventSync(h) => Lists(h, There(planned), Kept, TRUE)
  BY <1>1, EventLists DEF BeginEventSync
<1>4. ASSUME ListSheets(h)
      PROVE  Makes(h, SheetsOf(task.shifts), SheetsOf(task.shifts))
  <2> DEFINE wanted == SheetsOf(task.shifts)
             all == task.all
             loaded == task.loaded
             new == [pc |-> "make", wanted |-> wanted, todo |-> wanted, loaded |-> loaded, all |-> all]
  <2>1. task \in Listing
    BY <1>4, EventTaskOf DEF ListSheets
  <2>2. wanted \in SUBSET Sheets /\ all \in BOOLEAN /\ loaded \in SUBSET Sheets
    BY <1>1, <2>1 DEF Listing
  <2>3. EventGo(h, new)
    BY <1>4 DEF ListSheets
  <2> HIDE DEF wanted, all, loaded
  <2>4. new \in Making /\ new.wanted = wanted /\ new.todo = wanted /\ new.loaded = loaded /\ new.all = all
    BY <2>2 DEF Making
  <2> HIDE DEF new
  <2>5. Makes(h, wanted, wanted)
    BY <2>3, <2>4, EventGoesTo, EventTaskIs DEF Makes, EventGoes, all, loaded
  <2> QED BY <2>5 DEF wanted
<1>5. ASSUME NEW p \in Sheets, MakeSheet(h, p)
      PROVE  Makes(h, task.wanted, task.todo \ {p})
  <2> DEFINE new == [task EXCEPT !.todo = task.todo \ {p}]
  <2>1. task \in Making
    BY <1>5, EventTaskOf DEF MakeSheet
  <2>2. EventGo(h, new)
    BY <1>5, <2>1 DEF MakeSheet, Making
  <2>3. new \in Making /\ new.wanted = task.wanted /\ new.todo = task.todo \ {p} /\ new.loaded = task.loaded
          /\ new.all = task.all
    BY <2>1 DEF Making
  <2> HIDE DEF new
  <2> QED BY <2>2, <2>3, EventGoesTo, EventTaskIs DEF Makes, EventGoes
<1>6. ASSUME NEW p \in Sheets, CheckSheet(h, p) PROVE EventGoes(h, [pc |-> "fill", sheet |-> p])
  <2>1. [pc |-> "fill", sheet |-> p] \in EventTask
    BY EventTaskIs DEF Filling
  <2> QED BY <1>6, <2>1, EventGoesTo DEF CheckSheet
<1>7. EventGo(h, Idle) => EventGoes(h, Idle)
  BY EventGoesTo, EventTaskIs
<1>8. ASSUME NEW s \in Shifts, BeginDeleteShift(h, s)
      PROVE  eventTask' \in [Handlers -> EventTask] /\ eventTask'[h].pc = "delete"
               /\ \A g \in Handlers \ {h} : eventTask'[g] = eventTask[g]
  <2> DEFINE inUse == \E p \in Kept : p[2] = s
             new == [pc |-> "delete", shift |-> s, answered |-> inUse]
  <2>1. inUse \in BOOLEAN
    OBVIOUS
  <2>2. EventGo(h, new)
    BY <1>8 DEF BeginDeleteShift
  <2> HIDE DEF inUse
  <2>3. new \in DeletingShift /\ new.pc = "delete"
    BY <2>1 DEF DeletingShift
  <2> HIDE DEF new
  <2> QED BY <2>2, <2>3, EventGoesTo, EventTaskIs DEF EventGoes
<1> QED BY <1>2, <1>3, <1>4, <1>5, <1>6, <1>7, <1>8

LEMMA EventInitType == EventInit => EventTypeOK
BY EventTaskIs DEF EventInit, EventTypeOK

LEMMA EventStepType ==
  ASSUME EventTypeOK, NEW h \in Handlers,
         \/ BeginEventSync(h) \/ ListSheets(h) \/ RemoveSheets(h)
         \/ FillSheet(h) \/ DeleteEvent(h) \/ DeleteShift(h) \/ EventFails(h)
         \/ \E p \in Sheets : MakeSheet(h, p) \/ CheckSheet(h, p)
         \/ \E s \in Shifts : BeginDeleteShift(h, s)
         \/ \E shifts \in SUBSET Shifts \ {{}} : CreateEvent(h, shifts) \/ UpdateEvent(h, shifts)
  PROVE  EventTypeOK'
<1>1. CASE \/ BeginEventSync(h) \/ ListSheets(h) \/ EventFails(h)
           \/ \E p \in Sheets : CheckSheet(h, p)
           \/ \E s \in Shifts : BeginDeleteShift(h, s)
  <2>1. eventTask' \in [Handlers -> EventTask]
    BY <1>1, EventSteps DEF Lists, Makes, EventGoes, EventFails
  <2>2. UNCHANGED <<event, planned, shiftState, able, sheet, synced, filled>>
    BY <1>1 DEF BeginEventSync, ListSheets, EventFails, CheckSheet, BeginDeleteShift
  <2> QED BY <2>1, <2>2 DEF EventTypeOK
<1>2. CASE \E shifts \in SUBSET Shifts \ {{}} : CreateEvent(h, shifts) \/ UpdateEvent(h, shifts)
  <2>1. eventTask' \in [Handlers -> EventTask]
    BY <1>2, EventSteps DEF Lists
  <2> QED BY <1>2, <2>1 DEF EventTypeOK, CreateEvent, UpdateEvent
<1>3. CASE \E p \in Sheets : MakeSheet(h, p)
  <2>1. eventTask' \in [Handlers -> EventTask]
    BY <1>3, EventSteps DEF Makes
  <2> QED BY <1>3, <2>1 DEF EventTypeOK, MakeSheet
<1>4. CASE RemoveSheets(h)
  <2>1. eventTask' \in [Handlers -> EventTask] /\ eventTask[h].all \in BOOLEAN
    BY <1>4, EventSteps, EventTaskOf DEF EventGoes, RemoveSheets, Making
  <2> QED BY <1>4, <2>1 DEF EventTypeOK, RemoveSheets
<1>5. CASE FillSheet(h)
  <2>1. eventTask' \in [Handlers -> EventTask] /\ eventTask[h].sheet \in Sheets
    BY <1>5, EventSteps, EventTaskOf DEF EventGoes, FillSheet, Filling
  <2> QED BY <1>5, <2>1 DEF EventTypeOK, FillSheet
<1>6. CASE DeleteEvent(h)
  BY <1>6 DEF EventTypeOK, DeleteEvent
<1>7. CASE DeleteShift(h)
  <2>1. eventTask' \in [Handlers -> EventTask]
    BY <1>7, EventSteps DEF EventGoes, DeleteShift
  <2> QED BY <1>7, <2>1 DEF EventTypeOK, DeleteShift
<1> QED BY <1>1, <1>2, <1>3, <1>4, <1>5, <1>6, <1>7

LEMMA EventNextType == EventTypeOK /\ [EventNext]_eventVars => EventTypeOK'
<1>1. ASSUME EventTypeOK, EventStarts PROVE EventTypeOK'
  BY <1>1 DEF EventTypeOK, EventStarts
<1>2. ASSUME EventTypeOK, NEW s \in Shifts, NEW users \in SUBSET Crew, AbleChanges(s, users) PROVE EventTypeOK'
  BY <1>2 DEF EventTypeOK, AbleChanges
<1>3. ASSUME EventTypeOK, UNCHANGED eventVars PROVE EventTypeOK'
  BY <1>3 DEF EventTypeOK, eventVars
<1> QED BY <1>1, <1>2, <1>3, EventStepType DEF EventNext, EventStep

(***************************************************************************)
(* Every reachable state of the model of the events is well typed.         *)
(***************************************************************************)
THEOREM EventsTypeCorrect == EventSpec => []EventTypeOK
BY EventInitType, EventNextType, PTL DEF EventSpec
-----------------------------------------------------------------------------
(***************************************************************************)
(* One request at a time.  A synchronisation works on the shifts that are  *)
(* planned and there; what it has made is kept, and one that looks at all  *)
(* sheets has loaded every one it will not make.                           *)
(***************************************************************************)
Due == SheetsOf(There(planned))

Syncing(task) ==
  /\ task.pc = "list" => task.shifts = There(planned) /\ (task.all => Kept \subseteq task.loaded)
  /\ task.pc = "make" =>
       /\ task.wanted = Due /\ task.todo \subseteq task.wanted
       /\ task.wanted \ task.todo \subseteq Kept
       /\ task.all => Kept \subseteq task.loaded \cup task.wanted
  /\ task.pc \in {"list", "make"} => event # "none"
  /\ task.pc = "fill" => sheet[task.sheet] # "none"

SheetsKept ==
  /\ event = "none" => Kept = {} /\ ~ synced /\ filled = {}
  /\ synced => Kept = Due
  /\ \A p \in filled : sheet[p] = "filled" /\ p \in Due

SheetsInv == EventTypeOK /\ SheetsKept /\ \A h \in Handlers : Syncing(eventTask[h])

LEMMA SheetsInitInv == EventInit => SheetsInv
<1> SUFFICES ASSUME EventInit PROVE SheetsInv
  OBVIOUS
<1>1. Kept = {}
  BY DEF EventInit, Kept
<1> QED BY <1>1, EventInitType DEF EventInit, SheetsInv, SheetsKept, Syncing, Idle

LEMMA SheetsByOne ==
  ASSUME EventTypeOK', SheetsKept', \A g, h \in Handlers : g = h, NEW h \in Handlers, Syncing(eventTask[h])'
  PROVE  SheetsInv'
BY DEF SheetsInv

\* The steps that change no sheet and no shift.
LEMMA SheetsStay ==
  ASSUME UNCHANGED <<planned, shiftState, able, sheet>>
  PROVE  Kept' = Kept /\ Due' = Due /\ There(planned)' = There(planned)
BY DEF Kept, Due, There, SheetsOf

LEMMA SheetsStep ==
  ASSUME \A g, h \in Handlers : g = h, SheetsInv, NEW h \in Handlers,
         \/ BeginEventSync(h) \/ ListSheets(h) \/ RemoveSheets(h)
         \/ FillSheet(h) \/ DeleteEvent(h) \/ DeleteShift(h) \/ EventFails(h)
         \/ \E p \in Sheets : MakeSheet(h, p) \/ CheckSheet(h, p)
         \/ \E s \in Shifts : BeginDeleteShift(h, s)
         \/ \E shifts \in SUBSET Shifts \ {{}} : CreateEvent(h, shifts) \/ UpdateEvent(h, shifts)
  PROVE  SheetsInv'
<1> DEFINE task == eventTask[h]
<1>1. EventTypeOK /\ EventTypeOK' /\ SheetsKept /\ Syncing(task)
  BY EventStepType DEF SheetsInv
<1>2. CASE BeginEventSync(h) \/ EventFails(h) \/ (\E p \in Sheets : CheckSheet(h, p)) \/ (\E s \in Shifts : BeginDeleteShift(h, s))
  <2>1. UNCHANGED <<event, planned, shiftState, able, sheet, synced, filled>>
    BY <1>2 DEF BeginEventSync, EventFails, CheckSheet, BeginDeleteShift
  <2>2. Kept' = Kept /\ Due' = Due /\ There(planned)' = There(planned)
    BY <2>1, SheetsStay
  <2>4. Syncing(eventTask[h])'
    <3>1. CASE BeginEventSync(h)
      <4>1. Lists(h, There(planned), Kept, TRUE) /\ event # "none"
        BY <1>1, <3>1, EventSteps DEF BeginEventSync
      <4>2. eventTask'[h].pc = "list" /\ eventTask'[h].shifts = There(planned) /\ eventTask'[h].loaded = Kept
        BY <4>1 DEF Lists, Listing
      <4> QED BY <2>1, <2>2, <4>1, <4>2 DEF Syncing
    <3>2. CASE EventFails(h)
      <4>1. eventTask'[h] = Idle
        BY <1>1, <3>2, EventSteps DEF EventFails, EventGoes
      <4> QED BY <4>1 DEF Syncing, Idle
    <3>3. CASE \E p \in Sheets : CheckSheet(h, p)
      <4>1. PICK p \in Sheets : CheckSheet(h, p)
        BY <3>3
      <4>2. eventTask'[h] = [pc |-> "fill", sheet |-> p] /\ sheet[p] # "none"
        BY <1>1, <4>1, EventSteps DEF EventGoes, CheckSheet
      <4> QED BY <2>1, <4>2 DEF Syncing
    <3>4. CASE \E s \in Shifts : BeginDeleteShift(h, s)
      BY <1>1, <3>4, EventSteps DEF Syncing
    <3> QED BY <1>2, <3>1, <3>2, <3>3, <3>4
  <2>5. SheetsKept'
    BY <1>1, <2>1, <2>2 DEF SheetsKept
  <2> QED BY <1>1, <2>4, <2>5, SheetsByOne
<1>3. CASE ListSheets(h)
  <2>1. task.pc = "list" /\ UNCHANGED <<event, planned, shiftState, able, sheet, synced, filled>>
    BY <1>3 DEF ListSheets, EventAt
  <2>2. Kept' = Kept /\ Due' = Due /\ There(planned)' = There(planned)
    BY <2>1, SheetsStay
  <2>3. Makes(h, SheetsOf(task.shifts), SheetsOf(task.shifts))
    BY <1>1, <1>3, EventSteps
  <2>4. SheetsOf(task.shifts) = Due /\ (task.all => Kept \subseteq task.loaded)
    BY <1>1, <2>1 DEF Syncing, Due
  <2>5. Syncing(eventTask[h])'
    BY <1>1, <2>1, <2>2, <2>3, <2>4 DEF Makes, Making, Syncing
  <2>6. SheetsKept'
    BY <1>1, <2>1, <2>2 DEF SheetsKept
  <2> QED BY <1>1, <2>5, <2>6, SheetsByOne
<1>4. CASE \E p \in Sheets : MakeSheet(h, p)
  <2>1. PICK p \in Sheets : MakeSheet(h, p)
    BY <1>4
  <2>2. /\ task.pc = "make" /\ p \in task.todo /\ event # "none"
        /\ sheet' = (IF sheet[p] = "none" THEN [sheet EXCEPT ![p] = "open"] ELSE sheet)
        /\ UNCHANGED <<event, planned, shiftState, able, synced, filled>>
    BY <2>1 DEF MakeSheet, EventAt
  <2>3. Makes(h, task.wanted, task.todo \ {p})
    BY <1>1, <2>1, EventSteps
  <2>4. Kept' = Kept \cup {p}
    BY <1>1, <2>2 DEF Kept, EventTypeOK
  <2>5. Due' = Due
    BY <2>2 DEF Due, There, SheetsOf
  <2>6. /\ task.wanted = Due /\ p \in Due /\ task.todo \subseteq task.wanted
        /\ task.wanted \ task.todo \subseteq Kept
        /\ task.all => Kept \subseteq task.loaded \cup task.wanted
    BY <1>1, <2>2 DEF Syncing
  <2>7. Syncing(eventTask[h])'
    BY <2>2, <2>3, <2>4, <2>5, <2>6 DEF Makes, Making, Syncing
  <2>8. \A q \in filled : sheet'[q] = "filled"
    BY <1>1, <2>2 DEF SheetsKept, EventTypeOK
  <2>9. SheetsKept'
    BY <1>1, <2>2, <2>4, <2>5, <2>6, <2>8 DEF SheetsKept
  <2> QED BY <1>1, <2>7, <2>9, SheetsByOne
<1>5. CASE RemoveSheets(h)
  <2>1. /\ task.pc = "make" /\ task.todo = {} /\ UNCHANGED <<event, planned, shiftState, able, filled>>
        /\ sheet' = [p \in Sheets |-> IF p \in task.loaded \ task.wanted THEN "none" ELSE sheet[p]]
        /\ synced' = task.all
    BY <1>5 DEF RemoveSheets, EventAt
  <2>2. EventGoes(h, Idle)
    BY <1>1, <1>5, EventSteps DEF RemoveSheets
  <2>3. Due' = Due
    BY <2>1 DEF Due, There, SheetsOf
  <2>4. Kept' = Kept \ (task.loaded \ task.wanted)
    BY <2>1 DEF Kept
  <2>5. task.wanted = Due /\ task.wanted \subseteq Kept /\ (task.all => Kept \subseteq task.loaded \cup task.wanted)
    BY <1>1, <2>1 DEF Syncing
  <2>6. synced' => Kept' = Due'
    BY <2>1, <2>3, <2>4, <2>5
  <2>7. \A q \in filled : sheet'[q] = "filled"
    BY <1>1, <2>1, <2>5 DEF SheetsKept, EventTypeOK
  <2>8. event' # "none"
    BY <1>1, <2>1 DEF Syncing
  <2>9. SheetsKept'
    BY <1>1, <2>1, <2>3, <2>6, <2>7, <2>8 DEF SheetsKept
  <2>10. Syncing(eventTask[h])'
    BY <2>2 DEF EventGoes, Syncing, Idle
  <2> QED BY <1>1, <2>9, <2>10, SheetsByOne
<1>6. CASE FillSheet(h)
  <2> DEFINE p == task.sheet
  <2>1. /\ task.pc = "fill" /\ event # "none" /\ UNCHANGED <<event, planned, shiftState, able, synced>>
        /\ sheet' = [sheet EXCEPT ![p] = "filled"]
        /\ filled' = filled \cup ({p} \cap Due)
    BY <1>6 DEF FillSheet, EventAt, Due
  <2>2. EventGoes(h, Idle)
    BY <1>1, <1>6, EventSteps DEF FillSheet
  <2>3. p \in Sheets /\ sheet[p] # "none"
    BY <1>1, <2>1, EventTaskOf DEF EventAt, Filling, Syncing
  <2>4. Due' = Due
    BY <2>1 DEF Due, There, SheetsOf
  <2>5. Kept' = Kept
    BY <1>1, <2>1, <2>3 DEF Kept, EventTypeOK
  <2>6. \A q \in filled' : sheet'[q] = "filled" /\ q \in Due
    BY <1>1, <2>1, <2>3 DEF SheetsKept, EventTypeOK
  <2>7. SheetsKept'
    BY <1>1, <2>1, <2>4, <2>5, <2>6 DEF SheetsKept
  <2>8. Syncing(eventTask[h])'
    BY <2>2 DEF EventGoes, Syncing, Idle
  <2> QED BY <1>1, <2>7, <2>8, SheetsByOne
<1>7. CASE DeleteEvent(h)
  <2>1. /\ task.pc = "idle" /\ eventTask' = eventTask /\ sheet' = [p \in Sheets |-> "none"]
        /\ synced' = FALSE /\ filled' = {}
    BY <1>7 DEF DeleteEvent, EventAt
  <2>2. Kept' = {}
    BY <2>1 DEF Kept
  <2> QED BY <1>1, <2>1, <2>2, SheetsByOne DEF SheetsKept, Syncing
<1>8. CASE DeleteShift(h)
  <2> DEFINE s == task.shift
  <2>1. /\ task.pc = "delete" /\ UNCHANGED <<event, able, sheet>> /\ synced' = FALSE
        /\ filled' = {p \in filled : p[2] # s}
        /\ planned' \in {planned, planned \ {s}}
        /\ shiftState' \in {[shiftState EXCEPT ![s] = "hidden"], [shiftState EXCEPT ![s] = "removed"]}
    BY <1>8 DEF DeleteShift, EventAt
  <2>2. EventGoes(h, Idle)
    BY <1>1, <1>8, EventSteps DEF DeleteShift
  <2>3. Kept' = Kept
    BY <2>1 DEF Kept
  <2>4. \A p \in Due : p[2] # s => p \in Due'
    BY <1>1, <2>1 DEF Due, SheetsOf, There, EventTypeOK
  <2>5. \A p \in filled' : sheet'[p] = "filled" /\ p \in Due'
    BY <1>1, <2>1, <2>4 DEF SheetsKept
  <2>6. SheetsKept'
    BY <1>1, <2>1, <2>3, <2>5 DEF SheetsKept
  <2>7. Syncing(eventTask[h])'
    BY <2>2 DEF EventGoes, Syncing, Idle
  <2> QED BY <1>1, <2>6, <2>7, SheetsByOne
<1>9. CASE \E shifts \in SUBSET Shifts \ {{}} : CreateEvent(h, shifts) \/ UpdateEvent(h, shifts)
  <2>1. PICK shifts \in SUBSET Shifts : CreateEvent(h, shifts) \/ UpdateEvent(h, shifts)
    BY <1>9
  <2>2. shifts = There(shifts) /\ planned' = shifts /\ UNCHANGED <<shiftState, able, sheet>> /\ event' # "none"
    BY <2>1 DEF CreateEvent, UpdateEvent
  <2>3. There(planned)' = shifts /\ Kept' = Kept /\ Due' = SheetsOf(shifts)
    BY <2>2 DEF There, Kept, Due, SheetsOf
  <2>4. CASE CreateEvent(h, shifts)
    <3>1. Lists(h, shifts, {}, TRUE) /\ event = "none" /\ UNCHANGED <<synced, filled>>
      BY <1>1, <2>4, EventSteps DEF CreateEvent
    <3>2. Kept = {} /\ ~ synced /\ filled = {}
      BY <1>1, <3>1 DEF SheetsKept
    <3>3. eventTask'[h].pc = "list" /\ eventTask'[h].shifts = shifts
      BY <3>1 DEF Lists, Listing
    <3>4. Syncing(eventTask[h])'
      BY <2>2, <2>3, <3>2, <3>3 DEF Syncing
    <3>5. SheetsKept'
      BY <2>2, <3>1, <3>2 DEF SheetsKept
    <3> QED BY <1>1, <3>4, <3>5, SheetsByOne
  <2>5. CASE UpdateEvent(h, shifts)
    <3>1. Lists(h, shifts, {}, FALSE) /\ synced' = FALSE /\ filled' = {p \in filled : p[2] \in shifts}
      BY <1>1, <2>5, EventSteps DEF UpdateEvent
    <3>2. Syncing(eventTask[h])'
      BY <2>2, <2>3, <3>1 DEF Lists, Listing, Syncing
    <3>3. \A p \in Due : p[2] \in shifts => p \in SheetsOf(shifts)
      BY DEF Due, SheetsOf
    <3>4. SheetsKept'
      BY <1>1, <2>2, <2>3, <3>1, <3>3 DEF SheetsKept
    <3> QED BY <1>1, <3>2, <3>4, SheetsByOne
  <2> QED BY <2>1, <2>4, <2>5
<1> QED BY <1>2, <1>3, <1>4, <1>5, <1>6, <1>7, <1>8, <1>9

LEMMA SheetsNext ==
  ASSUME \A g, h \in Handlers : g = h
  PROVE  SheetsInv /\ [EventQuietNext]_eventVars => SheetsInv'
<1>1. ASSUME SheetsInv, EventStarts PROVE SheetsInv'
  <2>1. event # "none" /\ event' # "none" /\ UNCHANGED <<planned, shiftState, able, sheet, synced, filled, eventTask>>
    BY <1>1 DEF EventStarts
  <2>2. Kept' = Kept /\ Due' = Due /\ There(planned)' = There(planned)
    BY <2>1, SheetsStay
  <2>3. EventTypeOK'
    BY <1>1, EventNextType DEF SheetsInv, EventNext, EventStep
  <2>4. \A h \in Handlers : Syncing(eventTask[h]) => Syncing(eventTask[h])'
    BY <2>1, <2>2 DEF Syncing
  <2> QED BY <1>1, <2>1, <2>2, <2>3, <2>4 DEF SheetsInv, SheetsKept
<1>2. ASSUME SheetsInv, \A h \in Handlers : EventAt(h, "idle"), NEW s \in Shifts, NEW users \in SUBSET Crew,
             AbleChanges(s, users)
      PROVE  SheetsInv'
  <2>1. /\ able' = [able EXCEPT ![s] = users] /\ synced' = FALSE
        /\ filled' = {p \in filled : p[2] = s => p[1] \in users}
        /\ UNCHANGED <<event, planned, shiftState, sheet, eventTask>>
    BY <1>2 DEF AbleChanges
  <2>2. EventTypeOK'
    BY <1>2, EventNextType DEF SheetsInv, EventNext
  <2>3. Kept' = Kept /\ There(planned)' = There(planned)
    BY <2>1 DEF Kept, There
  <2>4. \A p \in Due : (p[2] = s => p[1] \in users) => p \in Due'
    BY <1>2, <2>1, <2>3 DEF SheetsInv, EventTypeOK, Due, SheetsOf
  <2>5. SheetsKept'
    BY <1>2, <2>1, <2>3, <2>4 DEF SheetsInv, SheetsKept
  <2>6. \A h \in Handlers : Syncing(eventTask[h])'
    BY <1>2, <2>1 DEF Syncing, EventAt
  <2> QED BY <2>2, <2>5, <2>6 DEF SheetsInv
<1>3. ASSUME SheetsInv, UNCHANGED eventVars PROVE SheetsInv'
  <2>1. UNCHANGED <<event, planned, shiftState, able, sheet, synced, filled, eventTask>> /\ EventTypeOK'
    BY <1>3, EventNextType DEF SheetsInv, eventVars
  <2>2. Kept' = Kept /\ Due' = Due /\ There(planned)' = There(planned)
    BY <2>1, SheetsStay
  <2>3. \A h \in Handlers : Syncing(eventTask[h]) => Syncing(eventTask[h])'
    BY <2>1, <2>2 DEF Syncing
  <2> QED BY <1>3, <2>1, <2>2, <2>3 DEF SheetsInv, SheetsKept
<1> QED BY <1>1, <1>2, <1>3, SheetsStep DEF EventQuietNext, EventStep

LEMMA KeptIsDue == SheetsInv => SheetsSettle
BY DEF SheetsInv, SheetsKept, SheetsSettle, Due

(***************************************************************************)
(* With one request at a time, between which roles change: after a         *)
(* synchronisation that looked at all sheets there is a sheet for exactly  *)
(* those who can do a planned shift, and what was filled in stays as long  *)
(* as its user can do the shift, wherever earlier attempts failed.         *)
(***************************************************************************)
THEOREM SheetsSettleAlways ==
  ASSUME \A g, h \in Handlers : g = h
  PROVE  EventInit /\ [][EventQuietNext]_eventVars => []SheetsSettle
BY SheetsInitInv, SheetsNext, KeptIsDue, PTL
-----------------------------------------------------------------------------
(***************************************************************************)
(* The instances that the runs check, made of all the components: a step   *)
(* is one of the component in focus and leaves the others as they are, so  *)
(* every component takes its own steps only.                               *)
(***************************************************************************)
LEMMA InitOfEach ==
  Init => /\ MembersInit /\ FinesInit /\ SalesInit /\ InvoicesInit
          /\ SellerInit /\ ExpiryInit /\ QRInit /\ SyncInit
          /\ VoucherInit /\ OrganInit /\ RolesInit /\ RoomInit
          /\ FilesInit /\ EventInit
BY DEF Init

LEMMA ConcurrentSteps ==
  [ConcurrentNext]_vars =>
    /\ [MembersNext]_membersVars /\ [FinesNext]_finesVars /\ [SalesNext]_salesVars
    /\ [InvoicesNext]_invoicesVars /\ [SellerNext]_sellerVars /\ [ExpiryNext]_expiryVars
    /\ [QRNext]_qrVars /\ [SyncNext]_syncVars /\ [VoucherNext]_voucherVars /\ [OrganNext]_organVars
    /\ [RolesNext]_rolesVars /\ [RoomNext]_roomVars /\ [FilesNext]_filesVars /\ [EventNext]_eventVars
<1>1. CASE UNCHANGED vars
  BY <1>1 DEF vars
<1>2. CASE ConcurrentNext
  BY <1>2 DEF ConcurrentNext, Others
<1> QED BY <1>1, <1>2

LEMMA SerialRunSteps ==
  [SerialNext]_vars =>
    /\ [ExpiryNext]_expiryVars /\ [SyncNext]_syncVars
    /\ [RolesNext]_rolesVars /\ [EventQuietNext]_eventVars
    /\ [RoomQuietNext]_roomVars /\ [FilesQuietNext]_filesVars
<1>1. CASE UNCHANGED vars
  BY <1>1 DEF vars
<1>2. CASE SerialNext
  BY <1>2 DEF SerialNext, Others
<1> QED BY <1>1, <1>2

(***************************************************************************)
(* All variables have their types, for any values of the constants and any *)
(* number of handlers, with every fault.                                   *)
(***************************************************************************)
THEOREM TypeOKAlways == ConcurrentSpec => []TypeOK
<1>1. QRTypeOK /\ [QRNext]_qrVars => QRTypeOK'
  BY QRStep
<1>2. /\ MembersInv => MembersTypeOK
      /\ FinesInv => FinesTypeOK
      /\ SalesInv => SalesTypeOK
      /\ InvoicesInv => InvoicesTypeOK
      /\ SellerInv => SellerTypeOK
      /\ WarnInv => ExpiryTypeOK
      /\ SyncInv => SyncTypeOK
      /\ VoucherInv => VoucherTypeOK
      /\ RolesInv => RolesTypeOK
  BY DEF MembersInv, FinesInv, SalesInv, InvoicesInv, SellerInv, WarnInv, SyncInv, VoucherInv, RolesInv
<1>3. ConcurrentSpec => [](MembersInv /\ FinesInv /\ SalesInv /\ InvoicesInv)
  BY InitOfEach, ConcurrentSteps, MembersInitInv, MembersNextInv, FinesInitInv, FinesStepInv,
     SalesInitInv, SalesStepInv, InvoicesInitInv, InvoicesNextInv, PTL DEF ConcurrentSpec
<1>4. ConcurrentSpec => [](SellerInv /\ WarnInv /\ QRTypeOK /\ SyncInv)
  BY <1>1, InitOfEach, ConcurrentSteps, SellerInitInv, SellerStepInv, WarnInitInv, ExpiryStepInv,
     QRInitType, SyncInitInv, SyncNextInv, PTL DEF ConcurrentSpec
<1>5. ConcurrentSpec => [](VoucherInv /\ OrganTypeOK /\ RolesInv /\ RoomTypeOK)
  BY InitOfEach, ConcurrentSteps, VoucherInitInv, VoucherNextInv, OrganInitType, OrganTypeNext,
     RolesInitInv, RolesNextInv, RoomInitType, RoomTypeNext, PTL DEF ConcurrentSpec
<1>6. ConcurrentSpec => [](FilesTypeOK /\ EventTypeOK)
  BY InitOfEach, ConcurrentSteps, FilesInitType, FilesNextType, EventInitType, EventNextType, PTL DEF ConcurrentSpec
<1>7. /\ MembersTypeOK /\ FinesTypeOK /\ SalesTypeOK /\ InvoicesTypeOK
      /\ SellerTypeOK /\ ExpiryTypeOK /\ QRTypeOK /\ SyncTypeOK
      /\ VoucherTypeOK /\ OrganTypeOK /\ RolesTypeOK /\ RoomTypeOK /\ FilesTypeOK
      /\ EventTypeOK
      => TypeOK
  BY DEF TypeOK
<1> QED BY <1>2, <1>3, <1>4, <1>5, <1>6, <1>7, PTL

(***************************************************************************)
(* For any number of handlers and wherever one of their separate saves     *)
(* fails: a fine and a seller payout have their transfer, a card with      *)
(* money its link to the group, a current revision number the saved        *)
(* revision, a linked file its place on disk.                              *)
(***************************************************************************)
THEOREM RowsHaveTheirPartnersAlways == ConcurrentSpec => []RowsHaveTheirPartners
<1>1. /\ FinesInv => FineIsPaid
      /\ SellerInv => PayoutIsBooked
      /\ VoucherInv => CreditIsLinked
      /\ SalesInv => CurrentIsSaved
      /\ LinkInv => LinkIsLocated
  BY DEF FinesInv, SellerInv, PayoutsBooked, PayoutIsBooked, VoucherInv, SalesInv, CatalogueInv, LinkInv
<1>2. ConcurrentSpec => [](FinesInv /\ SellerInv /\ VoucherInv)
  BY InitOfEach, ConcurrentSteps, FinesInitInv, FinesStepInv, SellerInitInv, SellerStepInv,
     VoucherInitInv, VoucherNextInv, PTL DEF ConcurrentSpec
<1>3. ConcurrentSpec => [](SalesInv /\ LinkInv)
  BY InitOfEach, ConcurrentSteps, SalesInitInv, SalesStepInv, LinkInitInv, LinkNext, PTL DEF ConcurrentSpec
<1>4. FineIsPaid /\ PayoutIsBooked /\ CreditIsLinked /\ CurrentIsSaved /\ LinkIsLocated => RowsHaveTheirPartners
  BY DEF RowsHaveTheirPartners
<1> QED BY <1>1, <1>2, <1>3, <1>4, PTL

(***************************************************************************)
(* For one run of the synchronisation at a time, with requests at any      *)
(* moment of it: a person is mailed at most once for each expiry date, and *)
(* at most once for each time the account was deactivated, by a run or by  *)
(* a request.                                                              *)
(***************************************************************************)
THEOREM MailedOnceAlways ==
  ASSUME \A g, h \in Handlers : g = h
  PROVE  SerialSpec => []MailedOnce
<1>1. ToldInv /\ [SyncNext]_syncVars => ToldInv'
  BY ToldNext
<1>2. WarnInv /\ ToldInv => MailedOnce
  BY WarnedByDate DEF ToldInv, MailedOnce
<1> QED BY <1>1, <1>2, InitOfEach, SerialRunSteps, WarnInitInv, ExpiryStepInv, ToldInitInv, PTL DEF SerialSpec

(***************************************************************************)
(* For one synchronisation or request at a time: permissions settle on the *)
(* definition of the role, answer sheets on those who can do the shifts.   *)
(***************************************************************************)
THEOREM ListsSettleAlways ==
  ASSUME \A g, h \in Handlers : g = h
  PROVE  SerialSpec => []ListsSettle
<1>1. SettleInv /\ [RolesNext]_rolesVars => SettleInv'
  BY SettleNext
<1>2. SheetsInv /\ [EventQuietNext]_eventVars => SheetsInv'
  BY SheetsNext
<1>3. SettleInv /\ SheetsInv => ListsSettle
  BY SettledIsDefined, KeptIsDue DEF ListsSettle
<1> QED BY <1>1, <1>2, <1>3, InitOfEach, SerialRunSteps, SettleInitInv, SheetsInitInv, PTL DEF SerialSpec

(***************************************************************************)
(* For one request at a time: when nothing is in progress, every client    *)
(* shows the mode that is set, and files show what the entities are.       *)
(***************************************************************************)
THEOREM ShownIsCurrentAlways ==
  ASSUME \A g, h \in Handlers : g = h
  PROVE  SerialSpec => []ShownIsCurrent
<1>1. RoomInv /\ [RoomQuietNext]_roomVars => RoomInv'
  BY RoomQuietInv
<1>2. CurrentInv /\ [FilesQuietNext]_filesVars => CurrentInv'
  BY CurrentNext
<1>3. RoomInv /\ CurrentInv => ShownIsCurrent
  BY TidyIsCurrent DEF RoomInv, ShownIsCurrent
<1> QED BY <1>1, <1>2, <1>3, InitOfEach, SerialRunSteps, RoomInitInv, CurrentInitInv, PTL DEF SerialSpec

LEMMA SerialMoneySteps ==
  [SerialNext]_vars =>
    /\ [MembersNext]_membersVars /\ [FinesStep]_finesVars /\ [InvoicesNext]_invoicesVars
    /\ [CatalogueStep]_catalogueVars /\ [SalesStep]_salesVars /\ [SellerNext]_sellerVars
    /\ [VoucherStep]_voucherVars /\ [OrganNext]_organVars
<1>1. CASE UNCHANGED vars
  BY <1>1 DEF vars, salesVars
<1>2. CASE SerialNext
  <2>1. Editing(CatalogueStep) => SalesStep /\ CatalogueStep
    BY DEF SalesStep, Editing
  <2>2. SalesStep => [CatalogueStep]_catalogueVars
    BY DEF SalesStep, Purchasing, Editing, BeginSale, LoadPointOfSale, LoadContainers, SaveSale,
           SaleFails, salesTables, catalogueVars
  <2>3. SellerStep => SellerNext
    BY DEF SellerNext
  <2> QED BY <1>2, <2>1, <2>2, <2>3 DEF SerialNext, Others, salesVars
<1> QED BY <1>1, <1>2

(***************************************************************************)
(* The money and the lists of all components together, for one request at  *)
(* a time: every step of the composition is a step of each component or    *)
(* leaves its variables alone, so what is proved of each holds in it.      *)
(***************************************************************************)
THEOREM SerialKeepsBooksAlways ==
  ASSUME \A g, h \in Handlers : g = h
  PROVE  SerialSpec =>
           /\ [](TopupsAreBounded /\ ClosedOwesNothing /\ CatalogueIsCurrent /\ SoldIsOffered)
           /\ [](InvoicedOnce /\ PaidOnce /\ CardsMatchGroup /\ MembersHaveIndices)
           /\ PaidIsCleared /\ WaiverIsBounded
<1>1. SerialSpec => MembersSpec /\ InvoicesSpec /\ SellerSpec /\ OrganSpec
  BY InitOfEach, SerialMoneySteps, PTL DEF SerialSpec, MembersSpec, InvoicesSpec, SellerSpec, OrganSpec
<1>2. SalesInit => CatalogueInit
  BY DEF SalesInit
<1>3. SerialSpec => /\ CatalogueInit /\ [][CatalogueStep]_catalogueVars
                    /\ SalesInit /\ [][SalesStep]_salesVars
                    /\ VoucherInit /\ [][VoucherStep]_voucherVars
                    /\ FinesInit /\ [][FinesStep]_finesVars
  BY <1>2, InitOfEach, SerialMoneySteps, PTL DEF SerialSpec
<1>4. [FinesStep]_finesVars => [FinesNext]_finesVars
  BY DEF FinesNext
<1>5. SerialSpec => FinesSpec /\ FinesQuietSpec
  BY <1>3, <1>4, PTL DEF FinesSpec, FinesQuietSpec
<1>6. SerialSpec => [](TopupsAreBounded /\ ClosedOwesNothing /\ CatalogueIsCurrent /\ SoldIsOffered)
  BY <1>1, <1>3, TopupsAreBoundedAlways, ClosedOwesNothingAlways, CatalogueIsCurrentAlways,
     SoldIsOfferedAlways, PTL
<1>7. SerialSpec => [](InvoicedOnce /\ PaidOnce /\ CardsMatchGroup /\ MembersHaveIndices)
  BY <1>1, <1>3, InvoicedOnceAlways, PaidOnceAlways, CardsMatchGroupAlways, MembersHaveIndicesAlways, PTL
<1>8. SerialSpec => PaidIsCleared /\ WaiverIsBounded
  BY <1>5, PaidIsClearedAlways, WaiverIsBoundedAlways
<1> QED BY <1>6, <1>7, <1>8
=============================================================================

------------------------------- MODULE Files -------------------------------
(***************************************************************************)
(* A file that belongs to an entity: the PDF of an invoice, the PDF of a   *)
(* seller payout, the image of a banner or product.  The entity links to   *)
(* the row of the file; the row names a file on disk and, for a PDF, keeps *)
(* the hash of what the PDF shows.  The server writes to the disk without  *)
(* waiting, so a removal and the write after it are one step.              *)
(***************************************************************************)
EXTENDS Integers, Server

CONSTANTS
  Versions,       \* what an entity can show, and what can be uploaded
  MaxUploads      \* bound on the rows, and on the files, there ever are

ASSUME FilesAssumption == MaxUploads \in Nat /\ Versions \subseteq Nat \ {0} /\ Versions # {}

VARIABLES
  kind,           \* "invoice": its own columns are shown; "report": what is shown is
                  \* asked of the database each time; "product" or "banner": an image
  shows,          \* what the entity shows now
  exists,         \* the entity's row; only a banner is ever deleted
  fileLink,       \* the id of the entity's file, 0 without one
  fileRow,        \* the rows of its table
  simpleRow,      \* the location in the row of the same id among the simple files, 0 without one
  disk,           \* the content of each file; Unwritten before, Erased after
  answered,       \* history: the content of the PDF last answered with, 0 when the
                  \* entity has changed since
  fileTask

filesVars == <<kind, shows, exists, fileLink, fileRow, simpleRow, disk, answered, fileTask>>

FileIds == 1 .. MaxUploads

Images == {"product", "banner"}

Kinds == {"invoice", "report"} \cup Images

Unwritten == 0

Erased == -1

\* A location of 0 is the empty one a row is made with.  A row is absent when its id is
\* given and it is not in its table: no more, or not yet.
FileRows ==
  [state : {"unused", "stored", "absent"}, location : 0 .. MaxUploads, hash : {0} \cup Versions]

NoFile == [state |-> "unused", location |-> 0, hash |-> 0]

\* A request: the entity and the row of its file as they were loaded, and what it made.
FileTask ==
  {Idle} \cup
  [pc : {"check", "render", "hash", "insert", "write", "locate", "name", "link",
         "unlink", "unstore", "unrow", "delete"},
   row : 0 .. MaxUploads, old : FileRows, fresh : BOOLEAN, shows : Versions,
   content : {0} \cup Versions, hash : {0} \cup Versions, file : 0 .. MaxUploads]

FilesTypeOK ==
  /\ kind \in Kinds /\ shows \in Versions /\ exists \in BOOLEAN
  /\ fileLink \in 0 .. MaxUploads
  /\ fileRow \in [FileIds -> FileRows]
  /\ simpleRow \in [FileIds -> 0 .. MaxUploads]
  /\ disk \in [FileIds -> {Unwritten, Erased} \cup Versions]
  /\ answered \in {0} \cup Versions
  /\ fileTask \in [Handlers -> FileTask]

FilesInit ==
  /\ kind \in Kinds /\ exists = TRUE
  /\ shows = CHOOSE v \in Versions : TRUE
  /\ fileLink = 0 /\ fileRow = [f \in FileIds |-> NoFile]
  /\ simpleRow = [f \in FileIds |-> 0]
  /\ disk = [f \in FileIds |-> Unwritten]
  /\ answered = 0
  /\ fileTask = [h \in Handlers |-> Idle]

FileAt(h, pc) == fileTask[h].pc = pc

FileGo(h, task) == fileTask' = [fileTask EXCEPT ![h] = task]

LoadEntity(h, pc, content) ==
  /\ FileAt(h, "idle") /\ exists
  /\ FileGo(h, [pc |-> pc, row |-> fileLink, fresh |-> fileLink = 0,
                old |-> IF fileLink = 0 THEN NoFile ELSE fileRow[fileLink],
                shows |-> shows, content |-> content, hash |-> 0, file |-> 0])
  /\ UNCHANGED <<kind, shows, exists, fileLink, fileRow, simpleRow, disk, answered>>

\* What a PDF shows.
Parameters(task) == IF kind = "invoice" THEN task.shows ELSE shows

\* Ids and file names are never given twice.
NextRow == 1 + Cardinality({f \in FileIds : fileRow[f].state # "unused"})

NextFile == 1 + Cardinality({f \in FileIds : disk[f] # Unwritten})

OnDisk(f) == f # 0 /\ disk[f] \in Versions
-----------------------------------------------------------------------------
(***************************************************************************)
(* GET of a PDF: the one there is, if its hash still fits, or else a new   *)
(* one from the external generator.                                        *)
(***************************************************************************)
\* Mutant of Fits: a PDF that exists is answered with.
Fits_Any(old, current) == TRUE

Fits(old, current) == old.hash = current

CheckPdf(h) ==
  LET task == fileTask[h]
  IN  /\ FileAt(h, "check")
      /\ \/ /\ task.row # 0 /\ Fits(task.old, Parameters(task))
            /\ answered' = IF OnDisk(task.old.location) THEN disk[task.old.location] ELSE 0
            /\ FileGo(h, Idle)
         \/ \* It does not fit, or the request insists on a new one.
            /\ FileGo(h, [task EXCEPT !.pc = "render"])
            /\ UNCHANGED answered
      /\ UNCHANGED <<kind, shows, exists, fileLink, fileRow, simpleRow, disk>>

RenderPdf(h) ==
  /\ FileAt(h, "render")
  /\ FileGo(h, [fileTask[h] EXCEPT !.content = Parameters(fileTask[h]), !.pc = "hash"])
  /\ UNCHANGED <<kind, shows, exists, fileLink, fileRow, simpleRow, disk, answered>>

HashPdf(h) ==
  LET task == fileTask[h]
  IN  /\ FileAt(h, "hash")
      /\ FileGo(h, [task EXCEPT !.hash = Parameters(task),
                                !.pc = IF task.fresh THEN "insert" ELSE "write"])
      /\ UNCHANGED <<kind, shows, exists, fileLink, fileRow, simpleRow, disk, answered>>
-----------------------------------------------------------------------------
(***************************************************************************)
(* Storing a file, of which the row comes first: a new row, or the file of *)
(* the old one is removed; the file; its location; its name and hash; the  *)
(* link, for which the whole entity is saved as it was loaded.             *)
(***************************************************************************)
UploadImage(h, v) ==
  /\ kind \in Images
  /\ LoadEntity(h, IF fileLink = 0 THEN "insert" ELSE "write", v)

\* Mutant of InsertFile: the entity is linked to the row at once.
InsertFile_Linked(h) ==
  LET task == fileTask[h]
  IN  /\ FileAt(h, "insert") /\ NextRow <= MaxUploads
      /\ fileRow' = [fileRow EXCEPT ![NextRow] =
                       [state |-> "stored", location |-> 0, hash |-> task.hash]]
      /\ fileLink' = NextRow
      /\ FileGo(h, [task EXCEPT !.pc = "write", !.row = NextRow])
      /\ UNCHANGED <<kind, shows, exists, simpleRow, disk, answered>>

\* The id of a banner's image is that of a row among the images of products.
InsertFile(h) ==
  LET task == fileTask[h]
  IN  /\ FileAt(h, "insert") /\ NextRow <= MaxUploads
      /\ fileRow' = [fileRow EXCEPT ![NextRow] =
                       [state |-> IF kind = "banner" THEN "absent" ELSE "stored",
                        location |-> 0, hash |-> task.hash]]
      /\ FileGo(h, [task EXCEPT !.pc = "write", !.row = NextRow])
      /\ UNCHANGED <<kind, shows, exists, fileLink, simpleRow, disk, answered>>

Without(location) == IF OnDisk(location) THEN [disk EXCEPT ![location] = Erased] ELSE disk

\* An empty location is no place on the disk to remove a file from.
WriteFile(h) ==
  LET task == fileTask[h]
  IN  /\ FileAt(h, "write") /\ NextFile <= MaxUploads
      /\ task.fresh \/ task.old.location # 0
      /\ disk' = [Without(task.old.location) EXCEPT ![NextFile] = task.content]
      /\ FileGo(h, [task EXCEPT !.pc = "locate", !.file = NextFile])
      /\ UNCHANGED <<kind, shows, exists, fileLink, fileRow, simpleRow, answered>>

\* A new image is saved to the table of simple files here, and to its own table later.
SaveLocation(h) ==
  LET task == fileTask[h]
  IN  /\ FileAt(h, "locate")
      /\ IF kind \in Images /\ task.fresh
         THEN simpleRow' = [simpleRow EXCEPT ![task.row] = task.file] /\ UNCHANGED fileRow
         ELSE /\ fileRow' = [fileRow EXCEPT ![task.row] =
                   [state |-> "stored", location |-> task.file,
                    hash |-> IF task.fresh THEN task.hash ELSE task.old.hash]]
              /\ UNCHANGED simpleRow
      /\ FileGo(h, [task EXCEPT !.pc = "name"])
      /\ UNCHANGED <<kind, shows, exists, fileLink, disk, answered>>

\* Mutant of SaveName: the hash of the old content stays.
SaveName_OldHash(h) ==
  LET task == fileTask[h]
  IN  /\ FileAt(h, "name")
      /\ fileRow' = [fileRow EXCEPT ![task.row].location = task.file]
      /\ FileGo(h, [task EXCEPT !.pc = "link"])
      /\ UNCHANGED <<kind, shows, exists, fileLink, simpleRow, disk, answered>>

SaveName(h) ==
  LET task == fileTask[h]
  IN  /\ FileAt(h, "name")
      /\ fileRow' = [fileRow EXCEPT ![task.row] =
                       [state |-> "stored", location |-> task.file, hash |-> task.hash]]
      /\ FileGo(h, [task EXCEPT !.pc = "link"])
      /\ UNCHANGED <<kind, shows, exists, fileLink, simpleRow, disk, answered>>

\* A banner that is gone is inserted again; the row of the file must be there.
LinkFile(h) ==
  LET task == fileTask[h]
  IN  /\ FileAt(h, "link") /\ fileRow[task.row].state = "stored"
      /\ fileLink' = task.row /\ exists' = TRUE
      /\ shows' = IF kind = "invoice" THEN task.shows ELSE shows
      /\ answered' = IF kind \notin Images /\ OnDisk(task.file) THEN disk[task.file] ELSE 0
      /\ FileGo(h, Idle)
      /\ UNCHANGED <<kind, fileRow, simpleRow, disk>>
-----------------------------------------------------------------------------
\* Deleting a banner: its link, the file, the row of the file, and the banner.
DeleteBanner(h) ==
  /\ kind = "banner"
  /\ LoadEntity(h, IF fileLink = 0 THEN "delete" ELSE "unlink", 0)

UnlinkFile(h) ==
  /\ FileAt(h, "unlink")
  /\ fileLink' = 0 /\ exists' = TRUE
  /\ FileGo(h, [fileTask[h] EXCEPT !.pc = "unstore"])
  /\ UNCHANGED <<kind, shows, fileRow, simpleRow, disk, answered>>

RemoveStored(h) ==
  LET task == fileTask[h]
  IN  /\ FileAt(h, "unstore") /\ task.old.location # 0
      /\ disk' = Without(task.old.location)
      /\ FileGo(h, [task EXCEPT !.pc = "unrow"])
      /\ UNCHANGED <<kind, shows, exists, fileLink, fileRow, simpleRow, answered>>

RemoveFileRow(h) ==
  LET task == fileTask[h]
  IN  /\ FileAt(h, "unrow") /\ fileLink # task.row
      /\ fileRow' = [fileRow EXCEPT ![task.row].state = "absent"]
      /\ FileGo(h, [task EXCEPT !.pc = "delete"])
      /\ UNCHANGED <<kind, shows, exists, fileLink, simpleRow, disk, answered>>

RemoveBanner(h) ==
  /\ FileAt(h, "delete")
  /\ exists' = FALSE /\ fileLink' = 0
  /\ FileGo(h, Idle)
  /\ UNCHANGED <<kind, shows, fileRow, simpleRow, disk, answered>>
-----------------------------------------------------------------------------
\* A PATCH of the invoice, or a purchase in the period of the payout.
EntityChanges(v) ==
  /\ kind \notin Images /\ v # shows
  /\ shows' = v /\ answered' = 0
  /\ UNCHANGED <<kind, exists, fileLink, fileRow, simpleRow, disk, fileTask>>

\* The generator does not answer.
RenderFails(h) ==
  /\ FileAt(h, "render")
  /\ FileGo(h, Idle)
  /\ UNCHANGED <<kind, shows, exists, fileLink, fileRow, simpleRow, disk, answered>>

\* A statement fails, or is refused, or the process dies.
FileFails(h) ==
  /\ ~ FileAt(h, "idle")
  /\ FileGo(h, Idle)
  /\ UNCHANGED <<kind, shows, exists, fileLink, fileRow, simpleRow, disk, answered>>

(***************************************************************************)
(* createFile: the file cannot be written, or its location not be saved;   *)
(* the row is deleted from the table of simple files, whatever the file    *)
(* is, and a new file is removed.  An old one is gone already.             *)
(***************************************************************************)
CreateFails(h) ==
  LET task == fileTask[h]
  IN  /\ \/ FileAt(h, "write") /\ (task.fresh \/ task.old.location # 0) /\ disk' = Without(task.old.location)
         \/ FileAt(h, "locate") /\ disk' = Without(task.file)
      /\ simpleRow' = [simpleRow EXCEPT ![task.row] = 0]
      /\ FileGo(h, Idle)
      /\ UNCHANGED <<kind, shows, exists, fileLink, fileRow, answered>>

FilesStep ==
  \/ \E h \in Handlers :
       \/ kind \notin Images /\ LoadEntity(h, "check", 0)
       \/ \E v \in Versions : UploadImage(h, v)
       \/ DeleteBanner(h)
       \/ CheckPdf(h) \/ RenderPdf(h) \/ RenderFails(h) \/ HashPdf(h)
       \/ InsertFile(h) \/ WriteFile(h) \/ SaveLocation(h) \/ SaveName(h) \/ LinkFile(h)
       \/ UnlinkFile(h) \/ RemoveStored(h) \/ RemoveFileRow(h) \/ RemoveBanner(h)

FilesNext ==
  \/ FilesStep \/ \E v \in Versions : EntityChanges(v)
  \/ \E h \in Handlers : FileFails(h) \/ CreateFails(h)

\* Nothing changes the entity while a request is in progress, and nothing fails.
FilesQuietNext ==
  \/ FilesStep
  \/ (\A h \in Handlers : FileAt(h, "idle")) /\ \E v \in Versions : EntityChanges(v)

FilesSpec == FilesInit /\ [][FilesNext]_filesVars
-----------------------------------------------------------------------------
(***************************************************************************)
(* However uploads, deletions and failures interleave, the file an entity  *)
(* links to has its row, and the row names a file that was written.        *)
(***************************************************************************)
LinkIsLocated ==
  fileLink # 0 => /\ fileRow[fileLink].state = "stored"
                  /\ fileRow[fileLink].location # 0

(***************************************************************************)
(* With one request at a time and none that fails: a PDF answered with     *)
(* shows what the entity shows; the linked file is on the disk, with the   *)
(* content its hash was computed from; and there is no other file, and no  *)
(* other row in the entity's own table, also after the entity is deleted.  *)
(* Of an image a row among the simple files stays.                         *)
(***************************************************************************)
FilesAreCurrent ==
  (\A h \in Handlers : FileAt(h, "idle")) =>
    /\ answered \in {0, shows}
    /\ fileLink # 0 =>
         /\ OnDisk(fileRow[fileLink].location)
         /\ kind \notin Images => disk[fileRow[fileLink].location] = fileRow[fileLink].hash
    /\ \A f \in FileIds :
         /\ fileRow[f].state = "stored" => f = fileLink
         /\ OnDisk(f) => fileLink # 0 /\ f = fileRow[fileLink].location
=============================================================================

---------------------------- MODULE StorageProofs ----------------------------
(***************************************************************************)
(* For any files, folders, Google accounts and requests: the papers of a   *)
(* person are kept, and the folders they are filed in hold together. What  *)
(* carries the first is that a file between the storage and its row        *)
(* belongs to one request; what carries the second is that every name of   *)
(* the tree keeps its first folder, the one every search settles on, as    *)
(* long as nobody changes the connection or throws a folder away           *)
(* underneath.                                                             *)
(***************************************************************************)
EXTENDS Documents, DriveFolders, FiniteSetTheorems, TLAPS

PaperRow == [status : PaperStatuses, next : Files \cup {NoPaper}]
PaperJob ==
  {NoJob}
  \cup [op : {"send"}, by : {"office", "person"}, old : Files \cup {NoPaper}]
  \cup [op : {"save"}, by : {"office", "person"}, old : Files \cup {NoPaper}, file : Files]
  \cup [op : {"trash"}, file : Files \cup {NoPaper}]
  \cup [op : {"delete", "photo"}, file : Files]

\* The variables are of their shapes.
PaperShape ==
  /\ held \in [DOMAIN held -> PaperRow]
  /\ store \in [DOMAIN store -> {"live", "trashed"}]
  /\ upload \in [Uploads -> PaperJob]
  /\ torn \in BOOLEAN /\ outrun \in BOOLEAN

\* What a request replaces is a row, and the person's own request replaces nothing.
ReplacesARow ==
  \A r \in Uploads : upload[r].op \in {"send", "save"} =>
    /\ upload[r].old \in DOMAIN held \cup {NoPaper}
    /\ upload[r].by = "person" => upload[r].old = NoPaper

\* A file between the storage and its row is live, has no row, and no other
\* request saves it or puts it in the trash.
SavesItsOwnFile ==
  \A r \in Uploads : Working(r, "save") =>
    /\ upload[r].file \in DOMAIN store \ DOMAIN held /\ store[upload[r].file] = "live"
    /\ \A s \in Uploads : s # r /\ upload[s].op \in {"save", "trash"} =>
         upload[s].file # upload[r].file

\* A deletion and a late photo are of a row, and the trash is of a stored file.
WorksOnARow ==
  \A r \in Uploads :
    /\ upload[r].op \in {"delete", "photo"} => upload[r].file \in DOMAIN held
    /\ Working(r, "trash") => upload[r].file \in DOMAIN store \cup {NoPaper}

\* What goes to the trash is not the current paper, unless an answer was lost.
TrashIsNotCurrent ==
  ~torn => \A r \in Uploads : Working(r, "trash") => upload[r].file \notin Current

DocumentInvariant ==
  /\ PaperShape /\ ReplacesARow /\ SavesItsOwnFile /\ WorksOnARow /\ TrashIsNotCurrent
  /\ PaperTypeOK /\ CurrentPaperIsHeld /\ NothingLeftBehind /\ FaceIsCurrent

---------------------------------------------------------------------------
\* A job's fields follow from what it does.
LEMMA PaperJobFields ==
  ASSUME NEW t \in PaperJob
  PROVE  /\ t.op \in {"none", "send", "save", "trash", "delete", "photo"}
         /\ t.op = "none" => t = NoJob
         /\ t.op \in {"send", "save"} =>
              t.by \in {"office", "person"} /\ t.old \in Files \cup {NoPaper}
         /\ t.op \in {"save", "delete", "photo"} => t.file \in Files
         /\ t.op = "trash" => t.file \in Files \cup {NoPaper}
<1>1. CASE t = NoJob
  BY <1>1 DEF NoJob
<1>2. CASE t \in [op : {"send"}, by : {"office", "person"}, old : Files \cup {NoPaper}]
  <2>1. t.op = "send" /\ t.by \in {"office", "person"} /\ t.old \in Files \cup {NoPaper}
    BY <1>2
  <2> QED BY <2>1
<1>3. CASE t \in [op : {"save"}, by : {"office", "person"}, old : Files \cup {NoPaper}, file : Files]
  <2>1. /\ t.op = "save" /\ t.by \in {"office", "person"} /\ t.old \in Files \cup {NoPaper}
        /\ t.file \in Files
    BY <1>3
  <2> QED BY <2>1
<1>4. CASE t \in [op : {"trash"}, file : Files \cup {NoPaper}]
  <2>1. t.op = "trash" /\ t.file \in Files \cup {NoPaper}
    BY <1>4
  <2> QED BY <2>1
<1>5. CASE t \in [op : {"delete", "photo"}, file : Files]
  <2>1. t.op \in {"delete", "photo"} /\ t.file \in Files
    BY <1>5
  <2> QED BY <2>1
<1> QED BY <1>1, <1>2, <1>3, <1>4, <1>5 DEF PaperJob

\* The jobs the steps begin are jobs.
LEMMA PaperJobsBegun ==
  ASSUME NEW by \in {"office", "person"}, NEW old \in Files \cup {NoPaper}, NEW f \in Files,
         NEW g \in Files \cup {NoPaper}
  PROVE  /\ NoJob \in PaperJob
         /\ [op |-> "send", by |-> by, old |-> old] \in PaperJob
         /\ [op |-> "save", by |-> by, old |-> old, file |-> f] \in PaperJob
         /\ [op |-> "trash", file |-> g] \in PaperJob
         /\ [op |-> "delete", file |-> f] \in PaperJob
         /\ [op |-> "photo", file |-> f] \in PaperJob
BY DEF PaperJob

\* The one current paper is a row, and there is none exactly when nothing is current.
LEMMA TheCurrentIsARow ==
  ASSUME PaperAssumption, PaperTypeOK
  PROVE  /\ Current \subseteq DOMAIN held
         /\ TheCurrent \in Current \cup {NoPaper}
         /\ TheCurrent = NoPaper <=> Current = {}
         /\ NoPaper \notin DOMAIN store
BY DEF PaperAssumption, PaperTypeOK, TheCurrent, Current

\* A step that leaves the rows, the storage and the photo alone and gives a request
\* a job that holds no file between storage and row.
LEMMA NewJobKeeps ==
  ASSUME PaperAssumption, DocumentInvariant, NEW r \in Uploads, NEW t \in PaperJob,
         Jobs(r, t), UNCHANGED <<held, store>>,
         t.op \in {"none", "send", "delete", "photo"},
         t.op = "send" => /\ t.old \in DOMAIN held \cup {NoPaper}
                          /\ t.by = "person" => t.old = NoPaper,
         t.op \in {"delete", "photo"} => t.file \in DOMAIN held,
         torn' \in BOOLEAN, outrun' \in BOOLEAN, torn => torn',
         ~torn' => upload[r].op \notin {"save", "trash"},
         thumb' \in DOMAIN held \cup {NoPaper}, FaceIsCurrent'
  PROVE  DocumentInvariant'
<1> USE DEF Working
<1>1. /\ upload' \in [Uploads -> PaperJob] /\ upload'[r] = t
      /\ \A s \in Uploads \ {r} : upload'[s] = upload[s]
  BY DEF Jobs, DocumentInvariant, PaperShape
<1>2. Current' = Current
  BY DEF Current
<1>3. PaperShape' /\ PaperTypeOK' /\ CurrentPaperIsHeld'
  BY <1>1, <1>2 DEF DocumentInvariant, PaperShape, PaperTypeOK, CurrentPaperIsHeld
<1>4. ReplacesARow'
  BY <1>1 DEF DocumentInvariant, ReplacesARow
<1>5. SavesItsOwnFile'
  BY <1>1 DEF DocumentInvariant, SavesItsOwnFile
<1>6. WorksOnARow' /\ TrashIsNotCurrent'
  BY <1>1, <1>2 DEF DocumentInvariant, WorksOnARow, TrashIsNotCurrent
<1>7. NothingLeftBehind'
  BY <1>1, <1>2 DEF DocumentInvariant, NothingLeftBehind
<1> QED BY <1>3, <1>4, <1>5, <1>6, <1>7 DEF DocumentInvariant

LEMMA DocumentInitHolds ==
  ASSUME PaperAssumption, DocumentInit
  PROVE  DocumentInvariant
<1>1. /\ held = <<>> /\ store = <<>> /\ DOMAIN held = {} /\ DOMAIN store = {} /\ thumb = NoPaper
      /\ torn = FALSE /\ outrun = FALSE /\ Current = {}
  BY DEF DocumentInit, Current
<1>2. NoJob \in PaperJob /\ upload \in [Uploads -> PaperJob] /\ \A r \in Uploads : upload[r] = NoJob
  BY DEF DocumentInit, PaperJob
<1>3. PaperShape
  <2>1. held \in [DOMAIN held -> PaperRow] /\ store \in [DOMAIN store -> {"live", "trashed"}]
    BY <1>1
  <2> QED BY <1>1, <1>2, <2>1 DEF PaperShape
<1>4. ReplacesARow /\ SavesItsOwnFile /\ WorksOnARow /\ TrashIsNotCurrent
  BY <1>2 DEF NoJob, ReplacesARow, SavesItsOwnFile, WorksOnARow, TrashIsNotCurrent, Working
<1>5. PaperTypeOK /\ CurrentPaperIsHeld /\ NothingLeftBehind /\ FaceIsCurrent
  BY <1>1 DEF PaperTypeOK, CurrentPaperIsHeld, NothingLeftBehind, FaceIsCurrent
<1> QED BY <1>3, <1>4, <1>5 DEF DocumentInvariant

LEMMA StartUploadKeeps ==
  ASSUME PaperAssumption, DocumentInvariant, NEW r \in Uploads, NEW by \in {"office", "person"},
         StartUpload(r, by)
  PROVE  DocumentInvariant'
<1> DEFINE t == [op |-> "send", by |-> by, old |-> TheCurrent]
<1>1. TheCurrent \in DOMAIN held \cup {NoPaper} /\ DOMAIN held \subseteq Files
  BY TheCurrentIsARow DEF DocumentInvariant, PaperTypeOK
<1>2. t \in PaperJob
  BY <1>1 DEF PaperJob
<1>3. /\ Jobs(r, t) /\ upload[r].op = "none" /\ UNCHANGED <<held, store, thumb, torn, outrun>>
      /\ by = "person" => TheCurrent = NoPaper
  BY DEF StartUpload, MayAdd, Working
<1>4. FaceIsCurrent' /\ thumb' \in DOMAIN held \cup {NoPaper} /\ torn' \in BOOLEAN /\ outrun' \in BOOLEAN
  BY <1>3 DEF DocumentInvariant, FaceIsCurrent, Current, PaperTypeOK, PaperShape
<1> QED BY <1>1, <1>2, <1>3, <1>4, NewJobKeeps

LEMMA StartDeletePaperKeeps ==
  ASSUME PaperAssumption, DocumentInvariant, NEW r \in Uploads, NEW f \in DOMAIN held,
         StartDeletePaper(r, f)
  PROVE  DocumentInvariant'
<1> DEFINE t == [op |-> "delete", file |-> f]
<1>1. f \in Files
  BY DEF DocumentInvariant, PaperTypeOK
<1>2. t \in PaperJob
  BY <1>1, PaperJobsBegun
<1>3. Jobs(r, t) /\ upload[r].op = "none" /\ UNCHANGED <<held, store, thumb, torn, outrun>>
  BY DEF StartDeletePaper, Working
<1>4. FaceIsCurrent' /\ thumb' \in DOMAIN held \cup {NoPaper} /\ torn' \in BOOLEAN /\ outrun' \in BOOLEAN
  BY <1>3 DEF DocumentInvariant, FaceIsCurrent, Current, PaperTypeOK, PaperShape
<1> QED BY <1>1, <1>2, <1>3, <1>4, NewJobKeeps

LEMMA AskPhotoKeeps ==
  ASSUME PaperAssumption, DocumentInvariant, NEW r \in Uploads, AskPhoto(r)
  PROVE  DocumentInvariant'
<1> DEFINE t == [op |-> "photo", file |-> TheCurrent]
<1>1. TheCurrent \in DOMAIN held /\ TheCurrent \in Files
  BY TheCurrentIsARow DEF DocumentInvariant, PaperTypeOK, AskPhoto
<1>2. t \in PaperJob
  BY <1>1, PaperJobsBegun
<1>3. Jobs(r, t) /\ upload[r].op = "none" /\ UNCHANGED <<held, store, thumb, torn, outrun>>
  BY DEF AskPhoto, Working
<1>4. FaceIsCurrent' /\ thumb' \in DOMAIN held \cup {NoPaper} /\ torn' \in BOOLEAN /\ outrun' \in BOOLEAN
  BY <1>3 DEF DocumentInvariant, FaceIsCurrent, Current, PaperTypeOK, PaperShape
<1> QED BY <1>1, <1>2, <1>3, <1>4, NewJobKeeps

LEMMA KeepPhotoKeeps ==
  ASSUME PaperAssumption, DocumentInvariant, NEW r \in Uploads, KeepPhoto(r)
  PROVE  DocumentInvariant'
<1>1. NoJob \in PaperJob /\ NoJob.op = "none"
  BY DEF PaperJob, NoJob
<1>2. /\ Jobs(r, NoJob) /\ upload[r].op = "photo" /\ UNCHANGED <<held, store, torn>>
      /\ thumb' = upload[r].file /\ outrun' = (outrun \/ upload[r].file \notin Current)
  BY DEF KeepPhoto, Working
<1>3. thumb' \in DOMAIN held
  BY <1>2 DEF DocumentInvariant, WorksOnARow
<1>4. torn' \in BOOLEAN /\ outrun' \in BOOLEAN
  BY <1>2 DEF DocumentInvariant, PaperShape
<1>5. FaceIsCurrent'
  BY <1>2 DEF FaceIsCurrent, Current
<1> QED BY <1>1, <1>2, <1>3, <1>4, <1>5, NewJobKeeps

LEMMA AbandonKeeps ==
  ASSUME PaperAssumption, DocumentInvariant, NEW r \in Uploads, Abandon(r)
  PROVE  DocumentInvariant'
<1>1. NoJob \in PaperJob /\ NoJob.op = "none"
  BY DEF PaperJob, NoJob
<1>2. Jobs(r, NoJob) /\ torn' = TRUE /\ UNCHANGED <<held, store, thumb, outrun>>
  BY DEF Abandon
<1>3. FaceIsCurrent' /\ thumb' \in DOMAIN held \cup {NoPaper} /\ torn' \in BOOLEAN /\ outrun' \in BOOLEAN
  BY <1>2 DEF DocumentInvariant, FaceIsCurrent, Current, PaperTypeOK, PaperShape
<1> QED BY <1>1, <1>2, <1>3, NewJobKeeps

\* A new file in the storage is no row's, and the others stay as they are.
LEMMA NewFileStored ==
  ASSUME PaperShape, PaperTypeOK, NEW f \in Files \ DOMAIN store, store' = StoredToo(f)
  PROVE  /\ store' \in [DOMAIN store' -> {"live", "trashed"}]
         /\ DOMAIN store' = DOMAIN store \cup {f} /\ store'[f] = "live"
         /\ \A g \in DOMAIN store : store'[g] = store[g] /\ g # f
         /\ f \notin DOMAIN held
BY DEF PaperShape, PaperTypeOK, StoredToo

LEMMA SendFileKeeps ==
  ASSUME PaperAssumption, DocumentInvariant, NEW r \in Uploads, SendFile(r)
  PROVE  DocumentInvariant'
<1> USE DEF Working
<1>1. PICK f \in Files \ DOMAIN store :
         /\ store' = StoredToo(f)
         /\ Jobs(r, [op |-> "save", by |-> upload[r].by, old |-> upload[r].old, file |-> f])
  BY DEF SendFile
<1> DEFINE t == [op |-> "save", by |-> upload[r].by, old |-> upload[r].old, file |-> f]
<1>2. upload[r] \in PaperJob /\ upload[r].op = "send" /\ UNCHANGED <<held, thumb, torn, outrun>>
  BY DEF SendFile, DocumentInvariant, PaperShape
<1>3. t \in PaperJob
  BY <1>2, PaperJobFields, PaperJobsBegun
<1>4. /\ upload' \in [Uploads -> PaperJob] /\ upload'[r] = t
      /\ \A s \in Uploads \ {r} : upload'[s] = upload[s]
  BY <1>1, <1>3 DEF Jobs, DocumentInvariant, PaperShape
<1>5. /\ t.op = "save" /\ t.file = f /\ t.by = upload[r].by /\ t.old = upload[r].old
  OBVIOUS
<1> HIDE DEF t
<1>6. /\ store' \in [DOMAIN store' -> {"live", "trashed"}]
      /\ DOMAIN store' = DOMAIN store \cup {f} /\ store'[f] = "live"
      /\ \A g \in DOMAIN store : store'[g] = store[g] /\ g # f
      /\ f \notin DOMAIN held
  BY <1>1, NewFileStored DEF DocumentInvariant
<1>7. Current' = Current /\ Current \subseteq DOMAIN store
  BY <1>2, TheCurrentIsARow DEF Current, DocumentInvariant, PaperTypeOK
<1>8. PaperShape' /\ PaperTypeOK'
  BY <1>2, <1>4, <1>6 DEF DocumentInvariant, PaperShape, PaperTypeOK
<1>9. ReplacesARow'
  BY <1>2, <1>4, <1>5 DEF DocumentInvariant, ReplacesARow
<1>10. SavesItsOwnFile'
  <2>1. \A s \in Uploads \ {r} : upload[s].op = "save" =>
           upload[s].file \in DOMAIN store \ DOMAIN held /\ store[upload[s].file] = "live"
    BY DEF DocumentInvariant, SavesItsOwnFile
  <2>2. \A s \in Uploads \ {r} : upload[s].op = "trash" => upload[s].file # f
    BY TheCurrentIsARow, <1>6 DEF DocumentInvariant, WorksOnARow, PaperAssumption
  <2> QED BY <2>1, <2>2, <1>2, <1>4, <1>5, <1>6 DEF DocumentInvariant, SavesItsOwnFile
<1>11. WorksOnARow' /\ TrashIsNotCurrent'
  BY <1>2, <1>4, <1>5, <1>6, <1>7 DEF DocumentInvariant, WorksOnARow, TrashIsNotCurrent
<1>12. CurrentPaperIsHeld' /\ FaceIsCurrent'
  BY <1>2, <1>6, <1>7 DEF DocumentInvariant, CurrentPaperIsHeld, FaceIsCurrent
<1>13. NothingLeftBehind'
  BY <1>2, <1>4, <1>5, <1>6, <1>7 DEF DocumentInvariant, NothingLeftBehind
<1> QED BY <1>8, <1>9, <1>10, <1>11, <1>12, <1>13 DEF DocumentInvariant

LEMMA SendLostKeeps ==
  ASSUME PaperAssumption, DocumentInvariant, NEW r \in Uploads, SendLost(r)
  PROVE  DocumentInvariant'
<1> USE DEF Working
<1>1. PICK f \in Files \ DOMAIN store : store' = StoredToo(f)
  BY DEF SendLost
<1>2. Jobs(r, NoJob) /\ torn' = TRUE /\ UNCHANGED <<held, thumb, outrun>>
  BY DEF SendLost
<1>3. /\ upload' \in [Uploads -> PaperJob] /\ upload'[r].op = "none"
      /\ \A s \in Uploads \ {r} : upload'[s] = upload[s]
  BY <1>2 DEF Jobs, DocumentInvariant, PaperShape, NoJob, PaperJob
<1>4. /\ store' \in [DOMAIN store' -> {"live", "trashed"}]
      /\ DOMAIN store' = DOMAIN store \cup {f} /\ store'[f] = "live"
      /\ \A g \in DOMAIN store : store'[g] = store[g] /\ g # f
      /\ f \notin DOMAIN held
  BY <1>1, NewFileStored DEF DocumentInvariant
<1>5. PaperShape' /\ PaperTypeOK'
  BY <1>2, <1>3, <1>4 DEF DocumentInvariant, PaperShape, PaperTypeOK
<1>6. ReplacesARow' /\ SavesItsOwnFile' /\ WorksOnARow'
  BY <1>2, <1>3, <1>4 DEF DocumentInvariant, ReplacesARow, SavesItsOwnFile, WorksOnARow
<1>7. TrashIsNotCurrent' /\ CurrentPaperIsHeld' /\ NothingLeftBehind'
  BY <1>2 DEF TrashIsNotCurrent, CurrentPaperIsHeld, NothingLeftBehind
<1>8. FaceIsCurrent'
  BY <1>2 DEF DocumentInvariant, FaceIsCurrent, Current
<1> QED BY <1>5, <1>6, <1>7, <1>8 DEF DocumentInvariant

\* The rows after a transaction that committed: the new paper is the only current one.
LEMMA CommittedRows ==
  ASSUME PaperAssumption, PaperShape, PaperTypeOK, NEW old \in DOMAIN held \cup {NoPaper},
         NEW f \in DOMAIN store \ DOMAIN held, Current \subseteq {old}, held' = Replaced(old, f)
  PROVE  /\ held' \in [DOMAIN held' -> PaperRow] /\ DOMAIN held' = DOMAIN held \cup {f}
         /\ Current' = {f}
         /\ \A g \in DOMAIN held' : held'[g].status \in PaperStatuses
         /\ \A g \in DOMAIN held' : held'[g].status = "REPLACED" => held'[g].next \in DOMAIN held' \ {g}
<1>1. /\ f \in Files /\ f # NoPaper /\ f # old /\ DOMAIN held' = DOMAIN held \cup {f}
      /\ "ACTIVE" \in PaperStatuses /\ "REPLACED" \in PaperStatuses
  BY DEF PaperAssumption, PaperTypeOK, Replaced, PaperStatuses
<1>2. held'[f] = [status |-> "ACTIVE", next |-> NoPaper]
  BY DEF Replaced
<1>3. \A g \in DOMAIN held : held'[g] = IF g = old THEN [status |-> "REPLACED", next |-> f] ELSE held[g]
  BY <1>1 DEF Replaced
<1>4. \A g \in DOMAIN held : held[g] \in PaperRow
  BY DEF PaperShape
<1>5. [status |-> "ACTIVE", next |-> NoPaper] \in PaperRow /\ [status |-> "REPLACED", next |-> f] \in PaperRow
  BY <1>1 DEF PaperRow
<1>6. \A g \in DOMAIN held' : held'[g] \in PaperRow
  BY <1>1, <1>2, <1>3, <1>4, <1>5
<1>7. held' \in [DOMAIN held' -> PaperRow]
  BY <1>6 DEF Replaced
<1>8. \A g \in DOMAIN held : held[g].status \in {"ACTIVE", "NEEDS_REPLACEMENT"} => g = old
  BY DEF Current
<1>9. Current' = {f}
  <2>1. f \in Current'
    BY <1>1, <1>2 DEF Current
  <2>2. \A g \in DOMAIN held : held'[g].status \notin {"ACTIVE", "NEEDS_REPLACEMENT"}
    BY <1>3, <1>8
  <2> QED BY <2>1, <2>2, <1>1 DEF Current
<1>10. \A g \in DOMAIN held' : held'[g].status \in PaperStatuses
  BY <1>6 DEF PaperRow
<1>11. ASSUME NEW g \in DOMAIN held', held'[g].status = "REPLACED"
       PROVE  held'[g].next \in DOMAIN held' \ {g}
  <2>1. g # f
    BY <1>2, <1>11
  <2>2. g \in DOMAIN held
    BY <2>1, <1>1
  <2>3. CASE g = old
    BY <2>1, <2>2, <2>3, <1>1, <1>3
  <2>4. CASE g # old
    BY <2>2, <2>4, <1>1, <1>3, <1>11 DEF PaperTypeOK
  <2> QED BY <2>3, <2>4
<1> QED BY <1>1, <1>7, <1>9, <1>10, <1>11

\* A commit, whichever file goes to the trash after it.
LEMMA CommitKeeps ==
  ASSUME PaperAssumption, DocumentInvariant, NEW r \in Uploads, Working(r, "save"),
         Current \subseteq {upload[r].old}, held' = Replaced(upload[r].old, upload[r].file),
         thumb' = upload[r].file, UNCHANGED <<store, outrun>>,
         \/ Jobs(r, [op |-> "trash", file |-> upload[r].old]) /\ torn' = torn
         \/ Jobs(r, [op |-> "trash", file |-> upload[r].file]) /\ torn' = TRUE
  PROVE  DocumentInvariant'
<1> USE DEF Working
<1> DEFINE f == upload[r].file
           old == upload[r].old
           g == upload'[r].file
<1>1. /\ f \in DOMAIN store \ DOMAIN held /\ store[f] = "live" /\ old \in DOMAIN held \cup {NoPaper}
      /\ \A s \in Uploads \ {r} : upload[s].op \in {"save", "trash"} => upload[s].file # f
  BY DEF DocumentInvariant, SavesItsOwnFile, ReplacesARow
<1>2. /\ held' \in [DOMAIN held' -> PaperRow] /\ DOMAIN held' = DOMAIN held \cup {f}
      /\ Current' = {f}
      /\ \A h \in DOMAIN held' : held'[h].status \in PaperStatuses
      /\ \A h \in DOMAIN held' : held'[h].status = "REPLACED" => held'[h].next \in DOMAIN held' \ {h}
  BY <1>1, CommittedRows DEF DocumentInvariant
<1>3. f \in Files /\ old \in Files \cup {NoPaper} /\ f # old /\ f # NoPaper
  BY <1>1 DEF DocumentInvariant, PaperTypeOK, PaperAssumption
<1>4. /\ upload' \in [Uploads -> PaperJob] /\ upload'[r].op = "trash" /\ g \in {f, old}
      /\ \A s \in Uploads \ {r} : upload'[s] = upload[s]
      /\ ~torn' => g = old /\ ~torn
  <2>1. [op |-> "trash", file |-> old] \in PaperJob /\ [op |-> "trash", file |-> f] \in PaperJob
    BY <1>3, PaperJobsBegun
  <2>2. upload \in [Uploads -> PaperJob]
    BY DEF DocumentInvariant, PaperShape
  <2> QED BY <2>1, <2>2 DEF Jobs
<1> HIDE DEF g
<1>5. PaperShape' /\ PaperTypeOK'
  <2>1. torn' \in BOOLEAN /\ outrun' \in BOOLEAN
    BY DEF DocumentInvariant, PaperShape
  <2>2. PaperShape'
    BY <1>2, <1>4, <2>1 DEF DocumentInvariant, PaperShape
  <2>3. PaperTypeOK'
    BY <1>1, <1>2 DEF DocumentInvariant, PaperTypeOK
  <2> QED BY <2>2, <2>3
<1> HIDE DEF f, old
<1>6. ReplacesARow'
  BY <1>2, <1>4 DEF DocumentInvariant, ReplacesARow
<1>7. SavesItsOwnFile'
  <2> SUFFICES ASSUME NEW s \in Uploads, upload'[s].op = "save"
               PROVE  /\ upload'[s].file \in DOMAIN store' \ DOMAIN held'
                      /\ store'[upload'[s].file] = "live"
                      /\ \A q \in Uploads : q # s /\ upload'[q].op \in {"save", "trash"} =>
                           upload'[q].file # upload'[s].file
    BY DEF SavesItsOwnFile
  <2>1. s # r /\ upload'[s] = upload[s]
    BY <1>4
  <2>2. /\ upload[s].file \in DOMAIN store \ DOMAIN held /\ store[upload[s].file] = "live"
        /\ \A q \in Uploads : q # s /\ upload[q].op \in {"save", "trash"} =>
             upload[q].file # upload[s].file
    BY <2>1 DEF DocumentInvariant, SavesItsOwnFile
  <2>3. upload[s].file # f
    BY <2>1, <1>1
  <2>4. upload[s].file # old
    BY <2>2, <1>1, TheCurrentIsARow DEF DocumentInvariant
  <2>5. \A q \in Uploads : q # s /\ upload'[q].op \in {"save", "trash"} =>
             upload'[q].file # upload[s].file
    BY <2>2, <2>3, <2>4, <1>4 DEF g
  <2> QED BY <2>1, <2>2, <2>3, <2>5, <1>2
<1>8. WorksOnARow'
  <2>1. g \in DOMAIN store \cup {NoPaper}
    BY <1>1, <1>4 DEF DocumentInvariant, PaperTypeOK
  <2> QED BY <2>1, <1>2, <1>4 DEF DocumentInvariant, WorksOnARow, g
<1>9. TrashIsNotCurrent'
  BY <1>1, <1>2, <1>3, <1>4 DEF TrashIsNotCurrent, g
<1>10. CurrentPaperIsHeld' /\ FaceIsCurrent'
  BY <1>1, <1>2 DEF CurrentPaperIsHeld, FaceIsCurrent, f
<1>11. NothingLeftBehind'
  <2> SUFFICES ASSUME ~torn', NEW h \in DOMAIN store, store[h] = "live", h # f
               PROVE  \E q \in Uploads : upload'[q].op \in {"save", "trash"} /\ upload'[q].file = h
    BY <1>2 DEF NothingLeftBehind
  <2>1. h \in Current \/ \E q \in Uploads : upload[q].op \in {"save", "trash"} /\ upload[q].file = h
    BY <1>4 DEF DocumentInvariant, NothingLeftBehind
  <2>2. CASE h \in Current
    BY <2>2, <1>4 DEF old, g
  <2>3. CASE \E q \in Uploads : upload[q].op \in {"save", "trash"} /\ upload[q].file = h
    BY <2>3, <1>4 DEF f
  <2> QED BY <2>1, <2>2, <2>3
<1> QED BY <1>5, <1>6, <1>7, <1>8, <1>9, <1>10, <1>11 DEF DocumentInvariant

\* A refused transaction: the new file goes to the trash.
LEMMA RefusedKeeps ==
  ASSUME PaperAssumption, DocumentInvariant, NEW r \in Uploads, Working(r, "save"),
         Jobs(r, [op |-> "trash", file |-> upload[r].file]),
         UNCHANGED <<held, store, thumb, torn, outrun>>
  PROVE  DocumentInvariant'
<1> USE DEF Working
<1> DEFINE f == upload[r].file
<1>1. f \in DOMAIN store \ DOMAIN held /\ f \in Files
  BY DEF DocumentInvariant, SavesItsOwnFile, PaperTypeOK
<1>2. [op |-> "trash", file |-> f] \in PaperJob
  BY <1>1, PaperJobsBegun
<1>3. /\ upload' \in [Uploads -> PaperJob] /\ upload'[r].op = "trash" /\ upload'[r].file = f
      /\ \A s \in Uploads \ {r} : upload'[s] = upload[s]
  BY <1>2 DEF Jobs, DocumentInvariant, PaperShape
<1>4. Current' = Current /\ Current \subseteq DOMAIN held
  BY DEF Current
<1>5. PaperShape' /\ PaperTypeOK' /\ CurrentPaperIsHeld' /\ FaceIsCurrent'
  BY <1>3, <1>4 DEF DocumentInvariant, PaperShape, PaperTypeOK, CurrentPaperIsHeld, FaceIsCurrent
<1>6. ReplacesARow' /\ WorksOnARow' /\ TrashIsNotCurrent'
  BY <1>1, <1>3, <1>4 DEF DocumentInvariant, ReplacesARow, WorksOnARow, TrashIsNotCurrent
<1>7. SavesItsOwnFile'
  BY <1>3 DEF DocumentInvariant, SavesItsOwnFile
<1>8. NothingLeftBehind'
  BY <1>3, <1>4 DEF DocumentInvariant, NothingLeftBehind
<1> QED BY <1>5, <1>6, <1>7, <1>8 DEF DocumentInvariant

LEMMA SaveRowKeeps ==
  ASSUME PaperAssumption, DocumentInvariant, NEW r \in Uploads, SaveRow(r)
  PROVE  DocumentInvariant'
BY CommitKeeps, RefusedKeeps DEF SaveRow, NowUseless

LEMMA TrashFileKeeps ==
  ASSUME PaperAssumption, DocumentInvariant, NEW r \in Uploads, TrashFile(r)
  PROVE  DocumentInvariant'
<1> USE DEF Working
<1> DEFINE f == upload[r].file
<1>1. /\ upload[r].op = "trash" /\ Jobs(r, NoJob) /\ UNCHANGED <<held, thumb, outrun>>
      /\ f \in DOMAIN store \cup {NoPaper}
      /\ ~torn => f \notin Current
  BY DEF TrashFile, DocumentInvariant, WorksOnARow, TrashIsNotCurrent
<1>2. /\ upload' \in [Uploads -> PaperJob] /\ upload'[r].op = "none"
      /\ \A s \in Uploads \ {r} : upload'[s] = upload[s]
  BY <1>1 DEF Jobs, DocumentInvariant, PaperShape, NoJob, PaperJob
<1>3. \/ f = NoPaper /\ UNCHANGED <<store, torn>>
      \/ f \in DOMAIN store /\ store' = [store EXCEPT ![f] = "trashed"] /\ UNCHANGED torn
      \/ torn' = TRUE /\ UNCHANGED store
  BY <1>1 DEF TrashFile
<1>4. /\ store' \in [DOMAIN store' -> {"live", "trashed"}] /\ DOMAIN store' = DOMAIN store
      /\ \A g \in DOMAIN store \ {f} : store'[g] = store[g]
      /\ torn' \in BOOLEAN
      /\ ~torn' => ~torn /\ (f \in DOMAIN store => store'[f] = "trashed")
  BY <1>3, TheCurrentIsARow DEF DocumentInvariant, PaperShape
<1>5. Current' = Current /\ Current \subseteq DOMAIN store
  BY <1>1 DEF Current, DocumentInvariant, PaperTypeOK
<1> HIDE DEF f
<1>6. PaperShape' /\ PaperTypeOK'
  BY <1>1, <1>2, <1>4 DEF DocumentInvariant, PaperShape, PaperTypeOK
<1>7. ReplacesARow' /\ WorksOnARow' /\ TrashIsNotCurrent' /\ FaceIsCurrent'
  BY <1>1, <1>2, <1>4, <1>5
     DEF DocumentInvariant, ReplacesARow, WorksOnARow, TrashIsNotCurrent, FaceIsCurrent
<1>8. SavesItsOwnFile'
  BY <1>1, <1>2, <1>4 DEF DocumentInvariant, SavesItsOwnFile, f
<1>9. CurrentPaperIsHeld'
  BY <1>1, <1>4, <1>5 DEF DocumentInvariant, CurrentPaperIsHeld
<1>10. NothingLeftBehind'
  BY <1>2, <1>4, <1>5 DEF DocumentInvariant, NothingLeftBehind, f
<1> QED BY <1>6, <1>7, <1>8, <1>9, <1>10 DEF DocumentInvariant

LEMMA DeletePaperKeeps ==
  ASSUME PaperAssumption, DocumentInvariant, NEW r \in Uploads, DeletePaper(r)
  PROVE  DocumentInvariant'
<1> USE DEF Working
<1> DEFINE f == upload[r].file
<1>1. /\ upload[r].op = "delete" /\ held' = [held EXCEPT ![f].status = "DELETED"] /\ thumb' = NoPaper
      /\ Jobs(r, [op |-> "trash", file |-> f]) /\ UNCHANGED <<store, torn, outrun>>
      /\ f \in DOMAIN held /\ f \in DOMAIN store /\ f \in Files
  BY DEF DeletePaper, ThumbAfterDelete, DocumentInvariant, WorksOnARow, PaperTypeOK
<1>2. [op |-> "trash", file |-> f] \in PaperJob
  BY <1>1, PaperJobsBegun
<1>3. /\ upload' \in [Uploads -> PaperJob] /\ upload'[r].op = "trash" /\ upload'[r].file = f
      /\ \A s \in Uploads \ {r} : upload'[s] = upload[s]
  BY <1>1, <1>2 DEF Jobs, DocumentInvariant, PaperShape
<1>4. /\ held' \in [DOMAIN held' -> PaperRow] /\ DOMAIN held' = DOMAIN held
      /\ \A g \in DOMAIN held \ {f} : held'[g] = held[g]
      /\ held'[f].status = "DELETED"
  <2>1. held \in [DOMAIN held -> PaperRow] /\ held[f] \in PaperRow /\ "DELETED" \in PaperStatuses
    BY <1>1 DEF DocumentInvariant, PaperShape, PaperStatuses
  <2>2. [held[f] EXCEPT !.status = "DELETED"] \in PaperRow
        /\ [held[f] EXCEPT !.status = "DELETED"].status = "DELETED"
    BY <2>1 DEF PaperRow
  <2> QED BY <1>1, <2>1, <2>2
<1>5. Current' = Current \ {f}
  BY <1>1, <1>4 DEF Current
<1> HIDE DEF f
<1>6. PaperShape'
  BY <1>1, <1>3, <1>4 DEF DocumentInvariant, PaperShape
<1>7. PaperTypeOK'
  <2>1. \A g \in DOMAIN held' : held'[g].status \in PaperStatuses
    BY <1>4 DEF PaperRow
  <2>2. \A g \in DOMAIN held' : held'[g].status = "REPLACED" => held'[g].next \in DOMAIN held' \ {g}
    BY <1>4 DEF DocumentInvariant, PaperTypeOK
  <2> QED BY <1>1, <1>4, <2>1, <2>2 DEF DocumentInvariant, PaperTypeOK
<1>8. ReplacesARow' /\ WorksOnARow'
  BY <1>1, <1>3, <1>4 DEF DocumentInvariant, ReplacesARow, WorksOnARow
<1>9. SavesItsOwnFile'
  BY <1>1, <1>3, <1>4 DEF DocumentInvariant, SavesItsOwnFile
<1>10. TrashIsNotCurrent' /\ CurrentPaperIsHeld' /\ FaceIsCurrent'
  BY <1>1, <1>3, <1>5 DEF DocumentInvariant, TrashIsNotCurrent, CurrentPaperIsHeld, FaceIsCurrent
<1>11. NothingLeftBehind'
  BY <1>1, <1>3, <1>5 DEF DocumentInvariant, NothingLeftBehind
<1> QED BY <1>6, <1>7, <1>8, <1>9, <1>10, <1>11 DEF DocumentInvariant

LEMMA DocumentStepHolds ==
  ASSUME PaperAssumption, DocumentInvariant, [DocumentNext]_documentVars
  PROVE  DocumentInvariant'
<1>1. ASSUME DocumentNext PROVE DocumentInvariant'
  BY <1>1, StartUploadKeeps, SendFileKeeps, SendLostKeeps, SaveRowKeeps, TrashFileKeeps,
     StartDeletePaperKeeps, DeletePaperKeeps, AskPhotoKeeps, KeepPhotoKeeps, AbandonKeeps
     DEF DocumentNext
<1>2. CASE UNCHANGED documentVars
  BY <1>2 DEF documentVars, DocumentInvariant, PaperShape, ReplacesARow, SavesItsOwnFile,
     WorksOnARow, TrashIsNotCurrent, PaperTypeOK, CurrentPaperIsHeld, NothingLeftBehind,
     FaceIsCurrent, Current, Working
<1> QED BY <1>1, <1>2

\* A paper stops being current by a deletion or by the office's save.
LEMMA ReplacedByTheOffice ==
  ASSUME PaperAssumption, DocumentInvariant, [DocumentNext]_documentVars,
         NEW f \in Current, f \notin Current'
  PROVE  \E r \in Uploads : upload[r] # upload[r]' /\
           (upload[r].op = "delete" \/ (upload[r].op = "save" /\ upload[r].by = "office"))
<1> USE DEF Working
<1>1. held' # held
  BY DEF Current
<1>2. PICK r \in Uploads : SaveRow(r) \/ DeletePaper(r)
  BY <1>1 DEF DocumentNext, documentVars, StartUpload, SendFile, SendLost, TrashFile,
     StartDeletePaper, AskPhoto, KeepPhoto, Abandon
<1>3. upload \in [Uploads -> PaperJob] /\ upload[r] \in PaperJob
  BY DEF DocumentInvariant, PaperShape
<1>4. upload'[r].op = "trash" /\ upload[r].op \in {"save", "delete"}
  <2>1. PICK g : upload' = [upload EXCEPT ![r] = [op |-> "trash", file |-> g]]
    BY <1>2 DEF SaveRow, DeletePaper, Jobs
  <2>2. upload[r].op \in {"save", "delete"}
    BY <1>2 DEF SaveRow, DeletePaper
  <2> QED BY <2>1, <2>2, <1>3
<1>5. ASSUME SaveRow(r) PROVE upload[r].op = "save" /\ upload[r].by = "office"
  <2>1. Current \subseteq {upload[r].old} /\ upload[r].op = "save"
    BY <1>1, <1>5 DEF SaveRow
  <2>2. NoPaper \notin Current
    BY TheCurrentIsARow DEF DocumentInvariant, PaperTypeOK
  <2>3. upload[r].by # "person"
    BY <2>1, <2>2 DEF DocumentInvariant, ReplacesARow
  <2>4. upload[r].by \in {"office", "person"}
    BY <1>3, <2>1, PaperJobFields
  <2> QED BY <2>1, <2>3, <2>4
<1>6. ASSUME DeletePaper(r) PROVE upload[r].op = "delete"
  BY <1>6 DEF DeletePaper
<1> QED BY <1>2, <1>4, <1>5, <1>6

\* For any files and requests, whatever fails between two steps: as long as the host
\* never stopped in between, what the college calls current it holds, and a live file
\* is the current paper or a request's; the face is of the current photograph unless
\* made late; and only the office's hand replaces a paper (documents.service.ts).
THEOREM PapersAreKeptHolds == DocumentSpec => PapersAreKept
<1> USE PaperAssumption
<1>1. DocumentInit => DocumentInvariant
  BY DocumentInitHolds
<1>2. DocumentInvariant /\ [DocumentNext]_documentVars => DocumentInvariant'
  BY DocumentStepHolds
<1>3. DocumentInvariant => PaperTypeOK /\ CurrentPaperIsHeld /\ NothingLeftBehind /\ FaceIsCurrent
  BY DEF DocumentInvariant
<1>4. DocumentInvariant /\ [DocumentNext]_documentVars =>
        [\A f \in Current : f \notin Current' =>
           \E r \in Uploads : upload[r] # upload[r]' /\
             (upload[r].op = "delete" \/ (upload[r].op = "save" /\ upload[r].by = "office"))]_documentVars
  BY ReplacedByTheOffice
<1> QED BY <1>1, <1>2, <1>3, <1>4, PTL DEF DocumentSpec, PapersAreKept, OnlyTheOfficeReplaces

---------------------------------------------------------------------------
\* The folders, and the account they are made in.

Accounts == Googles \cup {NoGoogle}
FolderRow == [google : Googles, parent : Nat, state : {"live", "trashed", "deleted"}]
Connection == [google : Accounts, root : Nat]
Asking == {"file", "roots"}
Looks == [op : {"search", "create", "write"}, what : Asking, in : Nat, conn : Connection]
Settles == [op : {"settle"}, what : Asking, in : Nat, conn : Connection, made : Nat]
Discards == [op : {"discard"}, what : Asking, in : Nat, conn : Connection, made : Nat, kept : Nat]
Uses == [op : {"record", "send"}, folder : Nat]
Connects == [op : {"connect", "connected"}, google : Googles]
Forgets == [op : {"forget"}]
DriveCalls == {NoCall} \cup Looks \cup Settles \cup Discards \cup Uses \cup Connects \cup Forgets

InTree == {"search", "create", "settle", "discard", "write"}

DriveShape ==
  /\ {token, client} \subseteq Accounts /\ conn \in Connection /\ folders \in Seq(FolderRow)
  /\ home \in Nat /\ filed \subseteq Nat /\ call \in [Callers -> DriveCalls]
  /\ muddled \in BOOLEAN /\ meddled \in BOOLEAN

IsRoot(f) == f \in DOMAIN folders /\ folders[f].parent = 0
IsHome(f) == f \in DOMAIN folders /\ folders[f].parent # 0
SameName(f, g) == folders[f].google = folders[g].google /\ folders[f].parent = folders[g].parent

\* The first folder ever made of its name, whatever became of the others.
First(f) == f \in DOMAIN folders /\ \A g \in DOMAIN folders : SameName(f, g) => f <= g
Calm == ~meddled /\ ~muddled

\* A folder's parent is a root, older and of the same account; of each name there was a first.
TreeInPlace ==
  \A f \in DOMAIN folders :
    /\ LET p == folders[f].parent
       IN  p # 0 => IsRoot(p) /\ p < f /\ folders[p].google = folders[f].google
    /\ \E k \in DOMAIN folders : First(k) /\ SameName(k, f)

KnownInPlace ==
  /\ home # 0 => IsHome(home)
  /\ conn.root # 0 => IsRoot(conn.root)
  /\ \A f \in filed : IsHome(f)

CallInPlace(t) ==
  /\ t.op \in InTree /\ t.in # 0 => IsRoot(t.in)
  /\ t.op = "write" => t.in # 0
  /\ t.op \in {"settle", "discard"} => t.made \in DOMAIN folders /\ folders[t.made].parent = t.in
  /\ t.op = "discard" => t.kept \in DOMAIN folders /\ folders[t.kept].parent = t.in
  /\ t.op \in {"record", "send"} => IsHome(t.folder)

\* The first folder of a name is never deleted, and holds everything that is known.
TreeStands ==
  Calm => /\ \A f \in DOMAIN folders : First(f) => folders[f].state = "live"
          /\ \A f \in DOMAIN folders : folders[f].parent # 0 => First(folders[f].parent)
          /\ \A f \in (filed \cup {home, conn.root}) \ {0} : First(f)

CallStands(t) ==
  /\ t.op \in InTree /\ t.in # 0 => First(t.in)
  /\ t.op = "settle" => folders[t.made].google = Signed
  /\ t.op = "discard" => First(t.kept) /\ t.kept < t.made /\ SameName(t.kept, t.made)
  /\ t.op \in {"record", "send"} => First(t.folder)

CallConnected(t) ==
  /\ t.op \in InTree => t.conn.google = conn.google
  /\ t.op = "connected" => token = t.google
  /\ t.op = "forget" => token = NoGoogle

CallsStand ==
  \A r \in Callers : /\ CallInPlace(call[r])
                     /\ Calm => CallStands(call[r])
                     /\ ~muddled => CallConnected(call[r])

DriveInvariant ==
  DriveShape /\ TreeInPlace /\ KnownInPlace /\ TreeStands /\ CallsStand /\ ConnectionIsOfOneAccount

---------------------------------------------------------------------------
\* Natural numbers have a least one: the sets of those up to one of them are finite.
LEMMA LeastNumber ==
  ASSUME NEW S \in SUBSET Nat, S # {}
  PROVE  \E m \in S : \A n \in S : m <= n
<1> DEFINE Upto(n) == {k \in S : k <= n}
           T == {Upto(n) : n \in S}
           R == StrictSubsetOrdering(Nat)
<1>1. IsWellFoundedOn(R, FiniteSubsetsOf(Nat))
  BY FS_StrictSubsetOrderingWellFounded
<1>2. \A n \in S : Upto(n) \in FiniteSubsetsOf(Nat)
  <2> TAKE n \in S
  <2>1. Upto(n) \in SUBSET Nat /\ \A k \in Upto(n) : k <= n
    OBVIOUS
  <2>2. IsFiniteSet(Upto(n))
    BY <2>1, FS_BoundedSetOfNaturals
  <2> QED BY <2>1, <2>2 DEF FiniteSubsetsOf
<1>3. T \subseteq FiniteSubsetsOf(Nat) /\ T # {}
  BY <1>2
<1> HIDE DEF R, T
<1>4. PICK X \in T : \A Y \in T : ~ (<<Y, X>> \in R)
  BY <1>1, <1>3, WFMin
<1>5. PICK m \in S : X = Upto(m)
  BY <1>4 DEF T
<1>6. ASSUME NEW n \in S, ~(m <= n) PROVE FALSE
  <2>1. Upto(n) \in T
    BY DEF T
  <2>2. n < m
    BY <1>6
  <2>3. Upto(n) \in SUBSET Nat /\ X \in SUBSET Nat /\ Upto(n) \subseteq X /\ Upto(n) # X
    <3>1. \A k \in Upto(n) : k \in S /\ k <= m
      BY <2>2
    <3>2. m \in Upto(m) /\ m \notin Upto(n)
      BY <2>2
    <3> QED BY <3>1, <3>2, <1>5
  <2> HIDE DEF Upto
  <2>4. <<Upto(n), X>> \in R
    BY <2>3 DEF R, StrictSubsetOrdering
  <2> QED BY <2>1, <2>4, <1>4
<1> QED BY <1>6

\* The oldest of some folders is one of them, and there is one alone.
LEMMA OldestIsLeast ==
  ASSUME NEW S \in SUBSET Nat, S # {}
  PROVE  Oldest(S) \in S /\ \A g \in S : Oldest(S) <= g
BY LeastNumber DEF Oldest

\* A call's fields follow from what it does.
LEMMA DriveCallFields ==
  ASSUME NEW t \in DriveCalls
  PROVE  /\ t.op \in {"none", "search", "create", "write", "settle", "discard", "record", "send",
                      "connect", "connected", "forget"}
         /\ t.op = "none" <=> t = NoCall
         /\ t.op \in {"search", "create", "write"} => t \in Looks
         /\ t.op = "settle" => t \in Settles
         /\ t.op = "discard" => t \in Discards
         /\ t.op \in InTree => t.what \in Asking /\ t.in \in Nat /\ t.conn \in Connection
         /\ t.op \in {"settle", "discard"} => t.made \in Nat
         /\ t.op = "discard" => t.kept \in Nat
         /\ t.op \in {"record", "send"} => t.folder \in Nat
         /\ t.op \in {"connect", "connected"} => t.google \in Googles
<1> USE DEF InTree
<1>1. CASE t = NoCall
  BY <1>1 DEF NoCall
<1>2. CASE t \in Looks
  <2>1. /\ t.op \in {"search", "create", "write"} /\ t.what \in Asking /\ t.in \in Nat
        /\ t.conn \in Connection
    BY <1>2 DEF Looks
  <2> QED BY <2>1, <1>2 DEF NoCall
<1>3. CASE t \in Settles
  <2>1. /\ t.op = "settle" /\ t.what \in Asking /\ t.in \in Nat /\ t.conn \in Connection
        /\ t.made \in Nat
    BY <1>3 DEF Settles
  <2> QED BY <2>1, <1>3 DEF NoCall
<1>4. CASE t \in Discards
  <2>1. /\ t.op = "discard" /\ t.what \in Asking /\ t.in \in Nat /\ t.conn \in Connection
        /\ t.made \in Nat /\ t.kept \in Nat
    BY <1>4 DEF Discards
  <2> QED BY <2>1, <1>4 DEF NoCall
<1>5. CASE t \in Uses
  <2>1. t.op \in {"record", "send"} /\ t.folder \in Nat
    BY <1>5 DEF Uses
  <2> QED BY <2>1 DEF NoCall
<1>6. CASE t \in Connects
  <2>1. t.op \in {"connect", "connected"} /\ t.google \in Googles
    BY <1>6 DEF Connects
  <2> QED BY <2>1 DEF NoCall
<1>7. CASE t \in Forgets
  <2>1. t.op = "forget"
    BY <1>7 DEF Forgets
  <2> QED BY <2>1 DEF NoCall
<1> QED BY <1>1, <1>2, <1>3, <1>4, <1>5, <1>6, <1>7 DEF DriveCalls

\* The calls the steps begin are calls.
LEMMA DriveCallsBegun ==
  ASSUME NEW what \in Asking, NEW in \in Nat, NEW c \in Connection, NEW made \in Nat,
         NEW kept \in Nat, NEW g \in Googles
  PROVE  /\ NoCall \in DriveCalls /\ [op |-> "forget"] \in DriveCalls
         /\ \A op \in {"search", "create", "write"} :
              [op |-> op, what |-> what, in |-> in, conn |-> c] \in DriveCalls
         /\ [op |-> "settle", what |-> what, in |-> in, conn |-> c, made |-> made] \in DriveCalls
         /\ [op |-> "discard", what |-> what, in |-> in, conn |-> c, made |-> made, kept |-> kept]
              \in DriveCalls
         /\ \A op \in {"record", "send"} : [op |-> op, folder |-> made] \in DriveCalls
         /\ \A op \in {"connect", "connected"} : [op |-> op, google |-> g] \in DriveCalls
<1>1. [op |-> "forget"] \in Forgets
  BY DEF Forgets
<1>2. \A op \in {"search", "create", "write"} :
         [op |-> op, what |-> what, in |-> in, conn |-> c] \in Looks
  BY DEF Looks
<1>3. [op |-> "settle", what |-> what, in |-> in, conn |-> c, made |-> made] \in Settles
  BY DEF Settles
<1>4. [op |-> "discard", what |-> what, in |-> in, conn |-> c, made |-> made, kept |-> kept] \in Discards
  BY DEF Discards
<1>5. \A op \in {"record", "send"} : [op |-> op, folder |-> made] \in Uses
  BY DEF Uses
<1>6. \A op \in {"connect", "connected"} : [op |-> op, google |-> g] \in Connects
  BY DEF Connects
<1> QED BY <1>1, <1>2, <1>3, <1>4, <1>5, <1>6 DEF DriveCalls

\* The rows of the folders, one by one.
LEMMA FolderRows ==
  ASSUME DriveShape
  PROVE  /\ DOMAIN folders = 1..Len(folders) /\ Len(folders) \in Nat /\ DOMAIN folders \subseteq Nat \ {0}
         /\ \A f \in DOMAIN folders : /\ folders[f] \in FolderRow /\ folders[f].google \in Googles
                                      /\ folders[f].parent \in Nat
<1>1. folders \in Seq(FolderRow)
  BY DEF DriveShape
<1>2. DOMAIN folders = 1..Len(folders) /\ Len(folders) \in Nat
  BY <1>1
<1>3. \A f \in DOMAIN folders : folders[f] \in FolderRow
  BY <1>1
<1>4. \A f \in DOMAIN folders : folders[f].google \in Googles /\ folders[f].parent \in Nat
  BY <1>3 DEF FolderRow
<1> QED BY <1>2, <1>3, <1>4

---------------------------------------------------------------------------
\* What is listed was made for the account, under the parent.
LEMMA ListedFolders ==
  ASSUME DriveShape, NEW p \in Nat, NEW f \in Listed(p)
  PROVE  /\ f \in DOMAIN folders /\ f \in Nat /\ Live(f) /\ folders[f].google = Signed
         /\ folders[f].parent = p
BY FolderRows DEF Listed

LEMMA OldestListed ==
  ASSUME DriveShape, NEW p \in Nat, Listed(p) # {}
  PROVE  Oldest(Listed(p)) \in Listed(p) /\ \A g \in Listed(p) : Oldest(Listed(p)) <= g
<1>1. Listed(p) \subseteq Nat
  BY ListedFolders
<1> QED BY <1>1, OldestIsLeast

\* While nobody interferes: where there is a folder of the name, the search finds
\* the first one.
LEMMA SearchFindsTheFirst ==
  ASSUME DriveInvariant, Calm, NEW p \in Nat, p # 0 => First(p),
         NEW f \in DOMAIN folders, folders[f].google = Signed, folders[f].parent = p
  PROVE  /\ Listed(p) # {} /\ First(Oldest(Listed(p))) /\ SameName(Oldest(Listed(p)), f)
         /\ folders[Oldest(Listed(p))].parent = p
<1> DEFINE o == Oldest(Listed(p))
<1>1. PICK k \in DOMAIN folders : First(k) /\ SameName(k, f)
  BY DEF DriveInvariant, TreeInPlace
<1>2. folders[k].google = Signed /\ folders[k].parent = p /\ folders[k].state = "live"
  BY <1>1 DEF SameName, DriveInvariant, TreeStands
<1>3. p # 0 => folders[p].state = "live"
  BY DEF DriveInvariant, TreeStands, First
<1>4. k \in Listed(p)
  BY <1>2, <1>3 DEF Listed, Live
<1>5. o \in Listed(p) /\ o <= k
  BY <1>4, OldestListed DEF DriveInvariant
<1>6. /\ o \in DOMAIN folders /\ o \in Nat /\ k \in Nat
      /\ folders[o].google = Signed /\ folders[o].parent = p
  BY <1>4, <1>5, ListedFolders DEF DriveInvariant
<1> HIDE DEF o
<1>7. k <= o
  BY <1>1, <1>2, <1>6 DEF First, SameName
<1>8. o = k
  BY <1>5, <1>6, <1>7
<1> QED BY <1>1, <1>2, <1>4, <1>8 DEF o

\* An account never has anything under another account's folder.
LEMMA ListedIsOfTheParent ==
  ASSUME DriveInvariant, NEW p \in Nat, NEW f \in Listed(p), p # 0
  PROVE  IsRoot(p) /\ folders[p].google = Signed
BY ListedFolders DEF DriveInvariant, TreeInPlace

---------------------------------------------------------------------------
\* The folders that were there keep their account and place.
SameTree ==
  /\ folders' \in Seq(FolderRow) /\ DOMAIN folders \subseteq DOMAIN folders'
  /\ \A f \in DOMAIN folders : /\ folders'[f].google = folders[f].google
                               /\ folders'[f].parent = folders[f].parent
  /\ \A f \in DOMAIN folders, g \in DOMAIN folders' \ DOMAIN folders : f < g

LEMMA TreeKept ==
  ASSUME DriveShape, SameTree
  PROVE  /\ \A f \in DOMAIN folders, g \in DOMAIN folders : SameName(f, g)' <=> SameName(f, g)
         /\ \A f \in DOMAIN folders : First(f)' <=> First(f)
         /\ \A f : IsRoot(f) => IsRoot(f)'
         /\ \A f : IsHome(f) => IsHome(f)'
         /\ \A f : First(f) => First(f)'
<1>1. \A f \in DOMAIN folders, g \in DOMAIN folders : SameName(f, g)' <=> SameName(f, g)
  BY DEF SameTree, SameName
<1>2. DOMAIN folders \subseteq Nat /\ DOMAIN folders' \subseteq Nat /\ DOMAIN folders \subseteq DOMAIN folders'
  BY FolderRows DEF SameTree
<1>3. ASSUME NEW f \in DOMAIN folders
      PROVE  First(f)' <=> First(f)
  <2>1. First(f)' <=> f \in DOMAIN folders' /\ \A g \in DOMAIN folders' : SameName(f, g)' => f <= g
    BY DEF First
  <2>2. \A g \in DOMAIN folders' \ DOMAIN folders : f <= g
    BY <1>2 DEF SameTree
  <2> QED BY <2>1, <2>2, <1>1, <1>2 DEF First
<1>4. \A f : First(f) => f \in DOMAIN folders
  BY DEF First
<1> QED BY <1>1, <1>3, <1>4 DEF IsRoot, IsHome, SameTree

\* What a call knows of the folders stays so.
LEMMA CallPlaceKept ==
  ASSUME DriveShape, SameTree, NEW t, CallInPlace(t)
  PROVE  CallInPlace(t)'
BY TreeKept DEF CallInPlace, SameTree

LEMMA CallStandsKept ==
  ASSUME DriveShape, SameTree, NEW t, CallInPlace(t), CallStands(t), Signed' = Signed
  PROVE  CallStands(t)'
<1>1. t.op \in InTree /\ t.in # 0 => First(t.in)'
  BY TreeKept DEF CallStands
<1>2. t.op = "settle" => folders'[t.made].google = Signed'
  BY DEF CallStands, CallInPlace, SameTree
<1>3. t.op = "discard" => First(t.kept)' /\ t.kept < t.made /\ SameName(t.kept, t.made)'
  BY TreeKept DEF CallStands, CallInPlace
<1>4. t.op \in {"record", "send"} => First(t.folder)'
  BY TreeKept DEF CallStands
<1> QED BY <1>1, <1>2, <1>3, <1>4 DEF CallStands

\* A step of one call, with the connection as it was for the others.
LEMMA OthersStand ==
  ASSUME DriveInvariant, SameTree, NEW r \in Callers, NEW t \in DriveCalls, Step(r, t),
         UNCHANGED <<token, muddled, meddled>>, Signed' = Signed,
         ~muddled => conn'.google = conn.google,
         CallInPlace(t)', Calm => CallStands(t)', ~muddled => CallConnected(t)'
  PROVE  CallsStand' /\ call' \in [Callers -> DriveCalls]
<1>1. /\ call' \in [Callers -> DriveCalls] /\ call'[r] = t
      /\ \A s \in Callers \ {r} : call'[s] = call[s]
  BY DEF Step, DriveInvariant, DriveShape
<1>2. DriveShape /\ Calm' = Calm
  BY DEF DriveInvariant, Calm
<1>3. ASSUME NEW s \in Callers, s # r
      PROVE  /\ CallInPlace(call[s])'
             /\ Calm' => CallStands(call[s])'
             /\ ~muddled' => CallConnected(call[s])'
  <2>1. PICK c : c = call[s] /\ c = call'[s]
    BY <1>1, <1>3
  <2>2. CallInPlace(c) /\ (Calm => CallStands(c)) /\ (~muddled => CallConnected(c))
    BY <2>1 DEF DriveInvariant, CallsStand
  <2>3. CallInPlace(c)'
    BY <2>2, <1>2, CallPlaceKept
  <2>4. Calm' => CallStands(c)'
    BY <2>2, <1>2, CallStandsKept
  <2>5. ~muddled' => CallConnected(c)'
    BY <2>2 DEF CallConnected
  <2> QED BY <2>1, <2>3, <2>4, <2>5
<1>4. CallInPlace(call[r])' /\ (Calm' => CallStands(call[r])') /\ (~muddled' => CallConnected(call[r])')
  BY <1>1, <1>2
<1> QED BY <1>1, <1>3, <1>4 DEF CallsStand

\* The folders, the settings and the history in a step of one call.
LEMMA CallStepKeeps ==
  ASSUME DriveInvariant, UNCHANGED folders, NEW r \in Callers, NEW t \in DriveCalls, Step(r, t),
         UNCHANGED <<token, muddled, meddled>>, Signed' = Signed, client' \in Accounts,
         conn' \in Connection, ~muddled => conn'.google = conn.google,
         home' \in Nat, home' # 0 => IsHome(home') /\ (Calm => First(home')),
         conn'.root # 0 => IsRoot(conn'.root) /\ (Calm => First(conn'.root)),
         filed' \subseteq Nat, \A f \in filed' : IsHome(f) /\ (Calm => First(f)),
         CallInPlace(t), Calm => CallStands(t), ~muddled => CallConnected(t),
         call[r].op \notin {"connected", "forget"}
  PROVE  DriveInvariant'
<1>1. SameTree
  BY DEF SameTree, DriveInvariant, DriveShape
<1>2. CallInPlace(t)' /\ (Calm => CallStands(t)')
  BY <1>1, CallPlaceKept, CallStandsKept DEF DriveInvariant
<1>3. ~muddled => CallConnected(t)'
  BY DEF CallConnected
<1>4. CallsStand' /\ call' \in [Callers -> DriveCalls]
  BY <1>1, <1>2, <1>3, OthersStand
<1>5. DriveShape'
  BY <1>4 DEF DriveInvariant, DriveShape
<1>6. /\ \A f, g : SameName(f, g)' <=> SameName(f, g)
      /\ \A f : First(f)' <=> First(f)
      /\ \A f : (IsRoot(f)' <=> IsRoot(f)) /\ (IsHome(f)' <=> IsHome(f))
      /\ Calm' = Calm
  BY DEF SameName, First, IsRoot, IsHome, Calm
<1>7. TreeInPlace'
  BY <1>6 DEF DriveInvariant, TreeInPlace
<1>8. KnownInPlace'
  BY DEF KnownInPlace, IsHome, IsRoot
<1>9. TreeStands'
  <2> SUFFICES ASSUME Calm
               PROVE  /\ \A f \in DOMAIN folders : First(f) => folders[f].state = "live"
                      /\ \A f \in DOMAIN folders : folders[f].parent # 0 => First(folders[f].parent)
                      /\ \A f \in (filed' \cup {home', conn'.root}) \ {0} : First(f)
    BY <1>6 DEF TreeStands, First, SameName
  <2> QED BY DEF DriveInvariant, TreeStands
<1>10. ConnectionIsOfOneAccount'
  <2> SUFFICES ASSUME ~muddled, \A s \in Callers : call'[s].op \notin {"connected", "forget"}
               PROVE  conn'.google = token
    BY DEF ConnectionIsOfOneAccount
  <2>1. \A s \in Callers \ {r} : call'[s] = call[s]
    BY DEF Step, DriveInvariant, DriveShape
  <2>2. \A s \in Callers : call[s].op \notin {"connected", "forget"}
    BY <2>1
  <2> QED BY <2>2 DEF DriveInvariant, ConnectionIsOfOneAccount
<1> QED BY <1>4, <1>5, <1>7, <1>8, <1>9, <1>10 DEF DriveInvariant

\* What is known of the folders before the step is so after it, if it stays the same.
LEMMA KnownFolders ==
  ASSUME DriveInvariant
  PROVE  /\ conn \in Connection /\ conn.root \in Nat /\ conn.google \in Accounts
         /\ home \in Nat /\ (home # 0 => IsHome(home) /\ (Calm => First(home)))
         /\ conn.root # 0 => IsRoot(conn.root) /\ (Calm => First(conn.root))
         /\ filed \subseteq Nat /\ \A f \in filed : IsHome(f) /\ (Calm => First(f))
         /\ {client, token} \subseteq Accounts /\ Signed \in Accounts
<1>1. conn \in Connection /\ conn.root \in Nat /\ conn.google \in Accounts
  BY DEF DriveInvariant, DriveShape, Connection
<1>2. \A f \in filed : f # 0
  BY FolderRows DEF DriveInvariant, KnownInPlace, IsHome
<1> QED BY <1>1, <1>2 DEF DriveInvariant, DriveShape, KnownInPlace, TreeStands, Signed

\* A call to Drive is made for the account it was made for before.
LEMMA AsksForTheSame ==
  ASSUME DriveInvariant, NEW r, Asks(r)
  PROVE  /\ Signed' = Signed /\ Signed \in Googles /\ client' \in Accounts
         /\ UNCHANGED <<token, muddled, meddled>>
BY KnownFolders DEF Asks, Signed, Accounts

\* What a call in flight knows.
LEMMA CallOf ==
  ASSUME DriveInvariant, NEW r \in Callers
  PROVE  /\ call[r] \in DriveCalls /\ CallInPlace(call[r]) /\ (Calm => CallStands(call[r]))
         /\ ~muddled => CallConnected(call[r])
BY DEF DriveInvariant, DriveShape, CallsStand

LEMMA NoCallStands ==
  /\ NoCall \in DriveCalls /\ CallInPlace(NoCall) /\ CallStands(NoCall) /\ CallConnected(NoCall)
  /\ NoCall.op = "none"
BY DEF NoCall, DriveCalls, CallInPlace, CallStands, CallConnected, InTree

---------------------------------------------------------------------------
LEMMA BrokenKeeps ==
  ASSUME DriveInvariant, NEW r \in Callers, Broken(r)
  PROVE  DriveInvariant'
<1>1. /\ call[r].op \notin {"connected", "forget"} /\ Step(r, NoCall)
      /\ UNCHANGED <<token, conn, client, folders, home, filed, muddled, meddled>>
  BY DEF Broken
<1>2. Signed' = Signed
  BY <1>1 DEF Signed
<1> QED BY <1>1, <1>2, KnownFolders, NoCallStands, CallStepKeeps

LEMMA StartFileKeeps ==
  ASSUME DriveInvariant, NEW r \in Callers, NEW what \in Asking, StartFile(r, what)
  PROVE  DriveInvariant'
<1>1. /\ call[r].op = "none"
      /\ UNCHANGED <<token, conn, client, folders, home, filed, muddled, meddled>>
  BY DEF StartFile, Calling
<1>2. Signed' = Signed
  BY <1>1 DEF Signed
<1>3. ASSUME NEW t \in DriveCalls, Step(r, t), CallInPlace(t), Calm => CallStands(t),
             ~muddled => CallConnected(t)
      PROVE  DriveInvariant'
  BY <1>1, <1>2, <1>3, KnownFolders, CallStepKeeps
<1>4. CASE Step(r, NoCall)
  BY <1>3, <1>4, NoCallStands
<1>5. CASE home # 0 /\ Step(r, [op |-> "send", folder |-> home])
  <2> DEFINE t == [op |-> "send", folder |-> home]
  <2>1. t \in DriveCalls
    BY KnownFolders DEF DriveCalls, Uses
  <2>2. t.op = "send" /\ t.folder = home /\ Step(r, t)
    BY <1>5
  <2> HIDE DEF t
  <2>3. CallInPlace(t) /\ (Calm => CallStands(t)) /\ CallConnected(t)
    BY <2>2, <1>5, KnownFolders DEF CallInPlace, CallStands, CallConnected, InTree
  <2> QED BY <2>1, <2>2, <2>3, <1>3
<1>6. ASSUME NEW in \in {0, conn.root}, Step(r, [op |-> "search", what |-> what, in |-> in, conn |-> conn])
      PROVE  DriveInvariant'
  <2> DEFINE t == [op |-> "search", what |-> what, in |-> in, conn |-> conn]
  <2>1. t \in DriveCalls
    BY KnownFolders DEF DriveCalls, Looks
  <2>2. t.op = "search" /\ t.in = in /\ t.conn = conn /\ Step(r, t)
    BY <1>6
  <2> HIDE DEF t
  <2>3. CallInPlace(t) /\ (Calm => CallStands(t)) /\ CallConnected(t)
    BY <2>2, <1>6, KnownFolders DEF CallInPlace, CallStands, CallConnected, InTree
  <2> QED BY <2>1, <2>2, <2>3, <1>3
<1>7. \/ Step(r, NoCall)
      \/ home # 0 /\ Step(r, [op |-> "send", folder |-> home])
      \/ \E in \in {0, conn.root} : Step(r, [op |-> "search", what |-> what, in |-> in, conn |-> conn])
  BY DEF StartFile
<1> QED BY <1>4, <1>5, <1>6, <1>7

\* The call that follows a folder that was found or made.
LEMMA FoundStands ==
  ASSUME DriveInvariant, NEW t \in DriveCalls, t.op \in InTree, CallInPlace(t),
         Calm => CallStands(t), ~muddled => CallConnected(t),
         NEW f \in DOMAIN folders, folders[f].parent = t.in, Calm => First(f)
  PROVE  /\ Found(t, f) \in DriveCalls /\ CallInPlace(Found(t, f))
         /\ Calm => CallStands(Found(t, f))
         /\ ~muddled => CallConnected(Found(t, f))
<1>1. t.what \in Asking /\ t.in \in Nat /\ t.conn \in Connection /\ f \in Nat \ {0}
  BY DriveCallFields, FolderRows DEF DriveInvariant
<1>2. CASE t.in = 0
  <2> DEFINE n == [op |-> "write", what |-> t.what, in |-> f, conn |-> t.conn]
  <2>1. Found(t, f) = n
    BY <1>2 DEF Found
  <2>2. n \in DriveCalls
    BY <1>1 DEF DriveCalls, Looks
  <2>3. n.op = "write" /\ n.in = f /\ n.conn = t.conn
    OBVIOUS
  <2> HIDE DEF n
  <2>4. CallInPlace(n) /\ (Calm => CallStands(n)) /\ (~muddled => CallConnected(n))
    BY <2>3, <1>1, <1>2 DEF CallInPlace, CallStands, CallConnected, InTree, IsRoot
  <2> QED BY <2>1, <2>2, <2>4
<1>3. CASE t.in # 0
  <2> DEFINE n == [op |-> "record", folder |-> f]
  <2>1. Found(t, f) = n
    BY <1>3 DEF Found
  <2>2. n \in DriveCalls
    BY <1>1 DEF DriveCalls, Uses
  <2>3. n.op = "record" /\ n.folder = f
    OBVIOUS
  <2> HIDE DEF n
  <2>4. CallInPlace(n) /\ (Calm => CallStands(n)) /\ (~muddled => CallConnected(n))
    BY <2>3, <1>1, <1>3 DEF CallInPlace, CallStands, CallConnected, InTree, IsHome
  <2> QED BY <2>1, <2>2, <2>4
<1> QED BY <1>2, <1>3

\* A step of one call that asks Drive and changes nothing else.
LEMMA AskingStepKeeps ==
  ASSUME DriveInvariant, NEW r \in Callers, NEW t \in DriveCalls, Step(r, t), Asks(r),
         UNCHANGED <<conn, folders, home, filed>>,
         CallInPlace(t), Calm => CallStands(t), ~muddled => CallConnected(t),
         call[r].op \notin {"connected", "forget"}
  PROVE  DriveInvariant'
BY AsksForTheSame, KnownFolders, CallStepKeeps

LEMMA SearchKeeps ==
  ASSUME DriveInvariant, NEW r \in Callers, Search(r)
  PROVE  DriveInvariant'
<1>1. PICK t : t = call[r]
  OBVIOUS
<1>2. /\ t.op = "search" /\ Asks(r) /\ UNCHANGED <<conn, folders, home, filed>>
      /\ Step(r, IF Listed(t.in) # {} THEN Found(t, Oldest(Listed(t.in))) ELSE [t EXCEPT !.op = "create"])
  BY <1>1 DEF Search, Calling
<1>3. /\ t \in DriveCalls /\ CallInPlace(t) /\ (Calm => CallStands(t)) /\ (~muddled => CallConnected(t))
      /\ t.op \in InTree /\ t.in \in Nat /\ t \in Looks
      /\ call[r].op \notin {"connected", "forget"}
  BY <1>1, <1>2, CallOf, DriveCallFields DEF InTree
<1>4. CASE Listed(t.in) # {}
  <2> DEFINE o == Oldest(Listed(t.in))
  <2>1. o \in Listed(t.in)
    BY <1>3, <1>4, OldestListed DEF DriveInvariant
  <2>2. o \in DOMAIN folders /\ folders[o].parent = t.in /\ folders[o].google = Signed
    BY <2>1, <1>3, ListedFolders DEF DriveInvariant
  <2>3. Calm => First(o)
    <3> SUFFICES ASSUME Calm PROVE First(o)
      OBVIOUS
    <3>1. t.in # 0 => First(t.in)
      BY <1>3 DEF CallStands
    <3> QED BY <3>1, <2>2, <1>3, SearchFindsTheFirst
  <2> HIDE DEF o
  <2>4. Step(r, Found(t, o))
    BY <1>2, <1>4 DEF o
  <2> QED BY <2>2, <2>3, <2>4, <1>2, <1>3, FoundStands, AskingStepKeeps
<1>5. CASE Listed(t.in) = {}
  <2> DEFINE n == [t EXCEPT !.op = "create"]
  <2>1. Step(r, n)
    BY <1>2, <1>5
  <2>2. n \in Looks /\ n.op = "create" /\ n.in = t.in /\ n.conn = t.conn
    BY <1>3 DEF Looks
  <2> HIDE DEF n
  <2>3. n \in DriveCalls
    BY <2>2 DEF DriveCalls
  <2>4. CallInPlace(n) /\ (Calm => CallStands(n)) /\ (~muddled => CallConnected(n))
    BY <2>2, <1>2, <1>3 DEF CallInPlace, CallStands, CallConnected, InTree
  <2> QED BY <2>1, <2>3, <2>4, <1>2, <1>3, AskingStepKeeps
<1> QED BY <1>4, <1>5

LEMMA SettleKeeps ==
  ASSUME DriveInvariant, NEW r \in Callers, Settle(r)
  PROVE  DriveInvariant'
<1>1. PICK t : t = call[r]
  OBVIOUS
<1>2. PICK k : k = Kept(Listed(t.in), t.made)
  OBVIOUS
<1> DEFINE n == [op |-> "discard", what |-> t.what, in |-> t.in, conn |-> t.conn,
                 made |-> t.made, kept |-> k]
<1>3. /\ t.op = "settle" /\ Asks(r) /\ UNCHANGED <<conn, folders, home, filed>>
      /\ Step(r, IF k = t.made THEN Found(t, k) ELSE n)
  BY <1>1, <1>2 DEF Settle, Calling
<1>4. /\ t \in DriveCalls /\ CallInPlace(t) /\ (Calm => CallStands(t)) /\ (~muddled => CallConnected(t))
      /\ t.op \in InTree /\ t.in \in Nat /\ t.what \in Asking /\ t.conn \in Connection /\ t.made \in Nat
      /\ call[r].op \notin {"connected", "forget"}
  BY <1>1, <1>3, CallOf, DriveCallFields DEF InTree
<1>5. t.made \in DOMAIN folders /\ folders[t.made].parent = t.in
  BY <1>3, <1>4 DEF CallInPlace
<1>6. k \in DOMAIN folders /\ folders[k].parent = t.in
  <2>1. CASE Listed(t.in) = {}
    BY <2>1, <1>2, <1>5 DEF Kept
  <2>2. CASE Listed(t.in) # {}
    <3>1. k \in Listed(t.in)
      BY <2>2, <1>2, <1>4, OldestListed DEF Kept, DriveInvariant
    <3> QED BY <3>1, <1>4, ListedFolders DEF DriveInvariant
  <2> QED BY <2>1, <2>2
<1>7. Calm => First(k) /\ SameName(k, t.made)
  <2> SUFFICES ASSUME Calm PROVE First(k) /\ SameName(k, t.made)
    OBVIOUS
  <2>1. (t.in # 0 => First(t.in)) /\ folders[t.made].google = Signed
    BY <1>3, <1>4 DEF CallStands
  <2>2. /\ Listed(t.in) # {} /\ First(Oldest(Listed(t.in)))
        /\ SameName(Oldest(Listed(t.in)), t.made)
    BY <2>1, <1>4, <1>5, SearchFindsTheFirst
  <2> QED BY <2>2, <1>2 DEF Kept
<1>8. CASE k = t.made
  BY <1>3, <1>4, <1>6, <1>7, <1>8, FoundStands, AskingStepKeeps
<1>9. CASE k # t.made
  <2>1. k \in Nat
    BY <1>6, FolderRows DEF DriveInvariant
  <2>2. n \in DriveCalls
    BY <2>1, <1>4 DEF DriveCalls, Discards
  <2>3. n.op = "discard" /\ n.in = t.in /\ n.conn = t.conn /\ n.made = t.made /\ n.kept = k /\ Step(r, n)
    BY <1>3, <1>9
  <2> HIDE DEF n
  <2>4. Calm => k < t.made
    BY <2>1, <1>4, <1>5, <1>7, <1>9 DEF First
  <2>5. CallInPlace(n)
    BY <2>3, <1>4, <1>5, <1>6 DEF CallInPlace
  <2>6. Calm => CallStands(n)
    BY <2>3, <2>4, <1>4, <1>7 DEF CallStands
  <2>7. ~muddled => CallConnected(n)
    BY <2>3, <1>4 DEF CallConnected, InTree
  <2> QED BY <2>2, <2>3, <2>5, <2>6, <2>7, <1>3, <1>4, AskingStepKeeps
<1> QED BY <1>8, <1>9

\* A step that changes folders, where no first one is lost and the new ones are in place.
LEMMA FolderStepKeeps ==
  ASSUME DriveInvariant, SameTree, NEW r \in Callers, NEW t \in DriveCalls, Step(r, t),
         UNCHANGED <<token, muddled, meddled, conn, home, filed>>, Signed' = Signed, client' \in Accounts,
         TreeInPlace', CallInPlace(t)', Calm => CallStands(t)', ~muddled => CallConnected(t),
         Calm => \A f \in DOMAIN folders' : First(f)' => folders'[f].state = "live",
         Calm => \A f \in DOMAIN folders' : folders'[f].parent # 0 => First(folders[f].parent)',
         call[r].op \notin {"connected", "forget"}
  PROVE  DriveInvariant'
<1>1. ~muddled => CallConnected(t)'
  BY DEF CallConnected
<1>2. CallsStand' /\ call' \in [Callers -> DriveCalls]
  BY <1>1, OthersStand
<1>3. DriveShape'
  BY <1>2 DEF DriveInvariant, DriveShape, SameTree
<1>4. /\ \A f : First(f) => First(f)'
      /\ \A f : IsRoot(f) => IsRoot(f)'
      /\ \A f : IsHome(f) => IsHome(f)'
      /\ Calm' = Calm
  BY TreeKept DEF Calm, DriveInvariant
<1>5. KnownInPlace'
  <2>1. \A f : (f = home => f = home') /\ (f = conn.root => f = conn'.root)
    OBVIOUS
  <2>2. home # 0 => IsHome(home)'
    <3>1. PICK f : f = home /\ f = home'
      BY <2>1
    <3>2. f # 0 => IsHome(f)'
      BY <3>1, <1>4 DEF DriveInvariant, KnownInPlace
    <3> QED BY <3>1, <3>2
  <2>3. conn.root # 0 => IsRoot(conn.root)'
    <3>1. PICK f : f = conn.root /\ f = conn'.root
      BY <2>1
    <3>2. f # 0 => IsRoot(f)'
      BY <3>1, <1>4 DEF DriveInvariant, KnownInPlace
    <3> QED BY <3>1, <3>2
  <2>4. \A f \in filed : IsHome(f)'
    BY <1>4 DEF DriveInvariant, KnownInPlace
  <2> QED BY <2>2, <2>3, <2>4 DEF KnownInPlace
<1>6. TreeStands'
  <2> SUFFICES ASSUME Calm
               PROVE  \A f \in (filed \cup {home, conn.root}) \ {0} : First(f)'
    BY <1>4 DEF TreeStands
  <2> QED BY <1>4 DEF DriveInvariant, TreeStands
<1>7. ConnectionIsOfOneAccount'
  <2> SUFFICES ASSUME ~muddled, \A s \in Callers : call'[s].op \notin {"connected", "forget"}
               PROVE  conn.google = token
    BY DEF ConnectionIsOfOneAccount
  <2>1. \A s \in Callers \ {r} : call'[s] = call[s]
    BY DEF Step, DriveInvariant, DriveShape
  <2>2. \A s \in Callers : call[s].op \notin {"connected", "forget"}
    BY <2>1
  <2> QED BY <2>2 DEF DriveInvariant, ConnectionIsOfOneAccount
<1> QED BY <1>2, <1>3, <1>5, <1>6, <1>7 DEF DriveInvariant

LEMMA CreateFolderKeeps ==
  ASSUME DriveInvariant, NEW r \in Callers, CreateFolder(r)
  PROVE  DriveInvariant'
<1>1. PICK t : t = call[r]
  OBVIOUS
<1>2. PICK n : n = Len(folders) + 1
  OBVIOUS
<1> DEFINE row == [google |-> Signed, parent |-> t.in, state |-> "live"]
           c == [op |-> "settle", what |-> t.what, in |-> t.in, conn |-> t.conn, made |-> n]
<1>3. /\ t.op = "create" /\ Asks(r) /\ UNCHANGED <<conn, home, filed>>
      /\ t.in # 0 => Live(t.in) /\ folders[t.in].google = Signed
      /\ folders' = Append(folders, row) /\ Step(r, c)
  BY <1>1, <1>2 DEF CreateFolder, Calling
<1>4. /\ t \in DriveCalls /\ CallInPlace(t) /\ (Calm => CallStands(t)) /\ (~muddled => CallConnected(t))
      /\ t.op \in InTree /\ t.in \in Nat /\ t.what \in Asking /\ t.conn \in Connection
      /\ call[r].op \notin {"connected", "forget"}
  BY <1>1, <1>3, CallOf, DriveCallFields DEF InTree
<1>5. /\ Signed' = Signed /\ Signed \in Googles /\ client' \in Accounts
      /\ UNCHANGED <<token, muddled, meddled>>
  BY <1>3, AsksForTheSame
<1>6. row \in FolderRow /\ row.google = Signed /\ row.parent = t.in /\ row.state = "live"
  BY <1>4, <1>5 DEF FolderRow
<1>7. n \in Nat /\ c \in DriveCalls
  BY <1>2, <1>4, FolderRows DEF DriveInvariant, DriveCalls, Settles
<1>8. c.op = "settle" /\ c.in = t.in /\ c.conn = t.conn /\ c.made = n
  OBVIOUS
<1> HIDE DEF row, c
<1>9. /\ folders' \in Seq(FolderRow) /\ DOMAIN folders' = DOMAIN folders \cup {n}
      /\ n \notin DOMAIN folders /\ \A f \in DOMAIN folders : f < n
      /\ folders'[n] = row /\ \A f \in DOMAIN folders : folders'[f] = folders[f]
  <2>1. folders \in Seq(FolderRow) /\ Len(folders) \in Nat /\ DOMAIN folders = 1..Len(folders)
    BY FolderRows DEF DriveInvariant, DriveShape
  <2>2. folders' \in Seq(FolderRow) /\ DOMAIN folders' = 1..n
    BY <2>1, <1>2, <1>3, <1>6
  <2>3. folders'[n] = row /\ \A f \in DOMAIN folders : folders'[f] = folders[f]
    BY <2>1, <1>2, <1>3, <1>6
  <2> QED BY <2>1, <2>2, <2>3, <1>2
<1>10. SameTree
  BY <1>9 DEF SameTree
<1>11. /\ \A f \in DOMAIN folders, g \in DOMAIN folders : SameName(f, g)' <=> SameName(f, g)
       /\ \A f \in DOMAIN folders : First(f)' <=> First(f)
       /\ \A f : IsRoot(f) => IsRoot(f)'
       /\ \A f : First(f) => First(f)'
  BY <1>10, TreeKept DEF DriveInvariant
<1>12. t.in # 0 => IsRoot(t.in) /\ t.in \in DOMAIN folders
  BY <1>4 DEF CallInPlace, IsRoot
<1>13. TreeInPlace'
  <2>1. ASSUME NEW f \in DOMAIN folders', NEW p, p = folders'[f].parent, p # 0
        PROVE  IsRoot(p)' /\ p < f /\ folders'[p].google = folders'[f].google
    <3>1. CASE f = n
      BY <2>1, <3>1, <1>3, <1>6, <1>9, <1>11, <1>12
    <3>2. CASE f # n
      <4>1. IsRoot(p) /\ p < f /\ folders[p].google = folders[f].google
        BY <2>1, <3>2, <1>9 DEF DriveInvariant, TreeInPlace
      <4>2. p \in DOMAIN folders
        BY <4>1 DEF IsRoot
      <4> QED BY <4>1, <4>2, <3>2, <1>9, <1>11
    <3> QED BY <3>1, <3>2
  <2>2. ASSUME NEW f \in DOMAIN folders
        PROVE  \E k \in DOMAIN folders' : First(k)' /\ SameName(k, f)'
    BY <1>9, <1>11 DEF DriveInvariant, TreeInPlace
  <2>3. \E k \in DOMAIN folders' : First(k)' /\ SameName(k, n)'
    <3>1. CASE \E f \in DOMAIN folders : SameName(f, n)'
      <4>1. PICK f \in DOMAIN folders : SameName(f, n)'
        BY <3>1
      <4>2. PICK k \in DOMAIN folders' : First(k)' /\ SameName(k, f)'
        BY <2>2
      <4> QED BY <4>1, <4>2 DEF SameName
    <3>2. CASE ~ \E f \in DOMAIN folders : SameName(f, n)'
      <4>1. \A f \in DOMAIN folders : ~SameName(n, f)'
        BY <3>2 DEF SameName
      <4>2. First(n)'
        BY <4>1, <1>7, <1>9 DEF First
      <4> QED BY <4>2, <1>9 DEF SameName
    <3> QED BY <3>1, <3>2
  <2> QED BY <2>1, <2>2, <2>3, <1>9 DEF TreeInPlace
<1>14. CallInPlace(c)'
  BY <1>6, <1>8, <1>9, <1>11, <1>12 DEF CallInPlace
<1>15. Calm => CallStands(c)'
  BY <1>4, <1>5, <1>6, <1>8, <1>9, <1>11 DEF CallStands
<1>16. ~muddled => CallConnected(c)
  BY <1>4, <1>8 DEF CallConnected, InTree
<1>17. Calm => \A f \in DOMAIN folders' : First(f)' => folders'[f].state = "live"
  BY <1>6, <1>9, <1>11 DEF DriveInvariant, TreeStands
<1>18. Calm => \A f \in DOMAIN folders' : folders'[f].parent # 0 => First(folders[f].parent)'
  <2> SUFFICES ASSUME Calm, NEW f \in DOMAIN folders', NEW p, p = folders'[f].parent, p # 0
               PROVE  First(p)'
    OBVIOUS
  <2>1. CASE f = n
    BY <2>1, <1>4, <1>6, <1>9, <1>11 DEF CallStands
  <2>2. CASE f # n
    <3>1. First(p)
      BY <2>2, <1>9 DEF DriveInvariant, TreeStands
    <3> QED BY <3>1, <1>11
  <2> QED BY <2>1, <2>2
<1> QED
  BY <1>3, <1>4, <1>5, <1>7, <1>10, <1>13, <1>14, <1>15, <1>16, <1>17, <1>18, FolderStepKeeps

\* A folder that changes its state alone is where it was.
LEMMA StateOnly ==
  ASSUME DriveInvariant, NEW f \in DOMAIN folders, NEW state \in {"trashed", "deleted"},
         folders' = [folders EXCEPT ![f].state = state]
  PROVE  /\ SameTree /\ TreeInPlace' /\ DOMAIN folders' = DOMAIN folders
         /\ \A g \in DOMAIN folders \ {f} : folders'[g] = folders[g]
<1>1. /\ folders \in Seq(FolderRow) /\ Len(folders) \in Nat /\ DOMAIN folders = 1..Len(folders)
      /\ \A g \in DOMAIN folders : folders[g] \in FolderRow
  BY FolderRows DEF DriveInvariant, DriveShape
<1>2. PICK row : row = [folders[f] EXCEPT !.state = state]
  OBVIOUS
<1>3. row \in FolderRow /\ row.google = folders[f].google /\ row.parent = folders[f].parent
  BY <1>1, <1>2 DEF FolderRow
<1>4. folders' = [folders EXCEPT ![f] = row]
  BY <1>2
<1>5. /\ folders' \in Seq(FolderRow) /\ DOMAIN folders' = DOMAIN folders
      /\ folders'[f] = row /\ \A g \in DOMAIN folders \ {f} : folders'[g] = folders[g]
  BY <1>1, <1>3, <1>4
<1>6. SameTree
  BY <1>3, <1>5 DEF SameTree
<1>7. /\ \A g, h \in DOMAIN folders : SameName(g, h)' <=> SameName(g, h)
      /\ \A g \in DOMAIN folders : First(g)' <=> First(g)
      /\ \A g : IsRoot(g) => IsRoot(g)'
  BY <1>6, TreeKept DEF DriveInvariant
<1>8. \A g \in DOMAIN folders : /\ folders'[g].google = folders[g].google
                                /\ folders'[g].parent = folders[g].parent
  BY <1>6 DEF SameTree
<1>9. TreeInPlace'
  <2>1. ASSUME NEW g \in DOMAIN folders, NEW p, p = folders[g].parent, p # 0
        PROVE  IsRoot(p)' /\ p < g /\ folders'[p].google = folders'[g].google
    <3>1. IsRoot(p) /\ p < g /\ folders[p].google = folders[g].google /\ p \in DOMAIN folders
      BY <2>1 DEF DriveInvariant, TreeInPlace, IsRoot
    <3> QED BY <3>1, <1>7, <1>8
  <2>2. ASSUME NEW g \in DOMAIN folders
        PROVE  \E k \in DOMAIN folders : First(k)' /\ SameName(k, g)'
    BY <1>7 DEF DriveInvariant, TreeInPlace
  <2>3. DOMAIN folders' = DOMAIN folders
    BY <1>6 DEF SameTree
  <2>4. ASSUME NEW g \in DOMAIN folders', NEW p, p = folders'[g].parent, p # 0
        PROVE  IsRoot(p)' /\ p < g /\ folders'[p].google = folders'[g].google
    BY <2>1, <2>3, <2>4, <1>8
  <2>5. ASSUME NEW g \in DOMAIN folders'
        PROVE  \E k \in DOMAIN folders' : First(k)' /\ SameName(k, g)'
    BY <2>2, <2>3, <2>5
  <2> QED BY <2>4, <2>5 DEF TreeInPlace
<1> QED BY <1>5, <1>6, <1>9

LEMMA DiscardKeeps ==
  ASSUME DriveInvariant, NEW r \in Callers, Discard(r)
  PROVE  DriveInvariant'
<1>1. PICK t : t = call[r]
  OBVIOUS
<1>2. /\ t.op = "discard" /\ Step(r, Found(t, t.kept)) /\ UNCHANGED <<conn, home, filed>>
      /\ \/ Asks(r) /\ folders' = [folders EXCEPT ![t.made].state = "deleted"]
         \/ UNCHANGED <<token, client, folders, muddled, meddled>>
  BY <1>1 DEF Discard, Calling, Spare
<1>3. /\ t \in DriveCalls /\ CallInPlace(t) /\ (Calm => CallStands(t)) /\ (~muddled => CallConnected(t))
      /\ t.op \in InTree /\ t.in \in Nat /\ t.made \in Nat /\ t.kept \in Nat
      /\ call[r].op \notin {"connected", "forget"}
  BY <1>1, <1>2, CallOf, DriveCallFields DEF InTree
<1>4. /\ t.made \in DOMAIN folders /\ t.kept \in DOMAIN folders /\ folders[t.kept].parent = t.in
      /\ Calm => First(t.kept) /\ t.kept < t.made /\ SameName(t.kept, t.made)
  BY <1>2, <1>3 DEF CallInPlace, CallStands
<1>5. PICK n : n = Found(t, t.kept)
  OBVIOUS
<1>6. /\ n \in DriveCalls /\ CallInPlace(n) /\ (Calm => CallStands(n)) /\ (~muddled => CallConnected(n))
      /\ Step(r, n)
  BY <1>2, <1>3, <1>4, <1>5, FoundStands
<1>7. CASE UNCHANGED <<token, client, folders, muddled, meddled>>
  <2>1. Signed' = Signed
    BY <1>7 DEF Signed
  <2> QED BY <2>1, <1>2, <1>3, <1>6, <1>7, KnownFolders, CallStepKeeps
<1>8. CASE Asks(r) /\ folders' = [folders EXCEPT ![t.made].state = "deleted"]
  <2>1. /\ SameTree /\ TreeInPlace' /\ DOMAIN folders' = DOMAIN folders
        /\ \A g \in DOMAIN folders \ {t.made} : folders'[g] = folders[g]
    BY <1>4, <1>8, StateOnly
  <2>2. /\ Signed' = Signed /\ client' \in Accounts /\ UNCHANGED <<token, muddled, meddled>>
    BY <1>8, AsksForTheSame
  <2>3. CallInPlace(n)' /\ (Calm => CallStands(n)')
    BY <2>1, <2>2, <1>6, CallPlaceKept, CallStandsKept DEF DriveInvariant
  <2>4. /\ \A f \in DOMAIN folders : First(f)' <=> First(f)
        /\ \A f : First(f) => First(f)'
        /\ \A f \in DOMAIN folders : folders'[f].parent = folders[f].parent
    BY <2>1, TreeKept DEF DriveInvariant, SameTree
  <2>5. Calm => ~First(t.made)
    BY <1>3, <1>4 DEF First, SameName
  <2>6. Calm => \A f \in DOMAIN folders' : First(f)' => folders'[f].state = "live"
    BY <2>1, <2>4, <2>5 DEF DriveInvariant, TreeStands
  <2>7. Calm => \A f \in DOMAIN folders' : folders'[f].parent # 0 => First(folders[f].parent)'
    <3> SUFFICES ASSUME Calm, NEW f \in DOMAIN folders', NEW p, p = folders'[f].parent, p # 0
                 PROVE  First(p)'
      OBVIOUS
    <3>1. First(p)
      BY <2>1, <2>4 DEF DriveInvariant, TreeStands
    <3> QED BY <3>1, <2>4
  <2> QED BY <2>1, <2>2, <2>3, <2>6, <2>7, <1>2, <1>3, <1>6, FolderStepKeeps
<1> QED BY <1>2, <1>7, <1>8

LEMMA WriteRootKeeps ==
  ASSUME DriveInvariant, NEW r \in Callers, WriteRoot(r)
  PROVE  DriveInvariant'
<1>1. PICK t : t = call[r]
  OBVIOUS
<1>2. PICK c : c = [t.conn EXCEPT !.root = t.in]
  OBVIOUS
<1> DEFINE n == [t EXCEPT !.op = "search", !.conn = c]
<1>3. /\ t.op = "write" /\ conn' = c
      /\ Step(r, IF t.what = "roots" THEN NoCall ELSE n)
      /\ UNCHANGED <<token, client, folders, home, filed, muddled, meddled>>
  BY <1>1, <1>2 DEF WriteRoot, Calling, RootRecord
<1>4. /\ t \in DriveCalls /\ CallInPlace(t) /\ (Calm => CallStands(t)) /\ (~muddled => CallConnected(t))
      /\ t.op \in InTree /\ t.in \in Nat /\ t.conn \in Connection /\ t \in Looks
      /\ call[r].op \notin {"connected", "forget"}
  BY <1>1, <1>3, CallOf, DriveCallFields DEF InTree
<1>5. c \in Connection /\ c.root = t.in /\ c.google = t.conn.google
  BY <1>2, <1>4 DEF Connection
<1>6. /\ t.in # 0 /\ IsRoot(t.in) /\ (Calm => First(t.in))
      /\ ~muddled => c.google = conn.google
  BY <1>3, <1>4, <1>5 DEF CallInPlace, CallStands, CallConnected
<1>7. Signed' = Signed
  BY <1>3 DEF Signed
<1>8. ASSUME NEW m \in DriveCalls, Step(r, m), CallInPlace(m), Calm => CallStands(m),
             ~muddled => CallConnected(m)
      PROVE  DriveInvariant'
  BY <1>3, <1>4, <1>5, <1>6, <1>7, <1>8, KnownFolders, CallStepKeeps
<1>9. n \in Looks /\ n.op = "search" /\ n.in = t.in /\ n.conn = c
  BY <1>4, <1>5 DEF Looks
<1> HIDE DEF n
<1>10. CASE t.what = "roots"
  BY <1>3, <1>8, <1>10, NoCallStands
<1>11. CASE t.what # "roots"
  <2>1. n \in DriveCalls /\ Step(r, n)
    BY <1>3, <1>9, <1>11 DEF DriveCalls
  <2>2. CallInPlace(n) /\ (Calm => CallStands(n)) /\ (~muddled => CallConnected(n))
    BY <1>6, <1>9 DEF CallInPlace, CallStands, CallConnected, InTree
  <2> QED BY <2>1, <2>2, <1>8
<1> QED BY <1>10, <1>11

LEMMA RecordHomeKeeps ==
  ASSUME DriveInvariant, NEW r \in Callers, RecordHome(r)
  PROVE  DriveInvariant'
<1>1. PICK t : t = call[r]
  OBVIOUS
<1> DEFINE n == [op |-> "send", folder |-> t.folder]
<1>2. /\ t.op = "record" /\ home' = t.folder /\ Step(r, n)
      /\ UNCHANGED <<token, conn, client, folders, filed, muddled, meddled>>
  BY <1>1 DEF RecordHome, Calling
<1>3. /\ t \in DriveCalls /\ CallInPlace(t) /\ (Calm => CallStands(t)) /\ t.folder \in Nat
      /\ call[r].op \notin {"connected", "forget"}
  BY <1>1, <1>2, CallOf, DriveCallFields
<1>4. IsHome(t.folder) /\ (Calm => First(t.folder))
  BY <1>2, <1>3 DEF CallInPlace, CallStands
<1>5. n \in DriveCalls
  BY <1>3 DEF DriveCalls, Uses
<1>6. n.op = "send" /\ n.folder = t.folder
  OBVIOUS
<1> HIDE DEF n
<1>7. CallInPlace(n) /\ (Calm => CallStands(n)) /\ CallConnected(n)
  BY <1>4, <1>6 DEF CallInPlace, CallStands, CallConnected, InTree
<1>8. Signed' = Signed
  BY <1>2 DEF Signed
<1> QED BY <1>2, <1>3, <1>4, <1>5, <1>7, <1>8, KnownFolders, CallStepKeeps

LEMMA SendKeeps ==
  ASSUME DriveInvariant, NEW r \in Callers, Send(r)
  PROVE  DriveInvariant'
<1>1. PICK t : t = call[r]
  OBVIOUS
<1>2. /\ t.op = "send" /\ Asks(r) /\ Step(r, NoCall) /\ filed' = filed \cup {t.folder}
      /\ UNCHANGED <<conn, folders, home>>
  BY <1>1 DEF Send, Calling
<1>3. /\ t \in DriveCalls /\ CallInPlace(t) /\ (Calm => CallStands(t)) /\ t.folder \in Nat
      /\ call[r].op \notin {"connected", "forget"}
  BY <1>1, <1>2, CallOf, DriveCallFields
<1>4. IsHome(t.folder) /\ (Calm => First(t.folder))
  BY <1>2, <1>3 DEF CallInPlace, CallStands
<1>5. filed' \subseteq Nat /\ \A f \in filed' : IsHome(f) /\ (Calm => First(f))
  BY <1>2, <1>3, <1>4, KnownFolders
<1>6. /\ Signed' = Signed /\ client' \in Accounts /\ UNCHANGED <<token, muddled, meddled>>
  BY <1>2, AsksForTheSame
<1> QED BY <1>2, <1>3, <1>5, <1>6, KnownFolders, NoCallStands, CallStepKeeps

LEMMA StartConnectKeeps ==
  ASSUME DriveInvariant, NEW r \in Callers, NEW g \in Googles, StartConnect(r, g)
  PROVE  DriveInvariant'
<1> DEFINE n == [op |-> "connect", google |-> g]
<1>1. /\ call[r].op = "none" /\ Step(r, n)
      /\ UNCHANGED <<token, conn, client, folders, home, filed, muddled, meddled>>
  BY DEF StartConnect, Calling
<1>2. n \in DriveCalls
  BY DEF DriveCalls, Connects
<1>3. n.op = "connect"
  OBVIOUS
<1> HIDE DEF n
<1>4. CallInPlace(n) /\ CallStands(n) /\ CallConnected(n)
  BY <1>3 DEF CallInPlace, CallStands, CallConnected, InTree
<1>5. Signed' = Signed
  BY <1>1 DEF Signed
<1> QED BY <1>1, <1>2, <1>4, <1>5, KnownFolders, CallStepKeeps

\* A change of the connection: nobody else is on, or it is muddled from now on.
LEMMA ChangingKeeps ==
  ASSUME DriveInvariant, NEW r \in Callers, NEW n \in DriveCalls, Step(r, n), Changing(r),
         token' \in Accounts, client' \in Accounts, conn' \in Connection, conn'.root \in {0, conn.root},
         n.op \in {"none", "search", "connected", "forget"}, n.op = "search" => n.in = 0,
         CallConnected(n)', n.op \in {"none", "search"} => (~muddled => conn'.google = token')
  PROVE  DriveInvariant'
<1>1. /\ muddled' = (muddled \/ \E s \in Callers \ {r} : call[s] # NoCall)
      /\ UNCHANGED <<folders, home, filed, meddled>>
  BY DEF Changing
<1>2. /\ call' \in [Callers -> DriveCalls] /\ call'[r] = n /\ muddled' \in BOOLEAN
      /\ \A s \in Callers \ {r} : call'[s] = call[s]
  BY <1>1 DEF Step, DriveInvariant, DriveShape
<1>3. DriveShape'
  BY <1>1, <1>2 DEF DriveInvariant, DriveShape
<1>4. /\ ~muddled' => ~muddled /\ \A s \in Callers \ {r} : call'[s] = NoCall
      /\ Calm' => Calm
  BY <1>1, <1>2 DEF Calm
<1>5. SameTree
  BY <1>1 DEF SameTree, DriveInvariant, DriveShape
<1>6. /\ \A f, g : SameName(f, g)' <=> SameName(f, g)
      /\ \A f : First(f)' <=> First(f)
      /\ \A f : (IsRoot(f)' <=> IsRoot(f)) /\ (IsHome(f)' <=> IsHome(f))
  BY <1>1 DEF SameName, First, IsRoot, IsHome
<1>7. TreeInPlace'
  BY <1>1, <1>6 DEF DriveInvariant, TreeInPlace
<1>8. KnownInPlace'
  BY <1>1 DEF DriveInvariant, KnownInPlace, IsHome, IsRoot
<1>9. TreeStands'
  <2> SUFFICES ASSUME Calm
               PROVE  /\ \A f \in DOMAIN folders : First(f) => folders[f].state = "live"
                      /\ \A f \in DOMAIN folders : folders[f].parent # 0 => First(folders[f].parent)
                      /\ \A f \in (filed \cup {home, conn'.root}) \ {0} : First(f)
    BY <1>1, <1>4, <1>6 DEF TreeStands, First, SameName
  <2> QED BY DEF DriveInvariant, TreeStands
<1>10. ConnectionIsOfOneAccount'
  BY <1>2, <1>4 DEF ConnectionIsOfOneAccount
<1>11. CallsStand'
  <2>1. CallInPlace(n)' /\ CallStands(n)'
    BY DEF CallInPlace, CallStands, InTree
  <2>2. ASSUME NEW s \in Callers, s # r
        PROVE  CallInPlace(call[s])' /\ (~muddled' => CallStands(call[s])' /\ CallConnected(call[s])')
    <3>1. PICK c : c = call[s] /\ c = call'[s]
      BY <1>2, <2>2
    <3>2. CallInPlace(c)'
      BY <3>1, <1>5, CallOf, CallPlaceKept DEF DriveInvariant
    <3>3. ASSUME ~muddled' PROVE CallStands(c)' /\ CallConnected(c)'
      <4>1. c.op = "none"
        BY <3>1, <3>3, <1>4, <2>2, NoCallStands
      <4> QED BY <4>1 DEF CallStands, CallConnected, InTree
    <3> QED BY <3>1, <3>2, <3>3
  <2>3. CallInPlace(call[r])' /\ (~muddled' => CallStands(call[r])' /\ CallConnected(call[r])')
    BY <2>1, <1>2
  <2> QED BY <2>2, <2>3 DEF CallsStand, Calm
<1> QED BY <1>3, <1>7, <1>8, <1>9, <1>10, <1>11 DEF DriveInvariant

LEMMA WriteTokenKeeps ==
  ASSUME DriveInvariant, NEW r \in Callers, WriteToken(r)
  PROVE  DriveInvariant'
<1>1. PICK g : g = call[r].google
  OBVIOUS
<1> DEFINE n == [op |-> "connected", google |-> g]
<1>2. /\ call[r].op = "connect" /\ token' = g /\ Step(r, n) /\ Changing(r) /\ UNCHANGED <<conn, client>>
  BY <1>1 DEF WriteToken, Calling
<1>3. g \in Googles
  BY <1>1, <1>2, CallOf, DriveCallFields
<1>4. n \in DriveCalls
  BY <1>3 DEF DriveCalls, Connects
<1>5. n.op = "connected" /\ n.google = g
  OBVIOUS
<1> HIDE DEF n
<1>6. CallConnected(n)'
  BY <1>2, <1>5 DEF CallConnected, InTree
<1> QED BY <1>2, <1>3, <1>4, <1>5, <1>6, KnownFolders, ChangingKeeps DEF Accounts

LEMMA WriteConnectionKeeps ==
  ASSUME DriveInvariant, NEW r \in Callers, WriteConnection(r)
  PROVE  DriveInvariant'
<1>1. PICK g : g = call[r].google
  OBVIOUS
<1>2. PICK c : c = [google |-> g, root |-> 0]
  OBVIOUS
<1> DEFINE n == [op |-> "search", what |-> "roots", in |-> 0, conn |-> c]
<1>3. /\ call[r].op = "connected" /\ conn' = c /\ client' = NoGoogle /\ Step(r, n)
      /\ Changing(r) /\ UNCHANGED token
  BY <1>1, <1>2 DEF WriteConnection, Calling
<1>4. g \in Googles
  BY <1>1, <1>3, CallOf, DriveCallFields
<1>5. c \in Connection /\ c.google = g /\ c.root = 0
  BY <1>2, <1>4 DEF Connection, Accounts
<1>6. n \in DriveCalls
  BY <1>5 DEF DriveCalls, Looks, Asking
<1>7. n.op = "search" /\ n.in = 0 /\ n.conn = c
  OBVIOUS
<1> HIDE DEF n
<1>8. CallConnected(n)'
  BY <1>3, <1>7 DEF CallConnected
<1>9. ~muddled => conn'.google = token'
  BY <1>1, <1>3, <1>5, CallOf DEF CallConnected
<1> QED BY <1>3, <1>5, <1>6, <1>7, <1>8, <1>9, KnownFolders, ChangingKeeps DEF Accounts

LEMMA ForgetTokenKeeps ==
  ASSUME DriveInvariant, NEW r \in Callers, ForgetToken(r)
  PROVE  DriveInvariant'
<1> DEFINE n == [op |-> "forget"]
<1>1. /\ token' = NoGoogle /\ Step(r, n) /\ Changing(r) /\ UNCHANGED <<conn, client>>
  BY DEF ForgetToken
<1>2. n \in DriveCalls
  BY DEF DriveCalls, Forgets
<1>3. n.op = "forget"
  OBVIOUS
<1> HIDE DEF n
<1>4. CallConnected(n)'
  BY <1>1, <1>3 DEF CallConnected, InTree
<1> QED BY <1>1, <1>2, <1>3, <1>4, KnownFolders, ChangingKeeps DEF Accounts

LEMMA ForgetConnectionKeeps ==
  ASSUME DriveInvariant, NEW r \in Callers, ForgetConnection(r)
  PROVE  DriveInvariant'
<1>1. /\ call[r].op = "forget" /\ conn' = NoConn /\ client' = NoGoogle /\ Step(r, NoCall)
      /\ Changing(r) /\ UNCHANGED token
  BY DEF ForgetConnection, Calling, AfterForgetting
<1>2. NoConn \in Connection /\ NoConn.google = NoGoogle /\ NoConn.root = 0
  BY DEF NoConn, Connection, Accounts
<1>3. ~muddled => conn'.google = token'
  BY <1>1, <1>2, CallOf DEF CallConnected
<1>4. CallConnected(NoCall)'
  BY DEF CallConnected, NoCall, InTree
<1> QED BY <1>1, <1>2, <1>3, <1>4, NoCallStands, KnownFolders, ChangingKeeps DEF Accounts

LEMMA OwnerTrashesKeeps ==
  ASSUME DriveInvariant, NEW f \in DOMAIN folders, OwnerTrashes(f)
  PROVE  DriveInvariant'
<1>1. /\ folders' = [folders EXCEPT ![f].state = "trashed"] /\ meddled' = TRUE
      /\ UNCHANGED <<token, conn, client, home, filed, call, muddled>>
  BY DEF OwnerTrashes
<1>2. SameTree /\ TreeInPlace'
  BY <1>1, StateOnly
<1>3. DriveShape'
  BY <1>1, <1>2 DEF DriveInvariant, DriveShape, SameTree
<1>4. ~Calm' /\ TreeStands'
  BY <1>1 DEF Calm, TreeStands
<1>5. KnownInPlace'
  BY <1>1, <1>2 DEF DriveInvariant, KnownInPlace, SameTree, IsHome, IsRoot
<1>6. ConnectionIsOfOneAccount'
  BY <1>1 DEF DriveInvariant, ConnectionIsOfOneAccount
<1>7. CallsStand'
  <2> SUFFICES ASSUME NEW s \in Callers
               PROVE  CallInPlace(call[s])' /\ (~muddled => CallConnected(call[s])')
    BY <1>1, <1>4 DEF CallsStand
  <2>1. PICK c : c = call[s] /\ c = call'[s]
    BY <1>1
  <2>2. CallInPlace(c)'
    BY <2>1, <1>2, CallOf, CallPlaceKept DEF DriveInvariant
  <2>3. ~muddled => CallConnected(c)'
    BY <2>1, <1>1, CallOf DEF CallConnected
  <2> QED BY <2>1, <2>2, <2>3
<1> QED BY <1>2, <1>3, <1>4, <1>5, <1>6, <1>7 DEF DriveInvariant

---------------------------------------------------------------------------
LEMMA DriveInitHolds ==
  ASSUME DriveInit
  PROVE  DriveInvariant
<1>1. /\ token = NoGoogle /\ conn = NoConn /\ client = NoGoogle /\ folders = <<>> /\ home = 0
      /\ filed = {} /\ muddled = FALSE /\ meddled = FALSE /\ DOMAIN folders = {}
      /\ call = [r \in Callers |-> NoCall]
  BY DEF DriveInit
<1>2. NoConn \in Connection /\ NoConn.google = NoGoogle /\ NoConn.root = 0
  BY DEF NoConn, Connection, Accounts
<1>3. call \in [Callers -> DriveCalls] /\ \A r \in Callers : call[r] = NoCall
  BY <1>1, NoCallStands
<1>4. DriveShape
  <2>1. folders \in Seq(FolderRow)
    BY <1>1
  <2>2. {token, client} \subseteq Accounts /\ conn \in Connection /\ home \in Nat /\ filed \subseteq Nat
    BY <1>1, <1>2 DEF Accounts
  <2> QED BY <1>1, <1>3, <2>1, <2>2 DEF DriveShape
<1>5. TreeInPlace /\ KnownInPlace /\ TreeStands
  BY <1>1, <1>2 DEF TreeInPlace, KnownInPlace, TreeStands
<1>6. CallsStand
  BY <1>3, NoCallStands DEF CallsStand
<1>7. ConnectionIsOfOneAccount
  BY <1>1, <1>2 DEF ConnectionIsOfOneAccount
<1> QED BY <1>4, <1>5, <1>6, <1>7 DEF DriveInvariant

LEMMA DriveStepHolds ==
  ASSUME DriveInvariant, [DriveNext]_driveVars
  PROVE  DriveInvariant'
<1>1. ASSUME NEW r \in Callers,
             \/ \E what \in {"file", "roots"} : StartFile(r, what)
             \/ \E g \in Googles : StartConnect(r, g)
             \/ Search(r) \/ CreateFolder(r) \/ Settle(r) \/ Discard(r) \/ WriteRoot(r) \/ RecordHome(r)
             \/ Send(r) \/ WriteToken(r) \/ WriteConnection(r) \/ ForgetToken(r) \/ ForgetConnection(r)
             \/ Broken(r)
      PROVE  DriveInvariant'
  BY <1>1, StartFileKeeps, StartConnectKeeps, SearchKeeps, CreateFolderKeeps, SettleKeeps, DiscardKeeps,
     WriteRootKeeps, RecordHomeKeeps, SendKeeps, WriteTokenKeeps, WriteConnectionKeeps, ForgetTokenKeeps,
     ForgetConnectionKeeps, BrokenKeeps DEF Asking
<1>2. CASE UNCHANGED driveVars
  <2>1. UNCHANGED <<token, conn, client, folders, home, filed, call, muddled, meddled>>
    BY <1>2 DEF driveVars
  <2>2. DriveShape' /\ TreeInPlace' /\ KnownInPlace' /\ TreeStands' /\ ConnectionIsOfOneAccount'
    BY <2>1 DEF DriveInvariant, DriveShape, TreeInPlace, KnownInPlace, TreeStands,
       ConnectionIsOfOneAccount, Calm, First, SameName, IsRoot, IsHome
  <2>3. CallsStand'
    BY <2>1 DEF DriveInvariant, CallsStand, CallInPlace, CallStands, CallConnected, Calm, First,
       SameName, IsRoot, IsHome, Signed
  <2> QED BY <2>2, <2>3 DEF DriveInvariant
<1> QED BY <1>1, <1>2, OwnerTrashesKeeps DEF DriveNext

\* Two first folders of an account's person, both under its first root, are one.
LEMMA FoldersHoldTogetherNow ==
  ASSUME DriveInvariant
  PROVE  FoldersHoldTogether
<1>1. /\ \A f \in DOMAIN folders : f \in Nat \ {0}
      /\ \A f \in filed : f \in DOMAIN folders /\ folders[f].parent # 0
      /\ home # 0 => home \in DOMAIN folders /\ folders[home].parent # 0
      /\ conn.root # 0 => conn.root \in DOMAIN folders /\ folders[conn.root].parent = 0
  BY FolderRows DEF DriveInvariant, KnownInPlace, IsHome, IsRoot
<1>2. DriveTypeOK
  <2>1. {token, conn.google, client} \subseteq Googles \cup {NoGoogle}
    BY KnownFolders DEF Accounts
  <2>2. \A f \in DOMAIN folders : LET p == folders[f].parent
                                  IN  p # 0 => p < f /\ folders[p].google = folders[f].google
    BY DEF DriveInvariant, TreeInPlace
  <2> QED BY <2>1, <2>2, <1>1 DEF DriveTypeOK
<1>3. OneFolderHoldsDocuments
  <2> SUFFICES ASSUME Calm, NEW f \in filed, NEW g \in filed, folders[f].google = folders[g].google
               PROVE  f = g
    BY DEF OneFolderHoldsDocuments, Calm
  <2>1. First(f) /\ First(g) /\ First(folders[f].parent) /\ First(folders[g].parent)
    BY <1>1 DEF DriveInvariant, TreeStands
  <2> DEFINE p == folders[f].parent
             q == folders[g].parent
  <2>2. /\ p \in DOMAIN folders /\ folders[p].parent = 0 /\ folders[p].google = folders[f].google
        /\ q \in DOMAIN folders /\ folders[q].parent = 0 /\ folders[q].google = folders[g].google
    BY <1>1 DEF DriveInvariant, TreeInPlace, IsRoot
  <2>3. p <= q /\ q <= p /\ p \in Nat /\ q \in Nat
    BY <2>1, <2>2, <1>1 DEF First, SameName
  <2>4. p = q
    BY <2>3
  <2>5. f <= g /\ g <= f
    BY <2>1, <2>4, <1>1 DEF First, SameName
  <2> QED BY <2>5, <1>1
<1>4. NoFileDeletedWithItsFolder
  BY DEF NoFileDeletedWithItsFolder, DriveInvariant, TreeStands, First, Calm
<1> QED BY <1>2, <1>3, <1>4 DEF DriveInvariant, FoldersHoldTogether

\* For any Google accounts, folders and calls: as long as nobody changes the connection
\* under a call or throws a folder away by hand, what a person has is filed in one
\* folder and no folder in use is deleted after a race (ensureChildFolder settles on
\* the oldest of a name); and the record is of the token's account.
THEOREM FoldersHoldTogetherHolds == DriveSpec => []FoldersHoldTogether
<1>1. DriveInit => DriveInvariant
  BY DriveInitHolds
<1>2. DriveInvariant /\ [DriveNext]_driveVars => DriveInvariant'
  BY DriveStepHolds
<1>3. DriveInvariant => FoldersHoldTogether
  BY FoldersHoldTogetherNow
<1> QED BY <1>1, <1>2, <1>3, PTL DEF DriveSpec

==============================================================================

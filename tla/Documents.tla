------------------------------- MODULE Documents -------------------------------
(***************************************************************************)
(* The papers of one person of one type, the photograph: the rows of       *)
(* documents.service.ts, the files they point at in the storage and the    *)
(* small photo kept beside the person. A file goes to the storage first,   *)
(* then its row is written, then the file it replaces is put in the trash. *)
(* A request may stop between any two of these, and the storage may fail.  *)
(* A row is known by its file: the pair is unique (migration               *)
(* 20260901000000).                                                        *)
(***************************************************************************)
EXTENDS Naturals, FiniteSets

CONSTANTS Files,     \* bound: files there may ever be
          Uploads,   \* bound: requests there may be at once
          NoPaper

ASSUME PaperAssumption == NoPaper \notin Files

VARIABLES
  held,     \* rows: file -> [status, next: the row that replaced it]
  store,      \* storage: file -> live or trashed
  thumb,      \* photo_thumbnail: the file it was made of
  upload,  \* what each request is doing
  torn,       \* history: a request stopped half way, or the storage or a commit's answer failed
  outrun      \* history: a photo was made of a paper that was no longer the current one

documentVars == <<held, store, thumb, upload, torn, outrun>>

PaperStatuses == {"ACTIVE", "NEEDS_REPLACEMENT", "REPLACED", "DELETED"}
NoJob == [op |-> "none"]

\* CURRENT_STATUSES, which is also what the partial unique index is over.
Current == {f \in DOMAIN held : held[f].status \in {"ACTIVE", "NEEDS_REPLACEMENT"}}
TheCurrent == IF Current = {} THEN NoPaper ELSE CHOOSE f \in Current : TRUE

\* Faulty variant of MayAdd: whether something is replaced is not asked.
MayAddAnything(by, existing) == TRUE

\* assertCanManageDocuments: the office, or the person's own missing paper.
MayAdd(by, existing) == by = "office" \/ existing = NoPaper

Jobs(r, t) == upload' = [upload EXCEPT ![r] = t]
Working(r, op) == upload[r].op = op

---------------------------------------------------------------------------
DocumentInit ==
  /\ held = <<>> /\ store = <<>> /\ thumb = NoPaper
  /\ upload = [r \in Uploads |-> NoJob] /\ torn = FALSE /\ outrun = FALSE

\* uploadDocument up to the storage: whether it replaces is decided here.
StartUpload(r, by) ==
  /\ Working(r, "none") /\ MayAdd(by, TheCurrent)
  /\ Jobs(r, [op |-> "send", by |-> by, old |-> TheCurrent])
  /\ UNCHANGED <<held, store, thumb, torn, outrun>>

\* A new file in the storage.
StoredToo(f) == [g \in DOMAIN store \cup {f} |-> IF g = f THEN "live" ELSE store[g]]

\* storage.upload
SendFile(r) ==
  /\ Working(r, "send")
  /\ \E f \in Files \ DOMAIN store :
       /\ store' = StoredToo(f)
       /\ Jobs(r, [op |-> "save", by |-> upload[r].by, old |-> upload[r].old, file |-> f])
  /\ UNCHANGED <<held, thumb, torn, outrun>>

\* The storage kept the file and its answer was lost: no one knows of it.
SendLost(r) ==
  /\ Working(r, "send") /\ torn' = TRUE
  /\ \E f \in Files \ DOMAIN store : store' = StoredToo(f)
  /\ Jobs(r, NoJob) /\ UNCHANGED <<held, thumb, outrun>>

\* The rows after the transaction: the old row is closed before the new one comes.
Replaced(old, f) ==
  [g \in DOMAIN held \cup {f} |->
     IF g = f THEN [status |-> "ACTIVE", next |-> NoPaper]
     ELSE IF g = old THEN [status |-> "REPLACED", next |-> f] ELSE held[g]]

\* The file to put in the trash: the replaced one, or the new one after a failure.
NowUseless(t, saved) == IF saved THEN t.old ELSE t.file

\* The transaction; the index lets one current paper be. A failure may also be
\* the loss of the commit's answer.
SaveRow(r) ==
  LET t == upload[r]
      commit == Current \subseteq {t.old} /\ held' = Replaced(t.old, t.file) /\ thumb' = t.file
  IN  /\ Working(r, "save")
      /\ \/ commit /\ Jobs(r, [op |-> "trash", file |-> NowUseless(t, TRUE)]) /\ UNCHANGED torn
         \/ commit /\ Jobs(r, [op |-> "trash", file |-> NowUseless(t, FALSE)]) /\ torn' = TRUE
         \/ /\ Jobs(r, [op |-> "trash", file |-> NowUseless(t, FALSE)])
            /\ UNCHANGED <<held, thumb, torn>>
      /\ UNCHANGED <<store, outrun>>

\* storage.delete(..., 'trash'): a failure is logged and no more.
TrashFile(r) ==
  LET f == upload[r].file
  IN  /\ Working(r, "trash") /\ Jobs(r, NoJob)
      /\ \/ f = NoPaper /\ UNCHANGED <<store, torn>>
         \/ f # NoPaper /\ store' = [store EXCEPT ![f] = "trashed"] /\ UNCHANGED torn
         \/ f # NoPaper /\ torn' = TRUE /\ UNCHANGED store
      /\ UNCHANGED <<held, thumb, outrun>>

---------------------------------------------------------------------------
\* deleteDocument, which is the office's and takes any row that is not DELETED,
\* a replaced one too.
StartDeletePaper(r, f) ==
  /\ Working(r, "none") /\ held[f].status # "DELETED"
  /\ Jobs(r, [op |-> "delete", file |-> f])
  /\ UNCHANGED <<held, store, thumb, torn, outrun>>

\* "The person's small photo goes with their photograph": it is made again from
\* the current paper when it is next asked for.
ThumbAfterDelete(f) == NoPaper

DeletePaper(r) ==
  LET f == upload[r].file
  IN  /\ Working(r, "delete")
      /\ held' = [held EXCEPT ![f].status = "DELETED"] /\ thumb' = ThumbAfterDelete(f)
      /\ Jobs(r, [op |-> "trash", file |-> f])
      /\ UNCHANGED <<store, torn, outrun>>

---------------------------------------------------------------------------
\* getPersonPhoto: a missing small photo is made from the stored file, which the
\* storage does not give back from its trash.
AskPhoto(r) ==
  /\ Working(r, "none") /\ Current # {} /\ thumb = NoPaper
  /\ store[TheCurrent] = "live"
  /\ Jobs(r, [op |-> "photo", file |-> TheCurrent])
  /\ UNCHANGED <<held, store, thumb, torn, outrun>>

KeepPhoto(r) ==
  /\ Working(r, "photo") /\ thumb' = upload[r].file
  /\ outrun' = (outrun \/ upload[r].file \notin Current)
  /\ Jobs(r, NoJob) /\ UNCHANGED <<held, store, torn>>

\* The host stops between two steps of a request.
Abandon(r) ==
  /\ upload[r] # NoJob /\ Jobs(r, NoJob) /\ torn' = TRUE
  /\ UNCHANGED <<held, store, thumb, outrun>>

DocumentNext ==
  \E r \in Uploads :
    \/ \E by \in {"office", "person"} : StartUpload(r, by)
    \/ SendFile(r) \/ SendLost(r) \/ SaveRow(r) \/ TrashFile(r)
    \/ \E f \in DOMAIN held : StartDeletePaper(r, f)
    \/ DeletePaper(r) \/ AskPhoto(r) \/ KeepPhoto(r) \/ Abandon(r)

DocumentSpec == DocumentInit /\ [][DocumentNext]_documentVars

---------------------------------------------------------------------------
\* Properties.

\* Rows, files and the small photo are of their types; every row has its file and
\* every replaced row, the one that came after it.
PaperTypeOK ==
  /\ DOMAIN held \subseteq DOMAIN store /\ DOMAIN store \subseteq Files
  /\ \A f \in DOMAIN held : held[f].status \in PaperStatuses
  /\ \A f \in DOMAIN held : held[f].status = "REPLACED" => held[f].next \in DOMAIN held \ {f}
  /\ \A f \in DOMAIN store : store[f] \in {"live", "trashed"}
  /\ thumb \in DOMAIN held \cup {NoPaper}

\* Two replacements at once, a deletion beside one, a refused save: the paper the
\* college calls current can be opened, unless the storage or a commit failed.
CurrentPaperIsHeld == ~torn => \A f \in Current : store[f] = "live"

\* "so a failed upload does not leave a file nothing points at" (documents.service.ts,
\* uploadDocument): a file outside the trash is the current paper's, or a request still has it.
NothingLeftBehind ==
  ~torn => \A f \in DOMAIN store : store[f] = "live" =>
    f \in Current \/ \E r \in Uploads : upload[r].op \in {"save", "trash"} /\ upload[r].file = f

\* "so nobody can quietly swap the scan the college holds for a different one"
\* (documents.service.ts, assertCanManageDocuments): a paper stops being the
\* current one by the office's hand, whatever ran since the person's request began.
OnlyTheOfficeReplaces ==
  [][\A f \in Current : f \notin Current' =>
       \E r \in Uploads : upload[r] # upload[r]' /\
         (upload[r].op = "delete" \/ (upload[r].op = "save" /\ upload[r].by = "office"))]_documentVars

\* The face shown for a person is that of the current photograph, through
\* replacements, deletions of old photographs and photos made late, unless a
\* late photo was made of a paper replaced meanwhile.
FaceIsCurrent == ~outrun /\ thumb # NoPaper => thumb \in Current

\* The college holds what it calls current, nothing else lies about, the face is of
\* the photograph held, and only the office replaces a paper.
PapersAreKept ==
  /\ [](PaperTypeOK /\ CurrentPaperIsHeld /\ NothingLeftBehind /\ FaceIsCurrent)
  /\ OnlyTheOfficeReplaces
=============================================================================

------------------------------- MODULE Notices -------------------------------
(***************************************************************************)
(* One notice of the office: notices.service.ts under notice-policy.ts,    *)
(* and who is told of it, audience-recipients.ts. A handler reads the      *)
(* notice, decides, and writes; an update deletes the audiences and writes *)
(* those of the form, in a transaction in which it sees only what was      *)
(* there when it deleted. A class stands for every audience above the      *)
(* section. Everybody has an active login.                                 *)
(***************************************************************************)
EXTENDS Naturals, FiniteSets

CONSTANTS Learners,     \* students
          Tutors,       \* staff
          Classrooms,   \* sections
          YearOf,       \* section -> class
          Secretaries,  \* bound: requests there may be at once
          NoticeForms,  \* bound: what the office sends: [for, from, until]
          LastHour,     \* bound: the clock ends here
          MaxIssues     \* bound: times it may come out

ASSUME NoticeAssumption ==
  /\ Learners \cap Tutors = {} /\ {LastHour, MaxIssues} \subseteq Nat
  /\ \A f \in NoticeForms :
       /\ f.for # {} /\ {f.from, f.until} \subseteq Nat /\ (f.until # 0 => f.from < f.until)
       /\ \A t \in f.for : \/ t \in {<<"ALL">>, <<"STUDENTS">>, <<"STAFF">>}
                           \/ t[1] \in {"CLASS", "SECTION"} /\ t = <<t[1], t[2]>>

VARIABLES
  notice,   \* the row and its targets, or its absence
  sits,     \* reader -> sections: enrolled in, taught
  hour,
  editing,  \* the request each secretary has in flight
  heard,    \* reader -> notifications of the notice
  issues,   \* history: times it went from not published to published
  lastFor,  \* history: the audience last sent
  rushed    \* history: two requests overlapped

noticeVars == <<notice, sits, hour, editing, heard, issues, lastFor, rushed>>

Readers == Learners \cup Tutors
PublishStatuses == {"DRAFT", "PUBLISHED", "ARCHIVED"}
NoNotice == [status |-> "NONE"]
NoEdit == [op |-> "none"]
Population(u) == IF u \in Learners THEN <<"STUDENTS">> ELSE <<"STAFF">>

\* targetReaches, by the audience of the target.
TargetReaches(t, u) ==
  CASE t[1] = "ALL"     -> TRUE
    [] t[1] = "CLASS"   -> \E c \in sits[u] : YearOf[c] = t[2]
    [] t[1] = "SECTION" -> t[2] \in sits[u]
    [] OTHER            -> t = Population(u)

CheckPublishWindow(n) == n.status = "PUBLISHED" /\ n.from <= hour /\ (n.until # 0 => hour < n.until)

\* getMyNotice: decideNoticeVisible.
NoticeVisible(u) ==
  notice # NoNotice /\ CheckPublishWindow(notice) /\ \E t \in notice.for : TargetReaches(t, u)

\* getMyNoticeFeed: the same question as a filter.
Reaches(u) ==
  {<<"ALL">>, Population(u)} \cup {<<"SECTION", c>> : c \in sits[u]} \cup {<<"CLASS", YearOf[c]>> : c \in sits[u]}
InFeed(u) ==
  /\ notice.status = "PUBLISHED" /\ notice.from <= hour /\ (notice.until = 0 \/ notice.until > hour)
  /\ notice.for \cap Reaches(u) # {}

\* recipientsForAudience: the structure's audiences are looked up among students.
Recipients(for) ==
  {u \in Readers : <<"ALL">> \in for \/ Population(u) \in for
     \/ (u \in Learners /\ \E c \in sits[u] : {<<"SECTION", c>>, <<"CLASS", YearOf[c]>>} \cap for # {})}

---------------------------------------------------------------------------
\* createNotice: a draft of the form, for all the readers there are.
NoticeInit ==
  /\ \E f \in NoticeForms :
       /\ notice = [status |-> "DRAFT", for |-> f.for, from |-> f.from, until |-> f.until]
       /\ lastFor = f.for
  /\ sits \in [Readers -> SUBSET Classrooms] /\ \A u \in Learners : Cardinality(sits[u]) <= 1
  /\ hour = 0 /\ editing = [r \in Secretaries |-> NoEdit] /\ heard = [u \in Readers |-> 0]
  /\ issues = 0 /\ rushed = FALSE

Opened(r, t) ==
  /\ editing[r] = NoEdit /\ notice # NoNotice /\ editing' = [editing EXCEPT ![r] = t]
  /\ rushed' = (rushed \/ \E q \in Secretaries : editing[q] # NoEdit)
  /\ UNCHANGED <<notice, sits, hour, heard, issues, lastFor>>

\* updateNotice up to its deletion of the targets.
StartEditNotice(r, f) == Opened(r, [op |-> "edit", form |-> f, saw |-> notice.for])

\* setNoticeStatus; the status it has already is no change.
StartNoticeStatus(r, to) ==
  /\ to # notice.status
  /\ Opened(r, [op |-> "status", to |-> to, from |-> notice.status])

StartDeleteNotice(r) == notice.status = "DRAFT" /\ Opened(r, [op |-> "delete"])

---------------------------------------------------------------------------
Closed(r, t) == editing' = [editing EXCEPT ![r] = t] /\ UNCHANGED <<sits, hour, rushed>>

\* Faulty variant of TargetsAfter: the old audiences stay.
TargetsKept(t) == notice.for \cup t.form.for

\* What it saw is gone and the form's is there; what came in between stays.
TargetsAfter(t) == (notice.for \ t.saw) \cup t.form.for

\* notice_targets_one_per_notice_key: an audience twice, and nothing is written.
TargetsClash(t) == (notice.for \ t.saw) \cap t.form.for # {}

\* Rows written by this update are new to the others, whatever they say.
EditNotice(r) ==
  LET t == editing[r]
  IN  /\ t.op = "edit" /\ notice # NoNotice /\ ~TargetsClash(t)
      /\ notice' = [status |-> notice.status, for |-> TargetsAfter(t), from |-> t.form.from, until |-> t.form.until]
      /\ lastFor' = t.form.for
      /\ editing' = [q \in Secretaries |-> IF q = r THEN NoEdit
           ELSE IF editing[q].op = "edit" THEN [editing[q] EXCEPT !.saw = @ \ t.saw] ELSE editing[q]]
      /\ UNCHANGED <<sits, hour, rushed, heard, issues>>

\* "only this transition notifies"
Announces(t) == t.to = "PUBLISHED" /\ t.from # "PUBLISHED"

SetNoticeStatus(r) ==
  LET t == editing[r]
  IN  /\ t.op = "status" /\ notice # NoNotice /\ notice' = [notice EXCEPT !.status = t.to]
      /\ issues' = IF t.to = "PUBLISHED" /\ notice.status # "PUBLISHED" THEN issues + 1 ELSE issues
      /\ issues' <= MaxIssues
      /\ Closed(r, IF Announces(t) THEN [op |-> "tell", for |-> notice.for] ELSE NoEdit)
      /\ UNCHANGED <<heard, lastFor>>

\* notify, for whoever the audiences reach by now.
TellReaders(r) ==
  /\ editing[r].op = "tell"
  /\ heard' = [u \in Readers |-> IF u \in Recipients(editing[r].for) THEN heard[u] + 1 ELSE heard[u]]
  /\ Closed(r, NoEdit) /\ UNCHANGED <<notice, issues, lastFor>>

\* notify swallows a failed insert, and the host may stop before it.
TellingFails(r) ==
  /\ editing[r].op = "tell"
  /\ Closed(r, NoEdit) /\ UNCHANGED <<notice, heard, issues, lastFor>>

\* The targets go with it.
DeleteNotice(r) ==
  /\ editing[r].op = "delete" /\ notice # NoNotice /\ notice' = NoNotice
  /\ Closed(r, NoEdit) /\ UNCHANGED <<heard, issues, lastFor>>

\* The row is gone, or an audience is there twice.
NoticeRefused(r) ==
  LET t == editing[r]
  IN  /\ t.op \in {"edit", "status", "delete"}
      /\ notice # NoNotice => t.op = "edit" /\ TargetsClash(t)
      /\ Closed(r, NoEdit) /\ UNCHANGED <<notice, heard, issues, lastFor>>

\* Around it: a student changes section, the clock goes on.
ChangeSeat(u, c) ==
  /\ sits[u] # {c} /\ sits' = [sits EXCEPT ![u] = {c}]
  /\ UNCHANGED <<notice, hour, editing, heard, issues, lastFor, rushed>>

NextHour ==
  /\ hour < LastHour /\ hour' = hour + 1
  /\ UNCHANGED <<notice, sits, editing, heard, issues, lastFor, rushed>>

NoticeNext ==
  \/ \E r \in Secretaries :
       \/ \E f \in NoticeForms : StartEditNotice(r, f)
       \/ \E to \in PublishStatuses : StartNoticeStatus(r, to)
       \/ StartDeleteNotice(r) \/ EditNotice(r) \/ SetNoticeStatus(r) \/ TellReaders(r) \/ TellingFails(r)
       \/ DeleteNotice(r) \/ NoticeRefused(r)
  \/ \E u \in Learners, c \in Classrooms : ChangeSeat(u, c)
  \/ NextHour

NoticeSpec == NoticeInit /\ [][NoticeNext]_noticeVars

---------------------------------------------------------------------------
\* Properties.

\* The notice's page and the feed agree on every reader at every hour ("Kept side
\* by side on purpose: if one changes, the other must", notices.service.ts:676),
\* and a notice nobody may read yet, or any more, is in no feed.
FeedAgreesWithPolicy == notice # NoNotice => \A u \in Readers : InFeed(u) <=> NoticeVisible(u)

\* "Targets are replaced, not merged" (notices.service.ts, updateNotice), and
\* whoever it reaches was told at most once for each time it came out, as long as
\* requests did not overlap.
AudienceIsTheLastForm ==
  ~rushed => (notice # NoNotice => notice.for = lastFor) /\ \A u \in Readers : heard[u] <= issues

\* What a reader may open is what the feed shows, to the audience last chosen.
NoticeIsSound == FeedAgreesWithPolicy /\ AudienceIsTheLastForm

\* "Everybody it was addressed to is told once; archiving and publishing again does
\* not tell them twice" (notices.service.ts:553).
ToldOnce == \A u \in Readers : heard[u] <= 1
=============================================================================

# Kabirian College PWA: specifications, model checking, proofs

TLA+ modules for the services of the college's administration system
(`src/src/server/services/`), the TLC configurations that check them on small
instances, and theorems that TLAPS checks for every value of the constants.

The system is a Next.js application over one PostgreSQL database. Every HTTP
request authenticates, validates its form and calls one function of a service;
the function reads, decides, and writes in a transaction. Nothing else runs: no
queue, no scheduled job, no worker. All concurrency is therefore *between
requests*, and all of it meets in the database.

Three facts about how the code uses that database decide how everything here is
modelled:

1. **Every transaction runs at READ COMMITTED** (PostgreSQL's default; no call
   of `$transaction` names an isolation level). Each statement sees what was
   committed when *it* started, not when its transaction did.
2. **No statement takes a lock of its own**: there is no `SELECT ... FOR UPDATE`
   and no advisory lock. Row locks are only those an `UPDATE`/`DELETE` takes,
   held until the commit. One service (`code-sequence.ts`) uses a single
   `UPDATE ... RETURNING` on purpose.
3. **Most handlers check first and write later**: the decision is taken on rows
   read before the transaction (`decideCan...` of a policy module), and the
   write does not look again. What stands between two requests is then a unique
   index, a partial unique index, a CHECK or a foreign key, where there is one.

So a handler is a *sequence* of actions, cut exactly where another request can
come in: after its checks, and between two statements when a later one depends
on the answer of an earlier one. A request in flight carries in its task record
what it has read; the host may stop it at any point, and its open transaction is
then rolled back.

## 1. Inventory

State is a table of the database unless said otherwise. "Guard" is what the
database itself enforces.

| Part | State | Operations that write | What is hard | What makes it correct |
| --- | --- | --- | --- | --- |
| Fees: plan, voucher, payment (`fees.service.ts`, `fees-policy.ts`) | `student_fee_lines`, the concession on `students`, `fee_vouchers`, `fee_payments`, the fine setting | admission's fee lines, setStudentFeePlan, runVouchers, recordPayment, voidPayment, cancelVoucher, updateFeeRules | settlement is read-sum-write without a lock; runs issue in batches from one early read; a fine frozen at first payment | one live voucher per student and session; paid and status follow the payments; the ledger is append-only; cancelled is final; the bill follows the plan |
| Exams, papers, date sheet (`exams.service.ts`) | `exams` (status, marks deadline), `exam_papers` | create, update, status, publish date sheet, papers, delete | status decided on an early read, opened sheets change it too | papers and maximum marks frozen once scheduled; no sheet on a draft or cancelled exam |
| Mark sheets (`marks.service.ts`, `marks-access.ts`) | `exam_mark_sheets`, `marks` | openMarkSheet, saveMarks, submit, reopen | optimistic check outside the transaction, deadline, reopened-until | no PENDING on a submitted sheet; no lost marks; a submitted sheet changes only when reopened or by the office |
| Results (`results.service.ts`, `grading.ts`, `exact.ts`) | `results` (versions), `result_subjects` | generateResults, setResultsPublished | computed from early reads; generation against publication | one current row per student and exam; versions grow, old ones never change; all current rows published or none |
| Complaints | `complaints`, `complaint_messages` | submit, reply, setStatus, withdraw | replies write the status they read | who closed it can be told; whose move it is can be told; a withdrawn one is final |
| Attendance registers | `attendance_sheets`, `attendance_entries` | create, mark, correct, submit, cancel | edits against submit/cancel, correction window | a cancelled register is closed; nobody of the section is missing from one that counts; teachers open and correct it in their time |
| Accounts: sign-in, lockout, sessions | `users` (failures, lock), `sessions`, rate-limit counters in memory | login, logout, changeOwnPassword, revoke | failures counted by read + 1; session created after the check | the lock counts failures in a row and ends; no session survives a reset or a deactivation |
| Accounts: administration (`users.service.ts`, `user-safety.ts`) | `users`, `user_permissions`, links to people | create, status, role, office access, reset, overrides | the count of active administrators is read before the write | somebody can always administer; overrides belong to the role; entries of the log name who acted |
| Documents, photographs | `documents`, thumbnails on people; files in a storage (external) | upload/replace, delete, backfill of a thumbnail | two stores with no common transaction; stop in between | one current row per person and type, with its file live; the small photo is of it |
| Google Drive and its connection | the connection and the token in `settings`, folder ids on people; folders in Drive (external), which allows two of one name | connect, disconnect, find-or-create of a folder | every call may fail, and the folder may be made twice | one folder holds a person's documents; no folder with files is deleted |
| Timetable | `timetable_slots`, `timetable_slot_sections` | create, update, copy day, deactivate | clash checks before the write; copy in several transactions | a teacher, room or section is in one place per period; an inactive lesson holds no cell |
| Students, enrolments | `students`, `enrollments` | admit, status, transfer, promote, link account | the active enrolment is read before the transaction | a student sits in one place, moves up by promotion, and the way stays on record |
| Staff, assignments, incharges | `staff`, `teaching_assignments`, `section_incharges` | status, assign, close, incharge, link | employability checked before the transaction | nobody who left holds anything; the last appointed is in charge |
| Academic sessions and structure | `academic_sessions`, groups, sections, curriculum | setCurrent, copy, delete | clear-then-set | exactly one current session once there is one; nothing in the structure hangs in the air |
| Notices (and events, of the same shape) | `notices`, `notice_targets`, `events` | create, update, status, delete | targets replaced by delete + create; told on publication | the page and the feed agree; told once for each time it comes out |
| Homework | `homework` | create, update, delete | one row | the owner's only |
| Notifications | `notifications` | notify (called by others), mark read | insert error caught inside a transaction PostgreSQL has aborted | nobody told of what did not happen |
| Staff attendance | `staff_attendance` | save a day (upserts) | lock order between two saves | the day is the saves that went through, in order; no save waits for ever |
| Deletion | all of the above | deleteStudent, deleteStaff, deleteAccount | what refers to a person is counted before | nothing with a history is deleted |
| Finance, settings, reference data, audit | one table each | one-row writes | - | - |
| Reports, dashboards, portal pages, API routes, UI, service worker | none | none | - | reads only |

How the parts interact: admission (students) writes fee lines and may create an
account; mark sheets read papers and enrolments and move the exam's status;
results read sheets and marks; timetable, attendance and homework read the
assignments of staff; every publication calls `notify`; deletion asks every table
whether it mentions the person; signing in reads the account that account
administration changes.

## 2. Plan and where it stands

Most important behaviour first: money, marks, access, then the office's other
registers.

| # | Modules | Abstract specification | Runs | Theorems |
| --- | --- | --- | --- | --- |
| 1 (done) | `FeesPolicy`, `FeeVouchers`, `FeeBook`, `FeeBookRefinement`, `FeeVouchersProofs` | `FeeBook`: atomic office operations on a book | `fees_*` | types, one live voucher, append-only ledger, clean settlements; one request at a time: settled bills, bills follow plans, nothing withdrawn holds money, what is final stays, what is shown settles, and `FeeBook` is implemented |
| 2 (done) | `ExamPolicy`, `Exams`, `MarkSheets`, `Grading`, `GradeBook`, `Results` (composed: one exam, its papers, sheets, marks, results), `ExamsProofs`, `MarkSheetsProofs`, `GradeBookProofs` | - | `exams_and_grades`, `marks_*`, `results_*` | types, no twin or orphan paper, one home per mark, the date sheet's and the mark sheet's invariants, exact decisions, honest positions, versions of results |
| 3 (done) | `Complaints`, `UserAccounts`, `AttendanceRegisters`, `Timetable`, `Documents`, `DriveFolders`, `Enrolments`, `Erasure`, `StaffPosts`, `Notices`, `StaffRegister`, `AcademicSessions`; `UserAccountsProofs`, `TeachingProofs`, `PeopleProofs`, `StorageProofs` | - | `office`, `accounts_locked_out`, `notices_told_twice` | applications are kept, notices are sound, nobody is locked out, the register is kept, the timetable stands, the day is its saves in order, years hold together, posts follow employment, nothing is lost, places, papers and folders are kept |
| 4 (done) | `AccountAccess` | - | `marks_and_access` | access is current |
| 5 (left) | events and expenses beside `Notices` and `FeeVouchers` | the exchange of `Complaints` as an automaton | - | the sums of a plan and of a voucher's lines |

Modules to be proved about take their sets as CONSTANTS with named assumptions,
have one action per statement boundary, and declare no RECURSIVE operator; those
of 3 and 4 are written so too.

## 3. The fee ledger

### Modules

- `FeesPolicy` - the pure rules of `fees-policy.ts` as operators: concession
  capped at the fee, what is payable and outstanding, the status that follows,
  the late fine, what may be cancelled, paid or voided. Amounts are natural
  numbers of paisa; a day is a number; `NoDueDate` is `due_date IS NULL`.
- `FeeVouchers` - the service. One academic session (vouchers of different
  sessions never meet). `bills[s]` is the sequence of `fee_vouchers` rows issued
  to student `s`, so a voucher is `<<s, k>>`; `payment` is `fee_payments`, with
  the void flag; `feeLines[s][b]` is the total of the lines that one form wrote
  (batch `b`: the admission, or the last plan of a clerk), because lines are
  inserted and deleted a form at a time; `told` records notifications.
  `task[c]` is the request clerk `c` has in flight. `fresh`/`clean` are history
  variables: which settlements were not overtaken by another writer of the same
  voucher, and which vouchers were last written by such a settlement.
- `FeeBook` - what the ledger promises: the same office operations, each at one
  instant, over a book that holds charges and receipts only. What is paid and
  where a bill stands are *read off* the receipts.
- `FeeBookRefinement` - the mapping, and `ImplementsBook`.
- `MCFeeVouchers` - values for TLC. `FeeVouchersProofs` - theorems.

### Handlers and actions

| Code (`fees.service.ts`) | Actions |
| --- | --- |
| createFeeLinesForAdmission | `Admit` (one transaction with the student) |
| setStudentFeePlan | `StartPlan` (reads, DELETE of visible lines, INSERT, concession), `NoLiveBill` or `FindLiveBill`, `LockBill` (UPDATE of the charges, read back), `SumPayments`, `CommitPlan` or `RejectedByIndex`, `Notify` |
| runVouchers | `StartRun` (who is billable, read once), `IssueBatch` per transaction, `RunRejected` on a unique violation, `RunDone`, `Notify` |
| recordPayment | `StartPayment` (check, INSERT), `ReadRow`, `SumPayments`, `CommitPayment` or `RejectedByIndex`, `Notify` |
| voidPayment | `CheckVoid`, `TakePayment` (UPDATE waits for the row), then as above |
| cancelVoucher | `CheckCancel`, `CommitCancel` |
| updateFeeRules | `UpdateFeeRules` |
| recomputeVoucher (called by three of them) | `ReadRow`/`LockBill`, `SumPayments`, `WriteBill` |
| the college's calendar | `Tick` |
| the host ends a request | `Stopped` |

The locks are predicates over the tasks (`RowLocked`, `StudentLocked`,
`PaymentLocked`), true from the UPDATE that takes the row to the commit. The
partial unique index on `(student, session) WHERE status <> 'CANCELLED'` is
`IndexAllows`, a guard of every write.

### Runs

| Run | Asks | Bounds |
| --- | --- | --- |
| `fees_one_clerk` | With requests one at a time: is every bill settled, does it follow the plan, does what is cancelled or fined stay as written, does paying what the screen shows settle, and does the statement-level service implement `FeeBook`? | 2 students, 1 voucher each, 2 payments of 1 or 2 (less than a bill, a fine besides, or all of it), two fees (one below its concession), fine on or off, 2 days |
| `fees_two_clerks` | Whatever overlaps: one live voucher, append-only ledger, clean settlements; and does every request end (no cycle of row waits, no run that repeats for ever)? | 2 requests, 1 student, 2 vouchers, 1 payment; under `FairSpec` |
| `fees_rebilled` | violated with one request at a time: `AmountsFrozenAtIssue` | 1 student, two fees, one voucher |
| `fees_lost_payment` | violated: `EveryBillSettled` with two requests | one fee, two payments at once |

Why the bounds suffice: every interference needs two requests on one student;
two payments are needed for one to be lost (`fees_lost_payment` and
`fees_one_clerk` have them; `fees_two_clerks` has one, which can be recorded,
voided and settled while the other request re-bills, cancels or runs, and the
theorems below cover the rest); two vouchers for one to be live beside another
(`fees_two_clerks`); two days for a due date to pass. In `fees_one_clerk` one
payment may leave the bill open and two settle it, and the second may be exactly
what the screen shows with a late fine in it: one charged at the first payment, or
one that falls due today. Requests are symmetric, as are
students and payments; the run with a liveness property uses no symmetry.
`fees_one_clerk` issues one voucher a student, so what it says of a bill issued
after a cancellation is only that the cancelled one stays.

`BillsFollowPlan` is `TypeOK`, `PlanIsOneForm` and `LiveBillFollowsPlan`;
`StaysAsWritten` is `CancelledIsFinal` and `FineIsFrozen`.

### What the code does not keep

Two runs show disagreements, both listed in `PROJECT.json`.

`fees_rebilled` needs no race. The schema says of a voucher that "the amounts are
frozen at the moment it is issued" (schema.prisma:1169, again at 1185 and 1187, and
docs/DATABASE_SCHEMA.md:793), and the handbook that "what a voucher charged is frozen
on it". The service does otherwise, and says so: "the live voucher follows the fee"
(fees.service.ts:281), and `setStudentFeePlan` writes the new gross and concession
over those of the live voucher. DECISIONS.md:3239 records the change; the words of
the schema are from before it. `BillsFollowPlan` therefore states what the code
means to do, and a reader who believes the schema should read it as the
disagreement: what a family was asked for may change until the voucher is
cancelled, even after part of it is paid.

`fees_lost_payment` needs two requests at once. The same races break more of
what `fees_one_clerk` checks: with two clerks instead of one, TLC also finds

- `CancelledIsFinal`: a settlement that read the voucher before it was
  cancelled writes a live status over CANCELLED (fees-policy.ts:124 says it
  "stays cancelled whatever arrives against it");
- `WithdrawnHoldsNoMoney`: a cancellation whose check came before a payment's
  commit leaves money on a cancelled voucher (fees-policy.ts:178);
- `PlanIsOneForm`: of two saves of a fee form each deletes only the lines it
  can see, and both forms' lines stay (fees.service.ts:277);
- `LiveBillFollowsPlan`: a run issues what it read before a plan was changed
  (fees.service.ts:281).

And three things need no second clerk, so no property here states them. A
voucher paid in full on time is fined when its unchanged plan is saved after the
due date, `recomputeVoucher` asking `lateFineDue` as if nothing had been paid
(fees.service.ts:859; fees-policy.ts:15 says "something is still owed after that
day"). A concession of the whole fee leaves a voucher UNPAID, hence overdue,
with nothing owed (fees-policy.ts:163). A run that the host stops before its
last statement has told nobody of the bills it issued, and the next run skips
those students (fees.service.ts:820).

### Fairness

`RequestsEnd` is checked under `FairSpec`: strong fairness, per clerk, of the
steps that carry a request on. Node schedules every pending continuation, and
PostgreSQL queues the waiters of a row and serves them in turn, so a request
that again and again finds its row free gets it. `Stopped`, new requests and the
calendar are not fair.

### Theorems (`FeeVouchersProofs`)

For every finite set of clerks and of payments, any set of students, every batch
size and every bound. However many requests overlap:

- `TypesHold` - `Shape /\ Ledgered` is invariant. `Typed` gives each variable
  its type; `Linked` says per stage of a request which fields are set and which
  rows they name; `Ledgered` says that the entry a request is about to write is
  unrecorded, or recorded with the same voucher and amount, and that two
  requests never hold one payment's row. This is the inductive invariant
  the rest stands on: without it a commit could overwrite somebody else's row.
- `OneLiveVoucherHolds` - from `IndexAllows` on every writer.
- `LedgerIsAppendOnly` - from `Ledgered`.
- `CleanIsSettledHolds` - the central one. The strengthening is `AllFresh`: a
  settlement nobody overtook has seen the row as it is and, once it has
  summed, the payments as they will be when it commits. Every action either
  overtakes the readers of the voucher it writes, or leaves what they read alone.

While requests come one at a time - the hypothesis is `[]OneAtWork`: at most one
request is between its first check and its end, whoever sends it; it may still be
stopped by the host at any statement, and in the middle of it the rules may
change, a student may be admitted and midnight may pass. With a single clerk, as
in `fees_one_clerk`, it holds of every behaviour; without it the code breaks the
three invariants and `StaysAsWritten` ("What the code does not keep"):

- `EveryBillSettledHolds`, `WithdrawnHoldsNoMoneyHolds`, `BillsFollowPlanHolds` -
  the three invariants of `fees_one_clerk`. None is inductive alone: that a
  cancellation leaves no money behind rests on what the request found at its
  check, which says nothing unless it is still so at its commit. The
  strengthening is `Orderly`: the book is as the office means it (`OrderlyBook`:
  every voucher is clean, none cancelled with money, each plan is one form and
  its live bill follows it, nothing about a student not admitted, no payment of
  nothing, no concession above the fee), and each request is `Undisturbed`: what it
  `CountsOn` is true now (its voucher is not cancelled, its payment is not
  voided, the lines it replaces are all there are, the bills it still has to
  issue are the ones the plans ask for), and a settlement that has read its row is
  fresh. A request that starts makes it true; a request alone keeps it.
  `EveryBillSettled` then follows from `CleanIsSettled`.
- `StaysAsWrittenHolds` - from the same: the only writer of a row has read it as
  it is, so it is not cancelled, and `FineFor` keeps a fine that is on it.
- `PayingSettlesHolds` - `toRow` works the fine out from what was paid,
  `recomputeVoucher` from nothing paid. When both use the same row, day and rule,
  a payment of what is shown covers what is then charged; the proof is a case
  split on whether a fine is on the row, is due, or is neither.
- `ImplementsBookHolds` - `FeeVouchers` implements `FeeBook`, step by step. `Init`
  maps to `Book!Init` (`EmptyBook`); each action maps to one operation or to a
  stutter (`StepIsBooked`, with one lemma per transaction: `PaymentIsBooked`,
  `PlanIsBooked`, `NoLiveBillIsBooked`, `AdmissionIsBooked`, `CancellingIsBooked`,
  `BatchIsBooked`). It needs one more invariant, `AllPromised`: a request in
  flight was sent an amount and a form the office accepts, and took its late-fine
  rule and its day from the settings and from a day that has been. The mapping
  drops `paid` and `status`, which `EveryBillSettledHolds` ties to the receipts.

`SumOf` counts paisa by paisa: the sum of some amounts is the number of pairs of
an amount's name and one of its paisas. That makes what the proofs need of sums
(a sum of naturals is a natural, nought only when every amount is, one amount
more adds to it: `SumIsNat`, `SumOfOne`, `SumOfOneMore`) a matter of
cardinalities, which the library of finite sets has theorems about, where a fold
would need an induction over data.

Assumed: only the named ASSUMEs of `FeeVouchers` (fees and amounts are naturals,
payments positive, clerks and payments finite in number, the sentinels are not
members of the sets). TLC evaluates them in every fees run. Liveness
(`RequestsEnd`) stays with TLC.

### Left out

Money as decimal text, voucher codes other than their uniqueness, per-head
lines on a printed voucher (only their total and the concession reach a rule),
paging and filters, the audit rows, other academic sessions, and the 32-bit
width of the amount columns.
## 4. Exams, mark sheets and results

### Modules

- `ExamPolicy` - the pure rules of `exam-policy.ts` and `marks-access.ts`. A
  paper is `[class, program, subject, date, start, end, max]`; `NoProgram` is a
  paper for every programme of its class, which overlaps with any of them.
- `Exams` - one exam: `exam` (its row; status NONE before it is created and GONE
  once deleted), `papers` (a partial function from ids), `office` (a request in
  flight per member of the office), `told` (the classes notified, and those
  whose announcement was lost). `sheets` is
  declared here because the office's handlers count mark sheets; `MarkSheets`
  writes it. `Editable`, `PaperFormFits` and `CheckConflict` are what a handler
  reads before it writes; every write happens by id, with only
  `IndexAllowsPaper` and the foreign keys (`WrittenTo`, `HasSheet`) in its way,
  and is `Refused` when they do.
- `MarkSheets` (EXTENDS `Exams`) - `marks[p][s]` is the one mark of student `s`
  on paper `p`, with the section of the sheet it is on; `sheets[p][c]` has a
  status, the day it is reopened until, and `stamp`, its `updatedAt`. The
  enrolment of students is a variable that `Move` changes, because the roster of
  a section is read again by every handler.
- `Grading` - `grading.ts` and `exact.ts` as operators on hundredths; `Before`
  is the comparison of the sort in `assignPositions`, `Sorted` what any sort by it
  leaves (students in a tie in either order), `PositionAlong` where the loop sets
  `position` last. Sums are the folds of the community modules.
- `GradeBook` - the marks of one exam entered, corrected and blanked one at a
  time, with what `calculateResult` makes of each student's marks: the state over
  which the operators of `Grading` are checked.
- `Results` (EXTENDS `MarkSheets`) - `results` is a partial function from
  `<<student, version>>`; a generation is a read (with its whole calculation, by
  `Grading`) and a transaction, a publication a check, a transaction and a
  notification.
- `MCExams`, `MCExamsAndGrades`, `MCMarkSheets`, `MCMarksAndAccess`, `MCResults` - values for TLC.
  `ExamsProofs`, `MarkSheetsProofs`, `GradeBookProofs` - theorems.

### Handlers and actions

| Code | Actions |
| --- | --- |
| createExam | `CreateExam` |
| updateExam, setMarksDeadline | `StartUpdate` / `StartDeadline`, then `SaveDates` / `SaveDeadline` |
| createExamPaper, updateExamPaper | `StartPaper` / `StartEdit` (exam, scope, dates), `CheckConflict` (siblings), `SavePaper` |
| deleteExamPaper, deleteExam | `StartRemove`, `RemovePaper`; `StartDelete`, `DeleteExam` |
| setExamStatus, setDateSheetPublished | `StartCancel`, `StartRestore`, `StartPublish`, `StartWithdraw`, then `SetStatus`, and after a publication `TellClasses`, or `LoseAnnouncement` where `notify` swallows the error of its INSERT |
| openMarkSheet | `StartOpen`, `OpenSheet` or `MarkRefused` |
| saveMarks | `StartSave`, `SaveMarks` or `MarkRefused` |
| submitMarkSheet, reopenMarkSheet | `StartSubmit`, `Submit`; `StartReopen`, `Reopen` |
| transferStudent, setStudentStatus | `Move` |
| generateResults | `StartGenerate`, `Generate` or `GenerateRefused` |
| setResultsPublished | `StartSetPublished`, `SetPublished`, `TellStudents` or `TellFails` |

`Serial` is a bound: TRUE lets one request at a time, of any kind, be in flight
(and no student move during one); FALSE lets all overlap. Handlers read with
several queries; those before the first decision that another request can undo
are one step here, except the siblings of a paper, which are read last. A
transaction is one step: its statements meet the indexes and keys all at once.

### Runs

| Run | Asks | Bounds |
| --- | --- | --- |
| `exams_and_grades` (its exams) | Can a published date sheet be sat, has it been announced to every class on it (or is the announcement on record as lost), and does it stay as it was shown? | 2 requests, one at a time but for removals of papers, 3 papers out of 7 forms (two classes, two programmes, overlapping, touching and unknown hours), 3 pairs of exam dates |
| `office` (its exams) | Whatever overlaps: no twin of a paper, no paper without its exam | 2 requests, 3 ids of papers, 2 forms of one subject (for the class, for one programme) |
| `marks_and_access` (its marks) | Sheets mean marking, marks fit their paper (which the office may set again out of less), a sheet is whole when handed in | a teacher, an administrator, the office; 2 sections, a student who moves, a deadline and 2 days, 3 updates of a sheet |
| `exams_and_grades` (its grades) | Exact decisions, partial totals that only rise, one ranking per programme, honest positions, better marks that hurt nobody | 3 students of one programme and 1 of another, 2 papers, 3 marks of which one is just short of the pass of a paper and one, for whoever sits that paper alone, just short of a band and of the pass of the whole; ABSENT and PENDING |
| `results_concurrent` | Whatever overlaps: the current results are of one generation, all out or none, superseded rows never change, and a mark never changes section or disappears | 2 registrars and a marker at once, 2 sections, 2 students, one of whom moves between the sections, leaves and returns; 3 updates of a sheet, 2 versions |
| `marks_transfer_blocked` | violated with one request at a time: `OpensForEveryRoster` | 2 sections, a student who moves |
| `results_corrected` | violated with one request at a time: `TeachersLeavePublishedMarks` | 1 student, a teacher's correction |

`MarksFitSheet` is `MarkTypeOK` and `MarksFitPaper`; `RankedHonestly` is
`SameRankingSamePapers` and `PositionsAreHonest`; `MarksCountUpwards` is
`RisesWithTheRest` and `BetterMarkNeverHurts`; `OneGenerationOut` is
`ResultTypeOK`, `AllOutOrNone` and `OneGenerationCurrent`.

No run checks deadlock here: a deleted exam stops, and so does a run whose bounds
(`MaxStamp`, `MaxVersion`, `LastDay`) are used up. No liveness is claimed:
nothing in these handlers waits or retries. The bounds suffice because every
property relates at most two papers, two students, two sheets or two versions,
and every race found needs two requests.

### What the runs show, and what the code does not keep

Between two requests, only what an index or a key repeats is kept (`NoTwinPaper`,
`NoOrphanPaper`, `OneHomePerMark`, `OneGenerationCurrent`). What a handler reads
and then relies on can be gone when it writes, so the properties of
`exams_and_grades` and `marks_and_access` are those of one request at a time. With
two members of the office, or with `Serial` FALSE, TLC breaks them:

- `NobodySitsTwice`: a paper for the class and one for a programme are each
  checked before the other is saved; the index compares equal programmes only;
- `DateSheetStands`: a paper checked against a draft is saved into a sheet that
  is out by then (and an exam published after deleteExam's check is deleted);
- `SheetMeansMarking`: the date sheet is withdrawn while the first mark sheet is
  being opened, leaving a draft exam with a sheet (marks.service.ts:581);
- `SubmittedIsWhole`: a mark is taken back to PENDING between the count of
  submitMarkSheet and its write (marks.service.ts:1075);
- the stamp of saveMarks: two saves with the same `expectedUpdatedAt` both pass a
  check made before the transaction (marks.service.ts:915).

With one request, moving an exam's dates leaves its papers and its marks deadline
outside them (`SaveDates` looks at neither). A student in an old version only is
told of the publication of a new one: `TellStudents` reads every PUBLISHED row,
superseded ones included (results.service.ts:1007).

`results_concurrent` keeps one student enrolled throughout because two first
generations whose students have nobody in common meet no index: both would be
current. Two findings do not depend on timing at all. No handler ever gives a mark
sheet the status PUBLISHED (nor an exam COMPLETED), so the rules that refuse
teachers a published sheet are never met (`results_corrected`). And one mark per
paper and student, with sheets per section, leaves a section whose new student is
marked elsewhere with a sheet that cannot be opened (`marks_transfer_blocked`).

### Theorems (`ExamsProofs`, `MarkSheetsProofs`)

For any office, papers, forms and dates, and any requests that overlap:

- `ExamTypesHold` - `ExamTypeOK`. The inductive invariant is `ExamShape`: besides
  the types of the rows it says, per operation of a request in flight, which form
  it carries (`CarriesItsForm`). Without that the write of an exam's dates by a
  request that holds a paper's form is not ruled out.
- `NoTwinPaperHolds` - from `IndexAllowsPaper`, the guard of the one action that
  adds or changes a paper. The check of a handler before its write plays no part.
- `NoOrphanPaperHolds` - from the foreign key: a paper is saved only while its
  exam is there, and the exam goes with its papers.

And for any markers, students, sections and marks:

- `OneHomePerMarkHolds` - an opened sheet only writes rows for students with no
  mark of the paper; a save writes new rows under the same condition, and the
  others because their marks were on its sheet *when it looked*. That they still
  are is the property itself, so the induction is over `MarkShape /\ SavesKnow`
  (every request that is about to save is right about the rows it did not find
  new) together with the step property.

What the handlers check before they write, and nothing refuses afterwards, holds
only while requests do not overlap. That hypothesis is a formula of the model, not
a change to it: `[]OneWriter` (two requests of the office are between check and end
only if both remove papers; it is also the action constraint of `exams_and_grades`,
as `OneAtATime`), and the constant `Serial` of `MarkSheets` in `marks_and_access`.

- `NobodySitsTwiceHolds`, `DateSheetStandsHolds`, `WhoSitsIsToldHolds` and
  `OutIsFrozenHolds` - under `ExamSpec /\ []OneWriter`. The inductive invariant is
  `ExamOrder`: what the request in flight has found is still so (`FoundStands`: a
  draft, no conflicting sibling, a date sheet fit to publish and the classes to
  tell), and the classes that sit have been told, or are about to be, or the
  announcement of their publication is on record as lost (`ToldOrAboutToBe`): what the
  code guarantees is who is addressed, not that `notify` succeeds. Requests that remove papers may overlap one another: each
  only takes papers away, which no property minds.
- `SheetMeansMarkingHolds`, `MarksFitSheetHolds` and `SubmittedIsWholeHolds` -
  `Serial /\ MarkSpec => ...`. The inductive invariant is `MarkOrder`: at most one
  request is in flight (`Alone`), the office that is about to write has found no
  marks entry (`OfficeFound`), a marker that is about to write has found the sheet,
  the exam, and marks that fit (`MarkerFound`), and every mark lies on a sheet that
  is there (`MarksOnSheets`). The middle one is why a maximum can be lowered: no
  paper has a mark then. Without `MarksOnSheets` a paper that was removed and made
  again could find old marks under its name.

Assumed: the named ASSUMEs that are cited - the dates of forms are numbers or
`NoDate`, a paper's maximum is positive (`ExamFormsAssumption`,
`PaperFormsAssumption`, `DeadlinesAssumption`), requests of the office and of
markers are different ones (`TeachersAssumption`) and the sentinels are no rows
(`MarkNamesAssumption`); of `ResultsAssumption`, that `MaxVersion` is positive. TLC evaluates them in every run here.

Of the calculation itself, for any students, papers, bands and places
(`GradeBookProofs`):

- `DecidedExactlyHolds`, `RankedHonestlyHolds`, `MarksCountUpwardsHolds` - the three
  properties of `exams_and_grades`; `ResultsAreSaneHolds` - no total above its maximum, no
  percentage above a hundred, so `results_totals_sane` and `results_percentage_valid` refuse no generation. The
  invariant (`GradeInvariant`) says little: every row of the book was let through and
  every result is what is made of its student's rows. The work is in the operators.
- A sum over a finite set recurses over the set. What stands for induction is
  `SmallestSet`, that among sets for which a fact fails there is a smallest one: it
  gives that the fold has a value at all (`SumsExist`), that it does not depend on
  the order (`SumPicks`), and what an added or a raised mark does to it (`SumTakes`,
  `SumGrows`). `PercentageRises` is the rounding; `ReachesWhatIsCutOff` and
  `GradeIsEarned` that a band is named exactly if it is the highest whose bound the
  exact marks reach, `SubjectExactly` and `ResultExactly` that a subject and the whole
  are decided so.
- A ranking is a `CHOOSE` among the sorted orders. `OrderExists` says there is one;
  `PositionCounts` that along any of them the position of a student is one more than
  the number strictly ahead, whichever way the ties fell. Positions of different
  programmes never meet because the key of a ranking fixes the papers.
- Assumed, of the tables: rows are finitely many and a paper carries marks
  (`PapersAssumption`); a band has its own grade and lower bound, the two uniques of
  `grade_bands`, within 0 to 100 (`BandsAssumption`); a section is of one group, so of
  one class, division and programme (`PlacesAssumption`); whoever gets a result sits
  a paper, because `generateResults` keeps no one else (`EligibleAssumption`). Without
  the last there is nothing to take a percentage of, and `calculateResult` throws.

Of the versions of results, for any registrars besides:

- `SupersededStandsHolds` - whatever overlaps. `ResultShape` says what a generation
  in flight has worked out: current drafts, no more.
- `OneGenerationOutHolds` - assuming one student `s` with `[](s \in Eligible)`. The
  property is inductive together with `InAll(s)`: `s` is in the generation that is
  current and in every one in flight, so a first generation that comes second meets
  the index of one current result per student, and one that had seen results
  supersedes them all. That one generation is current gives the next its version,
  and the CHECKs of the table bound the totals (`ResultBounds`). The hypothesis
  cannot be dropped: two first generations
  between which every student of the exam is exchanged for others do not meet.
## 5. Access, and the other registers of the office

### Modules

Each module is one service: its rows, and one record per request in flight with
what the request has read. They do not share state, because the code's rows they
would meet in (a student's section, a teacher's assignment) are inputs that
change by themselves in each module that reads them (`Enrol` in
`AttendanceRegisters`, `Reassign` in `Timetable`, `ChangeSeat` in `Notices`,
`Refer` in `Erasure`): a handler reads them again, and anything may have happened
to them meanwhile.

| Module | Of | State |
| --- | --- | --- |
| `Complaints` | `complaints.service.ts`, `complaints-policy.ts` | `complaints`, the `exchange` of messages, who was told |
| `AccountAccess` | `auth.service.ts`, `session.ts`, `rate-limit.ts`, the resets of `users.service.ts` | one `account` (failures, lock), its `sessions`, the username's `bucket` in memory; time counted down |
| `UserAccounts` | `users.service.ts`, `user-safety.ts`, `permissions.ts`, `deleteAccount` | `users`; callers are accounts themselves |
| `AttendanceRegisters` | `attendance.service.ts`, `access.ts`, `attendance-policy.ts` | one `sheet` (a section, a day), who is enrolled, who holds the first lesson, who is in charge, the day |
| `Timetable` | `timetable.service.ts`, `timetable-policy.ts` | `lessons` with their section rows, the assignments |
| `Documents` | `documents.service.ts` | rows `held`, the files in the `store`, the small photo `thumb` |
| `DriveFolders` | `google-drive.provider.ts`, `drive-connection.service.ts` | the token, the connection record, this process's `client`, the folders in Drive, the folder id kept on a person |
| `Enrolments` | `students.service.ts` | `standing` of students, `places` (rows of `student_enrollments`, in order) |
| `Erasure` | `deletion.service.ts`, `deletion-policy.ts`, linking of logins | who is `present`, logins, links, what refers to a person |
| `StaffPosts` | `staff.service.ts` | employment, open assignments, in-charges in the order they were made |
| `Notices` | `notices.service.ts`, `notice-policy.ts`, `audience-recipients.ts` | one `notice` with its targets, where readers sit, the hour, what each has `heard` |
| `StaffRegister` | `staff-attendance.service.ts` | the marks of a day, the open transactions |
| `AcademicSessions` | `academic-structure.service.ts` | sessions and which is current, groups, sections, curriculum |

Variables called *history* in the modules (`crossed`, `muddled`, `crowded`,
`hasty`, `overrun`, `torn`, `outrun`, `meddled`, `overtaken`, `beside`,
`outdated`, `rushed`, `undercut`) say that something a handler had read was
changed before it wrote, or that a call failed. No guard reads them. They are in
the properties that the code keeps only between requests that do not meet, and
most are set only by a *write* that comes after somebody else's, not by two
requests being there at once. Properties without one hold whatever overlaps.

### Handlers and actions

| Code | Actions |
| --- | --- |
| submitComplaint, replyToComplaint, setComplaintStatus, withdrawComplaint | `StartComplaint`/`SubmitComplaint`; `StartReply`, `StartComplaintStatus`, `StartComplaintWithdrawal`, then `InsertMessage`, `UpdateRow`, `NotifyOther` or `NotifyFails` (`notify` swallows the error of its INSERT) |
| login, validateSessionToken, changeOwnPassword | `StartSignIn`, `Fail` or `Succeed` and `OpenSession`; `UseSession`; `StartChange`, `ChangePassword`, `SignOutEverywhere` |
| logout and revocations; setUserStatus, resetUserPassword, unlockUser | `Revoke`; `SetUserStatus`, `ResetUserPassword`, `UnlockUser` |
| the clock; a new process | `ClockTicks`; `HostRestart` (the buckets are in memory) |
| createUser, setUserStatus, changeUserRole, setAdminAccess, setUserPermissions, deleteAccount | `Start...` each (the decision), `CreateAccount`, `UpdateAccount`, `Delete`, or `AccountRefused` by a constraint |
| createAttendanceSheet, markAttendance and updateAttendanceEntry, submitAttendanceSheet, cancelAttendanceSheet | `StartOpenSheet`, `OpenSheet` or `SheetExists`; `StartMark`, `Mark`; `StartSubmitSheet`, `SubmitSheet`; `StartCancelSheet` (`MayCancel`: no window), `Cancel` |
| createTimetableSlot, updateTimetableSlot, deactivateTimetableSlot, copyTimetableDay | `StartCreateLesson`, `CreateLesson`; `StartUpdateLesson`, `UpdateLesson`; `StartDeactivate`, `Remove`; `StartCopy`, `Clear`, then `CheckCopy`, `PlaceCopy` per lesson, `EndCopy` |
| uploadDocument, deleteDocument, getPersonPhoto | `StartUpload`, `SendFile` or `SendLost`, `SaveRow`, `TrashFile`; `StartDeletePaper`, `DeletePaper`, `TrashFile`; `AskPhoto`, `KeepPhoto`; `Abandon` (the host stops) |
| ensureRootFolders, ensureOwnerFolder, ensureChildFolder, upload | `StartFile`, `Search`, `CreateFolder`, `Settle`, `Discard`, `WriteRoot`, `RecordHome`, `Send` |
| completeConnection, disconnectDrive | `StartConnect`, `WriteToken`, `WriteConnection`; `ForgetToken`, `ForgetConnection` |
| createStudent, setStudentStatus, transferStudent, promoteStudent | `Admit`; `SetStanding`; `StartTransfer`, `StartPromote`, then `WriteMove` |
| deleteStudent, deleteStaff; linkStudentAccount and linkStaffAccount, unlink | `StartErase`, `Erase`; `StartLink`, `WriteLink`, `Unlink` |
| createAssignments, closeAssignment, assignIncharge, removeIncharge, setStaffStatus | `StartTeach`, `Teach`; `StopTeaching`; `StartCharge`, `PutInCharge`; `RemoveCharge`; `SetEmployment` |
| createNotice (the initial state), updateNotice, setNoticeStatus, deleteNotice | `StartEditNotice`, `EditNotice`; `StartNoticeStatus`, `SetNoticeStatus`, `TellReaders` or `TellingFails`; `StartDeleteNotice`, `DeleteNotice`; `NoticeRefused` |
| saveStaffAttendance | `StartSave`, `UpsertMark` per mark, `CommitSave`; `UndoSave` (PostgreSQL ends a deadlock) |
| createAcademicSession, setCurrentAcademicSession, deleteAcademicSession, copySessionStructure | `CreateYear`; `StartCurrent`, `SetCurrent`; `StartDeleteYear`, `DeleteYear`; `StartCopyYear`, `WriteGroups` |
| createAcademicGroup(sBulk), createSection and updateSection, deleteSection, deleteAcademicGroup, setCurriculum | `StartGroups`, `WriteGroups`; `SaveSection`; `StartDrop`, `DropSections`; `StartCurriculum`, `SetCurriculum` |

### Runs

| Run | Asks | Bounds |
| --- | --- | --- |
| `marks_and_access` (its account) | Do the devices signed in and the failures counted belong to the account as it is, and does a lock end whatever is tried? | 2 requests on one account, 1 device, threshold 2, a lock of 2 ticks and a session of 3; under `AccessFairness` |
| `accounts_locked_out` | violated with one request at a time: `SomebodyManages` | 3 accounts, 2 roles |
| `office` | Twelve departments of this section and the exams of section 4, one at a time: what each promises (`ApplicationsAreKept`, `NobodyIsLockedOut`, `RegisterIsKept`, `TimetableStands`, `PapersAreKept`, `FoldersHoldTogether`, `PlacesAreKept`, `NothingIsLost`, `PostsFollowEmployment`, `NoticeIsSound`, `DayIsTheSavesInOrder`, `YearsHoldTogether`, `NoTwinPaper`, `NoOrphanPaper`) | below |
| `notices_told_twice` | violated: `ToldOnce`, with one request at a time | one reader, one notice |

`office` (module `MCOffice`) puts the departments side by side: a behaviour picks
one and the others rest, so the state space is the sum of theirs, some
640,000 states: about 100,000 enrolments, 79,000 complaints, 77,000 Drive, 72,000
academic years, 70,000 accounts, 56,000 registers, 50,000 posts, 30,000 each for
documents, notices and the timetable, 27,000 erasure, 14,000 exams, 416 for a day
of the staff. `Resting` says how a department that is not followed
begins.

Two requests are in flight in each, which every race found needs. Two classes,
two teachers, one room and two days make each kind of clash of lessons happen by
itself; three files are a paper, its replacement and one more; two Google
accounts and four folders are a race for one folder and a reconnection; three
places of a student are an admission, a transfer or promotion, and another; two
accounts with two roles can each take the other's office away, and with three
somebody is left who could manage them no longer.

Two bounds keep that finite in minutes. `Undisturbed` ends a behaviour after a
write on what had changed since it was read (the write itself, and what it did,
is checked) in the registers, enrolments, lessons and years, and once the Drive
connection or its folders changed under a request. `NothingNew` lets requests in
flight end but none begin once requests about accounts overlapped, an upload
failed, or another wrote beside a request about a lesson or a year; and requests
about three accounts come one at a time, those about two overlap. What may
happen long after such a write is therefore not explored; the properties that
name the history variable promise nothing about it.

`office` does not check deadlock: registers, notices and years stop when their
bounds are used up. `StaffRegister`, where requests do wait for each other, has
that in `DayIsTheSavesInOrder`: as long as a save is open, one of them can write or
commit, or is in a circle that PostgreSQL breaks by undoing one of it.

### Theorems

For every value of the constants TLAPS checks, of these modules, what the run
`office` checks on its small instance:

| Module | Theorem | Carried by |
| --- | --- | --- |
| `PeopleProofs` | `ComplaintSpec => ApplicationsAreKept` | `LettersKnow`: on an application nobody crossed, the request in flight is alone, its decision fits the row as it is, and the last message is its own (`DeskInOrder` says whose move it is around that) |
| `UserAccountsProofs` | `UserSpec => NobodyIsLockedOut` | `OwnerIsSafe`: a request about the owner is harmless whatever overlaps, for nobody becomes the owner or ceases to be; `AloneIsStillDecided`: before any two overlapped, what the one in flight was decided on is so, which makes a count of administrators taken before the write as good as one taken in it |
| `TeachingProofs` | `RegisterSpec => RegisterIsKept` | `FreshStand`: what a request that is not stale was decided on still holds; `RowsAreThere`: an opened register keeps its rows |
| `TeachingProofs` | `TimetableSpec => []TimetableStands` | `PlansKnow`: a request that is not late still has no clash, and the lesson it updates is on; with `NoRowsOfTheRest` the indexes then refuse nothing the check allows (`IndexAllowsChecked`). The indexes alone carry `NobodyInTwoPlaces` (`PutKeeps`), with no word about requests: it holds whatever overlaps |
| `PeopleProofs` | `PostSpec => PostsFollowEmployment` | `LooksKnow`: a request that is not late is about somebody still active. That there is one in charge needs only the index |
| `PeopleProofs` | `ErasureSpec => NothingIsLost` | `CountsStand`: what an erasure that is not late counted before its transaction is so in it. Work is never lost for another reason, its foreign keys |
| `PeopleProofs` | `EnrolSpec => PlacesAreKept` | `MovesKnow`: the rows a request that is not late leaves are those the student still sits in; `LastRowIsTheSeat`: of two rows of a student only the last may be active |
| `TeachingProofs` | `AcademicSpec => YearsHoldTogether` | `DeletersKnow`: a year that is deleted by a request nothing overtook is not the current one. That two years are never current needs only the index, that nothing is without its year only the foreign keys |
| `PeopleProofs` | `NoticeSpec => []NoticeIsSound` | `AloneKnowsTheNotice`: until two requests overlap, the one in flight saw the notice as it is, and one about to tell has one issue more to tell of. That page and feed agree is a lemma about the two rules (`FeedIsThePolicy`), audience by audience (`FilterListsWhatReaches`) |
| `TeachingProofs` | `StaffRegisterSpec => []DayIsTheSavesInOrder` | `SavesInvariant`: the marks are the replay of what was committed, whatever is still open; one more form committed adds its entries, the last of each colleague, over the rest (`LastIsLast`). If no open save may go on, each waits for another, and all of them are a circle |
| `StorageProofs` | `DocumentSpec => PapersAreKept` | a file between the storage and its row is live, has no row and is one request's only; a person's own request replaces nothing |
| `StorageProofs` | `DriveSpec => []FoldersHoldTogether` | `TreeInPlace` and `TreeStands`: of every name there is a first folder, which stays while nobody interferes, and which every search, every settlement and every record of a folder finds (`SearchFindsTheFirst`); what a call carries was made for the account it asks (`CallsStand`) |
| `UserAccountsProofs` | `AccessSpec => []AccessIsCurrent` (section 4) | `RequestsAreCurrent`: a sign-in nothing overtook knows the present password of an active account at every one of its steps; `FailuresReadTheCounter`: until two overlapped, a failure about to be counted has read the counter as it is |

But for that of the staff's register none of the properties is inductive: each says nothing of requests in flight, and
a request is where a decision is kept until it is written. The strengthenings have
one shape, *what a request has read is still so unless it is marked late*, and the
proofs one lemma per action, with the marking of the others done once
(`SavedMakesLate`, `OvertakeMakesStale`, `OutdateKeeps`).

Assumed of the constants: accounts are finitely many and ADMIN is a role
(`OfficesAssumption`); pupils and employees are different people and NoLogin is no
login (`ErasureAssumption`); days are natural numbers and the office is no teacher
(`RegisterAssumption`); ids of lessons differ from the word for a new one and the
lessons wanted have sections (`PlannerAssumption`); NoApplication is no application
(`ApplicationsAssumption`); the audiences of a notice's forms are of the five kinds
and its hours natural numbers (`NoticeAssumption`); sections are of a year each and
the roll number for none is one (`EnrolAssumption`); section names hold "A", the one
every new group gets (`YearAssumption`); NoPaper is no file (`PaperAssumption`) and
NoGoogle no account (`FolderAssumption`); limits and times are positive
(`AccessAssumption`, in `marks_and_access`). TLC evaluates each in `office`.

The proofs do not know the bounds of the run: neither the number of requests in
flight, nor `Undisturbed` and `NothingNew`. What they add to the run is therefore
also what happens long after a write that came too late.

### Fairness

Here only `ClockTicks` of `AccountAccess` is fair (weakly, `AccessFairness`): time passes. Nobody need sign
in, and `LockRunsOut` holds although others may go on trying for ever, because an
attempt on a locked account is turned away before it is counted.

### What the code does not keep

`notices_told_twice` is listed as a finding. Besides, while modelling:

- *Complaints.* Two submissions at once, or reopening a resolved application,
  pass the limit of open ones (complaints.service.ts:299). An office's reply that
  races a withdrawal writes the status it read and revives it
  (complaints.service.ts:379): `WithdrawnIsFinal` leaves out applications on
  which requests overlapped.
- *Accounts, one request at a time* (`accounts_locked_out`). The rules say they refuse
  what "would leave nobody able to manage the system" (user-safety.ts:138), but
  `activeAdminCount` counts active administrators and not what their overrides leave
  them, and no rule looks at staff who manage accounts through office access. In the
  trace such a member of staff revokes `users.manage` of one of two administrators,
  deactivates the other, and then changes its own role to the one it has, which
  clears its office access (`changeUserRole` has no early return). `NobodyIsLockedOut`
  therefore promises an active administrator, and somebody able to manage accounts
  only until a member of staff gives that up for itself (`resigned`).
- *Accounts.* Two administrators who deactivate each other leave none, where no
  protected owner is configured (users.service.ts:473). A manager through office
  access may drop their own.
- *Sign-in.* A session opened after a check that preceded a reset of the password
  outlives it (auth.service.ts:154).
- *Attendance.* Cancelling "is treated as a correction" (access.ts:201), and a teacher
  corrects a register that was handed in only for the days the office sets
  (access.ts:137). But `decideCanCancelSheet` asks `decideCanEditSheet` without the
  rule, so a teacher with `attendance.update_submitted` cancels one however old it is
  (`MayCancel`). `TeachersInTheirTime` exempts cancelling, and says so.
- *Attendance.* A message tells the caller to reopen a register, and there is no
  such operation.
- *Timetable.* While a day is copied, a refusal by an index is not caught: the
  lessons before it stay, and no report is given. It takes another planner
  (`CheckSeesWhatTheIndexSees`).
- *Documents.* A row deleted while it is being replaced ends as REPLACED. A small
  photo made while the photograph is replaced shows the old face. A stop between
  the upload and the row leaves a file nobody names.
- *Drive.* google-drive.provider.ts:226 says of the root folders that "if an
  administrator deletes them in Drive the next call recreates them"; stored ids
  are returned without asking Drive (`StartFile`). The ids kept on persons stay
  from the old account after another is connected.
- *Enrolments.* A promotion that races a transfer leaves two active rows, of two
  sessions; a transfer does not look at whether the student is still here.
- *Deletion.* deletion-policy.ts:8 says nothing cascades; fee plan lines do. A
  member of staff who was ever in charge of a section passes the count of
  blockers and is refused by the foreign key (`Restricting`).
- *Notices.* A published notice can be deleted by way of archived and draft. One
  with a date in the future is announced when it is published, not at that date.
- *Announcements.* `notify` catches the error of its INSERT and returns 0
  (notifications.service.ts:108), so results, notices and replies may be published
  with nobody told (`TellFails`, `TellingFails`, `NotifyFails`, and
  `LoseAnnouncement` of section 4): what is promised is who is addressed.
- *Structure.* Two saves of one curriculum both read the list before either writes
  (`StartCurriculum`): where they add different subjects, the union stays.
- *Structure.* setCurriculum says that subjects removed are deleted only "when
  nothing depends on them yet"; nothing is asked. deleteSection can leave a group
  without a section, which createAcademicGroup takes care never to do.

### Left out

The rate limit per address and the limit on changes of password, the audit log
(except as the record that makes an account undeletable), the portal a session
remembers; the reading lists of every module; the periods' hours and the settings
of the timetable grid; the attachments of notices and events, which refer to a
document by one more key; `DOCUMENT_REPLACE_POLICY` other than `trash`; the
sign-in with Google up to its code; the validation of roll numbers beyond their
uniqueness; the capacity and the names of sections, the switch that closes a
group (every section is taken as open), the names and dates of a session; a
notice whose form leaves the time of publication as it was.

## 6. Not modelled, and how much of the code this is

Not modelled are events (the life of a notice with a smaller audience), homework
and reference data (one row each, one write), expenses (recorded once, voided
once, the shape of a fee payment), settings, password hashing, the HTTP layer
(each route validates a form and calls one service: the range of the inputs of
the actions), seeds and scripts. Attendance reports, dashboards, portal pages and
printed papers read only; the user interface and the service worker decide
nothing of the college's rules. They are the larger part of the repository's
lines: what a specification of its behaviour can speak about is the services and
policy modules, of which all that write with more than one step are here. Within
those, a good part of the lines are reading lists, their paging and their
rendering as JSON.

Liveness (`LockRunsOut`, `RequestsEnd`) is checked by TLC only. Where an argument
needs the least or the last of a set of numbers, as the oldest folder of a name or
the last form that names a colleague, the proofs have it from well-founded orders of
the library (`LeastNumber`, `LeastNatural`).

## How to run

`tlc -config fees_one_clerk.cfg MCFeeVouchers.tla`, and likewise for each run of
`PROJECT.json`; `tlapm FeeVouchersProofs.tla`, and likewise for each of the eight
`*Proofs` modules. `PROJECT.json` maps every definition to the lines it translates, and lists for each checked
property a plausible bug (an operator marked "Faulty variant of" in the modules,
used by no specification) under which that property fails.

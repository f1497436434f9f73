----------------------------- MODULE Complaints -----------------------------
(***************************************************************************)
(* Applications to the office: complaints.service.ts over                  *)
(* complaints-policy.ts. One row per application, one per message; each    *)
(* handler reads the application and decides, then writes in a transaction *)
(* which adds the message first and updates the row it does not read again,*)
(* then tells the other side.                                              *)
(***************************************************************************)
EXTENDS Naturals, Sequences, FiniteSets

CONSTANTS Applicants,       \* the students
          Applications,     \* ids of complaints
          Correspondents,   \* bound: requests there may be at once
          MaxOpen,          \* MAX_OPEN_COMPLAINTS
          MaxMessages,      \* bound: messages of one application
          NoApplication

ASSUME ApplicationsAssumption ==
  MaxOpen \in Nat \ {0} /\ MaxMessages \in Nat /\ NoApplication \notin Applications

VARIABLES
  complaints,   \* id -> row, for the applications sent
  exchange,     \* id -> the sides that wrote its messages, in order
  letter,       \* the request each correspondent has in flight
  notified,     \* who has been told of what: <<application, side>>
  crossed       \* history: applications on which two requests overlapped

complaintVars == <<complaints, exchange, letter, notified, crossed>>

Sides == {"student", "office"}
OpenStatuses == {"SUBMITTED", "IN_REVIEW"}
ComplaintStatuses == OpenStatuses \cup {"RESOLVED", "WITHDRAWN"}

OpenOf(s) == {c \in DOMAIN complaints : complaints[c].by = s /\ complaints[c].status \in OpenStatuses}

\* Faulty variant of OfficeTransitions: the office undoes a withdrawal.
TransitionsFromAny(from) == IF from = "IN_REVIEW" THEN {"RESOLVED"} ELSE {"IN_REVIEW", "RESOLVED"} \ {from}

\* Where the office may move an application next.
OfficeTransitions(from) ==
  CASE from = "SUBMITTED" -> {"IN_REVIEW", "RESOLVED"}
    [] from = "IN_REVIEW" -> {"RESOLVED"}
    [] from = "RESOLVED"  -> {"IN_REVIEW"}
    [] from = "WITHDRAWN" -> {}

StatusAfterOfficeReply(status) == IF status = "SUBMITTED" THEN "IN_REVIEW" ELSE status

\* Whose move it is after an event.
AwaitingOfficeAfter(event) == event \in {"SUBMITTED", "STUDENT_REPLIED", "REOPENED"}

NoLetter == [at |-> "idle", op |-> "none", c |-> NoApplication, side |-> "student",
             by |-> "nobody", to |-> "SUBMITTED", note |-> FALSE]

AboutIt(c) == {r \in Correspondents : letter[r].c = c /\ letter[r].at \in {"insert", "update"}}

---------------------------------------------------------------------------
ComplaintInit ==
  /\ complaints = <<>> /\ exchange = <<>>
  /\ letter = [r \in Correspondents |-> NoLetter]
  /\ notified = {} /\ crossed = {}

\* A handler that has read what it needs and been allowed to go on.
Allowed(r, t) ==
  /\ letter[r].at = "idle"
  /\ letter' = [letter EXCEPT ![r] = t]
  /\ crossed' = IF t.c # NoApplication /\ AboutIt(t.c) # {} THEN crossed \cup {t.c} ELSE crossed
  /\ UNCHANGED <<complaints, exchange, notified>>

StartComplaint(r, s) ==
  /\ Cardinality(OpenOf(s)) < MaxOpen
  /\ Allowed(r, [NoLetter EXCEPT !.at = "update", !.op = "submit", !.by = s])

StartReply(r, c, side) ==
  /\ complaints[c].status \in OpenStatuses
  /\ Allowed(r, [NoLetter EXCEPT !.at = "insert", !.op = "reply", !.c = c, !.side = side, !.note = TRUE,
                   !.to = IF side = "office" THEN StatusAfterOfficeReply(complaints[c].status)
                                             ELSE complaints[c].status])

StartComplaintStatus(r, c, to, note) ==
  /\ to \in OfficeTransitions(complaints[c].status)
  /\ Allowed(r, [NoLetter EXCEPT !.at = "insert", !.op = "status", !.c = c, !.side = "office",
                   !.note = note, !.to = to])

StartComplaintWithdrawal(r, c) ==
  /\ complaints[c].status \in OpenStatuses
  /\ Allowed(r, [NoLetter EXCEPT !.at = "insert", !.op = "withdraw", !.c = c, !.to = "WITHDRAWN"])

\* submitComplaint: the limit was looked at before.
SubmitComplaint(r) ==
  /\ letter[r].at = "update" /\ letter[r].op = "submit"
  /\ \E c \in Applications \ DOMAIN complaints :
       /\ complaints' = [d \in DOMAIN complaints \cup {c} |->
            IF d = c THEN [by |-> letter[r].by, status |-> "SUBMITTED",
                           awaiting |-> AwaitingOfficeAfter("SUBMITTED"), closedBy |-> "nobody"]
                     ELSE complaints[d]]
       /\ exchange' = [d \in DOMAIN exchange \cup {c} |-> IF d = c THEN <<>> ELSE exchange[d]]
       /\ letter' = [letter EXCEPT ![r].at = "tell", ![r].c = c]
  /\ UNCHANGED <<notified, crossed>>

\* The message, in its place in the exchange; no other transaction sees it yet.
InsertMessage(r) ==
  LET t == letter[r]
  IN  /\ t.at = "insert" /\ (t.note => Len(exchange[t.c]) < MaxMessages)
      /\ exchange' = IF t.note THEN [exchange EXCEPT ![t.c] = Append(@, t.side)] ELSE exchange
      /\ letter' = [letter EXCEPT ![r].at = "update"]
      /\ UNCHANGED <<complaints, notified, crossed>>

\* The row of an application resolved, picked up again or withdrawn.
Closing(row, t) ==
  [row EXCEPT !.status = t.to,
              !.awaiting = AwaitingOfficeAfter(IF t.to = "IN_REVIEW" THEN "REOPENED" ELSE t.to),
              !.closedBy = IF t.to \in OpenStatuses THEN "nobody" ELSE t.side]

\* A reply leaves closedAt alone.
Replied(row, t) ==
  [row EXCEPT !.status = t.to,
              !.awaiting = AwaitingOfficeAfter(IF t.side = "office" THEN "OFFICE_REPLIED"
                                                                    ELSE "STUDENT_REPLIED")]

\* The update and the commit.
UpdateRow(r) ==
  LET t == letter[r]
  IN  /\ t.at = "update" /\ t.op # "submit"
      /\ complaints' = [complaints EXCEPT ![t.c] = IF t.op = "reply" THEN Replied(@, t) ELSE Closing(@, t)]
      /\ letter' = [letter EXCEPT ![r] = IF t.op = "withdraw" THEN NoLetter ELSE [@ EXCEPT !.at = "tell"]]
      /\ UNCHANGED <<exchange, notified, crossed>>

\* Whoever did not write it is told; a withdrawal tells nobody.
NotifyOther(r) ==
  LET t == letter[r]
      other == IF t.side = "office" THEN "student" ELSE "office"
  IN  /\ t.at = "tell"
      /\ notified' = notified \cup {<<t.c, other>>}
      /\ letter' = [letter EXCEPT ![r] = NoLetter]
      /\ UNCHANGED <<complaints, exchange, crossed>>

\* notify swallows a failed insert, and the host may stop before it.
NotifyFails(r) ==
  /\ letter[r].at = "tell" /\ letter' = [letter EXCEPT ![r] = NoLetter]
  /\ UNCHANGED <<complaints, exchange, notified, crossed>>

ComplaintNext ==
  \E r \in Correspondents :
    \/ \E s \in Applicants : StartComplaint(r, s)
    \/ \E c \in DOMAIN complaints :
         \/ \E side \in Sides : StartReply(r, c, side)
         \/ \E to \in ComplaintStatuses, note \in BOOLEAN : StartComplaintStatus(r, c, to, note)
         \/ StartComplaintWithdrawal(r, c)
    \/ SubmitComplaint(r) \/ InsertMessage(r) \/ UpdateRow(r) \/ NotifyOther(r) \/ NotifyFails(r)

ComplaintSpec == ComplaintInit /\ [][ComplaintNext]_complaintVars

---------------------------------------------------------------------------
\* Properties.

\* The rows and the requests are of their types.
ComplaintTypeOK ==
  /\ DOMAIN complaints \subseteq Applications /\ DOMAIN exchange = DOMAIN complaints
  /\ \A c \in DOMAIN complaints :
       /\ complaints[c] \in [by : Applicants, status : ComplaintStatuses, awaiting : BOOLEAN,
                             closedBy : Sides \cup {"nobody"}]
       /\ exchange[c] \in Seq(Sides)
  /\ \A r \in Correspondents : letter[r].c \in DOMAIN complaints \cup {NoApplication}
  /\ notified \subseteq (DOMAIN complaints) \X Sides /\ crossed \subseteq DOMAIN complaints

\* Whatever overlaps, an application that is closed says by whom, and one that
\* is withdrawn was withdrawn by its student ("the office never withdraws on a
\* student's behalf", complaints-policy.ts:157). Unless requests overlapped, one
\* that says it was closed is closed: no reply leaves closedAt on an open one.
ClosedByWhom ==
  \A c \in DOMAIN complaints :
    LET row == complaints[c]
    IN  /\ row.status = "WITHDRAWN" => row.closedBy = "student"
        /\ row.status = "RESOLVED" => row.closedBy = "office"
        /\ c \notin crossed /\ row.closedBy # "nobody" => row.status \notin OpenStatuses

\* "Who the application is waiting on, so neither side has to guess"
\* (complaints-policy.ts:208): with nobody writing on it, an application on the
\* office's desk is open, and one a student wrote on last is on the desk.
YourMove ==
  \A c \in DOMAIN complaints \ crossed :
    AboutIt(c) = {} =>
      /\ complaints[c].awaiting => complaints[c].status \in OpenStatuses
      /\ complaints[c].status \in OpenStatuses /\ exchange[c] # <<>>
           /\ exchange[c][Len(exchange[c])] = "student" => complaints[c].awaiting

\* "A withdrawn one is the student's decision and the office does not undo it"
\* (complaints-policy.ts:156): neither its row nor its exchange changes again,
\* unless requests on it overlapped.
WithdrawnIsFinal ==
  [][\A c \in DOMAIN complaints \ crossed :
       complaints[c].status = "WITHDRAWN" /\ c \notin crossed'
         => complaints'[c] = complaints[c] /\ exchange'[c] = exchange[c]]_complaintVars

\* An application is kept as its two sides left it: the rows are sound, who closed
\* it and whose move it is can be told, and what a student withdrew is final.
ApplicationsAreKept == [](ComplaintTypeOK /\ ClosedByWhom /\ YourMove) /\ WithdrawnIsFinal
=============================================================================

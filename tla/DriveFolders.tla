------------------------------ MODULE DriveFolders ------------------------------
(***************************************************************************)
(* The college's Google Drive: the connection, kept in two settings        *)
(* (google-drive.service.ts), and the folder of one person inside the root *)
(* folder (google-drive.provider.ts, ensureOwnerFolder). Drive lets two    *)
(* folders have one name. The root and the folder of all students, made    *)
(* one after the other in the same way, are one folder here. The calls of  *)
(* one request are steps; those of several interleave.                     *)
(***************************************************************************)
EXTENDS Naturals, Sequences, FiniteSets

CONSTANTS Googles,     \* Google accounts an administrator may sign in to
          Callers,     \* bound: requests there may be at once
          MaxFolders,  \* bound: folders ever made
          NoGoogle

ASSUME FolderAssumption == NoGoogle \notin Googles /\ MaxFolders \in Nat

VARIABLES
  token,     \* the account of the stored refresh token
  conn,      \* the connection record, without it the account NoGoogle
  client,    \* the account of the cached client
  folders,   \* Drive, the oldest first
  home,      \* drive_folder_id of the person, 0 for none
  filed,     \* history: folders a file has been put in
  call,      \* what each request is doing
  muddled,   \* history: the connection changed while a request was on
  meddled    \* history: somebody put a folder in the trash by hand

driveVars == <<token, conn, client, folders, home, filed, call, muddled, meddled>>

NoConn == [google |-> NoGoogle, root |-> 0]
NoCall == [op |-> "none"]

Live(f) ==
  /\ folders[f].state = "live"
  /\ folders[f].parent # 0 => folders[folders[f].parent].state = "live"

\* The account a call is made with: the cached client, or one for the token.
Signed == IF client # NoGoogle THEN client ELSE token

\* files.list: the folders of the one name under a parent, those in the trash left out.
Listed(parent) ==
  {f \in DOMAIN folders : Live(f) /\ folders[f].google = Signed /\ folders[f].parent = parent}
Oldest(S) == CHOOSE f \in S : \A g \in S : f <= g

Step(r, t) == call' = [call EXCEPT ![r] = t]
Calling(r, op) == call[r].op = op

---------------------------------------------------------------------------
DriveInit ==
  /\ token = NoGoogle /\ conn = NoConn /\ client = NoGoogle
  /\ folders = <<>> /\ home = 0 /\ filed = {}
  /\ call = [r \in Callers |-> NoCall] /\ muddled = FALSE /\ meddled = FALSE

\* A call to Drive: it needs an account, and may fail, which ends the request.
Asks(r) ==
  /\ Signed # NoGoogle /\ client' = Signed
  /\ UNCHANGED <<token, muddled, meddled>>

Broken(r) ==
  /\ call[r].op \in {"search", "create", "settle", "write", "record", "send"}
  /\ Step(r, NoCall) /\ UNCHANGED <<token, conn, client, folders, home, filed, muddled, meddled>>

\* uploadDocument: a folder known to the person is used as it is, otherwise
\* ensureOwnerFolder and ensureRootFolders look at the connection. "roots" is
\* the call for the college's folders alone (connect, Test connection).
StartFile(r, what) ==
  /\ Calling(r, "none")
  /\ Step(r, IF what = "file" /\ home # 0 THEN [op |-> "send", folder |-> home]
             ELSE IF conn = NoConn THEN NoCall
             ELSE IF conn.root # 0
               THEN IF what = "roots" THEN NoCall ELSE [op |-> "search", what |-> what, in |-> conn.root, conn |-> conn]
             ELSE [op |-> "search", what |-> what, in |-> 0, conn |-> conn])
  /\ UNCHANGED <<token, conn, client, folders, home, filed, muddled, meddled>>

\* What follows when the folder f has been found or made.
Found(t, f) ==
  IF t.in = 0 THEN [op |-> "write", what |-> t.what, in |-> f, conn |-> t.conn]
  ELSE [op |-> "record", folder |-> f]

Search(r) ==
  LET t == call[r]
  IN  /\ Calling(r, "search") /\ Asks(r)
      /\ Step(r, IF Listed(t.in) # {} THEN Found(t, Oldest(Listed(t.in))) ELSE [t EXCEPT !.op = "create"])
      /\ UNCHANGED <<conn, folders, home, filed>>

CreateFolder(r) ==
  LET t == call[r]
  IN  /\ Calling(r, "create") /\ Asks(r) /\ Len(folders) < MaxFolders
      /\ t.in # 0 => Live(t.in) /\ folders[t.in].google = Signed
      /\ folders' = Append(folders, [google |-> Signed, parent |-> t.in, state |-> "live"])
      /\ Step(r, [op |-> "settle", what |-> t.what, in |-> t.in, conn |-> t.conn, made |-> Len(folders) + 1])
      /\ UNCHANGED <<conn, home, filed>>

\* The folder to keep: "keep the oldest folder of this name".
Kept(S, made) == IF S = {} THEN made ELSE Oldest(S)

\* The second look after creating.
Settle(r) ==
  LET t == call[r]
      kept == Kept(Listed(t.in), t.made)
  IN  /\ Calling(r, "settle") /\ Asks(r)
      /\ Step(r, IF kept = t.made THEN Found(t, kept)
                 ELSE [op |-> "discard", what |-> t.what, in |-> t.in, conn |-> t.conn,
                       made |-> t.made, kept |-> kept])
      /\ UNCHANGED <<conn, folders, home, filed>>

\* Faulty variant of Spare: the older one goes.
SpareOld(t) == t.kept

\* The folder that is not needed.
Spare(t) == t.made

\* files.delete of the newer folder; its failure is swallowed.
Discard(r) ==
  LET t == call[r]
  IN  /\ Calling(r, "discard")
      /\ \/ Asks(r) /\ folders' = [folders EXCEPT ![Spare(t)].state = "deleted"]
         \/ UNCHANGED <<token, client, folders, muddled, meddled>>
      /\ Step(r, Found(t, t.kept)) /\ UNCHANGED <<conn, home, filed>>

\* A change of the connection leaves every other request with what it has read.
Changing(r) ==
  /\ muddled' = (muddled \/ \E s \in Callers \ {r} : call[s] # NoCall)
  /\ UNCHANGED <<folders, home, filed, meddled>>

\* ensureRootFolders writes the whole record it read, with the folder.
RootRecord(t) == [t.conn EXCEPT !.root = t.in]

WriteRoot(r) ==
  LET t == call[r]
  IN  /\ Calling(r, "write") /\ conn' = RootRecord(t)
      /\ Step(r, IF t.what = "roots" THEN NoCall ELSE [t EXCEPT !.op = "search", !.conn = RootRecord(t)])
      /\ UNCHANGED <<token, client, folders, home, filed, muddled, meddled>>

RecordHome(r) ==
  /\ Calling(r, "record") /\ home' = call[r].folder
  /\ Step(r, [op |-> "send", folder |-> call[r].folder])
  /\ UNCHANGED <<token, conn, client, folders, filed, muddled, meddled>>

\* storage.upload: Drive takes a file only into a folder it has for that account.
Send(r) ==
  LET f == call[r].folder
  IN  /\ Calling(r, "send") /\ Asks(r) /\ Step(r, NoCall)
      /\ Live(f) /\ folders[f].google = Signed /\ filed' = filed \cup {f}
      /\ UNCHANGED <<conn, folders, home>>

---------------------------------------------------------------------------
\* completeConnection: the token, then the record, then the cached client; a new
\* record knows of no folder. The college's folders are then asked for.
StartConnect(r, g) ==
  /\ Calling(r, "none") /\ Step(r, [op |-> "connect", google |-> g])
  /\ UNCHANGED <<token, conn, client, folders, home, filed, muddled, meddled>>

WriteToken(r) ==
  /\ Calling(r, "connect") /\ token' = call[r].google
  /\ Step(r, [op |-> "connected", google |-> call[r].google])
  /\ Changing(r) /\ UNCHANGED <<conn, client>>

WriteConnection(r) ==
  /\ Calling(r, "connected") /\ conn' = [google |-> call[r].google, root |-> 0] /\ client' = NoGoogle
  /\ Step(r, [op |-> "search", what |-> "roots", in |-> 0, conn |-> conn'])
  /\ Changing(r) /\ UNCHANGED token

AfterForgetting == NoConn

\* disconnectDrive: "does not touch anything in Google Drive and does not delete a
\* single document record".
ForgetToken(r) ==
  /\ Calling(r, "none") /\ token' = NoGoogle /\ Step(r, [op |-> "forget"])
  /\ Changing(r) /\ UNCHANGED <<conn, client>>

ForgetConnection(r) ==
  /\ Calling(r, "forget") /\ conn' = AfterForgetting /\ client' = NoGoogle /\ Step(r, NoCall)
  /\ Changing(r) /\ UNCHANGED token

\* The owner of the account, in Drive itself.
OwnerTrashes(f) ==
  /\ folders[f].state = "live" /\ folders' = [folders EXCEPT ![f].state = "trashed"]
  /\ meddled' = TRUE /\ UNCHANGED <<token, conn, client, home, filed, call, muddled>>

DriveNext ==
  \/ \E r \in Callers :
       \/ \E what \in {"file", "roots"} : StartFile(r, what)
       \/ \E g \in Googles : StartConnect(r, g)
       \/ Search(r) \/ CreateFolder(r) \/ Settle(r) \/ Discard(r) \/ WriteRoot(r) \/ RecordHome(r) \/ Send(r)
       \/ WriteToken(r) \/ WriteConnection(r) \/ ForgetToken(r) \/ ForgetConnection(r) \/ Broken(r)
  \/ \E f \in DOMAIN folders : OwnerTrashes(f)

DriveSpec == DriveInit /\ [][DriveNext]_driveVars

---------------------------------------------------------------------------
\* Properties.

\* The settings, the folders and the person's folder are of their types, and a
\* folder is inside one that is older and of the same account; the
\* person's is inside a root folder.
DriveTypeOK ==
  /\ {token, conn.google, client} \subseteq Googles \cup {NoGoogle}
  /\ {home, conn.root} \cup filed \subseteq {0} \cup DOMAIN folders
  /\ \A f \in DOMAIN folders : LET p == folders[f].parent
                               IN  p # 0 => p < f /\ folders[p].google = folders[f].google
  /\ home # 0 => folders[home].parent # 0
  /\ conn.root # 0 => folders[conn.root].parent = 0

\* "so a race produces one extra empty folder at worst, never two folders both
\* holding documents" (google-drive.provider.ts:58), while nobody puts folders in
\* the trash by hand and the connection stays what it was.
OneFolderHoldsDocuments ==
  ~meddled /\ ~muddled => \A f, g \in filed : folders[f].google = folders[g].google => f = g

\* The folder that is deleted for good after a race is one nothing was put in and
\* nobody remembers, unless the connection changed under the race.
NoFileDeletedWithItsFolder ==
  ~meddled /\ ~muddled => \A f \in (filed \cup {home, conn.root}) \ {0} : folders[f].state # "deleted"

\* "Connected" means one account: unless a request ran across a change of the
\* connection, the token and the record are of the same account.
ConnectionIsOfOneAccount ==
  ~muddled /\ (\A r \in Callers : call[r].op \notin {"connected", "forget"}) => conn.google = token

\* The folders of one connected account are one tree, with one folder for a person,
\* and what was filed in it stays.
FoldersHoldTogether ==
  DriveTypeOK /\ OneFolderHoldsDocuments /\ NoFileDeletedWithItsFolder /\ ConnectionIsOfOneAccount
=============================================================================

---------------------------- MODULE AccountAccess ----------------------------
(***************************************************************************)
(* One account, the devices signed in to it and the ways in: login and     *)
(* changeOwnPassword (auth.service.ts), the session rows (auth/session.ts, *)
(* sessions.service.ts), the counter kept in memory (auth/rate-limit.ts)   *)
(* and what an administrator does to it (users.service.ts). Hashing a      *)
(* password is awaited, so a sign-in reads the account and writes it in    *)
(* different steps. Deadlines are counted down by ClockTicks.              *)
(***************************************************************************)
EXTENDS Naturals, FiniteSets

CONSTANTS Devices,        \* bound: sessions there may be
          Requests,       \* bound: sign-ins and password changes at once
          LockThreshold,  \* LOGIN_LIMITS.lockoutThreshold
          TryLimit,       \* LOGIN_LIMITS.perUsername.limit
          LockTime, WindowTime, SessionTime  \* in ticks

ASSUME AccessAssumption ==
  /\ {LockThreshold, TryLimit, LockTime, WindowTime} \subseteq Nat \ {0}
  /\ SessionTime \in Nat /\ SessionTime > 2

VARIABLES
  account,   \* active, failed (failedLoginAttempts, told apart up to the threshold), lock
  sessions,  \* device -> its row: time left, and what it was opened on
  bucket,    \* login:user:<username>: attempts, and time until it resets
  access,    \* the request in flight
  wrong,     \* history: wrong passwords given since the counter was last cleared
  muddled    \* history: a sign-in was in flight when another one, or the office, wrote

accessVars == <<account, sessions, bucket, access, wrong, muddled>>

NoRequest == [at |-> "idle", failed |-> 0, knows |-> TRUE, alone |-> TRUE]
NoBucket == [count |-> 0, left |-> 0]
Busy(at) == {r \in Requests : access[r].at = at}
UpToThreshold(n) == IF n < LockThreshold THEN n ELSE LockThreshold
Less(n) == IF n = 0 THEN 0 ELSE n - 1

Cleared(a) == [a EXCEPT !.failed = 0, !.lock = 0]

\* Faulty variant of SignedOut: an ended device keeps its row.
NobodyOut(gone) == sessions

\* session.deleteMany or session.delete.
SignedOut(gone) == [d \in DOMAIN sessions \ gone |-> sessions[d]]

\* History: every request in flight has read an account that is written now; it
\* no longer knows the password once that has been replaced.
Overtaken(but, newPassword) ==
  [r \in Requests |-> IF r \in but \/ access[r].at = "idle" THEN access[r]
     ELSE [access[r] EXCEPT !.alone = FALSE, !.knows = @ /\ ~newPassword]]
Muddle(but) == muddled' = (muddled \/ \E r \in Requests \ but : access[r].at \in {"wrong", "right"})

---------------------------------------------------------------------------
AccessInit ==
  /\ account = [active |-> TRUE, failed |-> 0, lock |-> 0]
  /\ sessions = <<>> /\ bucket = NoBucket
  /\ access = [r \in Requests |-> NoRequest] /\ wrong = 0 /\ muddled = FALSE

\* Faulty variant of MaySignIn: the lock is not looked at.
IgnoresLock == account.active

MaySignIn == account.lock = 0 /\ account.active

\* checkRateLimit, then the account is read and the password verified against
\* what was read: `right` is what the verification will say.
StartSignIn(r, right) ==
  /\ access[r].at = "idle"
  /\ bucket' = IF bucket.left = 0 THEN [count |-> 1, left |-> WindowTime]
               ELSE [bucket EXCEPT !.count = IF @ <= TryLimit THEN @ + 1 ELSE @]
  /\ access' = IF bucket'.count <= TryLimit /\ MaySignIn
               THEN [access EXCEPT ![r] = [NoRequest EXCEPT !.at = IF right THEN "right" ELSE "wrong",
                                                        !.failed = account.failed]]
               ELSE access
  /\ UNCHANGED <<account, sessions, wrong, muddled>>

\* The failure is counted on the number that was read.
Fail(r) ==
  LET attempts == UpToThreshold(access[r].failed + 1)
  IN  /\ access[r].at = "wrong"
      /\ account' = [account EXCEPT !.failed = attempts,
                                    !.lock = IF attempts >= LockThreshold THEN LockTime ELSE 0]
      /\ wrong' = UpToThreshold(wrong + 1)
      /\ Muddle({r}) /\ access' = [Overtaken({r}, FALSE) EXCEPT ![r] = NoRequest]
      /\ UNCHANGED <<sessions, bucket>>

\* The counters are reset and the bucket emptied; the session is created next.
Succeed(r) ==
  /\ access[r].at = "right"
  /\ account' = Cleared(account) /\ wrong' = 0 /\ bucket' = NoBucket
  /\ Muddle({r})
  /\ access' = [Overtaken({r}, FALSE) EXCEPT ![r] = [access[r] EXCEPT !.at = "open"]]
  /\ UNCHANGED sessions

\* createSession drops what has expired and adds the device.
OpenSession(r) ==
  /\ access[r].at = "open"
  /\ LET live == SignedOut({d \in DOMAIN sessions : sessions[d].left = 0})
     IN  \E d \in Devices \ DOMAIN live :
           sessions' = [e \in DOMAIN live \cup {d} |-> IF e = d
             THEN [left |-> SessionTime, knows |-> access[r].knows, alone |-> access[r].alone]
             ELSE live[e]]
  /\ access' = [access EXCEPT ![r] = NoRequest]
  /\ UNCHANGED <<account, bucket, wrong, muddled>>

Signed(d) == sessions[d].left > 0 /\ account.active

\* changeOwnPassword by a signed-in device, once the current password was right.
StartChange(r, d) ==
  /\ access[r].at = "idle" /\ Signed(d)
  /\ access' = [access EXCEPT ![r] = [NoRequest EXCEPT !.at = "change"]]
  /\ UNCHANGED <<account, sessions, bucket, wrong, muddled>>

\* Whoever writes a password: nobody else knows it.
Forgotten == [d \in DOMAIN sessions |-> [sessions[d] EXCEPT !.knows = FALSE]]

ChangePassword(r) ==
  /\ access[r].at = "change"
  /\ account' = Cleared(account) /\ wrong' = 0 /\ sessions' = Forgotten
  /\ Muddle({r})
  /\ access' = [Overtaken({r}, TRUE) EXCEPT ![r] = [access[r] EXCEPT !.at = "signout"]]
  /\ UNCHANGED bucket

\* invalidateAllUserSessions, in a statement of its own; the route then opens a
\* session for this device without asking for the password again.
SignOutEverywhere(r) ==
  /\ access[r].at = "signout"
  /\ sessions' = SignedOut(DOMAIN sessions)
  /\ access' = [access EXCEPT ![r].at = "open"]
  /\ UNCHANGED <<account, bucket, wrong, muddled>>

\* validateSessionToken: what has expired is deleted, an inactive account loses
\* every device, and a device in use is renewed in its second half.
UseSession(d) ==
  /\ sessions' = IF sessions[d].left = 0 THEN SignedOut({d})
                 ELSE IF ~account.active THEN SignedOut(DOMAIN sessions)
                 ELSE [sessions EXCEPT ![d].left = IF 2 * @ < SessionTime THEN SessionTime ELSE @]
  /\ sessions' # sessions
  /\ UNCHANGED <<account, bucket, access, wrong, muddled>>

\* logout, revokeMySession, revokeMyOtherSessions, revokeUserSession(s).
Revoke(gone) ==
  /\ gone # {} /\ sessions' = SignedOut(gone)
  /\ UNCHANGED <<account, bucket, access, wrong, muddled>>

SetUserStatus(active) ==
  /\ account' = IF active THEN [Cleared(account) EXCEPT !.active = TRUE]
                          ELSE [account EXCEPT !.active = FALSE]
  /\ sessions' = IF active THEN sessions ELSE SignedOut(DOMAIN sessions)
  /\ wrong' = IF active THEN 0 ELSE wrong
  /\ Muddle({}) /\ access' = Overtaken({}, FALSE)
  /\ UNCHANGED bucket

ResetUserPassword ==
  /\ account' = Cleared(account) /\ wrong' = 0
  /\ sessions' = LET kept == SignedOut(DOMAIN sessions)
                 IN  [d \in DOMAIN kept |-> [kept[d] EXCEPT !.knows = FALSE]]
  /\ Muddle({}) /\ access' = Overtaken({}, TRUE)
  /\ UNCHANGED bucket

UnlockUser ==
  /\ account' = Cleared(account) /\ wrong' = 0
  /\ Muddle({}) /\ access' = Overtaken({}, FALSE)
  /\ UNCHANGED <<sessions, bucket>>

ClockTicks ==
  /\ account' = [account EXCEPT !.lock = Less(@)]
  /\ bucket' = IF bucket.left <= 1 THEN NoBucket ELSE [bucket EXCEPT !.left = @ - 1]
  /\ sessions' = [d \in DOMAIN sessions |-> [sessions[d] EXCEPT !.left = Less(@)]]
  /\ UNCHANGED <<access, wrong, muddled>>

\* The server restarts: its memory is gone, and so are the requests it served.
\* A change cut off before it signed everybody out leaves them in.
HostRestart ==
  /\ bucket' = NoBucket /\ access' = [r \in Requests |-> NoRequest]
  /\ sessions' = IF Busy("signout") = {} THEN sessions
                 ELSE [d \in DOMAIN sessions |-> [sessions[d] EXCEPT !.alone = FALSE]]
  /\ UNCHANGED <<account, wrong, muddled>>

AccessNext ==
  \/ \E r \in Requests :
       \/ \E right \in BOOLEAN : StartSignIn(r, right)
       \/ Fail(r) \/ Succeed(r) \/ OpenSession(r)
       \/ \E d \in DOMAIN sessions : StartChange(r, d)
       \/ ChangePassword(r) \/ SignOutEverywhere(r)
  \/ \E d \in DOMAIN sessions : UseSession(d)
  \/ \E gone \in SUBSET DOMAIN sessions : Revoke(gone)
  \/ \E active \in BOOLEAN : SetUserStatus(active)
  \/ ResetUserPassword \/ UnlockUser \/ ClockTicks \/ HostRestart

AccessSpec == AccessInit /\ [][AccessNext]_accessVars

\* Time passes whatever is asked of the program; nobody has to do anything.
AccessFairness == WF_accessVars(ClockTicks)

---------------------------------------------------------------------------
\* Properties.

\* The account, its rows and its requests are of their types.
AccessTypeOK ==
  /\ account \in [active : BOOLEAN, failed : 0..LockThreshold, lock : 0..LockTime]
  /\ DOMAIN sessions \subseteq Devices
  /\ \A d \in DOMAIN sessions : sessions[d] \in [left : 0..SessionTime, knows : BOOLEAN, alone : BOOLEAN]
  /\ bucket \in [count : 0..(TryLimit + 1), left : 0..WindowTime] /\ wrong \in 0..LockThreshold
  /\ \A r \in Requests : access[r].at \in {"idle", "wrong", "right", "open", "change", "signout"}

\* "The old password is gone, so every existing session must go with it"
\* (users.service.ts:671) and "Deactivation must take effect immediately, not when
\* the cookie expires" (users.service.ts:487): once a change of password has signed
\* out the devices, every device of the account is of an active account and was
\* opened on the present password, unless its sign-in overlapped the change.
DevicesAreCurrent ==
  Busy("signout") = {} =>
    \A d \in DOMAIN sessions : sessions[d].alone => sessions[d].knows /\ account.active

\* "After this many consecutive failures the account locks for a while"
\* (rate-limit.ts, LOGIN_LIMITS): a locked account has failed that often, and as
\* long as sign-ins never overlapped the counter is the number of failures in a row,
\* so nobody has failed that often without having been locked.
CountsFailuresInARow ==
  /\ account.lock > 0 => account.failed >= LockThreshold
  /\ ~muddled => account.failed = wrong

\* A lock is over in the end, however many people keep trying the account: an
\* attempt on a locked account does not start it again.
LockRunsOut == (account.lock > 0) ~> (account.lock = 0)

\* The devices signed in and the failures counted are those of the account as it is.
AccessIsCurrent == AccessTypeOK /\ DevicesAreCurrent /\ CountsFailuresInARow
=============================================================================

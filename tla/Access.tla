-------------------------------- MODULE Access --------------------------------
(***************************************************************************)
(* Who gets in: the login of a staff account and what its tab keeps of it, *)
(* the three ways a person with one CPF enters a queue (as a guest, with a *)
(* password, by registering), and the lock after failed logins.            *)
(*                                                                         *)
(* A call is split where the code awaits: the database, bcrypt, the answer *)
(* on its way to the browser.  What was read before an await may be old    *)
(* after it.                                                               *)
(***************************************************************************)
EXTENDS Integers, FiniteSets

CONSTANTS
  Calls,        \* HTTP calls in flight at a time
  Throttled,    \* bound: the accounts whose lock is modelled, of "staff" and "re"
  MaxFailures,  \* MAX_FAILURES
  Window,       \* WINDOW_MS, in ticks
  DayLength,    \* a business day, in ticks
  MinSession,   \* MIN_RE_SESSION_SECONDS, in ticks
  EntryLife,    \* bound: ticks left to the entry token of the QR code or link
  MaxVersion,   \* bound: logouts of the staff account
  None

ASSUME CallsAssumption == IsFiniteSet(Calls)
ASSUME NoneAssumption == None \notin {"GUEST", "REGISTERED", "guestEntry", "password"} \cup Nat
ASSUME TickAssumption == {MaxFailures, Window, DayLength, MinSession, EntryLife} \subseteq Nat \ {0}
ASSUME FloorAssumption == MinSession <= DayLength

VARIABLES
  attempts,       \* LoginThrottleService.attempts; resetAt as the ticks left to it
  record,         \* kind of the representative with the CPF, None before there is one
  session,        \* the last session the phone of the person was given
  version,        \* operators.sessionVersion of the staff account
  tab,            \* sessionStorage and screen of the tab of the staff account
  calls,
  dayLeft         \* ticks to the end of the business day

people == <<record, session>>
staff == <<version, tab>>
avars == <<attempts, people, staff, calls, dayLeft>>

EntryOps == {"guestEntry", "register", "login"}

NoSession == [by |-> None, left |-> 0, ofToday |-> TRUE]
NoAttempts == [failures |-> 0, left |-> 0]

Idle == [op |-> None, step |-> "idle", right |-> FALSE, seen |-> None]

AccessInit ==
  /\ attempts = [k \in Throttled |-> NoAttempts]
  /\ record = None
  /\ session = NoSession
  /\ version = 0
  /\ tab = [token |-> None, screen |-> "login"]
  /\ calls = [c \in Calls |-> Idle]
  /\ dayLeft = DayLength

Move(c, call) == calls' = [calls EXCEPT ![c] = call]
GoTo(c, step) == Move(c, [calls[c] EXCEPT !.step = step])
Enter(c, op, right) ==
  Move(c, [op |-> op, step |-> "entered", right |-> right, seen |-> None])
Answer(c) == calls' = [calls EXCEPT ![c] = Idle]
At(c, op, step) == calls[c].op = op /\ calls[c].step = step

-----------------------------------------------------------------------------
(* LoginThrottleService.  An entry whose window is over (left = 0) stays in *)
(* the map until it is asked for again, or pruned.                         *)

\* Fault: a locked entry is not asked whether its window is over.
NotLockedButForever(k) == k \in Throttled => attempts[k].failures < MaxFailures

\* Fault: the last failure allowed does not lock.
NotLockedOffByOne(k) ==
  k \in Throttled => attempts[k].left = 0 \/ attempts[k].failures <= MaxFailures

(* assertNotLocked *)
NotLocked(k) ==
  k \in Throttled => attempts[k].left = 0 \/ attempts[k].failures < MaxFailures

RegisterFailure(k) ==
  IF k \notin Throttled THEN UNCHANGED attempts
  ELSE attempts' = [attempts EXCEPT ![k] =
         IF @.left = 0 THEN [failures |-> 1, left |-> Window]
         ELSE [failures |-> @.failures + 1, left |-> @.left]]

ClearFailures(k) ==
  IF k \notin Throttled THEN UNCHANGED attempts
  ELSE attempts' = [attempts EXCEPT ![k] = NoAttempts]

-----------------------------------------------------------------------------
(* Sessions of the representative *)

Least(a, b) == IF a <= b THEN a ELSE b
Greatest(a, b) == IF a <= b THEN b ELSE a

\* Fault: only the entry token bounds the session.
EntrySessionTtlOfToken(entry) == Greatest(MinSession, entry)

(* _entrySessionTtlSeconds *)
EntrySessionTtl(entry) == Greatest(MinSession, Least(dayLeft, entry))

(* The entry token was valid when the call came in; it may be over by now. *)
Sign(by) ==
  \E entry \in 0 .. EntryLife :
    session' = [by |-> by, left |-> EntrySessionTtl(entry), ofToday |-> TRUE]

(* _resolveQueueEntry, and the audit row login writes before it goes on.   *)
EnterQueue(c) ==
  /\ calls[c].step = "idle"
  /\ \E op \in EntryOps, right \in BOOLEAN :
       /\ right \/ op = "login"
       /\ Enter(c, op, right)
  /\ UNCHANGED <<attempts, people, staff, dayLeft>>

(* The attendant's form registers her too, and gives her no session.       *)
RegisterAtCheckin(c) ==
  /\ calls[c].step = "idle"
  /\ Enter(c, "checkin", TRUE)
  /\ UNCHANGED <<attempts, people, staff, dayLeft>>

-----------------------------------------------------------------------------
(* guestEntry *)

(* updateER may turn guestEntryEnabled on or off at any time.              *)
ReadGuestEntry(c) ==
  /\ At(c, "guestEntry", "entered")
  /\ GoTo(c, "allowed") \/ Answer(c)
  /\ UNCHANGED <<attempts, people, staff, dayLeft>>

(* A registered person's CPF is refused: her way is the password.          *)
ResolveGuest(c) ==
  /\ At(c, "guestEntry", "allowed")
  /\ \/ record = None /\ GoTo(c, "missing") /\ UNCHANGED session
     \/ record = "GUEST" /\ Answer(c) /\ Sign("guestEntry")
     \/ record = "REGISTERED" /\ Answer(c) /\ UNCHANGED session
  /\ UNCHANGED <<attempts, record, staff, dayLeft>>

\* Fault: the loser of the race takes the record that won, whatever it is.
AfterGuestConflictAsIs(c) == Answer(c) /\ Sign("guestEntry")

(* P2002: _resolveGuest again. *)
AfterGuestConflict(c) == GoTo(c, "allowed") /\ UNCHANGED session

CreateGuest(c) ==
  /\ At(c, "guestEntry", "missing")
  /\ \/ /\ record = None /\ record' = "GUEST"
        /\ Answer(c) /\ Sign("guestEntry")
     \/ record # None /\ AfterGuestConflict(c) /\ UNCHANGED record
  /\ UNCHANGED <<attempts, staff, dayLeft>>

-----------------------------------------------------------------------------
(* register and createRepresentative *)

FindExisting(c) ==
  /\ At(c, "register", "entered") \/ At(c, "checkin", "entered")
  /\ IF record = None THEN GoTo(c, "hashing") ELSE Answer(c)
  /\ UNCHANGED <<attempts, people, staff, dayLeft>>

CreateRepresentative(c) ==
  /\ calls[c].step = "hashing"
  /\ Answer(c)
  /\ \/ /\ record = None /\ record' = "REGISTERED"
        /\ IF calls[c].op = "register" THEN Sign("password") ELSE UNCHANGED session
     \/ record # None /\ UNCHANGED <<record, session>>
  /\ UNCHANGED <<attempts, staff, dayLeft>>

-----------------------------------------------------------------------------
(* login and staffLogin.  seen is what the row held when it was read.      *)

AssertNotLocked(c) ==
  /\ \/ At(c, "login", "entered")
     \/ At(c, "staffLogin", "entered") \/ At(c, "otherLogin", "entered")
  /\ LET k == IF calls[c].op = "login" THEN "re" ELSE "staff"
     IN /\ IF NotLocked(k) THEN GoTo(c, "admitted") ELSE Answer(c)
        /\ IF k \in Throttled /\ attempts[k].left = 0 /\ NotLocked(k)
             THEN ClearFailures(k) ELSE UNCHANGED attempts
  /\ UNCHANGED <<people, staff, dayLeft>>

FindAccount(c) ==
  /\ calls[c].step = "admitted"
  /\ Move(c, [calls[c] EXCEPT !.step = "comparing",
               !.seen = IF calls[c].op = "login" THEN record ELSE version])
  /\ UNCHANGED <<attempts, people, staff, dayLeft>>

(* A guest has no password: she fails as an unknown account does.          *)
CompareLogin(c) ==
  /\ At(c, "login", "comparing")
  /\ Answer(c)
  /\ IF calls[c].right /\ calls[c].seen = "REGISTERED"
       THEN ClearFailures("re") /\ Sign("password")
       ELSE RegisterFailure("re") /\ UNCHANGED session
  /\ UNCHANGED <<record, staff, dayLeft>>

(* The token carries the version that was read before the comparison.      *)
CompareStaffLogin(c) ==
  /\ At(c, "staffLogin", "comparing") \/ At(c, "otherLogin", "comparing")
  /\ IF calls[c].right THEN ClearFailures("staff") ELSE RegisterFailure("staff")
  /\ IF calls[c].right /\ calls[c].op = "staffLogin"
       THEN GoTo(c, "signed") ELSE Answer(c)
  /\ UNCHANGED <<people, staff, dayLeft>>

-----------------------------------------------------------------------------
(* The tab of the staff account *)

Sending(op) == \E c \in Calls : calls[c].op = op

(* StaffLoginForm, whose button is off while a login is on its way; or     *)
(* another device.                                                         *)
SubmitLogin(c) ==
  /\ calls[c].step = "idle"
  /\ \E right \in BOOLEAN :
       \/ /\ tab.screen = "login" /\ ~Sending("staffLogin")
          /\ Enter(c, "staffLogin", right)
       \/ Enter(c, "otherLogin", right)
  /\ UNCHANGED <<attempts, people, staff, dayLeft>>

SaveStaffSession(c) ==
  /\ At(c, "staffLogin", "signed")
  /\ Answer(c)
  /\ tab' = [token |-> calls[c].seen, screen |-> "work"]
  /\ UNCHANGED <<attempts, people, version, dayLeft>>

SendFromTab(c, op) ==
  /\ calls[c].step = "idle" /\ tab.screen = "work" /\ ~Sending(op)
  /\ Move(c, [op |-> op, step |-> "sent", right |-> FALSE, seen |-> tab.token])
  /\ UNCHANGED <<attempts, people, staff, dayLeft>>

(* The refresh of the screen, with whatever token is stored.               *)
Poll(c) == SendFromTab(c, "poll")

(* logoutStaffSession; without a token it only does what ReloadTab does.   *)
Logout(c) == tab.token # None /\ SendFromTab(c, "logout")

(* JwtStrategy.validate *)
Valid(token) == token = version

Validate(c) ==
  /\ At(c, "poll", "sent")
  /\ GoTo(c, IF Valid(calls[c].seen) THEN "ok" ELSE "refused")
  /\ UNCHANGED <<attempts, people, staff, dayLeft>>

(* recordLogout; a token no longer valid is refused and changes nothing.   *)
RecordLogout(c) ==
  /\ At(c, "logout", "sent")
  /\ \/ Valid(calls[c].seen) /\ version < MaxVersion /\ version' = version + 1
     \/ ~Valid(calls[c].seen) /\ UNCHANGED version
  /\ GoTo(c, "ok")
  /\ UNCHANGED <<attempts, people, tab, dayLeft>>

(* The account is logged out on another device.                            *)
OtherLogout ==
  /\ version < MaxVersion /\ version' = version + 1
  /\ UNCHANGED <<attempts, people, tab, calls, dayLeft>>

SignedOut == [token |-> None, screen |-> "login"]

\* Fault: a refused request shows its error and no more.
AfterUnauthorizedStays == tab

(* notifySessionExpired clears the session stored now, not the one that    *)
(* was refused, and every screen goes back to the login.                   *)
AfterUnauthorized == SignedOut

PollAnswered(c) ==
  /\ At(c, "poll", "ok") \/ At(c, "poll", "refused")
  /\ tab' = IF calls[c].step = "refused" THEN AfterUnauthorized ELSE tab
  /\ Answer(c)
  /\ UNCHANGED <<attempts, people, version, dayLeft>>

LogoutAnswered(c) ==
  /\ At(c, "logout", "ok")
  /\ tab' = SignedOut
  /\ Answer(c)
  /\ UNCHANGED <<attempts, people, version, dayLeft>>

(* The network fails: finally clears what is stored, but the rejection     *)
(* keeps the screen from leaving.                                          *)
LogoutFails(c) ==
  /\ At(c, "logout", "sent") \/ At(c, "logout", "ok")
  /\ tab' = [tab EXCEPT !.token = None]
  /\ Answer(c)
  /\ UNCHANGED <<attempts, people, version, dayLeft>>

(* A page loaded again, between its calls, shows what the stored token says. *)
ReloadTab ==
  /\ \A op \in {"staffLogin", "poll", "logout"} : ~Sending(op)
  /\ tab' = [tab EXCEPT !.screen = IF tab.token = None THEN "login" ELSE "work"]
  /\ tab' # tab
  /\ UNCHANGED <<attempts, people, version, calls, dayLeft>>

-----------------------------------------------------------------------------

(* Time passes; at the end of a day the next one begins.                   *)
Tick ==
  /\ attempts' = [k \in Throttled |-> [attempts[k] EXCEPT !.left = Greatest(0, @ - 1)]]
  /\ session' = IF session.left <= 1 THEN NoSession
                ELSE [session EXCEPT !.left = @ - 1, !.ofToday = @ /\ dayLeft > 1]
  /\ dayLeft' = IF dayLeft = 1 THEN DayLength ELSE dayLeft - 1
  /\ UNCHANGED <<record, staff, calls>>

(* A call comes in, and a call in flight goes on.                          *)
CallBegins(c) ==
  EnterQueue(c) \/ RegisterAtCheckin(c) \/ SubmitLogin(c) \/ Poll(c) \/ Logout(c)

CallGoesOn(c) ==
  \/ ReadGuestEntry(c) \/ ResolveGuest(c) \/ CreateGuest(c)
  \/ FindExisting(c) \/ CreateRepresentative(c)
  \/ AssertNotLocked(c) \/ FindAccount(c) \/ CompareLogin(c) \/ CompareStaffLogin(c)
  \/ SaveStaffSession(c) \/ Validate(c) \/ PollAnswered(c)
  \/ RecordLogout(c) \/ LogoutAnswered(c) \/ LogoutFails(c)

AccessNext ==
  \/ \E c \in Calls : CallBegins(c) \/ CallGoesOn(c)
  \/ ReloadTab \/ OtherLogout
  \/ Tick

(* Time passes, every call ends, and the screens of the desk are refreshed *)
(* every few seconds.  Nobody need log in, log out or enter.               *)
AccessSpec ==
  /\ AccessInit /\ [][AccessNext]_avars
  /\ WF_avars(Tick)
  /\ \A c \in Calls : WF_avars(CallGoesOn(c))
  /\ SF_avars(\E c \in Calls : Poll(c))

-----------------------------------------------------------------------------

(* A guest's session, which asks for no password, never belongs to a       *)
(* registered person, although the two may enter and register with one CPF *)
(* at the same time; nor a password's to a guest (auth.service.ts:174-207). *)
GuestSessionIsAGuests ==
  /\ session.by = "guestEntry" => record = "GUEST"
  /\ session.by = "password" => record = "REGISTERED"

(* A session ends with its business day, but for the floor that a login    *)
(* close to midnight is given (auth.service.ts:344-349).                   *)
SessionEndsWithItsDay == session.ofToday \/ session.left < MinSession

(* The lock is checked before an awaited comparison and counted after it:  *)
(* the calls in flight may exceed it, and no more than they.               *)
LockOvershootIsBounded ==
  \A k \in Throttled : attempts[k].failures < MaxFailures + Cardinality(Calls)

(* A locked account is let in again, however many calls were in flight.    *)
LockLifts == \A k \in Throttled : ~NotLocked(k) ~> NotLocked(k)

(* A screen whose session is no longer valid, logged out elsewhere or dead *)
(* when it arrived, does not stay broken: it goes back to the login, or    *)
(* holds a valid session again (session.ts:156-157).                       *)
DeadSessionReturnsToLogin ==
  tab.screen = "work" /\ ~Valid(tab.token) ~> tab.screen = "login" \/ Valid(tab.token)

==============================================================================

----------------------------- MODULE AccessProofs -----------------------------
(***************************************************************************)
(* The safety of Access for any number of calls in flight, and any limits, *)
(* windows and lengths of a day: what a call has read before an await may  *)
(* be old, and what it goes on to do is right all the same.                *)
(***************************************************************************)
EXTENDS Access, FiniteSetTheorems, TLAPS

-----------------------------------------------------------------------------
(* Types *)

StaffOps == {"staffLogin", "otherLogin", "poll", "logout"}
Ops == EntryOps \cup StaffOps \cup {"checkin"}
Steps ==
  {"idle", "entered", "allowed", "missing", "hashing", "admitted", "comparing",
   "signed", "sent", "ok", "refused"}
Kinds == {"GUEST", "REGISTERED"}

Attempts == [failures: Nat, left: 0 .. Window]
Session == [by: {None, "guestEntry", "password"}, left: Nat, ofToday: BOOLEAN]
Tab == [token: Nat \cup {None}, screen: {"login", "work"}]
Call ==
  [op: Ops \cup {None}, step: Steps, right: BOOLEAN, seen: Kinds \cup {None} \cup Nat]

(* A call of the staff has seen versions only, and a login that compares   *)
(* has read the account it is about.                                       *)
ReadsItsAccount(call) ==
  /\ call.op \in StaffOps => call.seen \in Nat \cup {None}
  /\ call.op \in {"staffLogin", "otherLogin"} /\ call.step \in {"comparing", "signed"} =>
       call.seen \in Nat

AccessTypeOK ==
  /\ attempts \in [Throttled -> Attempts]
  /\ record \in Kinds \cup {None}
  /\ session \in Session
  /\ version \in Nat
  /\ tab \in Tab
  /\ calls \in [Calls -> Call]
  /\ dayLeft \in 1 .. DayLength
  /\ \A c \in Calls : ReadsItsAccount(calls[c])

LEMMA Limits ==
  /\ MaxFailures \in Nat /\ MaxFailures >= 1 /\ Window \in Nat /\ EntryLife \in Nat
  /\ DayLength \in Nat /\ DayLength >= 1 /\ MinSession \in Nat /\ MinSession >= 1
BY TickAssumption

LEMMA SignType ==
  ASSUME AccessTypeOK, NEW by \in {"guestEntry", "password"}, Sign(by)
  PROVE  session' \in Session
BY TickAssumption DEF Sign, AccessTypeOK, Session, EntrySessionTtl, Greatest, Least

LEMMA ClearFailuresType ==
  ASSUME AccessTypeOK, NEW k, ClearFailures(k)
  PROVE  attempts' \in [Throttled -> Attempts]
BY TickAssumption DEF AccessTypeOK, ClearFailures, NoAttempts, Attempts

LEMMA RegisterFailureType ==
  ASSUME AccessTypeOK, NEW k, RegisterFailure(k)
  PROVE  attempts' \in [Throttled -> Attempts]
BY TickAssumption DEF AccessTypeOK, RegisterFailure, Attempts

(* A call is written to one of these. *)
LEMMA MoveType ==
  ASSUME AccessTypeOK, NEW c \in Calls, NEW call \in Call, ReadsItsAccount(call), Move(c, call)
  PROVE  calls' \in [Calls -> Call] /\ \A d \in Calls : ReadsItsAccount(calls'[d])
BY DEF AccessTypeOK, Move

LEMMA AnswerType ==
  ASSUME AccessTypeOK, NEW c \in Calls, Answer(c)
  PROVE  calls' \in [Calls -> Call] /\ \A d \in Calls : ReadsItsAccount(calls'[d])
<1>1. Idle \in Call /\ ReadsItsAccount(Idle)
  BY DEF Idle, Call, Steps, ReadsItsAccount
<1>2. QED
  BY <1>1, MoveType DEF Answer, Move

LEMMA EnterType ==
  ASSUME AccessTypeOK, NEW c \in Calls, NEW op \in Ops, NEW right \in BOOLEAN,
         Enter(c, op, right)
  PROVE  calls' \in [Calls -> Call] /\ \A d \in Calls : ReadsItsAccount(calls'[d])
<1>. DEFINE entered == [op |-> op, step |-> "entered", right |-> right, seen |-> None]
<1>2. entered \in Call
  BY DEF Call, Steps
<1>3. ReadsItsAccount(entered)
  BY DEF ReadsItsAccount
<1>4. QED
  BY <1>2, <1>3, MoveType DEF Enter

(* Going on, a call keeps what it is about and what it has seen.           *)
LEMMA GoToType ==
  ASSUME AccessTypeOK, NEW c \in Calls, NEW step \in Steps \ {"idle", "comparing"},
         GoTo(c, step), step = "signed" => calls[c].step = "comparing"
  PROVE  calls' \in [Calls -> Call] /\ \A d \in Calls : ReadsItsAccount(calls'[d])
<1>. DEFINE call == [calls[c] EXCEPT !.step = step]
<1>1. calls[c] \in Call /\ ReadsItsAccount(calls[c])
  BY DEF AccessTypeOK
<1>4. call \in Call /\ ReadsItsAccount(call)
  BY <1>1 DEF Call, ReadsItsAccount
<1>2. Move(c, call)
  BY DEF GoTo
<1>. HIDE DEF call
<1>3. QED
  BY <1>2, <1>4, MoveType

(* Each step keeps the types. *)
LEMMA AccessTypeStep ==
  ASSUME AccessTypeOK, [AccessNext]_avars
  PROVE  AccessTypeOK'
<1>. DEFINE CallsTyped == calls' \in [Calls -> Call] /\ \A d \in Calls : ReadsItsAccount(calls'[d])
<1>1. ASSUME NEW c \in Calls, CallBegins(c)
      PROVE  AccessTypeOK'
  <2>1. UNCHANGED <<attempts, people, staff, dayLeft>>
    BY <1>1 DEF CallBegins, EnterQueue, RegisterAtCheckin, SubmitLogin, Poll, Logout, SendFromTab
  <2>2. CASE EnterQueue(c) \/ RegisterAtCheckin(c) \/ SubmitLogin(c)
    <3>1. \E op \in Ops, right \in BOOLEAN : Enter(c, op, right)
      BY <2>2 DEF EnterQueue, RegisterAtCheckin, SubmitLogin, Ops, StaffOps
    <3>2. CallsTyped
      BY <3>1, EnterType
    <3>3. QED
      BY <2>1, <3>2 DEF AccessTypeOK, people, staff
  <2>3. ASSUME NEW op \in {"poll", "logout"}, SendFromTab(c, op)
        PROVE  CallsTyped
    <3>. DEFINE sent == [op |-> op, step |-> "sent", right |-> FALSE, seen |-> tab.token]
    <3>1. sent \in Call /\ ReadsItsAccount(sent)
      BY DEF AccessTypeOK, Tab, Call, Steps, Ops, StaffOps, ReadsItsAccount
    <3>2. QED
      BY <2>3, <3>1, MoveType DEF SendFromTab
  <2>4. CASE Poll(c) \/ Logout(c)
    BY <2>1, <2>3, <2>4 DEF Poll, Logout, AccessTypeOK, people, staff
  <2>5. QED
    BY <1>1, <2>2, <2>4 DEF CallBegins
<1>2. ASSUME NEW c \in Calls, ReadGuestEntry(c) \/ ResolveGuest(c) \/ CreateGuest(c)
      PROVE  AccessTypeOK'
  <2>1. UNCHANGED <<attempts, staff, dayLeft>> /\ record' \in Kinds \cup {None}
    BY <1>2 DEF ReadGuestEntry, ResolveGuest, CreateGuest, people, AccessTypeOK, Kinds
  <2>2. session' \in Session
    BY <1>2, SignType
       DEF ReadGuestEntry, ResolveGuest, CreateGuest, AfterGuestConflict, people, AccessTypeOK
  <2>3. \/ Answer(c)
        \/ \E step \in {"allowed", "missing"} : GoTo(c, step)
    BY <1>2 DEF ReadGuestEntry, ResolveGuest, CreateGuest, AfterGuestConflict
  <2>4. CallsTyped
    BY <2>3, AnswerType, GoToType DEF Steps
  <2>5. QED
    BY <2>1, <2>2, <2>4 DEF AccessTypeOK, staff
<1>3. ASSUME NEW c \in Calls, FindExisting(c) \/ CreateRepresentative(c)
      PROVE  AccessTypeOK'
  <2>1. UNCHANGED <<attempts, staff, dayLeft>> /\ record' \in Kinds \cup {None}
    BY <1>3 DEF FindExisting, CreateRepresentative, people, AccessTypeOK, Kinds
  <2>2. session' \in Session
    BY <1>3, SignType DEF FindExisting, CreateRepresentative, people, AccessTypeOK
  <2>3. Answer(c) \/ GoTo(c, "hashing")
    BY <1>3 DEF FindExisting, CreateRepresentative
  <2>4. CallsTyped
    BY <2>3, AnswerType, GoToType DEF Steps
  <2>5. QED
    BY <2>1, <2>2, <2>4 DEF AccessTypeOK, staff
<1>4. ASSUME NEW c \in Calls, AssertNotLocked(c)
      PROVE  AccessTypeOK'
  <2>1. attempts' \in [Throttled -> Attempts]
    BY <1>4, ClearFailuresType DEF AssertNotLocked, AccessTypeOK
  <2>2. Answer(c) \/ GoTo(c, "admitted")
    BY <1>4 DEF AssertNotLocked
  <2>3. CallsTyped
    BY <2>2, AnswerType, GoToType DEF Steps
  <2>4. QED
    BY <1>4, <2>1, <2>3 DEF AssertNotLocked, AccessTypeOK, people, staff
<1>5. ASSUME NEW c \in Calls, FindAccount(c)
      PROVE  AccessTypeOK'
  <2>. DEFINE seen == IF calls[c].op = "login" THEN record ELSE version
              call == [calls[c] EXCEPT !.step = "comparing", !.seen = seen]
  <2>4. calls[c] \in Call /\ ReadsItsAccount(calls[c])
    BY DEF AccessTypeOK
  <2>5. "login" \notin StaffOps
    BY DEF StaffOps
  <2>1. call \in Call /\ ReadsItsAccount(call)
    BY <2>4, <2>5 DEF AccessTypeOK, Call, Steps, ReadsItsAccount
  <2>2. Move(c, call)
    BY <1>5 DEF FindAccount
  <2>. HIDE DEF call
  <2>3. CallsTyped
    BY <2>1, <2>2, MoveType
  <2>6. QED
    BY <1>5, <2>3 DEF FindAccount, AccessTypeOK, people, staff
<1>6. ASSUME NEW c \in Calls, CompareLogin(c)
      PROVE  AccessTypeOK'
  <2>1. attempts' \in [Throttled -> Attempts]
    BY <1>6, ClearFailuresType, RegisterFailureType DEF CompareLogin
  <2>2. session' \in Session
    BY <1>6, SignType DEF CompareLogin, AccessTypeOK
  <2>3. CallsTyped
    BY <1>6, AnswerType DEF CompareLogin
  <2>4. QED
    BY <1>6, <2>1, <2>2, <2>3 DEF CompareLogin, AccessTypeOK, staff
<1>7. ASSUME NEW c \in Calls, CompareStaffLogin(c)
      PROVE  AccessTypeOK'
  <2>1. attempts' \in [Throttled -> Attempts]
    BY <1>7, ClearFailuresType, RegisterFailureType DEF CompareStaffLogin
  <2>2. Answer(c) \/ (calls[c].step = "comparing" /\ GoTo(c, "signed"))
    BY <1>7 DEF CompareStaffLogin, At
  <2>3. CallsTyped
    BY <2>2, AnswerType, GoToType DEF Steps
  <2>4. QED
    BY <1>7, <2>1, <2>3 DEF CompareStaffLogin, AccessTypeOK, people, staff
<1>8. ASSUME NEW c \in Calls, SaveStaffSession(c)
      PROVE  AccessTypeOK'
  <2>1. calls[c].seen \in Nat
    BY <1>8 DEF SaveStaffSession, At, AccessTypeOK, ReadsItsAccount
  <2>2. CallsTyped
    BY <1>8, AnswerType DEF SaveStaffSession
  <2>3. QED
    BY <1>8, <2>1, <2>2 DEF SaveStaffSession, AccessTypeOK, people, Tab
<1>9. ASSUME NEW c \in Calls, Validate(c) \/ RecordLogout(c)
      PROVE  AccessTypeOK'
  <2>1. version' \in Nat
    BY <1>9 DEF Validate, RecordLogout, AccessTypeOK, staff
  <2>2. \E step \in {"ok", "refused"} : GoTo(c, step)
    BY <1>9 DEF Validate, RecordLogout
  <2>3. CallsTyped
    BY <2>2, GoToType DEF Steps
  <2>4. QED
    BY <1>9, <2>1, <2>3 DEF Validate, RecordLogout, AccessTypeOK, people, staff
<1>10. ASSUME NEW c \in Calls, PollAnswered(c) \/ LogoutAnswered(c) \/ LogoutFails(c)
       PROVE  AccessTypeOK'
  <2>1. tab' \in Tab
    BY <1>10 DEF PollAnswered, LogoutAnswered, LogoutFails, AfterUnauthorized, SignedOut,
                 AccessTypeOK, Tab
  <2>2. CallsTyped
    BY <1>10, AnswerType DEF PollAnswered, LogoutAnswered, LogoutFails
  <2>3. QED
    BY <1>10, <2>1, <2>2
       DEF PollAnswered, LogoutAnswered, LogoutFails, AccessTypeOK, people
<1>11. CASE ReloadTab
  BY <1>11 DEF ReloadTab, AccessTypeOK, people, Tab
<1>12. CASE OtherLogout
  BY <1>12 DEF OtherLogout, AccessTypeOK, people
<1>13. CASE Tick
  <2>1. \A k \in Throttled : [attempts[k] EXCEPT !.left = Greatest(0, @ - 1)] \in Attempts
    BY TickAssumption DEF AccessTypeOK, Attempts, Greatest
  <2>2. attempts' \in [Throttled -> Attempts]
    BY <1>13, <2>1 DEF Tick
  <2>3. session' \in Session
    <3>. DEFINE left == session.left - 1
                ofToday == session.ofToday /\ dayLeft > 1
    <3>1. session \in Session /\ NoSession \in Session
      BY DEF AccessTypeOK, Session, NoSession
    <3>2. CASE session.left <= 1
      BY <1>13, <3>1, <3>2 DEF Tick
    <3>3. CASE ~(session.left <= 1)
      <4>1. left \in Nat /\ ofToday \in BOOLEAN
        BY <3>1, <3>3 DEF Session
      <4>2. session' = [session EXCEPT !.left = left, !.ofToday = ofToday]
        BY <1>13, <3>3 DEF Tick
      <4>. HIDE DEF left, ofToday
      <4>3. QED
        BY <3>1, <4>1, <4>2 DEF Session
    <3>4. QED
      BY <3>2, <3>3
  <2>4. dayLeft' \in 1 .. DayLength
    BY <1>13, TickAssumption DEF Tick, AccessTypeOK
  <2>5. QED
    BY <1>13, <2>2, <2>3, <2>4 DEF Tick, AccessTypeOK, staff
<1>14. CASE UNCHANGED avars
  BY <1>14 DEF avars, people, staff, AccessTypeOK
<1>15. QED
  BY <1>1, <1>2, <1>3, <1>4, <1>5, <1>6, <1>7, <1>8, <1>9, <1>10, <1>11, <1>12, <1>13, <1>14
     DEF AccessNext, CallGoesOn

LEMMA AccessTypesAtInit ==
  ASSUME AccessInit
  PROVE  AccessTypeOK
BY TickAssumption
   DEF AccessInit, AccessTypeOK, NoAttempts, Attempts, NoSession, Session, Tab, Idle, Call,
       Steps, ReadsItsAccount, StaffOps

(* What a login holds when it comes to compare, and what the tab stores,   *)
(* is of the right kind (auth.service.ts:273-317).                         *)
THEOREM AccessTypes == AccessSpec => []AccessTypeOK
<1>1. AccessInit => AccessTypeOK
  BY AccessTypesAtInit
<1>2. AccessTypeOK /\ [AccessNext]_avars => AccessTypeOK'
  BY AccessTypeStep
<1>3. QED
  BY <1>1, <1>2, PTL DEF AccessSpec

-----------------------------------------------------------------------------
(* Who the session of a phone belongs to                                   *)

(* A person who is there stays what she is, so that a login that found her *)
(* before the comparison still knows her after it.                         *)
LoginsKnowTheRecord ==
  \A c \in Calls :
    At(c, "login", "comparing") /\ calls[c].seen # None => record = calls[c].seen

GuestInv == AccessTypeOK /\ GuestSessionIsAGuests /\ LoginsKnowTheRecord

RecordStays == record \in Kinds => record' = record

(* A session is new only to the person it is signed for.                   *)
SignsForItsOwner ==
  \/ session'.by = session.by \/ session'.by = None
  \/ session'.by = "guestEntry" /\ record' = "GUEST"
  \/ session'.by = "password" /\ record' = "REGISTERED"

NobodyComesToCompare ==
  \A d \in Calls :
    calls'[d].op = "login" /\ calls'[d].step = "comparing" => calls'[d] = calls[d]

LEMMA GuestStep ==
  ASSUME GuestInv, RecordStays, SignsForItsOwner, NobodyComesToCompare
  PROVE  GuestSessionIsAGuests' /\ LoginsKnowTheRecord'
<1>1. GuestSessionIsAGuests'
  BY NoneAssumption
     DEF GuestInv, GuestSessionIsAGuests, RecordStays, SignsForItsOwner, Kinds
<1>2. LoginsKnowTheRecord'
  <2>. SUFFICES ASSUME NEW c \in Calls, calls'[c].op = "login", calls'[c].step = "comparing",
                       calls'[c].seen # None
                PROVE  record' = calls'[c].seen
    BY DEF LoginsKnowTheRecord, At
  <2>1. calls'[c] = calls[c]
    BY DEF NobodyComesToCompare
  <2>2. record = calls[c].seen
    BY <2>1 DEF GuestInv, LoginsKnowTheRecord, At
  <2>3. record \in Kinds
    BY <2>1, <2>2 DEF GuestInv, AccessTypeOK
  <2>4. QED
    BY <2>1, <2>2, <2>3 DEF RecordStays
<1>3. QED
  BY <1>1, <1>2

LEMMA SignSigns ==
  ASSUME NEW by, Sign(by)
  PROVE  session'.by = by
BY DEF Sign

(* What a call writes of itself is not a login at its comparison, but in   *)
(* FindAccount.                                                            *)
LEMMA NobodyCompares ==
  ASSUME AccessTypeOK, NEW c \in Calls,
         \/ Answer(c)
         \/ \E step \in Steps \ {"comparing"} : GoTo(c, step)
         \/ \E op \in Ops, right \in BOOLEAN : Enter(c, op, right)
  PROVE  NobodyComesToCompare
<1>1. calls'[c].step # "comparing"
  BY DEF AccessTypeOK, Call, Answer, Idle, GoTo, Enter, Move
<1>2. \A d \in Calls \ {c} : calls'[d] = calls[d]
  BY DEF AccessTypeOK, Answer, GoTo, Enter, Move
<1>3. QED
  BY <1>1, <1>2 DEF NobodyComesToCompare

LEMMA GuestStaysGuest ==
  ASSUME GuestInv, [AccessNext]_avars
  PROVE  GuestInv'
<1>. USE DEF GuestInv
<1>1. AccessTypeOK'
  BY AccessTypeStep
<1>. SUFFICES GuestSessionIsAGuests' /\ LoginsKnowTheRecord'
  BY <1>1
<1>2. ASSUME UNCHANGED people, NobodyComesToCompare
      PROVE  GuestSessionIsAGuests' /\ LoginsKnowTheRecord'
  BY <1>2, GuestStep DEF people, RecordStays, SignsForItsOwner
<1>3. ASSUME NEW c \in Calls, CallBegins(c)
      PROVE  GuestSessionIsAGuests' /\ LoginsKnowTheRecord'
  <2>1. UNCHANGED people
    BY <1>3 DEF CallBegins, EnterQueue, RegisterAtCheckin, SubmitLogin, Poll, Logout, SendFromTab
  <2>2. \/ \E op \in Ops, right \in BOOLEAN : Enter(c, op, right)
        \/ \E op \in {"poll", "logout"} : SendFromTab(c, op)
    BY <1>3 DEF CallBegins, EnterQueue, RegisterAtCheckin, SubmitLogin, Poll, Logout, Ops, StaffOps
  <2>3. NobodyComesToCompare
    <3>1. CASE \E op \in {"poll", "logout"} : SendFromTab(c, op)
      BY <3>1 DEF SendFromTab, Move, NobodyComesToCompare, AccessTypeOK
    <3>2. QED
      BY <2>2, <3>1, NobodyCompares
  <2>4. QED
    BY <1>2, <2>1, <2>3
<1>4. ASSUME NEW c \in Calls, ReadGuestEntry(c) \/ ResolveGuest(c) \/ CreateGuest(c)
      PROVE  GuestSessionIsAGuests' /\ LoginsKnowTheRecord'
  <2>1. RecordStays
    BY <1>4, NoneAssumption
       DEF ReadGuestEntry, ResolveGuest, CreateGuest, people, RecordStays, Kinds
  <2>2. SignsForItsOwner
    BY <1>4, SignSigns, NoneAssumption
       DEF ReadGuestEntry, ResolveGuest, CreateGuest, AfterGuestConflict, people, SignsForItsOwner
  <2>3. NobodyComesToCompare
    BY <1>4, NobodyCompares
       DEF ReadGuestEntry, ResolveGuest, CreateGuest, AfterGuestConflict, Steps
  <2>4. QED
    BY <2>1, <2>2, <2>3, GuestStep
<1>5. ASSUME NEW c \in Calls, FindExisting(c) \/ CreateRepresentative(c)
      PROVE  GuestSessionIsAGuests' /\ LoginsKnowTheRecord'
  <2>1. RecordStays
    BY <1>5, NoneAssumption DEF FindExisting, CreateRepresentative, people, RecordStays, Kinds
  <2>2. SignsForItsOwner
    BY <1>5, SignSigns DEF FindExisting, CreateRepresentative, people, SignsForItsOwner
  <2>3. NobodyComesToCompare
    BY <1>5, NobodyCompares DEF FindExisting, CreateRepresentative, Steps
  <2>4. QED
    BY <2>1, <2>2, <2>3, GuestStep
<1>6. ASSUME NEW c \in Calls, FindAccount(c)
      PROVE  GuestSessionIsAGuests' /\ LoginsKnowTheRecord'
  <2>1. UNCHANGED people
    BY <1>6 DEF FindAccount
  <2>2. \A d \in Calls \ {c} : calls'[d] = calls[d]
    BY <1>6 DEF FindAccount, Move, AccessTypeOK
  <2>3. calls'[c].op = "login" => calls'[c].seen = record
    BY <1>6 DEF FindAccount, Move, AccessTypeOK, Call
  <2>4. QED
    BY <2>1, <2>2, <2>3 DEF people, GuestSessionIsAGuests, LoginsKnowTheRecord, At
<1>7. ASSUME NEW c \in Calls, CompareLogin(c)
      PROVE  GuestSessionIsAGuests' /\ LoginsKnowTheRecord'
  <2>1. calls[c].seen = "REGISTERED" => record = "REGISTERED"
    BY <1>7, NoneAssumption DEF CompareLogin, LoginsKnowTheRecord
  <2>2. SignsForItsOwner
    BY <1>7, <2>1, SignSigns DEF CompareLogin, SignsForItsOwner
  <2>3. NobodyComesToCompare
    BY <1>7, NobodyCompares DEF CompareLogin
  <2>4. QED
    BY <1>7, <2>2, <2>3, GuestStep DEF CompareLogin, RecordStays
<1>8. ASSUME NEW c \in Calls,
             \/ AssertNotLocked(c) \/ CompareStaffLogin(c) \/ SaveStaffSession(c)
             \/ Validate(c) \/ RecordLogout(c)
             \/ PollAnswered(c) \/ LogoutAnswered(c) \/ LogoutFails(c)
      PROVE  GuestSessionIsAGuests' /\ LoginsKnowTheRecord'
  <2>1. UNCHANGED people
    BY <1>8 DEF AssertNotLocked, CompareStaffLogin, SaveStaffSession, Validate, RecordLogout,
                PollAnswered, LogoutAnswered, LogoutFails
  <2>2. Answer(c) \/ \E step \in {"admitted", "signed", "ok", "refused"} : GoTo(c, step)
    BY <1>8 DEF AssertNotLocked, CompareStaffLogin, SaveStaffSession, Validate, RecordLogout,
                PollAnswered, LogoutAnswered, LogoutFails
  <2>3. NobodyComesToCompare
    BY <2>2, NobodyCompares DEF Steps
  <2>4. QED
    BY <1>2, <2>1, <2>3
<1>9. CASE Tick
  BY <1>9, GuestStep
     DEF Tick, NoSession, RecordStays, SignsForItsOwner, NobodyComesToCompare, AccessTypeOK, Session
<1>10. CASE ReloadTab \/ OtherLogout \/ UNCHANGED avars
  BY <1>2, <1>10 DEF ReloadTab, OtherLogout, avars, NobodyComesToCompare
<1>11. QED
  BY <1>3, <1>4, <1>5, <1>6, <1>7, <1>8, <1>9, <1>10 DEF AccessNext, CallGoesOn

(* However entries, registrations and logins with one CPF overlap, a       *)
(* session that asked for no password belongs to a guest, and one given    *)
(* for a password to a registered person (auth.service.ts:174-207).        *)
THEOREM SessionsBelongToTheirOwners == AccessSpec => []GuestSessionIsAGuests
<1>1. AccessInit => GuestInv
  <2>. SUFFICES ASSUME AccessInit PROVE GuestInv
    OBVIOUS
  <2>1. AccessTypeOK
    BY AccessTypesAtInit
  <2>2. QED
    BY <2>1, NoneAssumption
       DEF AccessInit, GuestInv, GuestSessionIsAGuests, LoginsKnowTheRecord, At, NoSession, Idle
<1>2. GuestInv /\ [AccessNext]_avars => GuestInv'
  BY GuestStaysGuest
<1>3. QED
  BY <1>1, <1>2, PTL DEF AccessSpec, GuestInv

-----------------------------------------------------------------------------
(* How long a session lasts                                                *)

(* A session given today ends with the day, or with the floor.             *)
SessionFitsTheDay ==
  session.ofToday => session.left <= MinSession \/ session.left <= dayLeft

SessionInv == AccessTypeOK /\ SessionEndsWithItsDay /\ SessionFitsTheDay

(* Only Tick does more to the session than sign a new one. *)
LEMMA OnlySignsSessions ==
  ASSUME NEW c \in Calls, CallBegins(c) \/ CallGoesOn(c)
  PROVE  UNCHANGED dayLeft /\ (UNCHANGED session \/ \E by \in {"guestEntry", "password"} : Sign(by))
<1>1. CASE CallBegins(c)
  BY <1>1
     DEF CallBegins, EnterQueue, RegisterAtCheckin, SubmitLogin, Poll, Logout, SendFromTab, people
<1>2. CASE ReadGuestEntry(c) \/ ResolveGuest(c) \/ CreateGuest(c)
  BY <1>2 DEF ReadGuestEntry, ResolveGuest, CreateGuest, AfterGuestConflict, people
<1>3. CASE FindExisting(c) \/ CreateRepresentative(c)
  BY <1>3 DEF FindExisting, CreateRepresentative, people
<1>4. CASE AssertNotLocked(c) \/ FindAccount(c) \/ CompareLogin(c) \/ CompareStaffLogin(c)
  BY <1>4 DEF AssertNotLocked, FindAccount, CompareLogin, CompareStaffLogin, people
<1>5. CASE \/ SaveStaffSession(c) \/ Validate(c) \/ PollAnswered(c)
           \/ RecordLogout(c) \/ LogoutAnswered(c) \/ LogoutFails(c)
  BY <1>5 DEF SaveStaffSession, Validate, PollAnswered, RecordLogout, LogoutAnswered,
              LogoutFails, people
<1>6. QED
  BY <1>1, <1>2, <1>3, <1>4, <1>5 DEF CallGoesOn

LEMMA SessionStep ==
  ASSUME SessionInv, [AccessNext]_avars
  PROVE  SessionInv'
<1>. USE DEF SessionInv, SessionEndsWithItsDay, SessionFitsTheDay
<1>1. AccessTypeOK'
  BY AccessTypeStep
<1>. SUFFICES SessionEndsWithItsDay' /\ SessionFitsTheDay'
  BY <1>1
<1>2. ASSUME NEW by, Sign(by), UNCHANGED dayLeft
      PROVE  SessionEndsWithItsDay' /\ SessionFitsTheDay'
  <2>1. PICK entry \in 0 .. EntryLife :
          session' = [by |-> by, left |-> EntrySessionTtl(entry), ofToday |-> TRUE]
    BY <1>2 DEF Sign
  <2>. DEFINE ttl == EntrySessionTtl(entry)
  <2>2. ttl <= MinSession \/ ttl <= dayLeft
    <3>1. dayLeft \in Nat /\ entry \in Int
      BY DEF AccessTypeOK
    <3>2. QED
      BY <3>1, Limits DEF EntrySessionTtl, Greatest, Least
  <2>. HIDE DEF ttl
  <2>3. session'.ofToday /\ session'.left = ttl
    BY <2>1 DEF ttl
  <2>4. QED
    BY <1>2, <2>2, <2>3
<1>3. ASSUME UNCHANGED <<session, dayLeft>>
      PROVE  SessionEndsWithItsDay' /\ SessionFitsTheDay'
  BY <1>3
<1>4. CASE Tick
  <2>1. CASE session.left <= 1
    <3>1. session' = NoSession
      BY <1>4, <2>1 DEF Tick
    <3>2. session'.ofToday /\ session'.left <= MinSession
      BY <3>1, Limits DEF NoSession
    <3>3. QED
      BY <3>2
  <2>2. CASE ~(session.left <= 1)
    <3>. DEFINE left == session.left - 1
                ofToday == session.ofToday /\ dayLeft > 1
    <3>1. session.left \in Nat /\ dayLeft \in Nat /\ dayLeft >= 1 /\ session \in Session
      BY DEF AccessTypeOK, Session
    <3>2. session' = [session EXCEPT !.left = left, !.ofToday = ofToday]
      BY <1>4, <2>2 DEF Tick
    <3>3. dayLeft' = IF dayLeft = 1 THEN DayLength ELSE dayLeft - 1
      BY <1>4 DEF Tick
    <3>4. ofToday => left <= MinSession \/ left <= dayLeft'
      BY <3>1, <3>3, Limits
    <3>5. ofToday \/ left < MinSession
      BY <3>1, Limits
    <3>. HIDE DEF left, ofToday
    <3>6. session'.left = left /\ (session'.ofToday <=> ofToday)
      BY <3>1, <3>2 DEF Session
    <3>7. QED
      BY <3>4, <3>5, <3>6
  <2>3. QED
    BY <2>1, <2>2
<1>5. QED
  BY <1>1, <1>2, <1>3, <1>4, OnlySignsSessions
     DEF AccessNext, ReloadTab, OtherLogout, avars, people

(* A session lasts no longer than its business day, or than the floor that *)
(* a login close to midnight is given (auth.service.ts:344-349).           *)
THEOREM SessionsEndWithTheirDay == AccessSpec => []SessionEndsWithItsDay
<1>1. AccessInit => SessionInv
  BY AccessTypesAtInit, Limits
     DEF AccessInit, SessionInv, SessionEndsWithItsDay, SessionFitsTheDay, NoSession, Greatest
<1>2. SessionInv /\ [AccessNext]_avars => SessionInv'
  BY SessionStep
<1>3. QED
  BY <1>1, <1>2, PTL DEF AccessSpec, SessionInv

-----------------------------------------------------------------------------
(* The lock after failed logins                                            *)

KeyOf(call) == IF call.op = "login" THEN "re" ELSE "staff"

(* The calls that the lock of k has let through and that may still fail.   *)
PastTheCheck(k) ==
  {c \in Calls : calls[c].step \in {"admitted", "comparing"} /\ KeyOf(calls[c]) = k}

(* What has been counted and what may still be.                            *)
FailuresToCome ==
  \A k \in Throttled :
    attempts[k].failures + Cardinality(PastTheCheck(k)) < MaxFailures + Cardinality(Calls)

LockInv == AccessTypeOK /\ FailuresToCome

LEMMA CountsAreFinite ==
  ASSUME NEW k
  PROVE  /\ IsFiniteSet(PastTheCheck(k)) /\ Cardinality(PastTheCheck(k)) \in Nat
         /\ Cardinality(Calls) \in Nat
         /\ Cardinality(PastTheCheck(k)) <= Cardinality(Calls)
<1>1. PastTheCheck(k) \subseteq Calls
  BY DEF PastTheCheck
<1>2. QED
  BY <1>1, CallsAssumption, FS_Subset, FS_CardinalityType

LEMMA CountsAreFiniteAfter ==
  ASSUME NEW k
  PROVE  /\ Cardinality(PastTheCheck(k)') \in Nat
         /\ Cardinality(PastTheCheck(k)') <= Cardinality(Calls)
<1>1. PastTheCheck(k)' \subseteq Calls
  BY DEF PastTheCheck
<1>2. QED
  BY <1>1, CallsAssumption, FS_Subset, FS_CardinalityType

(* Below the limit, all the calls may fail at once. *)
LEMMA BelowTheLimit ==
  ASSUME LockInv, NEW k \in Throttled, attempts'[k].failures \in Nat,
         attempts'[k].failures < MaxFailures
  PROVE  attempts'[k].failures + Cardinality(PastTheCheck(k)')
           < MaxFailures + Cardinality(Calls)
<1>1. Cardinality(PastTheCheck(k)') \in Nat /\ Cardinality(Calls) \in Nat
  BY CountsAreFinite, CountsAreFiniteAfter
<1>2. Cardinality(PastTheCheck(k)') <= Cardinality(Calls)
  BY CountsAreFiniteAfter
<1>3. QED
  BY <1>1, <1>2, Limits

(* No new failure, and no new call let through. *)
LEMMA NothingToCount ==
  ASSUME LockInv, NEW k \in Throttled, attempts'[k].failures = attempts[k].failures,
         PastTheCheck(k)' \subseteq PastTheCheck(k)
  PROVE  attempts'[k].failures + Cardinality(PastTheCheck(k)')
           < MaxFailures + Cardinality(Calls)
<1>1. Cardinality(PastTheCheck(k)') <= Cardinality(PastTheCheck(k))
  BY CountsAreFinite, FS_Subset
<1>2. attempts[k].failures \in Nat
  BY DEF LockInv, AccessTypeOK, Attempts
<1>3. QED
  BY <1>1, <1>2, CountsAreFinite, CountsAreFiniteAfter, Limits DEF LockInv, FailuresToCome

(* A failure is counted for a call that is past the check no more. *)
LEMMA FailureIsCounted ==
  ASSUME LockInv, NEW c \in Calls, NEW k \in Throttled, c \in PastTheCheck(k),
         PastTheCheck(k)' \subseteq PastTheCheck(k) \ {c}, RegisterFailure(k)
  PROVE  attempts'[k].failures + Cardinality(PastTheCheck(k)')
           < MaxFailures + Cardinality(Calls)
<1>1. /\ IsFiniteSet(PastTheCheck(k) \ {c})
      /\ Cardinality(PastTheCheck(k) \ {c}) = Cardinality(PastTheCheck(k)) - 1
  BY CountsAreFinite, FS_RemoveElement
<1>2. Cardinality(PastTheCheck(k)') <= Cardinality(PastTheCheck(k)) - 1
  BY <1>1, FS_Subset
<1>3. attempts'[k].failures \in {1, attempts[k].failures + 1} /\ attempts[k].failures \in Nat
  BY DEF LockInv, AccessTypeOK, Attempts, RegisterFailure
<1>4. attempts[k].failures + Cardinality(PastTheCheck(k)) < MaxFailures + Cardinality(Calls)
  BY DEF LockInv, FailuresToCome
<1>5. QED
  BY <1>2, <1>3, <1>4, CountsAreFinite, CountsAreFiniteAfter, Limits

(* Only these calls are let through. *)
LetsThrough(c) ==
  /\ \A d \in Calls \ {c} : calls'[d] = calls[d]
  /\ calls'[c].step \in {"admitted", "comparing"} =>
       c \in PastTheCheck(KeyOf(calls'[c]))

LEMMA LetsThroughNobodyNew ==
  ASSUME NEW c \in Calls, LetsThrough(c), NEW k
  PROVE  PastTheCheck(k)' \subseteq PastTheCheck(k)
<1>. SUFFICES ASSUME NEW d \in Calls, calls'[d].step \in {"admitted", "comparing"},
                     KeyOf(calls'[d]) = k
              PROVE  d \in PastTheCheck(k)
  BY DEF PastTheCheck, KeyOf
<1>1. QED
  BY DEF LetsThrough, PastTheCheck

LEMMA LockStep ==
  ASSUME LockInv, [AccessNext]_avars
  PROVE  LockInv'
<1>1. AccessTypeOK /\ AccessTypeOK'
  BY AccessTypeStep DEF LockInv
<1>. SUFFICES ASSUME NEW k \in Throttled
              PROVE  attempts'[k].failures + Cardinality(PastTheCheck(k)')
                       < MaxFailures + Cardinality(Calls)
  BY <1>1 DEF LockInv, FailuresToCome
<1>. DEFINE Fine == attempts'[k].failures + Cardinality(PastTheCheck(k)')
                      < MaxFailures + Cardinality(Calls)
<1>2. ASSUME NEW c \in Calls, LetsThrough(c), UNCHANGED attempts
      PROVE  Fine
  BY <1>2, LetsThroughNobodyNew, NothingToCount
<1>3. ASSUME NEW c \in Calls, NEW step \in Steps \ {"admitted", "comparing"},
             Answer(c) \/ GoTo(c, step) \/ \E op, right : Enter(c, op, right)
      PROVE  LetsThrough(c) /\ c \notin PastTheCheck(k)'
  <2>1. calls'[c].step \notin {"admitted", "comparing"}
    BY <1>1, <1>3 DEF Answer, Idle, GoTo, Enter, Move, AccessTypeOK, Call
  <2>2. \A d \in Calls \ {c} : calls'[d] = calls[d]
    BY <1>1, <1>3 DEF Answer, GoTo, Enter, Move, AccessTypeOK
  <2>3. QED
    BY <2>1, <2>2 DEF LetsThrough, PastTheCheck
<1>4. ASSUME NEW c \in Calls, CallBegins(c)
      PROVE  Fine
  <2>1. UNCHANGED attempts
    BY <1>4 DEF CallBegins, EnterQueue, RegisterAtCheckin, SubmitLogin, Poll, Logout, SendFromTab
  <2>2. \/ \E op, right : Enter(c, op, right)
        \/ \E op : SendFromTab(c, op)
    BY <1>4 DEF CallBegins, EnterQueue, RegisterAtCheckin, SubmitLogin, Poll, Logout
  <2>3. ASSUME NEW op, SendFromTab(c, op)
        PROVE  LetsThrough(c)
    BY <1>1, <2>3 DEF SendFromTab, Move, LetsThrough, AccessTypeOK
  <2>4. LetsThrough(c)
    BY <1>3, <2>2, <2>3 DEF Steps
  <2>5. QED
    BY <1>2, <2>1, <2>4
<1>5. ASSUME NEW c \in Calls,
             \/ ReadGuestEntry(c) \/ ResolveGuest(c) \/ CreateGuest(c)
             \/ FindExisting(c) \/ CreateRepresentative(c)
             \/ SaveStaffSession(c) \/ Validate(c) \/ PollAnswered(c)
             \/ RecordLogout(c) \/ LogoutAnswered(c) \/ LogoutFails(c)
      PROVE  Fine
  <2>1. UNCHANGED attempts
    BY <1>5 DEF ReadGuestEntry, ResolveGuest, CreateGuest, FindExisting, CreateRepresentative,
                SaveStaffSession, Validate, PollAnswered, RecordLogout, LogoutAnswered, LogoutFails
  <2>2. \/ Answer(c)
        \/ \E step \in {"allowed", "missing", "hashing", "ok", "refused"} : GoTo(c, step)
    BY <1>5 DEF ReadGuestEntry, ResolveGuest, CreateGuest, AfterGuestConflict, FindExisting,
                CreateRepresentative, SaveStaffSession, Validate, PollAnswered, RecordLogout,
                LogoutAnswered, LogoutFails
  <2>3. LetsThrough(c)
    BY <1>3, <2>2 DEF Steps
  <2>4. QED
    BY <1>2, <2>1, <2>3
<1>6. ASSUME NEW c \in Calls, AssertNotLocked(c)
      PROVE  Fine
  <2>. DEFINE key == IF calls[c].op = "login" THEN "re" ELSE "staff"
  <2>1. CASE ~NotLocked(key)
    <3>1. Answer(c) /\ UNCHANGED attempts
      BY <1>6, <2>1 DEF AssertNotLocked
    <3>2. QED
      BY <1>2, <1>3, <3>1 DEF Steps
  <2>2. CASE NotLocked(key) /\ key = k
    <3>1. attempts'[k].failures < MaxFailures
      BY <1>1, <1>6, <2>2, Limits
         DEF AssertNotLocked, NotLocked, ClearFailures, NoAttempts, AccessTypeOK, Attempts
    <3>2. attempts'[k].failures \in Nat
      BY <1>1 DEF AccessTypeOK, Attempts
    <3>3. QED
      BY <3>1, <3>2, BelowTheLimit
  <2>3. CASE NotLocked(key) /\ key # k
    <3>1. attempts'[k] = attempts[k]
      BY <1>1, <1>6, <2>3 DEF AssertNotLocked, ClearFailures, AccessTypeOK
    <3>2. calls' = [calls EXCEPT ![c] = [calls[c] EXCEPT !.step = "admitted"]]
      BY <1>6, <2>3 DEF AssertNotLocked, GoTo, Move
    <3>3. KeyOf(calls'[c]) # k /\ \A d \in Calls \ {c} : calls'[d] = calls[d]
      BY <1>1, <2>3, <3>2 DEF AccessTypeOK, Call, KeyOf
    <3>4. PastTheCheck(k)' \subseteq PastTheCheck(k)
      BY <3>3 DEF PastTheCheck, KeyOf
    <3>5. QED
      BY <3>1, <3>4, NothingToCount
  <2>4. QED
    BY <2>1, <2>2, <2>3
<1>7. ASSUME NEW c \in Calls, FindAccount(c)
      PROVE  Fine
  <2>1. \A d \in Calls \ {c} : calls'[d] = calls[d]
    BY <1>1, <1>7 DEF FindAccount, Move, AccessTypeOK
  <2>2. calls'[c].op = calls[c].op /\ calls[c].step = "admitted"
    BY <1>1, <1>7 DEF FindAccount, Move, AccessTypeOK, Call
  <2>3. LetsThrough(c)
    BY <2>1, <2>2 DEF LetsThrough, PastTheCheck, KeyOf
  <2>4. QED
    BY <1>2, <1>7, <2>3 DEF FindAccount
<1>8. ASSUME NEW c \in Calls, CompareLogin(c) \/ CompareStaffLogin(c)
      PROVE  Fine
  <2>. DEFINE key == KeyOf(calls[c])
  <2>1. c \in PastTheCheck(key)
    BY <1>8 DEF CompareLogin, CompareStaffLogin, At, PastTheCheck
  <2>2. Answer(c) \/ GoTo(c, "signed")
    BY <1>8 DEF CompareLogin, CompareStaffLogin
  <2>3. LetsThrough(c) /\ c \notin PastTheCheck(k)'
    BY <1>3, <2>2 DEF Steps
  <2>4. PastTheCheck(k)' \subseteq PastTheCheck(k) \ {c}
    BY <2>3, LetsThroughNobodyNew
  <2>5. ClearFailures(key) \/ RegisterFailure(key)
    BY <1>8 DEF CompareLogin, CompareStaffLogin, At, KeyOf
  <2>. HIDE DEF key
  <2>6. CASE key # k
    <3>1. attempts'[k] = attempts[k]
      BY <1>1, <2>5, <2>6 DEF ClearFailures, RegisterFailure, AccessTypeOK
    <3>2. QED
      BY <2>4, <3>1, NothingToCount
  <2>7. CASE key = k /\ ClearFailures(k)
    <3>1. attempts'[k].failures = 0
      BY <1>1, <2>7 DEF ClearFailures, NoAttempts, AccessTypeOK
    <3>2. QED
      BY <3>1, BelowTheLimit, Limits
  <2>8. CASE key = k /\ RegisterFailure(k)
    BY <2>1, <2>4, <2>8, FailureIsCounted
  <2>9. QED
    BY <2>5, <2>6, <2>7, <2>8
<1>9. CASE Tick
  <2>1. attempts'[k].failures = attempts[k].failures
    BY <1>1, <1>9 DEF Tick, AccessTypeOK, Attempts
  <2>2. PastTheCheck(k)' \subseteq PastTheCheck(k)
    BY <1>9 DEF Tick, PastTheCheck, KeyOf
  <2>3. QED
    BY <2>1, <2>2, NothingToCount
<1>10. CASE ReloadTab \/ OtherLogout \/ UNCHANGED avars
  <2>1. attempts' = attempts /\ calls' = calls
    BY <1>10 DEF ReloadTab, OtherLogout, avars
  <2>2. PastTheCheck(k)' \subseteq PastTheCheck(k)
    BY <2>1 DEF PastTheCheck, KeyOf
  <2>3. QED
    BY <2>1, <2>2, NothingToCount
<1>11. QED
  BY <1>4, <1>5, <1>6, <1>7, <1>8, <1>9, <1>10 DEF AccessNext, CallGoesOn

(* Logins that overlap may exceed the lock by as many failures as there    *)
(* are calls in flight, and by no more (login-throttle.service.ts).        *)
THEOREM LockHoldsBack == AccessSpec => []LockOvershootIsBounded
<1>1. AccessInit => LockInv
  <2>. SUFFICES ASSUME AccessInit PROVE LockInv
    OBVIOUS
  <2>1. AccessTypeOK
    BY AccessTypesAtInit
  <2>2. ASSUME NEW k \in Throttled
        PROVE  attempts[k].failures + Cardinality(PastTheCheck(k))
                 < MaxFailures + Cardinality(Calls)
    <3>1. attempts[k].failures = 0
      BY DEF AccessInit, NoAttempts
    <3>2. QED
      BY <3>1, CountsAreFinite, Limits
  <2>3. QED
    BY <2>1, <2>2 DEF LockInv, FailuresToCome
<1>2. LockInv /\ [AccessNext]_avars => LockInv'
  BY LockStep
<1>3. LockInv => LockOvershootIsBounded
  <2>. SUFFICES ASSUME LockInv, NEW k \in Throttled
                PROVE  attempts[k].failures < MaxFailures + Cardinality(Calls)
    BY DEF LockOvershootIsBounded
  <2>1. attempts[k].failures \in Nat
    BY DEF LockInv, AccessTypeOK, Attempts
  <2>2. QED
    BY <2>1, CountsAreFinite, Limits DEF LockInv, FailuresToCome
<1>4. QED
  BY <1>1, <1>2, <1>3, PTL DEF AccessSpec

-----------------------------------------------------------------------------
(* What a logout ends                                                      *)

Tokens == {tab.token} \cup {calls[c].seen : c \in {d \in Calls : calls[d].op \in StaffOps}}

TokensAreOfThePast == \A token \in Tokens : token = None \/ token <= version

VersionInv == AccessTypeOK /\ TokensAreOfThePast

(* No token is made up. *)
LEMMA NoTokenIsMadeUp ==
  ASSUME VersionInv, version' \in Nat, version <= version',
         \A token \in Tokens' : token \in Tokens \/ token \in {None, version}
  PROVE  TokensAreOfThePast'
<1>. SUFFICES ASSUME NEW token \in Tokens', token # None
              PROVE  token <= version'
  BY DEF TokensAreOfThePast, Tokens
<1>1. CASE token \in Tokens
  <2>1. token \in Nat /\ token <= version
    BY <1>1 DEF VersionInv, AccessTypeOK, ReadsItsAccount, Tab, Tokens, TokensAreOfThePast
  <2>2. QED
    BY <2>1 DEF VersionInv, AccessTypeOK
<1>2. CASE token = version
  BY <1>2
<1>3. QED
  BY <1>1, <1>2

(* The calls of the staff keep what they have seen, or start anew. *)
LEMMA MovesMakeUpNoToken ==
  ASSUME AccessTypeOK, NEW c \in Calls, tab'.token \in {None, tab.token},
         \/ Answer(c)
         \/ \E step : GoTo(c, step)
         \/ \E op, right : Enter(c, op, right)
  PROVE  \A token \in Tokens' : token \in Tokens \/ token = None
<1>1. calls'[c].seen = None \/ (calls'[c].op = calls[c].op /\ calls'[c].seen = calls[c].seen)
  BY DEF AccessTypeOK, Call, Answer, Idle, GoTo, Enter, Move
<1>2. \A d \in Calls \ {c} : calls'[d] = calls[d]
  BY DEF AccessTypeOK, Answer, GoTo, Enter, Move
<1>3. QED
  BY <1>1, <1>2 DEF Tokens, StaffOps

LEMMA VersionStep ==
  ASSUME VersionInv, [AccessNext]_avars
  PROVE  VersionInv'
<1>1. AccessTypeOK /\ AccessTypeOK'
  BY AccessTypeStep DEF VersionInv
<1>. SUFFICES TokensAreOfThePast'
  BY <1>1 DEF VersionInv
<1>. DEFINE Grows == version' \in Nat /\ version <= version'
            Honest == \A token \in Tokens' : token \in Tokens \/ token \in {None, version}
<1>2. Grows => (Honest => TokensAreOfThePast')
  BY NoTokenIsMadeUp
<1>3. UNCHANGED version => Grows
  BY <1>1 DEF AccessTypeOK
<1>4. ASSUME NEW c \in Calls, CallBegins(c)
      PROVE  TokensAreOfThePast'
  <2>1. UNCHANGED staff
    BY <1>4 DEF CallBegins, EnterQueue, RegisterAtCheckin, SubmitLogin, Poll, Logout, SendFromTab
  <2>2. ASSUME NEW op, SendFromTab(c, op)
        PROVE  Honest
    <3>1. calls'[c].seen = tab.token /\ \A d \in Calls \ {c} : calls'[d] = calls[d]
      BY <1>1, <2>2 DEF SendFromTab, Move, AccessTypeOK
    <3>2. QED
      BY <2>1, <3>1 DEF Tokens, StaffOps, staff
  <2>3. ASSUME NEW op, NEW right, Enter(c, op, right)
        PROVE  Honest
    BY <1>1, <2>1, <2>3, MovesMakeUpNoToken DEF staff
  <2>4. Honest
    BY <1>4, <2>2, <2>3
       DEF CallBegins, EnterQueue, RegisterAtCheckin, SubmitLogin, Poll, Logout
  <2>5. QED
    BY <1>2, <1>3, <2>1, <2>4 DEF staff
<1>5. ASSUME NEW c \in Calls,
             \/ ReadGuestEntry(c) \/ ResolveGuest(c) \/ CreateGuest(c)
             \/ FindExisting(c) \/ CreateRepresentative(c)
             \/ AssertNotLocked(c) \/ CompareLogin(c) \/ CompareStaffLogin(c)
             \/ Validate(c) \/ PollAnswered(c)
             \/ RecordLogout(c) \/ LogoutAnswered(c) \/ LogoutFails(c)
      PROVE  TokensAreOfThePast'
  <2>1. tab'.token \in {None, tab.token}
    BY <1>1, <1>5
       DEF ReadGuestEntry, ResolveGuest, CreateGuest, FindExisting, CreateRepresentative,
           AssertNotLocked, CompareLogin, CompareStaffLogin, Validate, PollAnswered, RecordLogout,
           LogoutAnswered, LogoutFails, AfterUnauthorized, SignedOut, staff, AccessTypeOK, Tab
  <2>2. Answer(c) \/ \E step : GoTo(c, step)
    BY <1>5
       DEF ReadGuestEntry, ResolveGuest, CreateGuest, AfterGuestConflict, FindExisting,
           CreateRepresentative, AssertNotLocked, CompareLogin, CompareStaffLogin, Validate,
           PollAnswered, RecordLogout, LogoutAnswered, LogoutFails
  <2>3. Honest
    BY <1>1, <2>1, <2>2, MovesMakeUpNoToken
  <2>4. Grows
    BY <1>1, <1>5
       DEF ReadGuestEntry, ResolveGuest, CreateGuest, FindExisting, CreateRepresentative,
           AssertNotLocked, CompareLogin, CompareStaffLogin, Validate, PollAnswered, RecordLogout,
           LogoutAnswered, LogoutFails, staff, AccessTypeOK
  <2>5. QED
    BY <1>2, <2>3, <2>4
<1>6. ASSUME NEW c \in Calls, FindAccount(c)
      PROVE  TokensAreOfThePast'
  <2>1. \A d \in Calls \ {c} : calls'[d] = calls[d]
    BY <1>1, <1>6 DEF FindAccount, Move, AccessTypeOK
  <2>2. calls'[c].op = calls[c].op /\ (calls[c].op # "login" => calls'[c].seen = version)
    BY <1>1, <1>6 DEF FindAccount, Move, AccessTypeOK, Call
  <2>3. UNCHANGED staff
    BY <1>6 DEF FindAccount
  <2>4. Honest
    BY <2>1, <2>2, <2>3 DEF Tokens, StaffOps, staff
  <2>5. QED
    BY <1>2, <1>3, <2>3, <2>4 DEF staff
<1>7. ASSUME NEW c \in Calls, SaveStaffSession(c)
      PROVE  TokensAreOfThePast'
  <2>1. /\ tab'.token = calls[c].seen /\ calls[c].op \in StaffOps
        /\ UNCHANGED version /\ Answer(c)
    BY <1>7 DEF SaveStaffSession, At, StaffOps
  <2>2. calls'[c] = Idle /\ \A d \in Calls \ {c} : calls'[d] = calls[d]
    BY <1>1, <2>1 DEF Answer, AccessTypeOK
  <2>3. Honest
    BY <2>1, <2>2 DEF Tokens, Idle
  <2>4. QED
    BY <1>2, <1>3, <2>1, <2>3
<1>8. CASE OtherLogout
  <2>1. Grows
    BY <1>1, <1>8 DEF OtherLogout, AccessTypeOK
  <2>2. Honest
    BY <1>8 DEF OtherLogout, Tokens
  <2>3. QED
    BY <1>2, <2>1, <2>2
<1>9. CASE ReloadTab \/ Tick \/ UNCHANGED avars
  <2>1. UNCHANGED <<version, calls>> /\ tab'.token = tab.token
    BY <1>1, <1>9 DEF ReloadTab, Tick, avars, staff, AccessTypeOK, Tab
  <2>2. QED
    BY <1>2, <1>3, <2>1 DEF Tokens
<1>10. QED
  BY <1>4, <1>5, <1>6, <1>7, <1>8, <1>9 DEF AccessNext, CallGoesOn

LEMMA OnlyLogoutsMoveTheVersion ==
  ASSUME [AccessNext]_avars, version' # version
  PROVE  OtherLogout \/ \E c \in Calls : RecordLogout(c)
<1>1. ASSUME NEW c \in Calls, CallBegins(c)
      PROVE  FALSE
  BY <1>1 DEF CallBegins, EnterQueue, RegisterAtCheckin, SubmitLogin, Poll, Logout, SendFromTab,
              staff
<1>2. ASSUME NEW c \in Calls, CallGoesOn(c), ~RecordLogout(c)
      PROVE  FALSE
  BY <1>2 DEF CallGoesOn, ReadGuestEntry, ResolveGuest, CreateGuest, FindExisting,
              CreateRepresentative, AssertNotLocked, FindAccount, CompareLogin, CompareStaffLogin,
              SaveStaffSession, Validate, PollAnswered, LogoutAnswered, LogoutFails, staff
<1>3. QED
  BY <1>1, <1>2 DEF AccessNext, ReloadTab, Tick, avars, staff

LEMMA LogoutStep ==
  ASSUME VersionInv, [AccessNext]_avars, version' # version, NEW token \in Tokens'
  PROVE  token # version'
<1>1. AccessTypeOK
  BY DEF VersionInv
<1>2. version' = version + 1 /\ version \in Nat
  BY <1>1, OnlyLogoutsMoveTheVersion DEF OtherLogout, RecordLogout, AccessTypeOK
<1>3. token \in Tokens \/ token = None
  <2>1. CASE OtherLogout
    BY <2>1 DEF OtherLogout, Tokens
  <2>2. ASSUME NEW c \in Calls, RecordLogout(c)
        PROVE  token \in Tokens \/ token = None
    BY <1>1, <2>2, MovesMakeUpNoToken DEF RecordLogout
  <2>3. QED
    BY <2>1, <2>2, OnlyLogoutsMoveTheVersion
<1>4. CASE token = None
  BY <1>2, <1>4, NoneAssumption
<1>5. CASE token \in Tokens /\ token # None
  <2>1. token \in Nat /\ token <= version
    BY <1>5 DEF VersionInv, AccessTypeOK, ReadsItsAccount, Tab, Tokens, TokensAreOfThePast
  <2>2. QED
    BY <1>2, <2>1
<1>6. QED
  BY <1>3, <1>4, <1>5

(* A logout ends every session of the account: no token given out before   *)
(* it, in the tab, on its way there or on its way to the server, is        *)
(* accepted after it (telemetry.service.ts:33-41, jwt.strategy.ts:42-52).  *)
LogoutEndsAllSessions ==
  [][version' # version => \A token \in Tokens' : token # version']_avars

THEOREM LogoutsEndAllSessions == AccessSpec => LogoutEndsAllSessions
<1>1. AccessInit => VersionInv
  <2>. SUFFICES ASSUME AccessInit PROVE VersionInv
    OBVIOUS
  <2>1. AccessTypeOK
    BY AccessTypesAtInit
  <2>2. QED
    BY <2>1 DEF AccessInit, VersionInv, TokensAreOfThePast, Tokens, Idle
<1>2. VersionInv /\ [AccessNext]_avars => VersionInv'
  BY VersionStep
<1>3. VersionInv /\ [AccessNext]_avars =>
        [version' # version => \A token \in Tokens' : token # version']_avars
  BY LogoutStep
<1>4. QED
  BY <1>1, <1>2, <1>3, PTL DEF AccessSpec, LogoutEndsAllSessions

==============================================================================

# VDmais fila inteligente: TLA+ models and proofs

A store (ER) hands out tickets to representatives (REs), calls them to its
counters (caixas) and opens and closes its day. The state is in PostgreSQL; the
backend (`src/apps/backend`) is a NestJS service whose handlers read rows, check
them, and write them in a transaction. Phones, operation and management pages and a
TV (`src/apps/frontend`) poll it and listen to its events. The difficulty is between
the read and the write, and between the answer and the screen: other requests,
timeouts, midnight, retries and lost messages come in between.

This directory holds the models of that system, the TLC runs that check them, and
machine-checked proofs. `PROJECT.json` lists the components, the runs, the source
lines of every definition, the hazards, the findings and the theorems.

## 1. The system

| component | state | operations | modelled |
|---|---|---|---|
| tickets (`ticket.service.ts`) | table `tickets` | create, selfCancel, cancel, restore, recall, startService, finishService, noShow, advanceToInService, completeService, correct, pause, resume, staffPause, staffResume, setTicketPriority, expire on read | yes |
| call timeout sweep (`ticket-timeout.service.ts`) | none | every minute: overdue calls to no-show | yes |
| queue (`queue.service.ts`) | table `queues` (one row per business date) | callNext, overview | yes |
| counters (`counter.service.ts`) | table `counters` | open, pause, resume, close, force release | yes |
| ER day (`er.service.ts`, `business-date.ts`) | table `ers` | openDay, closeDay | yes |
| schema (`prisma/`) | constraints | unique owner of a counter, foreign keys; partial unique index on active tickets | partly |
| integration (`integration.service.ts`) | none | iniciar / encerrar in the name of a billing system, retried | yes |
| admin (`admin.service.ts`) | ERs, counters, staff | create and delete counters; edit ERs and staff | counters |
| panel (gateway, service, token, `PanelPage.tsx`) | socket rooms, TV snapshot, token | join, emit, snapshot, reconnect, rotate | yes |
| RE screen (`QueueEntryPage`, `TicketConfirmationPage`) | sessionStorage, last ticket shown | enter, poll, pause, leave, reload | yes |
| staff screens (`OperationPage`, `ManagerPage`, others) | last overview, picked counter, dialogs | the commands they offer | operation and management |
| authentication (`auth/`) | throttle map, sessions, session versions | login, guest entry, register, staff login, logout | yes |
| metrics, audit log | audit rows | log, pair rows into samples | rows about tickets |
| telemetry, observability | none | `recordLogout`; logs and counters | `recordLogout` |
| simulation, operator list, guards | none | | no |

Interaction: the screens call the REST handlers; the integration calls
`TicketService`; a cron (1 min) and an interval (15 s) expire calls and pauses; RE
polls expire her own ticket too. All meet only in the database. After the commit a
handler emits socket events, on which the screens reload.

Hard behaviours, with lines in `PROJECT.json` "hazards": rows read before a
transaction and used in it (stale counter ids, stale business date), updates by id
without a guard, closing the day against openings and calls, midnight while the day
is open or a ticket paused, recalls racing the sweep, sequences taken by transactions
that then lose their race, days reopened, served tickets restored; counters deleted
under a call; calls of the billing system repeated; answers of polls out of order,
reloads of a page after a lost answer, dialogs open while the desk goes on, events
lost with the socket, tokens rotated under a connected TV; logins counted after an
await, a 401 that arrives after the next login, two first entries with one CPF.

What makes each component correct:

- tickets: one active ticket per RE; unique places; newcomers go behind; a served
  ticket never returns; a ticket in the line names no counter; a service is undone only
  by a release.
- counters: busy exactly while one ticket is at them; one owner; one open ticket per
  operator; an overdue call or pause comes to an end.
- day: a closed day leaves no counter owned; a day opened today holds no ticket of an
  earlier one.
- queue view: the position shown is the rank in which the ticket is called, and the
  TV leads with the next call.
- RE screen: a reload never enqueues; the screen settles, catches up, and rings.
- staff screens: what is offered on fresh data is accepted; an operator finds her
  open ticket.
- boards: every change is announced; they catch up; a revoked one goes dark.
- integration and trail: rows and tickets balance; the metrics of a date measure the
  services the panel averages; a refusal means that it is not done.
- access: no session of a registered person without her password; sessions end with the
  day; the lock is overshot only by the calls in flight, and lifts; a dead session leads
  back to the login.

## 2. Modules

The core:

| module | content |
|---|---|
| `TicketStore` | the rows (`tickets`, `counters`, `queues`, `er`, `today`), one operator per transaction, and the invariants over rows |
| `TicketQueue` (extends it) | requests that do not overlap: one action per whole handler, `Spec`, `RowsAreConsistent`, action properties |
| `TicketQueueConcurrent` (extends it) | requests in flight: `Begin...` reads and checks, `Commit...` is the transaction, `Abort` is rollback; any other request may run whole in between; `CSpec` |
| `ServiceDesk` | abstract: for each ticket its stage of life, its holder and its operator, and the ten moves the desk promises; no positions, counters, days or clocks |
| `DeskRefinement` | `TicketQueue` implements `ServiceDesk` (`LifeOf`, `ServerOf`), and what its timeouts must bring about |

Around it:

| module | over | content |
|---|---|---|
| `CounterAdmin` | `DeskRefinement` | `createCounter`, and `deleteCounter` as a check and a later delete by id |
| `RepresentativeScreen` | `ServiceDesk` | the phone of one RE: both pages, sessionStorage, the entry effect, the poll loop, refetch, commands; each request is sent, handled, answered |
| `StaffScreens` | `TicketQueue` | pages as functions of the overview last loaded; `Ask` picks a command, `Send` brings it to the handler at a later moment |
| `BoardViews` | `DeskRefinement` | the lists the TV and the dashboards show, the events each handler emits and each page listens to |
| `Boards` | `BoardViews` | one screen: its socket, its room, the debounce, the interval, and reloads that overlap, fail, mix two moments and are answered out of order |
| `AuditTrail` | `TicketQueue` | the audit rows of every handler, folded as `_calculateDurations` does, one date at a time |
| `IntegrationClient` | `AuditTrail` | a call of the billing system: resolve, read, commit, and read again after a lost race; the answer lost and the call sent again |
| `Access` | (itself) | logins and entries split at their awaits, the throttle, session lifetimes and versions, the staff tab |

`BoardViews` is the part of the panel and overview that is a pure function of the rows,
so `queue_midnight` also checks `TVLeadsWithTheNextCall` with it. `RepresentativeScreen`
is over the abstract desk, not over the tables: since `TicketQueue` implements it
(checked, and proved in section 4), whatever the handlers do is among its steps, and the phone
has room for its own interleavings.

Proofs: `TicketQueueProofs` (requests that do not overlap), `TicketQueueConcurrentProofs`
and `OverlapProofs` (requests that do), `DeskProofs` (the refinement, with and without
overlaps, what it is worth, the admin, the boards), `AuditTrailProofs` (the trail and the billing system), `StaffScreensProofs`,
`RepresentativeScreenProofs`, `AccessProofs`. The `MC...` modules hold symmetry sets for TLC.

State and code. A ticket row keeps its state, RE, business date (its queue), place,
code, priority, counter, operator, whether `serviceStartedAt` is set, and `overdue`:
whether `_isCallExpired` or `_isPauseExpired` would answer yes, which `ToleranceElapses`
makes true at any time and a recall, resume or new state resets. `Midnight` advances
the date `getBusinessDate` returns. `None` is NULL. One ER is modelled: every query
filters by `erId`. A refused request changes none of these rows and is no action.

A transaction takes as `pre` the row its handler read before. `TicketQueue` passes the
current row; `TicketQueueConcurrent` the row of the time of the read. Names are those
of the methods.

Overlap (READ COMMITTED). A guarded `updateMany` evaluates its WHERE on the row it
locks, so guard and write are one step. `callNext` holds its counter from its checks to
its commit (`LockedCounters`); writes to that counter wait. `create`, `restore`,
`openDay` and `closeDay` hold the ER row FOR UPDATE. Every other transaction inserts an
audit row whose foreign key on `ers` takes that row FOR KEY SHARE, so none commits
between their first check and their commit: they are one step after the lock, and the
only thing they bring from before is the business date. Statements of other
transactions inside that window are reads or writes not yet committed, which is what a
request in flight already stands for; the deadlocks this can produce end in `Abort`.

Audit rows. `AuditTrail` does not keep the rows: the metrics of a date are a fold over
the rows of that date in order, so it keeps the accumulators and moves them with each row
(`Log`). `clocks` and `samples` are those of `_calculateDurations`, and start empty at
midnight (`NextWindow`) as the query asks for the rows of one date; `within` counts all
rows. Beside them `Dates` keeps which tickets have a `serviceStartedAt` of today, which is
what the panel selects by, and which joined the line today: the panel reads columns and
the metrics rows, and neither knows of the other. The instant of a row and that of the
columns written with it are taken as one, so that midnight does not fall between them. The
rows a handler writes are in `TicketRow`, `CallRow`, `ReleaseRow` and `DayRows`.

Time in `Access` is a number of ticks left; the countdowns of the phone compare a
server date with the phone's clock and may reach zero at any time.

Definitions marked `\* Fault:` are plausible mistakes, used by no specification: each
run's property is tried against one of them to see that it can fail.

## 3. Runs

All runs check deadlock. Bounds: `MaxDay` business days, `MaxSequence` places per
queue, `Procs` or `Requests` requests in flight. Two tickets are enough for every
pairwise property; one request in flight (two in `counter_hand_over`) plus any sequence
of whole requests between its read and its commit gives every pair of overlapping
requests, since the other of the pair may always be taken to run whole inside, or to be
the one in flight.

| run | bounds | shows |
|---|---|---|
| `line_order` | 3 tickets, 3 REs, 1 day, 4 places | `PositionIsCallRank` and `NewcomersQueueBehind`; three tickets so that both priorities and two of one kind occur, four places so that a ticket can come back |
| `queue_midnight` | 2 tickets, 2 REs, 2 counters, 2 operators, 2 days | the rows and the TV stay in step across a midnight; `RowsAreConsistent` is the inductive invariant of section 4 |
| `service_races` | 2 tickets without priority, 2 counters, 1 operator; 12 kinds of request in flight | an operator never has two open tickets, a ticket in the line no counter, a service is undone only by a forced release and paused only by a pause that found it begun, under overlap |
| `counter_hand_over` | 2 tickets, 3 places, 1 counter, 2 operators; two requests in flight among calls, closings of the counter, expired pauses and closings of the day | `CounterServesItsTicket` and `NewcomersQueueBehind` survive these races |
| `one_active_ticket` | 1 RE, 2 tickets, 2 days; create, restore, openDay, expiry in flight | `OneActivePerRep` and `PlacesAreUnique` with dates from before midnight, without the partial unique index |
| `desk_fair` | 2 tickets, 1 counter, 3 places | counters deleted under the requests: `ImplementsDesk` still holds, overdue calls and pauses end; three places so that a pause can come back |
| `phone` | 2 tickets, one RE and phone, entry by link | a reload never makes a ticket; FINISHED is only shown when true; the page settles, catches up and rings; two tickets so that a new one follows a lost or ended one |
| `staff_screens` | 2 tickets, 1 counter, 1 operator and the manager | fresh pages offer only what the handlers accept; the open ticket is on the operator's page |
| `boards` | 1 ticket, 1 counter, 2 reloads in flight; TV and dashboard | changes are announced, screens catch up, a revoked screen goes dark; two reloads are the least that can be answered out of order |
| `integration` | 2 tickets without priority, 1 RE, 2 dates, 3 places, 1 call of the billing system | rows and tickets balance, the metrics of each date agree with the panel, a refusal means not done; see below for the bounds |
| `access` | 2 calls in flight, limit of 1 failure, window of 1 tick, days of 3, session floor 2, entry token 3, 1 logout | guests never get a registered person's session, sessions end with the day, the lock is overshot by less than the calls in flight and lifts, dead sessions lead to the login |
| `force_release_served` | 2 tickets, 1 counter; a forced release in flight | violated: a service begun or ended while the release ran is recorded as a no-show |

`CounterServesItsTicket` under overlap is checked in the races of `counter_hand_over`
only: other races break it, as the findings below show. `NoPriorities` leaves priorities,
which only order the line, to the runs about the line. In `integration` three places let
a ticket come back while the other one is there; `FewPlacesAfterMidnight` stops at two
places given out in all once the second date has begun, two tickets or one that comes back.
One call is in flight in steps; a repetition that overtakes it is `AdvanceToInService` or
`CompleteService` of `AuditNext`, which run whole between any two of its steps, so two
calls that overlap are covered. In `access` a day of 3, a floor
of 2 and an entry token of up to 3 let each of the three decide how long a session lives.
`Overlap = FALSE` in `phone` keeps a command and a refetch from being in flight together;
each still overlaps polls. Bounds of the screens: one TV or dashboard is enough since
screens do not meet; one phone since REs meet only at the desk.

`BoardTypeOK`, `IntegrationTypeOK` and `DeskTypeOK` document the types of those modules.

**Fairness.** Only what the code schedules by itself:

- `CounterAdmin`: weak fairness of `ExpireCall` and `ExpirePause`. The
  cron of `TicketTimeoutService` runs every minute and sweeps all overdue calls; an
  interval of 15 s expires the pauses; both go on whatever users do, and try again what
  failed (a failure ends that sweep for the tickets after it, so failures are taken not
  to repeat for ever). Nothing is assumed of staff or REs: a call is ended with the operator gone.
- `RepresentativeScreen`: the browser runs the effect and the timers that are due
  (`EntryEffect`, `PollTick`), every request ends (`LoadHandled` or `LoadLost`,
  `LoadArrives`, `PollArrives`), and of polls sent again and again some are handled
  (strong fairness of `PollHandled`).
- `Boards`: weak fairness of the 15 s `Interval` and of the arrival of answers, strong
  fairness of `ReadRest` (of reloads sent again and again some are read to the end);
  nothing of the socket, which may stay down or swallow every event.
- `Access`: time passes, calls end, and the tab of the desk polls again (strong fairness,
  since another call may hold the slot); nobody need log in or out.

Properties that speak of catching up (`ScreenCatchesUp`, `BoardCatchesUp`) are about what
is shown once the desk stays as it is, the only moment at which a poll can be right.

**Statements of the repository that are violated.** One is a run; the others are
definitions whose comment quotes the statement, and TLC finds them violated when they
are added to a cfg as said here.

| property | add to | statement | what happens |
|---|---|---|---|
| `ForceReleaseKeepsServiceRecord` | (run) | `counter.service.ts:198-203` | a service begun or ended while the release ran is recorded as a no-show |
| `ConflictMeansOpenedToday` (INVARIANT) | `queue_midnight.cfg` | `er.service.ts:68-70` | a queue row made after midnight (create, restore, expired pause) turns yesterday's flag into "already open": today cannot be opened, so yesterday's tickets and counters are not resolved |
| `ClosingTheDayLeavesNobodyInLine` | `queue_midnight.cfg` | `docs/mvp.md:580-581` | the closing after midnight counts only the new date and closes over people in the line |
| `ResumedTicketIsInTodaysQueue` | `queue_midnight.cfg` | `ticket.service.ts:1138-1142, 1167-1170` | a manual resume keeps yesterday's queue, which `callNext` never reads |
| `SweepSparesRecalledCalls` | `force_release_served.cfg`, `Overlapping = {"expireCall"}` | `ticket-timeout.service.ts:36-40` | a recall between the sweep's read and write is lost: no-show |
| `ClosedDayShutsEveryCounter` (INVARIANT) | the same, `{"openCounter"}` | `er.service.ts:209-210`, `docs/mvp.md:584-586` | a counter checked before and opened after the closing stays open in a closed day |
| `StaffPauseFreesOnlyItsOwnCounter` | the same, `{"staffPause"}`, 2 counters, 2 operators, 3 places | `ticket.service.ts:1105-1106` | the pause frees a counter that serves another ticket by now |
| `DeletionSparesServingCounters` | `desk_fair.cfg` | `admin.service.ts:176` | the foreign key is ON DELETE SET NULL: a counter opened, or calling, since the check is deleted under its ticket |
| `FinishedIsMeasured` | `integration.cfg` | `docs/mvp.md:923-924` | a service that midnight divides is counted as finished and is in the average of neither date: the rows of one date are folded at a time |
| `RestoreComesBack` | `phone.cfg`, `LinkEntry = FALSE` | `ticket.service.ts:744-749` | the status is that of the newest ticket; an older one, restored, is not shown |
| `CancelNeverEndsAService` | `staff_screens.cfg` | `ManagerPage.tsx:180-183` | a dialog opened on a call is confirmed during the service, and `/cancel` accepts it |

Also: the tooltip at `AdminPage.tsx:624` says an overdue pause is cancelled; it returns to
the line. Without any race the closed day can show an ACTIVE counter (with no operator):
a ticket left in service by a closing after midnight writes ACTIVE when it ends. A
repeated `encerrar` names the RE, not the ticket, so a repetition that arrives when she
is served again ends the later service.

## 4. Proofs

The proofs hold for every value of the constants under the named assumptions of the
modules: `None` and `Staff` are no members of the other sets, the set of tickets is finite
(used for the cardinality in the position), the bounds are positive naturals, `Overlapping`
names kinds of requests (`TicketStore`, `TicketQueueConcurrent`); the phone's RE is one of
the REs and there is a ticket (`RepresentativeScreen`); the calls in flight are finitely many
and the floor of a late login is no longer than a day (`Access`).

**Requests that do not overlap.** None of the invariants is inductive by itself:
`CounterServesItsTicket` after `callNext` needs that the operator has no other ticket
and owns one counter; after `closeDay` and `openDay` it needs that tickets left at
counters are of earlier days (`ClosedDayLeavesOnlyEarlierCalls`) and that opening today
resolves them, which needs the order of dates (`DatesAreOrdered`); unique places need
that every ticket hangs on an existing queue. `RowsAgree` is the conjunction of these, and
`RowsAreConsistent` adds that a day opened today holds no active ticket of an earlier one.
`TicketQueueProofs` proves both initially true and preserved action by action (`StepAgrees`,
`Consistency`), and reads off `TypeCorrect`, `OneActive`, `CountersServe`, `PlacesUnique`,
`NoStaleTicket`; `PositionShown` (the count bucket by bucket equals one plus the number of
tickets called before), `NewcomersBehind`, `ServedStays`, and `CodesDiffer`: the first
25,974 places of a day have different codes. `OneHead`: a queue with somebody in the line has
exactly one ticket that no other precedes, so `callNext` always finds one and has no choice
(the lowest place exists since `<` on the naturals is well-founded). `FreeCounters`: while the
day is open a counter nobody holds is UNAVAILABLE, the only state `openCounter` takes one in;
handlers write the state of a counter by its id alone, and the proof is that it has an owner.

**Refinement.** `QueueImplementsDesk`: `Spec => Desk!DeskSpec`. The invariant is `DeskInv`:
types, and `StartsAreDated` (`serviceStartedAt` is set exactly from the start of a service
on), which tells a cancelled ticket that may come back from one that may not. Lemmas say
what a write to one ticket, or to the stale or served tickets of a day, is to the desk
(`WriteLeaves`, `WritesLeave`, `WriteUnseen`), and each handler is one of them.
`AdminImplementsDesk` does the same for `AdminSpec`: there a counter can vanish under the
ticket that names it, so `RowsAgree` fails, but the foreign key only clears the name of the
counter and the desk does not see it. `ClosedDayUnowned` and `OneOpenTicket` follow from
`RowsAreConsistent`.

The lemmas are about transactions, for any `pre` and any date, so they serve `CSpec` too. A
commit guarded by its update is the move it was meant to be or, when it lost a race, none; a
call is one because of `CallsHoldTheirCounters`; `create`, `restore`, `openDay` and `closeDay`
check under their lock. The forced release is the exception: it writes what it read
(`counter.service.ts:205-229`), so it can end again a ticket that was over, or end as finished
one that is out of service (`LateRelease`; TLC reaches it in the race of
`force_release_served`). `COverlapMovesTheDesk` says that this is the only one: every step of
`CSpec`, over all kinds of requests, is a move of the desk, a stutter or a `LateRelease`; hence
`COverlapImplementsDesk`: `NoReleaseOverlaps /\ CSpec => ImplementsDesk`.

`DeskPromises` says what the abstract specification is worth: whatever keeps its types and
implements the desk, however it is built, has `OneActivePerRep`, `OneOpenTicketPerOperator`
and `ServedTicketNeverReturns`. So these hold of `AdminSpec` (`AdminKeepsPromises`), for which
`RowsAgree` is of no use, and the last of requests that overlap (`CServedStays`).

**What is shown of the rows.** `TVLeads`: the list the TV builds and the order `callNext`
takes are two sorts written apart; they agree on the head once today is open, because then
no waiting ticket of an earlier day is left (`NoStaleTicket`) and places are unique.
`BoardsOnlyLook`: `BoardSpec => Spec`, so what is proved of the rows holds behind any board.
`EveryChangeIsAnnounced` goes through the handlers, and for each either shows that no list of a
board changes, or names the event it emits and the page that listens.

**Staff screens.** A page asks for a command from what it saw, and the command reaches the
handler later: `ScreensImplementQueue` is `ScreensSpec => Spec`, so a late command is refused or
does what a fresh one does. `ScreensTypes` and `ScreensKeepTheRows` come from `ScreensInv`
(rows, picked counters, asked commands). `HerTicketIsShown` is the part of
`OpenTicketIsOnHerPage` that speaks of the state: while the day is open every open ticket is on
the refreshed page of its operator, with its button, and the guards of the handler behind the
button are met. It rests on `CounterServesItsTicket`.

`OffersMeetGuards` is `OfferedMeansAccepted` without ENABLED: `MeetsGuards` lists what the
handler of each command asks of the rows, and `HandlerMeetsGuards` shows that it asks no less
(that it asks no more, `MeetsGuards(u, command) <=> ENABLED Handle(u, command)`, TLC found to
hold in all states of `TicketQueue` with 2 tickets, 1 counter and 2 days). The rules a page
repeats are narrower than those of the services, and what the page leaves out follows from the
rows: an own counter means that the day is open (`ClosedDayLeavesNoOwner`), an idle one that
its operator has no open ticket (`CounterServesItsTicket`), a free one that it can be opened
(`FreeCounters`), a line that somebody can be called (`OneHead`). The attempt to prove it for
any `MaxDay` showed one case the run, on one date, does not meet: a pause that runs out after
midnight puts a ticket in the line of the new date while the day is closed, and the management
page offers pauses of it which the handlers refuse (`PausesOfClosedDay`).

**The phone.** `ScreenInv` is the types of the desk, of both pages and of the requests, with
what a form leaves in the session. `ScreenTypes` follows; `FinalScreensAreFinal` and
`OnlyEntriesEnqueue` use it with two facts: a finished ticket stays finished
(`DeskKeeps`), and a pending mark in the session stands for an entry not posted for yet:
only the entry effect sends the POST, and it takes the mark away.

**The trail.** `TrailBalanced`: for every ticket the entries recorded less the exits
recorded are one while it is active and zero otherwise. `MetricsAgreed`: the
fold of the rows of a date has one sample of each ticket the panel averages on that date,
with its call and its wait if it joined the line on it, and none of any other; this holds
for any number of dates, and says of a service that midnight divides that it is in neither.
The invariant `TrailInv` adds to the balance what today's rows hold of a ticket, given its
state and which of its dates are of today (`ClocksFollow`, `SamplesFollow`); midnight
empties both sides (`NextWindowKeepsTrail`). `Told` relates the rows of a
step to how it moves a ticket; rows that tell the truth keep `TrailInv`, and each handler
is shown to tell it. That needs `RowsAreConsistent` of the state before: a forced release
must find the ticket it names active, an opening those of earlier days.

The billing system writes from a row it read earlier. `IntegrationInv` is types, `TrailInv`
and `RequestsFit`: the ticket a request has resolved is one of its RE. It gives
`BilledTrailBalanced` and `BilledMetricsAgreed` (the guarded update lets one of two racing ends
through, and only that one writes audit rows), and `RefusalsTrue`: while what a call asks for
is done, each of its reads, the one after a lost race included, finds its ticket and answers
so.

**Access.** Four invariants, one for each question. `GuestInv`: a record that
is there keeps its kind (`RecordStays`), so a login that read it before the comparison of
hashes knows it after (`SessionsBelongToTheirOwners`). `SessionInv`: what is left of a
session fits into what is left of the day or into the floor (`SessionsEndWithTheirDay`).
`LockInv` bounds the failures of a window by the limit and the logins that passed the throttle before it was reached, a
cardinality over the calls in flight (`LockHoldsBack`). `VersionInv`: every token, in the tab
or in a call, is of a version up to the account's, so the increment of a logout makes all of
them stale (`LogoutsEndAllSessions`, an action property no run states).

**Overlapping requests.** Much of `RowsAreConsistent` is false here. `LineInv` keeps the
part about the line (types, one active ticket per RE, places below the sequence and
unique, unlinked queued tickets) and what a request in flight still knows:
`RequestsAreFormed` (the fields its kind uses are set) and `ReadRowsRemain` (the row it
read still exists). Each transaction, with any stale `pre`, is shown to be a `LineStep`,
and every `LineStep` preserves the line. Results: `CTypeCorrect`, `COneActive`,
`CPlacesUnique`, `CQueuedUnlinked`, `CNewcomersBehind`, `CPositionShown` and `COneHead` (the
rank and the head need unique places only). `COneActive` says the lock on
the ER and the guards suffice: the partial unique index is a second line of defence.

`COneOpenTicket`. The check of `callNext` is about the operator, its lock
is on the counter. `OperatorInv` adds to `LineInv` that owners are unique, that an open ticket
has an operator, and `CallsHoldTheirCounters`: the counter of a call in flight is ACTIVE
under its operator, who has no open ticket, and two calls hold two counters. A step calls
nobody, opens a counter or is a call; a call for the same operator would have been at the
locked counter, since nobody owns two (`COwnersUnique`).

`CServiceLostOnlyToARelease`. A service is paused by one transaction only, which compares
the state of the ticket with the one its request read (`CommitPausesWhatItRead`). Every
transaction keeps every service
whatever `pre` it was given, but two: the forced release, which writes what it read
(`ReleasesReadOpenTickets`), and the opening of a day. For the second the property asks
that the row of the ER changes and the ticket is of an earlier day; `ServiceInv` says why
it does: an open day has its queue there and open (`OpenDayHasItsQueue`), so a day whose
opening is no conflict is another date, and the date a request read is not in the future.

`CCountersServe`: `HandOvers /\ CSpec => []CounterServesItsTicket`. The code does not keep
this for every overlap: a transition or forced release with a counter read before frees the
wrong counter, and an `openCounter` checked before `closeDay` opens a counter of a closed day
(hazards in `PROJECT.json`). The theorem says where it does: the kinds in flight may be calls,
closings of counters, entries, restores, resumes, expired pauses, and openings and closings of
the day; all other kinds run without overlap. With openings or closings in flight the
date must not change (`MaxDay = 1`); one that read its date before midnight leaves the calls of
the new day, and TLC finds that with two dates. The invariant is `RowsAgree` with
`OnlyHandOvers`, over `OperatorInv` and `ServiceInv`. A call still finds at its commit what it
checked (`CallsHoldTheirCounters`); an entry with an earlier date puts a ticket where nobody
looks, which `RowsAgree` allows and `OpenedTodayLeavesNoStaleTicket` would not: hence the split.

**Only model-checked:**

- Everything under fairness, as the provers do no liveness: `OverdueCallEnds`,
  `OverduePauseEnds`, `ScreenSettles`, `ScreenCatchesUp`, `LastingCallRings`,
  `BoardCatchesUp`, `RevokedScreenGoesDark`, `LockLifts`, `DeadSessionReturnsToLogin`.
- `OfferedMeansAccepted` and `OpenTicketIsOnHerPage`, which use ENABLED; `OffersMeetGuards`
  and `HerTicketIsShown` are what is proved of them. `staff_screens` is on one date: with two
  its state space is out of reach, which leaves the second date to the theorem.
- The types of the boards: how many reloads are in flight is a sum over a function, and a
  bound on it needs induction over data.
- The disagreement of `force_release_served`.

## 5. Not modelled, and why

- Which row locks make a statement wait, SKIP LOCKED passing over a locked head, and
  lock cycles: a waiting transaction is one that has not committed; the victim of a
  deadlock is `Abort`. The order in which PostgreSQL grants locks is not modelled.
- The partial unique index on active tickets: it could only refuse more.
- Changes of the tolerances (`updateER`) and tolerance 0: `ToleranceElapses` may or may
  not happen, which covers both.
- Durations in seconds, accumulated pauses, and the groupings of the metrics by hour,
  operator and counter: sums over the samples that `AuditTrail` counts.
- Roles and ER access checks, signatures and password hashes: a request of the wrong role
  is refused before it reads anything, and the libraries are taken as right.
- `AdminPage`, the check-in page's form and the home page: forms over handlers modelled
  here, which keep nothing that meets another actor. Editing ERs and staff writes one row.
- Simulation and playground: a development tool, refused in production, each of whose
  steps calls a handler modelled here. Observability counts and logs; nobody reads it.

## 6. Plan

1. (done) `TicketStore`, `TicketQueue`, `TicketQueueConcurrent`, their runs and proofs.
2. (done) `ServiceDesk`, `DeskRefinement`, the refinement proved; liveness of the timeouts.
3. (done) Admin of counters, phone, staff screens, boards, audit trail, integration, access.
4. (done) `OneOpenTicketPerOperator` and `ServiceLostOnlyToARelease` proved for `CSpec`.
5. (done) Every invariant the runs check without ENABLED proved: admin, boards, pages,
   phone, billing system, access; `CounterServesItsTicket` for `CSpec` on the overlaps
   the code supports.
6. (done) `TicketQueueConcurrent` shown to implement `ServiceDesk` but for late releases; what
   the desk promises; the offers of the staff pages for any number of days.
7. `RowLocks`: the lock orders of the transactions, the deadlocks PostgreSQL breaks, and
   the head that SKIP LOCKED skips.

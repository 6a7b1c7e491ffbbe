# Formal models of the Lampang school-bus safety system

This directory specifies the transactional core of the system in TLA+. TLC checks the models on
small instances, TLAPS proves their safety properties and refinements for every instance. All paths below are
relative to the repository (`src/`).

## 1. The system

A province runs its school buses through one web application: drivers and teachers record which
child boarded and left which bus, schools manage pupils and buses, transport officers inspect
buses, parents follow on LINE. The backend is an Express process (or several) over MySQL/InnoDB,
the frontend a React client without authoritative state. There is no scheduler for the core
logic: **all concurrency is the concurrency of HTTP requests**, each an `async` handler that
suspends at every SQL statement, over a pool of ten connections. Correctness therefore rests on
transactions, row locks, unique keys and the order of statements.

### Inventory

| Component | State | Operations | Hard behaviour | What makes it correct |
|---|---|---|---|---|
| Check-ins (`checkin.service.js`, `transactionRetry.js`) | `checkin_logs` (append only), `daily_status` | tap, check-in-all, check-out-all, school override (one, all), teacher check, void, teacher undo | many requests on one pupil; lists read before BEGIN; savepoints that keep locks; deadlock, rollback, retry; voids with a weaker lock | rows alternate legally, flag and ledger agree, answers are truthful, rows name the right bus, everyone is answered |
| Leaves (`leave.service.js`) | `student_leaves` | create, cancel | race with check-ins of the day | the leave wins over a bulk confirmation |
| Verification (`vehicleVerification.service.js`) | applications, attempts, results, `vehicles.verification_status` | create (school, driver), ready, review, cancel, start, finalize, abort, recompute | two-phase verdicts on snapshots; late finalize and abort; key of one request per bus and term | one active request, results final, no orphan attempt, verdict justified |
| Driver pool and shifts (`driverShift`, `driverLifecycle`) | drivers, qualifications, assignments, operating shifts | authorize, verify licence, reassign, end, deactivate, restore, start and end shift | two drivers or two buses at once; unlocked writes; stale verdict | one open shift per driver and per bus, only qualified drivers |
| School roster (`school.routes.js`, `school.service`, `idAllocator`) | pupils, their bus, guardian links, id sequence | move, delete, restore, reassign guardian, older import | plain read before an unguarded UPDATE; id allocation in the caller's transaction | a withdrawn approval stays withdrawn, allocated ids are unused |
| Roster requests (`rosterRequest`) | request rows, pupils | create, approve, reject | checks and INSERT in separate statements; the pupil changes before the approval | applied once, only to a pupil the school still has |
| Transfers (`studentTransfer`) | request rows, pupils, links | create, cancel, reject, approve and apply | two requests for one child; failure marked after ROLLBACK | a child neither gains nor loses a place |
| Pupil import (`studentImportPreview`) | batches, rows, pupils | preview, apply, continue, roll back | stale preview, overlapping passes, lost process, rollback after edits | each row applied once, rollback undoes only its own work, counters follow the rows |
| Vehicle requests and buses (`vehicleRequest`, `vehicleAdmin`) | requests, buses | create, cancel, reject, approve; add, delete, correct, merge | the plate is taken between read and UPDATE; FAILED written after ROLLBACK | a request restores its bus once |
| Registration (`vehicleRegistration`) | registration roster, school slices | add, delete, match, patch, approve, reject | snapshot reads beside row locks | no approval over a pupil nobody reviewed |
| Terms (`term.service.js`) | `terms`, process cache | create, set current | clear-then-set, stale cache of other processes | one current term |
| Emergency (`emergency`, `emergencyAdmin`) | `emergency_logs` | report, resolve, delete | repeated taps at the same moment | one report per incident, none lost |
| Participation (`participation`) | cases, events | open, append | two roles append at once | the row is what its log says |
| Sign-in (`auth.routes`, `axios.js`, `useAuth.jsx`) | refresh tokens, revocations, `localStorage` | sign in, refresh, sign out, change of password, reset of sessions | tabs rotate the same token; lost answers | a token is exchanged once, a call always settles |
| Password recovery (`adminPasswordRecovery.routes`) | LINE binding, codes, links | bind, unbind, new codes, request, complete | the delivery report arrives after the link was retired | a usable link is the current one |
| Shared security state (`sharedSecurityState`) | lockout counters | count, lock | counter window | no failure is lost |
| Notifications (`line.service`) | outbox rows | queue, push, commit | overlapping runs, crash between push and COMMIT, LINE's answer lost | a message is pushed again only after a lost run or a lost answer, and settles |
| LINE linking (`line.service`, `line.routes`, `parent.routes`) | bindings, seen events | bind by chat or page, unbind, unfollow, webhook | two accounts and one phone; upsert after a plain check | a phone changes hands only by its holder's unbinding |
| Route deviation (`routeDeviation`) | deviation rows | ping | pings at the same moment, late pings | no repeat within the quiet time |
| Live location, geofence | positions, visits | ping | late pings | enter and leave alternate |
| Driver documents (`driverDocuments`) | documents | add, review, delete | review meets deletion | approved evidence is kept |
| Pickup points, consent, QR | own tables | replace, grant, withdraw | replace during a move | lists and flags agree |
| Legacy inspections (`transport.service`) | `vehicle_inspections` | record, correct, delete, each recomputing the verdict | two corrections that share no lock; the verdict falls back on them | a bus is cleared on a valid record |
| Reports, dashboards, pages of the client | none | read | none | out of the models |

The components meet in shared rows: the *students* row is the mutex of a pupil's check-ins and
what the school's edits update; the *vehicles* row carries the cached verdict that verification
writes and shifts read; the *assignment* rows are written by driver management and read by both.

## 2. Plan

Done:

1. `Ride` (abstract), `Checkin` (detailed), `CheckinProofs`.
2. `Verification`, `VerificationProofs`, `VerdictProofs`.
3. `DriverShift`, `DriverShiftProofs`.
4. The roster system: `Pupils`, extended by `RosterRequest`, `StudentTransfer` and `StudentImport`,
   composed in `Roster`; the abstract `Decision` it implements; `RosterProofs`, `DecisionProofs`.
5. The platform: `Registration`, `Dispatch`, `Emergency`, `Terms`, `RouteDeviation`,
   `Participation`, `Session`, `Fleet`, `Recovery`, `Documents`, `Linking`, composed in `Platform`;
   `SessionProofs`, `PlatformProofs`.

Every safety property and every refinement that a passing run checks is proved. Left, in this
order: lockout counters, the webhook, pickup points, consent; then what merging or deleting a bus
does to its assignments, shifts and applications.

No module declares a RECURSIVE operator, so each can be proved about.

## 3. Check-ins: `Checkin.tla`, `Ride.tla`

**Correspondence.** `bus`, `leave`, `ledger`, `done` are the committed rows of `students.vehicle_id`,
`student_leaves`, `checkin_logs`, `daily_status` for one school day and one session. `tx[r]` holds what request
r has written and not committed; `job[r]` its local variables (eligible list, position, result lists,
attempt); `pc[r]` its next statement; `xlock`/`slock` the InnoDB locks on the students rows.

| Action | Code |
|---|---|
| `Tap`, `CheckinAll`, `CheckoutAll`, `Override`, `OverrideAll`, `TeacherCheck` | everything a handler reads before BEGIN |
| `LockPupil`, `GuardRead`, `WriteCheck` | `_buildCheckinTransaction`: `SELECT ... FOR UPDATE`, the guard, the writes |
| `Commit`, `DeadlockVictim` | `withDeadlockRetry` and the transactions of the override and teacher paths, which have no retry |
| `VoidRequest`, `UndoRequest` (of a row the account wrote as a teacher or by override), `VoidLock`, `VoidInsert`, `VoidMark` | `voidCheckin`, `undoTeacherCheck` |
| `MovePupil`, `CreateLeave`, `CancelLeave` | the school's writes that the check-in path reads |

A batch is one transaction: a failed pupil is rolled back to its savepoint, and InnoDB keeps the
row lock. A teacher's request is one transaction per pupil. Check-ins run in READ COMMITTED, so
the guard reads what is committed when it runs. A void locks only the ledger row; what orders it
against a check-in is the shared lock that the foreign key of its INSERT takes on the students row.

**Abstractions.** A leave is for the whole day. A deleted pupil is one without a bus (so the
school's void of a deleted pupil's row, refused by the code, is allowed here: more behaviours, not
fewer). The three pool reads of `Override` are one step. Notifications and audit rows are part of
the transaction that inserts the ledger row and are not separate state. Deadlocks are detected
where a cycle can arise, at the FOR UPDATE.

**Properties.**
- `LedgerAlternates`: neighbouring committed rows of a pupil are ones the guard accepts, whatever
  ran concurrently. Breaks when FOR UPDATE is dropped.
- `DoneFollowsLedger`: the flag agrees with the newest row even though voids may commit in either order. Breaks
  when the void's INSERT does not wait for the pupil's row.
- `OneVoidPerRow`: a row is compensated once.
- `ReplyIsTruthful`: the answer lists exactly what was committed, across aborted attempts.
- `AttributedToCurrentBus`: a row becomes visible only for the bus the pupil is on.
- `EveryRequestAnswered` (liveness).
- `ImplementsRide`: the system implements `Ride`, in which a pupil's standing moves along
  none/CANCELLED to IN to OUT; the refinement mapping is the status of the newest committed row.

**Disagreements.** Three comments promise more than the code does (runs `checkin_void_race`,
`checkin_leave_race`, `checkin_double_void`): each rests on a list or row read before, or without,
the lock that would make it current. See `findings` in `PROJECT.json`.

## 4. Verification: `Verification.tla`

**Correspondence.** `app` and `attempt` are the rows of `vehicle_inspection_applications` and
`inspection_attempts`; `status` is `vehicles.verification_status`; `riders`, `licence`, `pool`,
`docs` are what the verdict reads. `reply` is the outcome of the last statement that can fail on
the ENUM of the status column. Operations that lock the application FOR UPDATE and write nothing
shared are one step. `finalizeInspection`, `abortInspectionAttempt`, `verifyDriverQualification`,
`authorizeDriverForVehicle` and the three writes of `vehicle_inspections` (`createInspection`,
`updateInspection`, `deleteInspection` of `transport.service.js`) are two: the first takes the row
locks and the REPEATABLE READ snapshot, the second waits for the vehicles row, writes and commits, so a
verdict can be computed from a stale snapshot and overwrite a newer one. `endAssignment` and
`RosterEdit` change what the verdict read and do not recompute it, as in the code.

`JudgedBy` is the fallback of `refreshVehicleEligibility`: the latest finalized attempt, or the newest
row of `older` (`vehicle_inspections`) while no attempt of the bus is finalized. `LegacyWritable` is
`assertLegacyWritable`: it refuses a bus with a finalized attempt, and its locking read waits for
transactions that hold an application of the bus. `createInspection` also locks the vehicles row; two
corrections of different rows of a bus without applications lock nothing in common, so each may judge
the bus by a record the other withdraws. `overtaken` is the history that says so: for each open
transaction, the PASSED records others have replaced since it took its snapshot.

**Abstractions.** ELIGIBLE covers EXPIRING. Dates are day numbers. The four document dates are
their earliest. Capacity counts schools. The row that `finalizeInspection` copies into
`vehicle_inspections` (line 851) is left out: a bus with a finalized attempt is judged by attempts alone, and
results are final. An expiry is kept only with a PASSED result, the only one that is read with it. No transaction is open across midnight or a change of term. A reading
of the current term commutes with what follows. Checklist validation, evidence and snapshots are
data no property tells apart.

**Properties.** `OneActiveApplication`, `OpenAttemptIsAwaited`, `ResultsAreFinal`,
`EndedStaysEnded`: see the comments in the module. `ClearedOnValidCertificate`: a verdict may rest on
a stale snapshot or on a back-dated inspection, yet at the moment a bus turns ELIGIBLE its documents
are in date and an inspection that PASSED is valid: a finalized attempt or, if none was finalized when
the snapshot was taken, an older record that stands or has been replaced only since then. It is an action property because the verdict is cached:
as a state property it is what `verification_rules` refutes.

**Disagreements.** `verification_rules`: the design document's conditions for ELIGIBLE are not an
invariant, because the verdict is cached and several events do not recompute it.
`verification_enum`: the statuses PENDING_SCHOOL_REVIEW and REJECTED are not in the column's ENUM.

## 5. Driver pool and shifts: `DriverShift.tla`

**Correspondence.** `assigned` and `inForce` are the active AUTHORIZED rows of
`driver_vehicle_assignments` and those of them whose validity covers today; `account`, `licensed`
and `eligible` the active accounts, the drivers with a valid licence, the buses with status ELIGIBLE or
EXPIRING; `shift` the rows of `vehicle_operating_shifts`. `held[c]` is what the transaction on
connection `c` has locked, `pc[c]` its next statement, `job[c]` its local variables.

| Action | Code |
|---|---|
| `startShift`, `LockDriver`, `LockJoin`, `CheckDriver`, `ReadOpenShifts`, `InsertShift` | `startShift` |
| `endShift`, `LockShift`, `CloseShift` | `endShift` |
| `authorizeDriverForVehicle`, `LockDriver`, `LockVehicle`, `GrantAssignment` | `authorizeDriverForVehicle` |
| `verifyDriverQualification`, `LockDriver`, `ReadBuses`, `RefreshBus`, `QualifyCommit` | `verifyDriverQualification` |
| `reassignDriverVehicle`, `LockVehicle`, `ReadAssignments`, `EndTarget`, `MoveDriver` | `reassignDriverVehicle` |
| `deactivateDriver`, `EndAllAssignments`, `restoreDriver`, `endAssignment` | `driverLifecycle.service.js` |
| `InspectionCommit` | what finalize and abort (Verification) do to the status of a bus |
| `Fail` | deadlock victim, lock wait timeout, lost connection: at any statement |

**Abstractions.** One day. The verdict that a recomputation stores is arbitrary (`Refreshed`);
Verification says which it is. Locks are row locks, one per pair of driver and bus for the assignment
rows of that pair; gap locks and the shared locks that foreign keys take on a parent row would only
remove behaviours. Only `endShift` locks a shift that exists, so `ReadOpenShifts` waits for it.

**Properties.** `ShiftsExclusive`: no two open shifts share a driver or a bus, and no start ever
reaches the unique keys. The open shifts are read before the INSERT, and what makes that sound is not
that read but the driver's and the bus's row, locked before it. `StartIsBacked`: what startShift checked
still holds when it commits, against unlocked writers such as `endAssignment` too.

## 6. The roster system: `Pupils`, `RosterRequest`, `StudentTransfer`, `StudentImport`, `Roster`

Four services and the school's own routes write the same *students* rows. `Pupils` has those rows
and what all share; each workflow EXTENDS it with its own table; `Roster` is their disjunction.

**Correspondence.** `pupil` is `students`, `link` is `parent_student.approved`, `nextId` is the row
of `id_sequences`; `roster`, `transfer`, `batch` and `line` are `roster_change_requests`,
`student_transfer_requests`, `import_batches` and `import_batch_rows`. `held[c]` is what the open
transaction of connection `c` has locked, `work[c]` the next statement of its handler with its local
variables, `begun` the requests so far. `barred` and `cut` are histories: guardians whose approval
was withdrawn on a record, and batches whose last pass was lost before it counted its rows.

A read from the pool is a step, and so is each statement that waits for a row lock. The statements
after the last lock of a transaction touch only what is locked, so they are one step with COMMIT.

| Action | Code |
|---|---|
| `ReadPupil`, `MoveToBus`, `Withdraw`, `ReassignGuardian`, `restoreStudent` | the school's routes: a plain read, then an UPDATE that asks for nothing |
| `ReadForImport`, `ImportReactivates`, `ImportInserts` | one row of the older import |
| `CheckRosterRequest`, `InsertRosterRequest`, `AskForNewPupil`, `LockRosterRequest`, `ApproveOnBus`, `ApproveNewPupil`, `RejectRoster`, `ReviewFails` | `rosterRequest.service.js` |
| `CheckTransfer`, `InsertTransfer`, `CheckWithdrawal`, `CloseTransfer`, `LockTransfer`, `StaleTransfer`, `RefuseTransfer`, `LockTransferPupil`, `ApplyTransfer`, `TransferFails`, `MarkTransferFailed` | `studentTransfer.service.js`; FAILED is written after ROLLBACK by a statement of its own |
| `runPreview`, `StartApply`, `LockImportRow`, `applyInsertRow`, `applyGuardianRow`, `applyReactivateRow`, `markRowApplyFailed`, `FinishApply`, `StartRollback`, `rollbackRow`, `SkipUndo`, `UndoFails`, `FinishRollback` | `studentImportPreview.service.js`: one transaction per row |
| `Crash` | the process or its connection is lost at any statement: open transactions are rolled back, the rest of a pass never runs |

**Abstractions.** A `student_code` stands for the child, on whichever school's roster. Names,
classes and the vehicles that an import creates are left out, as are moves of a whole class.
A row that cannot be parsed never leaves the preview and is left out.

`RosterTypeOK` states the types. It is proved (`AlwaysWellTyped`), so no run repeats it.

**Properties.**
- `RevokedStaysRevoked`: a guardian who lost the approval on a record has none on it, or on the
  record a transfer makes of it, until it is given again. It relates a transfer's copy of links, read
  under the pupil's lock, to every route that withdraws an approval.
- `TransferKeepsPlaces`: applying a transfer leaves the number of rosters the child is on as it was,
  with two transfers, a withdrawal or an import under way.
- `ApprovalInScope`: an approved request changes the bus only of a pupil who is then on the roster of
  the school that approves.
- `RollbackTakesOwn`: a rollback deletes only pupils its batch inserted, although it works from a
  list of rows read before.
- `CountersFollowRows`: when no pass is under way, the counters of a batch are those of its rows,
  unless its last pass was lost.
- `ImplementsDecision`: the three workflows implement `Decision`: none, pending, then applied or
  closed for good, with exactly one pupil created by an application and none by anything else. The
  mapping reads the stage off the status column (a row of a batch is pending until `applied_at` is
  set, however often it failed; a FAILED or STALE transfer is closed) and counts created pupils by the request
  that made them.

**Disagreement.** `roster_allocator`: the allocator promises an unused id, yet an approved
request for a new pupil is inserted under the id the driver typed, which the sequence reaches later.

## 7. The platform: components that share no rows

`Platform` composes eleven modules. They share no row, so a step of one never changes what another
reads, and a state property of one component holds of their composition if it holds of the component
alone. The variable `part`, chosen at the start, says which of them runs; the others rest.

| Module | State and correspondence | Property |
|---|---|---|
| `Registration` | `slice`: `inspection_application_schools`; `entry`: `registration_roster_students`; `regWork`: open transactions with their snapshot | `NoUnreviewedRider`: a school that has approved has looked at every rider of its slice. A transaction's plain reads see the snapshot of the first of them, its writes the rows as locked; an addition reopens an approved slice whichever of the two is first |
| `Dispatch` | `message`: `notifications`; `dispatch[r]`: rows a run has locked (`SKIP LOCKED`); `pushed`, `lost`, `unheard`: what LINE accepted, how often that was rolled back, and how often it was committed as a failure because the answer was lost | `PushedAgainOnlyIfLost`: a repeated push is accounted for by a rolled-back run or a lost answer, and more than three of them by rolled-back runs alone; `EveryMessageSettles`: sent, given up after three tries or out of the window, with runs that overlap, crash and retry |
| `Emergency` | `report`: `emergency_logs`; `tap`: requests; `clock`: `NOW()` | `RepeatsCollapse`: two standing reports of one user about one thing are more than the window apart. The mutex is the reporter's *users* row |
| `Terms` | `terms`, `current`; `switch`: requests with the term they read as current | `OneCurrentTerm`: no index covers `is_current`, so clearing waits for every row |
| `RouteDeviation` | `deviations`; `ping`: pings with their time of arrival | `NoRepeatedDeviation`: a locking read of nothing locks a gap, and an INSERT waits for the gaps of others |
| `Participation` | `case`: the row; `events`: its log; `post`: requests | `RowIsReplayOfLog`: each event was allowed by the status its predecessors led to, and the row has the status they all lead to |
| `Session` | `store`: `localStorage`; `page`, `call`, `exchange`, `leaving`, `changing`: the tabs; `issued`, `revoked`, `cutoff`: the server | `ExchangedOnce`, `ResetOnlyAfterAccident`, `EveryCallSettles` across tabs, lost answers, closed pages, a change of password and the replay grace |
| `Fleet` | `vehicle`: `vehicles`; `vreq`: `vehicle_requests` of one school; `clerk`: handlers | `RestoredOnRequest`: a request brings its bus back at most once and is then neither pending nor denied |
| `Recovery` | `bound`, `codes`: the account's LINE binding and unused codes; `resetLink`: `password_reset_requests` | `UsableLinkIsCurrent`: the link that works is the newest and went to the account that is bound; neither the binding nor the codes changed, and no link was used, since it was asked for. A password changed outside of the recovery retires no link (`changePassword`): what a link has outlived is counted in `outlived` |
| `Documents` | `doc`: the documents tables; `handler`: what a request has locked | `ApprovedEvidenceKept`: a document approved by a reviewer is not deleted by its uploader, also when review and deletion meet |
| `Linking` | `binding`: `line_bindings`; `verified`: the older columns of `line_users`; `link`: handlers | `OnlyTheHolderLetsGo`: the account that hears of a phone's children changes only by its own unbinding, however late a second account's upsert or an old wish to unbind comes |

**Abstractions.** `Dispatch`: a push whose answer is lost or late is reported failed, accepted or not,
since `sendTextMessage` never throws; a row leaves the window oldest first, and the windows of the
scheduled runs (120 minutes) and of one by hand (180) are one. `Exceptional` are the types the
scheduled runs take; a run by hand takes all, and only the former are promised to settle.
`Session`: access tokens are not numbered, the server answers 401 at any time; an exchange, a logout or a
change of password that outlasts the grace, or whose page is closed, is an `accident`, and so is a
change of password not answered with success: the server has revoked the stored token, and
`ChangePassword.jsx` keeps it in `localStorage`. The cut-off by `password_changed_at` is a 401 like
another. `RouteDeviation`: whether a ping is a deviation is an input.
`Fleet`: of the rows that refer to a bus only its requests are followed; a merge and an approval that
deadlock are `ClerkFails`. `MarkFailed` asks for nothing, as in the code, so a request may say
FAILED after it restored its bus. `Recovery`: an expired link is one nobody uses; `CodeRequired` is
FALSE in the run, which admits every completion the stricter setting admits. `Documents`: files,
viewers and the message to the uploader are left out. `Linking`: the conversation that collects the
credentials is left out, since what it checks may be arbitrarily old when the binding is written. That an account
which lost the race is told it was bound, and marked verified, is modelled; nothing is sent to it.

## 8. Runs, bounds, fairness

| Run | Instance | Why it is enough |
|---|---|---|
| `checkin_day` | 1 pupil, 1 bus, 4 requests | the invariants speak of one pupil; four requests are a board, a drop and two voids, or three simultaneous taps and a void |
| `checkin_batch` | 2 pupils, 2 requests, `MaxAttempts` 2, edits of one pupil | two batches can lock two pupils in opposite order; one retry and one final failure occur; no symmetry, as liveness is checked |
| `checkin_*_race`, `checkin_double_void` | 1 pupil, 2 to 4 requests | the shortest counterexamples |
| `verification` | 1 bus, 1 school, driver, inspector; 2 applications, 3 attempts, 2 older records, 2 connections, 2 terms, 3 days; constraint `RowsOrDays` | two applications compete in a term or follow in the next; an abandoned and a finalized attempt; any two two-step transactions overlap; a result is dated earlier than another; a verdict is computed before the record under it is withdrawn; a certificate that has expired is corrected or withdrawn. The constraint explores overlaps of two attempts, or an attempt and a record, dated the first day; two of them over two days, with papers (documents, licences, assignments) that are missing or last; one over two days with papers that expire; and one over three days, in which only its certificate does. Three attempts or two records, and every row dated later, are of one application and met by one transaction at a time; a suspended bus has one row |
| `driver_shift` | 2 drivers, 2 buses, 2 shifts, 2 connections; constraint `OneBusOrOneDriver` | two starts compete for a bus, or for a driver; a reassignment ends another assignment; every lock is between two transactions |
| `verification_rules`, `verification_enum` | 1 application, 2 attempts, 1 older record, 2 days | a day passing |
| `roster` | 3 schools (the third reached only by transfers), 1 bus, 1 child, 2 guardians, 3 pupil ids, 2 connections; 1 roster request, 2 transfers, 1 batch; `MaxEdits` 1, `MaxRequests` 4 | two transfers of one child to different schools; a pupil, its transferred record and one made by another workflow; any two workflows overlap and a direct edit intervenes |
| `roster_allocator` | 2 schools, 2 roster requests, 1 transfer, 1 batch, `MaxRequests` 3 | the shortest counterexample |
| `platform` | registration: 1 school, 2 entries, 3 connections; dispatch: 2 messages of the scheduled types, 2 runs, `Limit` 1, 1 rolled-back run; emergency: 1 reporter, 3 taps, window 1, clock to 3; terms: 3 terms, 3 requests; deviation: 2 types, 2 pings, quiet time 1, time to 3; participation: 1 case, 2 requests, 6 events; session: 2 tabs, 2 calls, tokens 1 and 2 before the last refreshes, `MaxTroubles` 2; fleet: 2 buses, 2 plates, 1 request, 2 clerks; recovery: 2 LINE accounts, 2 links, 1 code, 2 attempts, 4 changes; documents: 2 documents, 2 uploaders, 2 handlers; linking: 2 accounts, 2 phones, 2 handlers | each mutual exclusion has two contenders, and a third where one waits while another has just finished; each window is passed once; a message that LINE refuses stands before another, and a push is repeated after a lost answer and after a rollback; both tabs refresh one token, one of them late, and two of logout, change of password and closed page meet each other and a refresh; six events reach every status of a case and reopen it |

`MaxAttempts` is 4 in the code; `MaxTerm`, `MaxDay`, `MaxClock`, `MaxTime` bound the calendar, the sets of
ids and `MaxOlder` bound how many rows are inserted, `MaxEdits`, `MaxRequests`, `MaxRollbacks`, `MaxEvents`, `MaxToken`,
`MaxTroubles` (pages closed, logouts, changes of password), `MaxChanges` how often the environment acts. `checkin_day`, `checkin_batch` and
`driver_shift` check deadlock: a day ends only when every request is answered (`DayOver`), and a
shift transaction can always go on or fail. The others run out of ids, so their configurations allow them to stop.

**Fairness.** `FairSpec` of `Checkin`: weak fairness of each request's statements. The event loop
resumes every handler whose statement returned, and InnoDB's deadlock detector picks a victim at once; no
request is assumed to arrive. `PlatformFairness`: the scheduler calls the dispatcher again and again, for
its own types, and a run goes on until it commits (`RunStep`); a server that has a
refresh answers or refuses it and the page handles what it is given (`RefreshStep`); a call that was sent
is answered, if only by an error (`Answer`). Nothing is assumed of users, of accidents, or of which runs are lost; their number is bounded. Safety properties use no
fairness.

## 9. Proofs

Eight modules prove, for every value of the constants that satisfies the named assumptions of the
models, all the safety properties and the two refinements that the passing runs check.

**Assumptions.** Most say that a special value (`NoBus`, `None`) is not an ordinary one, or bound a
number from below. Three sets are assumed finite because a proof counts or orders their elements:
`PupilId` and `Code` (ids and codes of one database; the abstract `Decision` counts created
pupils) and `Tab` (a browser has finitely many tabs). `RequestAssumption` of `Roster` says that the
rows of three tables are three disjoint sets. TLC evaluates each assumption on every run.

### Check-ins (`CheckinProofs`)

- `TypeCorrect`: the type invariant. It is proved, so no run repeats it.
- `LedgerAlternatesAlways`. The ledger alone is not inductive: a request past its guard read will
  insert a row that must still be acceptable then. The inductive invariant adds that such a request holds
  `xlock` of its pupil, that nobody else then holds either lock, that uncommitted rows belong to
  pupils their request has locked, that ids are below `nextId`, and that what the guard accepted is
  still the newest row.
- `OneVoidPerRowAlways`: a void past its lock is the only one with its target, and its target
  is not compensated yet.
- `CheckinImplementsRide`: initial states map to initial states, each step to a step of `Ride` or
  a stutter; only `Commit` changes the newest row, and the invariant above says how.
- The three theorems below use one summary of the steps: `StepWorks` says that a step of the
  specification is work of one request (one of nine kinds, `Works`), the COMMIT of one (`Commits`),
  or no request's, and `Frame` what such a step leaves to the other requests.
- `AlwaysAttributedToCurrentBus`: from the locked SELECT to the COMMIT the vehicle a request expects
  is the pupil's (`BusOK`), since the school's UPDATE waits for the row.
- `ReplyIsAlwaysTruthful`: at every statement the plan of a request is split into the pupils that
  succeeded, failed, are in hand and are still to do, and `ok` names those with a committed or
  uncommitted row of the request (`ReplyOK`). A retry empties both sides at once.
- `DoneAlwaysFollowsLedger`: a transaction marks the flag of exactly the pupils it has rows of, a
  check marks it done, and a void only if it is an undo; while a void's row is uncommitted, every
  committed check of the pupil is older than it (`MarksOK`). The last part is where the
  foreign key's shared lock enters: without it the flag could be cleared after a newer check.

### Verification (`VerificationProofs`, `VerdictProofs`)

- `VerificationTypeCorrect`, and
  `OneActiveApplicationAlways`, `OpenAttemptIsAwaitedAlways`, `ResultsAreFinalAlways`,
  `EndedStaysEndedAlways` from one inductive invariant: types, keys held exactly by unfinished
  applications, open attempts awaited, and every open finalize or abort transaction still owning an
  open attempt nobody else is working on.
- `ClearedOnValidCertificateAlways` adds to it what every pending verdict rests on: the verdict is
  written after it was computed, so what it was computed from must last until COMMIT. A passed
  attempt lasts because results are final, the attempt about to pass because only its transaction
  may touch it. A verdict on an older record rests on the row the transaction writes itself, on one that
  stands, or on one in `overtaken` (`BasedOnOlder`): whoever replaces a PASSED record puts it there for
  every transaction then open, and attempts finalized meanwhile are numbered above `since`. That the latest attempt exists follows from dates and numbers being bounded
  (`Greatest`, by the well-foundedness of the naturals).

### Shifts (`DriverShiftProofs`)

- `ShiftTypeCorrect`, `ShiftsExclusiveAlways`, `StartIsBackedAlways`: the inductive invariant is that
  a row has one owner, that a request between its join and its INSERT owns its driver, bus and
  assignment, and that what it read about them still holds. Every action that takes something away
  from a row owns that row or waits for it (`Spares`), every action that opens a shift owns the
  driver and the bus of that shift (`OpensBeside`), so others keep what they know (`Undisturbed`).

### The roster system (`RosterProofs`, `DecisionProofs`)

`RosterInv` is one inductive invariant for the four services together: types, each row locked by
one connection at most, what a handler has locked at each of its statements (`LocksHeld`), what it
has read under a lock and still relies on (`WorkInv`), what the rows of requests and batches refer to
(`RowsInv`), and `RevokedStaysRevoked`. Per table a lemma says what a step may do to it
(`PupilEffect` and its like); a row that a connection has locked is disturbed by nobody else, so each action
needs an argument only for the connection that takes it (`Undisturbed`, `StepKeeps`).

- `AlwaysWellTyped`, `RevokedAlwaysStaysRevoked` are parts of it. The latter needs that the links a
  transfer read are those of the pupil until its COMMIT: every route that withdraws an approval on
  that record either waits for its row or is refused.
- `RollbackAlwaysTakesOwn`: a pass that rolls a batch back holds rows that say which pupil the batch
  inserted, and that never changes although the pass read them long before.
- `ApprovalAlwaysInScope`: of the steps that end a review only `ApproveOnBus` changes the bus of a
  pupil that exists, and it reads that pupil again under its row's lock.
- `TransferAlwaysKeepsPlaces`: the COMMIT takes one pupil off the rosters and puts another on, so
  the child's active records are exchanged one for one (`Exchanged`): the INSERT meets no row of
  that id, and the pupil it replaces is still active under the request's code because its row is locked.
- `CountersAlwaysFollowRows`: inductive once `RosterInv` is known. A pass that ends counts, and what could change
  the rows afterwards is another pass, which makes the batch one under way.
- `RosterImplementsDecision`: the stage of a request is a function of its row alone
  (`StageOfRoster`, `StageOfTransfer`, `StageOfLine`). `DecisionInv` says that a request has created exactly
  one pupil if its stage is "applied" and none otherwise, and a pupil, once created, keeps the
  request that created it. Each step then decides one pending request, opens requests, or maps to a stutter.

### The platform (`PlatformProofs`, `SessionProofs`)

Each component has an inductive invariant of its own, over its own step relation
(`DocumentsInv`, `EmergencyInv`, `TermsInv`, ...). The components share no row, so a step of the platform is a step of
one and leaves the variables of the others unchanged.

- `ApprovedEvidenceIsKept`, `AlwaysOneCurrentTerm`, `NeverAnUnreviewedRider`, `AlwaysRestoredOnRequest`,
  `RepeatsAlwaysCollapse`, `OnlyTheHolderEverLetsGo`: whoever is past its lock is alone there, and what it checked
  still holds. For reports: once a tap is inserting there is no report its window would reuse.
- `NoDeviationRepeats`: the gap lock in the same part; a ping about to insert has seen no recent row and none can appear.
- `UsableLinkIsAlwaysCurrent`: a link that is alive or being asked for was asked for since the last
  change of the account that retires links; what was asked for before it can no longer be sent.
- `AlwaysPushedAgainOnlyIfLost`: locked rows of two runs are disjoint and unsent; outside a run that
  has pushed it, an unsent message was pushed as often as it was lost or unheard, and it was unheard no
  more often than its retries count.
- `RowIsAlwaysReplayOfLog`: a post about to append holds the case, so what it found allowed still is.
  That there is one replay of a log, and that appending to the log appends to the replay, is an
  induction; it is done by the least place where two replays differ (`LeastNumber`, from the
  well-foundedness of finite sets), since the induction theorems themselves cannot be used here.
- `AlwaysExchangedOnce`, `ResetOnlyAfterAnAccident` (`SessionProofs`): what `localStorage`, each page and each exchange may hold of
  the token sequence, across tabs. Tokens stay within their numbers because each one issued uses up
  one of the finitely many tabs that may still ask for one.

### Only model-checked

The liveness properties `EveryRequestAnswered`, `EveryMessageSettles` and `EveryCallSettles`:
fairness and ENABLED are outside the prover's reach. The runs that expect a violation show single
behaviours; nothing is proved about them.

## 10. Not modelled

- The copy of a result that `finalizeInspection` makes in `vehicle_inspections`: no verdict reads it.
- The older import as one transaction per file: `Pupils` has one row per transaction, and only rows that
  name a guardian (whose link the code approves at once). Rows locked by earlier ones of the file would
  only remove behaviours.
- A transfer to a school that is not in the table: it is closed like one whose code is taken, and nothing
  in the code deletes a school.
- Pickup points: the replacement of a point's pupils checks them by a plain read before it writes.
- Consent and the public QR page: grant and withdrawal are rows of a log and a flag; both next.
- The chat conversation and the claim of webhook events; lockout counters: next.
- Bulk moves and promotions of a class: the same UPDATE as `MoveToBus`, over a list.
- What merging or deleting a bus does to its assignments, shifts and applications.
- The cache of the current term and its convention by date.
- Positions, geofence geometry and arrival times: numeric estimates, each overwritten by the next ping.
- Dashboards, reports, exports and the pages of the client have no state of their own; administration
  routes are edits of single rows, modelled where they meet the services above.
- Scripts of deployment, load tests and captures of the user interface are not the program.

Formatting, translations, audit texts, hashing and file handling are left out throughout.

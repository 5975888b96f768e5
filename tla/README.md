# Verification of wicket-pg

wicket-pg is the PostgreSQL storage adapter of wicket: nine stores, each a thin
layer of SQL statements over one table, and a migration runner. It has no
threads and no state of its own beyond the connection pool. What makes it hard
is that many goroutines of many host processes run these calls against one
database: correctness lives in the WHERE clauses, the unique indexes, the second
statement after a first one matched nothing, and the order of the statements in
a migration.

This directory holds TLA+ modules translated from that code, the TLC
configurations that check them on small instances, and proofs of the properties
that matter most for instances of every size.

    tlc -config RefreshTokenStore_races.cfg MCRefreshTokenStore.tla
    tlapm RefreshTokenStoreProofs.tla

## 1. The system

| Component | Code | State | Operations |
|---|---|---|---|
| Refresh token store | `store/refresh_token.go` | table `refresh_tokens` | Store, Get, Update (version guard), Remove, RemoveExpired |
| Key record store | `store/key_records.go` | table `key_records`, partial unique index on `public_id` | Create, Get, List, Update (version guard), Delete |
| Session store | `store/session.go` | table `sessions` | Create, Get, GetBySubject, Update, Delete, DeleteBySubject, AddClientID, DeleteExpired |
| Migration runner | `migrations/migrations.go`, `migrations/*.sql` | the schema, table `schema_migrations` | Up, Down |
| Expiry arithmetic | in each store | none | duration product, `expires_at`, the cleanup's comparison |
| Error mapping | `store/errors.go` | none | sentinel or wrapped error |
| Payload codec | `store/codec.go` | none | JSON and base64 round trip |
| Reference token store | `store/reference_token.go` | table `reference_tokens` | Store, Get, Remove, RemoveReferenceTokens (scan, then delete), RemoveExpired |
| Device flow store | `store/device_flow.go` | table `device_codes`, two unique keys | Store, FindByDeviceCode, FindByUserCode, UpdateByUserCode, RemoveByDeviceCode, RemoveExpired |
| Authorization code store | `store/authorization_code.go` | table `authorization_codes` | Store, Get, Remove, RemoveExpired |
| Backchannel request store | `store/backchannel_authentication_request.go` | table `backchannel_auth_requests` | Store, Find, Update, Remove, RemoveExpired |
| User consent store | `store/user_consent.go` | table `user_consents` | Store (upsert), Get, GetAll, Remove, RemoveExpired |
| Persisted grant store | `store/persisted_grant.go` | table `persisted_grants` | Store (upsert), Get, GetAll, Remove, RemoveAll by filter, RemoveExpired |
| Base, constructors | `store/base.go` | none | |
| Conformance factory, tests, lineage gate, CI | `tests/`, `.github/` | none of the program's | |
| wicket core, pgx, PostgreSQL | external | row and table locks, snapshots, unique indexes | |

**How they interact.** A store never calls another store. Callers meet only in
the rows of one table, through PostgreSQL at READ COMMITTED with autocommitted
statements; the migrations meet the stores in the columns they add and drop.
Every store shares the error mapping (a unique violation becomes the duplicate
sentinel, no row the missing sentinel, anything else a wrapped error), the payload
codec, and a strict `expires_at < now` in its cleanup.

**What is hard, and what makes each component correct.**

- *Refresh tokens.* Two callers update from one version; an update whose
  statement was committed but whose answer was lost is repeated; an update
  extends a token that a running cleanup has already scanned; the existence
  check of a zero-row update runs after the world has moved on. Correct means:
  no update is lost or applied twice, the columns the SQL guards on say what the
  payload says, a cleanup takes expired tokens only, and the answers are those
  of an atomic versioned store.
- *Key records.* The same guard, plus a range guard at the top of `bigint` and
  a unique index that does not see retired records: a record leaves retirement
  by an Update. Correct means, in addition, that callers never see two records in
  service with one public id.
- *Sessions.* No version guard. `client_ids` lives in a column that is appended
  to atomically and in a payload that goes stale; revocation by subject finds
  rows through a column that every write must maintain. Correct means: confirmed
  appends survive until the row is rewritten, revocation removes exactly the
  sessions of the subject, and no write brings a deleted session back.
- *Migrations.* No lock around a run: hosts that start together read the same
  recorded versions, a Down works from a list that others make stale, and every
  run may stop between two files. Correct means: the record and the schema agree.
- *Authorization codes, reference tokens, device authorizations, backchannel
  requests.* Inserted once under a random handle. A removal races a cleanup that
  holds the row and may give it back, an update races the removal of what its caller
  has read, and a user code may pass from a removed authorization to a new one. A
  revocation of reference tokens selects in one statement and deletes, by the
  handles it collected, in another. Correct means: a confirmed removal holds, codes
  and tokens never change, a decision reaches the authorization that was found, and
  a revocation misses no matching token that was there when it began.
- *Grants and consents.* Replaced in place under their key. Every upsert must
  rewrite each column that a listing, a revocation by filter or a cleanup reads, and
  may do so while a DELETE that has scanned the old row is on its way. Correct
  means: the columns say what the record says, an unset condition of a filter
  constrains nothing, and a DELETE takes exactly what its WHERE clause says of the
  row as it is when it disappears.

## 2. The modules

| Module | Models | |
|---|---|---|
| `Expiry` | the duration product with its 64-bit wrap-around, the microsecond column, `expiresAtPtr`, the cleanup's comparison | operators |
| `VersionedStore` | nothing in the code: what a store with optimistic concurrency promises, every call one atomic step | abstract specification |
| `RevocableStore` | nothing in the code: what a store whose records are revoked and reclaimed in bulk promises | abstract specification |
| `RefreshTokenStore` | `store/refresh_token.go` | implements `VersionedStore` |
| `RefreshTokenConflict` | the same, with an observer of what an open update has met | for one run |
| `KeyRecordStore` | `store/key_records.go` | implements `VersionedStore` |
| `SessionStore` | `store/session.go` | implements `RevocableStore` |
| `RowTable` | the statements of a store on one table: SELECT, INSERT, UPDATE, DELETE of one row, DELETE of many | extended by the next six |
| `AuthorizationCodeStore`, `ReferenceTokenStore`, `DeviceFlowStore`, `BackchannelAuthenticationRequestStore` | the store files of those names | composed by `HandleStores` |
| `HandleStores` | those four stores under concurrent callers | implements `RevocableStore` |
| `PersistedGrantStore`, `UserConsentStore` | the store files of those names | composed by `GrantStores` |
| `GrantStores` | those two stores under concurrent callers | implements `RevocableStore` |
| `Migrations` | `migrations/migrations.go` and the SQL files | |
| `MC...` | symmetry sets and the values of constants of the small instances | |
| `ExpiryProofs`, `RefreshTokenStoreProofs`, `KeyRecordStoreProofs`, `SessionStoreProofs`, `MigrationsProofs`, `RowTableProofs`, `HandleStoresProofs`, `GrantStoresProofs` | theorems and proofs | |

### Conventions

*One action per call, where a call is one statement.* An autocommitted SQL
statement on one row is atomic in PostgreSQL, and the Go code around it touches
only objects of its own caller, so its effect and its answer can be one step.
Calls that are more than that take more steps:

- `UpdateRefreshToken` and key record `Update` run a second statement when the
  first matched no row (`Updating`, `RecheckExistence`);
- `RemoveReferenceTokens` reads the handles of a subject and client (`collect`) and
  deletes by that list in a second statement (`RevokeCollected`, then `revoke`);
- the multi-row DELETEs (`RemoveExpired`, `DeleteExpired`, `RemoveAll`,
  `RemoveReferenceTokens`, `DeleteSessionsBySubjectID`) scan one snapshot, lock row
  by row, re-evaluate their WHERE clause on the row's latest version, and remove the
  locked rows at commit. A writer that needs a locked row has no step until the lock is gone.
- an `Up` or `Down` is one step per statement; the second statement of a file's
  transaction and the commit are one step, because nothing the others could do
  between them is seen by either.

*Callers.* `Callers` stands for goroutines of any number of hosts: each has at
most one call open. A host that dies leaves its statement committed or not, and
a caller that never goes on; both are among the behaviours, since no caller has to
take a step. `copy` is the token or record object a caller holds, which the store writes the
new version into. It is dropped when the row it stands for is removed: versions
count per life of a row, and the code offers no protection to a caller whose
object is from an earlier life of a handle that was stored again. Handles are
random and the core does not reuse them.

*Answers.* `reply` is the latest answer given: "ok", a sentinel ("missing",
"duplicate", "conflict") or "wrapped". A wrapped answer comes in two kinds, with
the effect of the statement (the answer was lost on the way) and without. In
`RowTable` a step in which no call returns leaves `Silence`; in `SessionStore` it leaves
the answer that was there, which is `Silence` before the first.

`CreateSession` reports a duplicate as a wrapped error: its own comment says so
(`store/session.go:68-69`), although the package comment (`store/base.go:16-19`)
promises a duplicate sentinel of every store.

*Data.* A payload keeps what the properties tell apart: creation time, lifetime
and version of a token, public id and phase of a key record, subject, expiry and
client list of a session, subject and client of a reference token, the four
filtered fields and the expiry of a grant. The codec is left out; a payload that does not decode
is one of the causes of a wrapped answer.

*`Fault_` definitions* are not part of a model. Each is a definition with one
seeded bug (a forgotten guard, a column not rewritten, a re-check left out) and
stands before the definition it corrupts. Putting it in that definition's place
makes the property named beside it in `PROJECT.json` fail, which shows that the
property can.

### RefreshTokenStore

`rows` is the table; each row has the `version` and `expires_at` columns and the
payload. `log` is auxiliary: the payloads written in the current life of a row.
`StoreRefreshToken`, `GetRefreshToken`, `UpdateRefreshToken`,
`RemoveRefreshToken` and `RemoveExpired` are the methods; `RecheckExistence` is
the SELECT of a zero-row update, `LockExpired`, `FinishRemoveExpired` and
`AbortRemoveExpired` are the DELETE of a cleanup as PostgreSQL runs it.

### KeyRecordStore

The row has `public_id`, `phase` and `version` columns beside the payload.
`IndexClash` is the partial unique index; `InRange` the code's check of
`expectedVersion` against `math.MaxInt64`, which is the constant `MaxVersion`.
A `Get` under a canceled context answers "missing", as the code does on purpose.

### SessionStore

`added` and `due` are auxiliary: the clients whose append was confirmed since
the row was last written as a whole, and, for an open DELETE, the sessions it has had
to take ever since it began: those of its subject, or those that were overdue.
`Loaded` is a read: the payload with `client_ids` replaced by the column.

*Overdue* (`Overdue` of `Expiry`) is a record that expired at least one unit of the
column before the cutoff. Within that unit the rounding of `timestamptz` may keep a
record until the next cleanup; the models say of a cleanup that it *must* take what is
overdue and *may* take what has expired, both in exact arithmetic on the record.

### RowTable, HandleStores and GrantStores

`RowTable` has the table (`rows`), the calls between two steps (`call`) and the
latest answer (`reply`), and one operator per kind of statement: `ReadRow`,
`ReadRows`, `InsertRow` (with the rows that would break a unique index as
`rivals`), `WriteRows` (an UPDATE and the update of an upsert), `DeleteRow`, and
`BeginDelete`, `LockRow`, `CommitDelete`, `AbortCall` for a DELETE of many rows.
A store module gives each method as one of these with its WHERE clause, its columns
and its record, so that a module is about as long as the SQL it stands for.

No statement of the program touches two tables, and nothing else connects
the stores. `HandleStores` and `GrantStores` therefore choose the
`table` of a behaviour in the initial state; an interleaving with calls on another
table would add only stuttering. Their auxiliary variables are `lived` (keys whose row has
lived since a caller's open call began and, if that call is a cleanup, has been overdue
all the while), `gone` (keys whose removal was confirmed
and that were not stored since), `found` (the authorization a caller last read, while
it lives) and `due` (records that have matched the filter of a revocation, or were
overdue for a cleanup, by their own fields, ever since it began).

The two tables of `GrantStores` share `Keys`: pairs, as the primary key of a consent
is its subject and client; for a grant a key is just a name.
`StoreDeviceAuthorization` has two unique keys, so its rivals are the row under the
device code and the row under the user code. `TimedRow` is the derived expiry
of codes, tokens and authorizations, `OptionalRow` and `GrantRow` the nullable one.
`buildFilter` is the WHERE clause on columns, `Matching` (a property's definition)
says the same of the record by field name.

Three outcomes are left open on purpose, because the code leaves them open. Two requests may read one
authorization code and both remove it successfully: the removal does not tell whether there
was a row, so single use under concurrent requests is the core's to arrange. A handle that
is removed and stored again for another subject between the two statements of a
revocation is deleted with the others; `RevocationIsExact` speaks of tokens that
live through the call. And a decision by user code after the found authorization is gone
may reach the next owner of the code; `UpdatesReachWhatWasFound` ends with the row.

### RevocableStore, and how three modules implement it

The abstract store has no statement, snapshot or lock. A call on one record is one
step. A revocation or a cleanup lasts: `Begin` notes what its demand `Owes`,
`Finish` removes, in one step, at least what it has owed all the while (`due`), and
nothing that the demand does not allow (`Takes`) at that moment. For a revocation the two are the
same; a cleanup owes what is overdue and may take what has expired. Every answer but a
sentinel may come back as "wrapped", with the effect or without.

The constants say where the three implementations differ. `Replaces` tells an upsert
from an insert that is refused. `Meets` is how an update finds its record: a session
and a request by key, an authorization by its user code, which at most one record
has. `ByKey` singles out a demand with a weaker promise, that of `RemoveReferenceTokens`,
which deletes by the handles that its first statement collected: it may take whatever is stored
under such a handle by then, but nothing that has been there since the call began
without matching (`spared`).

| | `store` | a revocation | a cleanup | `due` |
|---|---|---|---|---|
| `SessionStore` | `rows` | `DeleteSessionsBySubjectID`, by the record's own subject | `DeleteExpired` | `due` |
| `GrantStores` | `rows` | `RemoveAll`, by the record's own fields | `RemoveExpired` of both stores | `due` |
| `HandleStores` | `rows` with the name of the table | `RemoveReferenceTokens`, both statements | `RemoveExpired` of the four stores | `lived`, of a revocation the matching ones |

So the mapping (`Clearings`, with `Demands` for what may be asked) hides the columns, the
scan, the locks and which statement of a revocation comes next, and the abstract
predicates read the record where the SQL reads columns. That a cleanup of many rows is
one removal of records that are expired at that instant, that a revocation delayed by a
writer's lock takes the row as the writer left it or not at all, and that no write brings
back a removed record is what `ImplementsRevocableStore` adds to the
properties stated one by one. What a read returns is not part of the abstract
store; `ReadsShowClients` and `ListingsAreExact` speak of that.

### Migrations

`schema` is the set of files whose objects exist, `booked` the content of
`schema_migrations` (or `NoTable`), `run` the call each runner has in progress:
the statement that comes next and the files left to walk over. `WaitsFor` says
which table lock or record of whose open transaction the next statement needs.
`data` remembers whether `device_codes` and `sessions` hold rows: `000002` adds a
NOT NULL column without a default, which rows refuse, and dropping `subject_id`
leaves sessions that a later `000003` does not fill in. `Cancel` is a canceled
context, a lost connection, a dead process or a deadlock victim.
`Overlaps = FALSE` restricts the calls to several Ups together or one Down
alone: hosts that start at the same time each run Up (the quick start calls it in
the startup sequence), and a rollback is an operator's act on a database at rest.

## 3. The runs

| Run | Instance | Distinct states | Shows |
|---|---|---|---|
| `refresh_races` | 2 callers, 2 handles, expected version 1 | 102,000 | `TypeOK`, `VersionsAreHistory`, `CopiesAreHistory`, `ColumnsMirrorPayload`, `ReclaimOnlyExpired`, `ImplementsVersionedStore` |
| `refresh_liveness` | 2 callers, 2 handles, fair | 66,000 | `CallsReturn` |
| `refresh_overflow` | 1 handle, a lifetime beyond a duration | | violates `ExpiresAtTracksLifetime` |
| `refresh_conflict` | 2 callers, 1 handle | | violates `ConflictMeansMismatch` |
| `keys_races` | 2 callers, 2 records, 1 public id, versions to 2 | 14,000 | `TypeOK`, `VersionIdentifiesContent`, `ColumnsMirrorPayload`, `UniquePublicIds`, `ImplementsVersionedStore` |
| `session_races` | 2 callers, 2 sessions, 2 subjects, 1 client, 3 expiries | 270,000 | `TypeOK`, `AppendsSurvive`, `ReadsShowClients`, `ImplementsRevocableStore`, `DeletesAreComplete`, `RevocationIsExact`, `CleanupIsSafe` |
| `handle_stores` | each of 4 tables: 2 callers, 2 keys, 2 records, 2 subjects, 2 user codes, fair | 47,000 | `TypeOK`, `RemovalsHold`, `ImplementsRevocableStore`, `UpdatesReachWhatWasFound`, `DeletesAreComplete`, `RevocationIsExact`, `CleanupIsSafe`, `CallsReturn` |
| `grant_stores` | each of 2 tables: 2 callers, 2 keys, 3 grants and 4 filters, 4 consents, fair | 33,000 | `TypeOK`, `ColumnsMirrorRecord`, `ListingsAreExact`, `DeletesAreComplete`, `ImplementsRevocableStore`, `CleanupIsSafe`, `CallsReturn` |
| `migrations_overlap` | 2 runners, any overlap, fair | 37,000 | `TypeOK`, `AppliedIsRecorded`, `RunsReturn` |
| `migrations_exclusive` | 3 runners, a Down alone | 4,000 | `RecordedIsApplied`, `PrefixApplied`, `ReturnsWhatItPromises` |
| `migrations_stale` | 2 runners, any overlap | | violates `RevertUnrecords` |
| `migrations_subject` | 1 runner | | violates `SessionsAreIndexed` |

**Bounds, and why they are enough.** A lost update needs two writers that read
the same version, and two callers are enough for it: either may also be the
reader or the cleaner that comes between two calls of the other. Expected version 1
reaches version 2, one more than a caller can name, so that an update, its retry and
a competitor's update follow each other. A deadlock and a partial cleanup need two rows and two callers,
and clashes of the unique index two records, so those runs take two of each. The handle stores need no third row: a
revocation that takes one token and leaves another, and a user code that passes from
one authorization to the next, are two. The three grants differ from each
other in one or several of the columns, and one has no session, which tells an empty column from NULL; the four
filters are the nil filter, a single value, a value beside a list on one column,
and conditions on two columns. `RowTable` has no symmetry set, because
these two runs check a liveness property.
`MaxVersion = 2` for key records is the top of the column's range: the guard at
the top is reached by one update. The expiry instances (4 ticks to a second, 2 to
a microsecond, durations of 16 ticks either way, the cutoff 5) contain a record
that is overdue by a microsecond exactly (the last instant a cleanup must take), one
that expires at the cutoff exactly and half a microsecond past
a column value, and one that never expires. Three files are all there are. For
every property that is also proved (section 5) the bounds do not matter.

**Fairness.** `FairSpec` of `RefreshTokenStore` assumes that a call which has
begun goes on: the statement after a zero-row update is sent (weak fairness), a
DELETE that has its rows commits (weak), the queue of a row lock is served (strong:
other callers take and release the lock meanwhile), and the database's deadlock
detector cancels one DELETE of a ring that waits for itself. `FairSpec` of
`HandleStores` and of `GrantStores` assumes the same, and for the former
that a caller with its list of handles sends the second statement of the revocation
(weak). `FairSpec` of
`Migrations` assumes the same of the statements of a run. Nobody is assumed to
begin a call, to repeat one or to cancel one; without the deadlock
detector `CallsReturn` is false, since the code retries nothing.

## 4. What the code does against what it says

- `refresh_overflow`. `time.Duration(token.Lifetime) * time.Second` wraps for
  lifetimes above about 292 years: the token is stored with an `expires_at` before
  its creation and the next cleanup takes it. The end-to-end test says that
  `expires_at` tracks creation plus lifetime.
- `refresh_conflict`. The comments of both `Update` methods say a zero-row
  outcome is "missing" for a missing handle and "conflict" for a version
  mismatch. A handle that is missing when the UPDATE runs and stored again
  before the check is answered "conflict" although it never had another version.
  Harmless for a caller that reads again, and `VersionedStore` allows it.
- `migrations_stale`. The comment of `Down` says that a down file runs and its
  record goes in one transaction. A Down whose DELETE found no record, because the
  Up that applies the file has not committed yet, waits for that Up's table lock
  and then drops the column while the new record stays. No later Up restores it.
- `migrations_subject`. `DeleteSessionsBySubjectID` "removes every session of
  the subject", but `000003` adds `subject_id` without filling it in for the
  sessions that exist.

## 5. The proofs

All proofs are checked by TLAPS to the last leaf. They assume of the constants
what the ASSUMEs of the modules state (a positive number of ticks, `Never` no
integer, `Absent` no row), and nothing about their size. Four theorems assume
in addition that callers store lifetimes that fit a duration; they are named below.

- **ExpiryProofs.** `ReclaimIsSafe`: for a lifetime that fits a duration, a row
  whose column precedes the cutoff belongs to a record that expires before the
  cutoff in exact arithmetic. Rounding down is monotone, so only wrap-around can
  break it, and the assumption excludes that. `ReclaimIsPrompt` is the converse, up
  to one unit of the column: what is overdue is reclaimable (`MicrosApart`).
- **RefreshTokenStoreProofs.** The inductive invariant is
  `TypeOK /\ LocksHold /\ ColumnsMirrorPayload /\ VersionsAreHistory /\
  CopiesAreHistory`. `VersionsAreHistory` alone is not inductive: a row's
  guard compares the column, so that the next payload gets the next position
  only because column and payload agree. The lemma `StepKinds` first sorts the
  actions by what they do to the rows (only read, insert, replace, delete, lock),
  and each conjunct has one step per kind. From the invariant follow `TypeCorrect`,
  `ColumnsCorrect`, `HistoryCorrect`, `CopiesCorrect`, `LocksCorrect`, then `ReclaimCorrect`
  (assuming that callers store representable lifetimes, which
  `refresh_overflow` shows to be needed) and `Refinement`: under
  `store = ` the payloads of the rows, each step is a step of `VersionedStore` or
  a stutter. The step that removes locked rows is where `LocksHold` is needed.
- **KeyRecordStoreProofs.** The same for the key records; `PublicIdsUnique` rests
  on the columns agreeing with the payload, since the index reads the columns and
  callers read the payload. `VersionsCorrect` and `Refinement` need in
  addition that versions stay within the range of the column.
- **SessionStoreProofs.** The invariant relates an open DELETE to the rows:
  what it has locked it still selects and nobody else has locked (`LocksRight`), and what
  it owes, a session that has been the subject's, or overdue, ever since the call
  began, it has still to visit or has locked (`DueRight`). Both need the
  columns to agree with the record (`ColumnsRight`): what is owed by the record is
  selected by the columns (`OwedSelected`). `Closes` shows that an open DELETE
  ends by its own commit or abort only. From these follow `DeletesComplete`,
  `RevocationExact` (which needs that NULL is no subject), `CleanupSafe`
  (with `MicrosStrict`: the rounded columns cannot make a live session look expired),
  `DeletedStaysDeleted` and `AppendsCorrect`, and from the last `ReadsCorrect`: only
  `GetSession` answers "get" (`OnlyReadsGet`), and what it loads is the column
  of a row that `AppendsSurvive` speaks of.
- **RowTableProofs.** What the statements of `RowTable` do to rows and open calls,
  for every store built from them: a removal takes the rows its caller holds and no
  row that another call has locked (`RowsGo`), a call that goes on or ends leaves the
  others alone (`CallGoesOn`, `CallEnds`), and no row is locked twice
  (`LocksApart` is preserved by each).
- **HandleStoresProofs.** `StepKinds` sorts the calls of all four stores by what they
  do to the table (quiet, insert, update, remove, begin, lock, hand over, end), and
  one lemma per kind shows that it preserves `Inv`. Its parts: the expiry column
  follows the record (`ColumnsRight`), what a cleanup has locked is expired
  (`LockedRight`), no user code is in use twice (`UserCodesUnique`, from the index),
  and a revocation has on its list, or locked, exactly the matching ones of
  the tokens that have lived since it began (`Owed`). `Owed` spans both statements: it is
  what makes the list of the first one a safe argument of the second. From these
  follow `RemovalsCorrect`, `RevocationComplete`, `RevocationExact`, `HandlesKept`,
  `UpdatesCorrect`, and `CleanupSafe` under the assumption on lifetimes
  that refresh tokens need too (`ExpiredLapsed`: what a cleanup has locked is
  expired by its own record). `DeletesComplete` adds the cleanups to `RevocationComplete`.
  It needs a second invariant, `Visits`, on top of the first and under the same assumption: what has been overdue since a cleanup
  began is there, still overdue, and still to be visited or locked (`CleanupGoesOn` says
  how each kind of step treats an open cleanup, `LateExpired` that its snapshot and its
  re-checks select what is overdue).
- **GrantStoresProofs.** `FilterMatches` shows that the WHERE clause on columns and
  the filter on record fields agree wherever the columns mirror the record. The
  invariant adds that an open DELETE still selects what it has locked
  (`LockedRight`: a writer waits for the lock, so the row cannot leave the filter
  before the commit) and that a record which has matched, or was overdue, throughout is
  still to be visited or locked (`DueRight`: a row that is passed over no longer matches,
  by `OwedSelected`). From these follow `ColumnsCorrect`, `ListingsExact`, `DeletesComplete`,
  `RevocationExact` and `CleanupSafe`, the last without an assumption on the records, since an
  optional instant is not multiplied.
- **`Refinement` of SessionStoreProofs, HandleStoresProofs and GrantStoresProofs.** The
  mapping of section 2 takes `Init` to `RS!Init`, and `RefinesStep` takes each step to a
  step of `RevocableStore` or to a stutter; one lemma per kind of call says which.
  They share a frame: a call that changes the records under some keys changes the
  `due` and `spared` of every other open revocation or cleanup as `Revised` says (`Followed`, then
  `Revises`), and a step that changes none leaves all mapped state alone
  (`Untouched`, `Steady`). The work is in the commit of a DELETE. That the locked
  rows are selected by their records at that instant comes from the locks and the columns
  (`LockedRight` and `ColumnsRight`; `LocksRight` for sessions), that they contain all that
  is due from `DueRight`, in `HandleStoresProofs` from `Visits` for a cleanup and from `Owed`
  for the two-statement revocation, whose first statement
  must already have collected what is due and nothing that is spared. Storing
  an authorization needs `UserCodesUnique`: no two records are met by one user
  code. In `HandleStoresProofs` the theorem is under the assumption on lifetimes, which
  both sides of a cleanup need: to take what has expired only, and all that is overdue.
- **MigrationsProofs.** `TypeCorrect` and `AppliedRecorded` hold for any overlap:
  `TypeOK /\ AppliedIsRecorded` is inductive, because a transaction that records
  a file applies it and one that deletes a record reverts the file, whatever
  the others did meanwhile. `RecordIsRight`, `OrderIsRight` and `PromisesKept`
  assume `~Overlaps`. Their invariant `Alone` adds what a call that works from a list
  read once may rely on: a Down has no other call beside it and its list is
  the record (`DownIsAlone`, `DownKnows`), and every file that an Up does not
  find in the schema is still on its list (`UpKnows`).

`DeletedStaysDeleted`, `HandlesKept` and the `RevocationExact` of `GrantStoresProofs` have
no run of their own: the abstract store implies them, and the runs check that. The
`RevocationComplete` of `HandleStoresProofs` is a part of `DeletesComplete` that needs no assumption.

Only model-checked: liveness (`CallsReturn`, `RunsReturn`), which is out of reach
of the prover with its fairness and ENABLED.
The models use no RECURSIVE operator, and nothing that is proved needs induction
over data.

## 6. Not modelled, and why

- *Payload codec.* A stateless round trip through JSON and base64, applied
  to the whole record; it ignores the payload's version and `dataProtected`
  fields. A record comes back as it went in, or the call is wrapped.
- *Logging, base, constructors, error text.* No state and no control that a property
  is about.
- *Unwrapping of error chains* in `store/errors.go`: only its result is an answer.
- *Columns and types of the SQL files* beyond what the files create, need and drop.
- *Transactions around store calls.* The stores take a pool, never a caller's
  transaction.
- *Reuse of a random handle by another owner while a call is open*, and *single use
  of a code under concurrent requests*: the code claims neither (section 2).
- *The conformance factory, the tests, the lineage gate and CI.* Not the program.
- *PostgreSQL itself.* Row locks, snapshots, indexes, table locks and deadlock
  detection are external and modelled as the statements rely on them.

## 7. Plan

Every store and the migration runner are modelled, checked and proved about. What is
left, by what it would add:

1. Migrations running under the stores: which store calls fail, or write rows that a
   later file leaves unindexed, while `Up` and `Down` run beside them. So far the two
   meet only in `data` of `Migrations`.
2. `SessionStore` rebuilt from the operators of `RowTable`, and its proofs from the
   lemmas of `RowTableProofs`.
3. That the cleanup of refresh tokens misses nothing that is overdue, as is shown of the
   other stores; `VersionedStore` lets a cleanup take any set of expired tokens.

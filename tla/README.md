# A TLA+ model of the QuickBooks connector

The repository is an MCP server that lets an assistant read and write the books of
QuickBooks Online companies. It runs as a short-lived Node process per client; several
such processes share one directory of tokens, ledgers and settings. What can go wrong
is what happens *between* two steps: two processes, a crash, a time-out whose request
arrives after all, a file written half. This directory models those parts, checks them
with TLC on small instances, and proves the main results with TLAPS for every instance.

Paths below are relative to `src/src/` of the repository.

## 1. Inventory

| Part | State it keeps | Operations | Hard because |
|---|---|---|---|
| Owner-marker lock (`owner-lock.js`) | a directory at `lockPath`, a uniquely named marker in it, quarantine containers beside it | acquire, release, inspect, reclaim a dead owner, quarantine an old empty directory | no atomic "mkdir and publish"; any process may stall between two filesystem calls; inodes and pids are reused; an rmdir can arrive late |
| Write and its recovery (`qbo.js` `qboRequest`, `qboUpload`, `qboFetch`; `audit.js` ledger) | append-only recovery ledger, one lock per request id, Intuit's memory of request ids | draw or replay an id, intent, send, retry, outcome, list unresolved | a timed-out request may be applied later; the process may die anywhere; Intuit forgets ids after a while |
| CSV import (`index.js` `runBankCsvImport`; `csv.js` journal) | import journal: newest preview, state of each row; import lock | preview, import in chunks of 30, reconcile unconfirmed rows | crash between intent, POST and outcome; batches answered partly; the chart of accounts changes after the preview |
| Token lifecycle (`qbo.js` 405-1850, 2403, 2736) | canonical token bundle, refresh-recovery journal, staged import, refresh and realm locks | refresh, promote, roll back, import, disconnect | the refresh token is single-use: a lost answer loses the connection; two processes refresh at once |
| Authorization listener (`qbo.js` 675-955) | the one `pending` authorization, an HTTP server, a timer | begin, callback, status, cancel, time-out | a callback suspended in an await outlives its authorization |
| Write policy (`policy.js`) | policy file with backups, cache by file identity | update, load, merge the strictest rules, check a write | concurrent updates; a stale cache; a policy tightened between check and send |
| Key store (`secure-store.js`) | encryption key in a file, the macOS keychain or Windows DPAPI | create once, read, encrypt, decrypt | two processes create the key at once |
| Client roster (`clients.js`) | JSON file under an owner lock | register, resolve | lost update |
| Company registry (`company-registry.js`, `token-directory.js`) | none (scans the token directory) | list, find siblings of a realm | reads while another process renames |
| Multi-company entry (`index.js` 3430-3500, `lines.js`) | `pendingWritePlans` in memory | preview, confirm, post to each company | single-use confirmation, partial failure |
| Pure algorithms (`allocate.js`, `reconcile.js`, `csv.js`, `entities.js`, `util.js`, ...) | none | split an amount, match a statement, find duplicates, read amounts | rounding, signs, ties |
| Tools, setup, diagnosis (`index.js`, `tool-profiles.js`, `output-schema.js`, `doctor.js`, `connect-*.js`) | none of their own | call the parts above | sequential |

How they meet: every write of every tool goes through `qboRequest` (or `qboUpload`), which
asks the policy, gets a token (maybe by a refresh under the refresh lock and, for an
authorization, the realm lock), then takes the lock of its request id and, inside it,
for each append, the ledger lock. A CSV import holds its import lock around several
`qboRequest`s and takes the journal lock for each append. All these locks are the
owner-marker lock, so its exclusion is what everything else rests on.

What makes each part correct: *lock* - exclusion, owners keep what they own, dead owners
do not block for ever; *writes* - applied at most once per id, the ledger tells the truth;
*import* - no row posted twice, the journal tells the truth, nothing posted that was not
previewed; *tokens* - no refresh token in doubt sent again, no successor lost, no newer
credential overwritten by recovery; *listener* - a result belongs to the authorization that was asked for; *policy* -
no update lost, no write sent that the policy in force at the check forbids; *key* - one
key for ever; *confirmation* - each plan posted at most once.

## 2. Modules

| Module | Models |
|---|---|
| `ExclusiveLock` | what a caller of `withOwnerDirectoryLock` is promised |
| `OwnerLock` | the directory protocol, one action per filesystem call |
| `OwnerLockProofs` | proofs about it, the refinement of `ExclusiveLock` included |
| `WriteRecovery` | one QuickBooks write from the drawing of its id to its durable outcome, with retries, replays, Intuit and the network |
| `WriteRecoveryProofs` | proofs about it |
| `CsvImport` | `runBankCsvImport` with its journal, QuickBooks and its users |
| `CsvImportProofs` | proofs about it |
| `TokenLifecycle` | the credential of one company: use, refresh, recovery, authorization, import |
| `TokenLifecycleProofs` | proofs about it |
| `Authorization` | how companies are gained and given up: the browser listener, the terminal flow, the import, `disconnectCompany`, several names and companies at once |
| `AuthorizationProofs` | proofs about it |
| `WritePolicy` | the policy file: its rules, their merge, the check of a write, updates from several processes |
| `WritePolicyProofs` | what the recursive parts of the rules compute |
| `JournalPlan` | `create_journal_entry_multi` on top of `WritePolicy`: preview, single-use plan, posting |
| `JournalPlanProofs` | proofs about both |
| `Allocation`, `Reconciliation` | the pure algorithms of `allocate.js`, `csv.js` (`planImport`) and `reconcile.js` |
| `Bookkeeping` | one bank account over some days: the three tools that use them |
| `BookkeepingProofs` | proofs about the three, with the theory of sums, kept rows and ordered rows they need |
| `MC*` | constants and symmetry for TLC |

`WriteRecovery`, `CsvImport` and `TokenLifecycle` use the lock as `ExclusiveLock` describes it (a variable
with the holder, freed by the holder's end or death); `OwnerLock` is shown to implement
that. `CsvImport` takes a batch to reach QuickBooks at most once, which is `AtMostOnce`
of `WriteRecovery`. `Authorization` takes a credential as the grant it belongs to and
leaves its refreshing to `TokenLifecycle`; `JournalPlan` leaves the request itself to
`WriteRecovery`.

Each module ends its operators with properties; an operator whose comment starts with
"Mutant of" is a plausible bug of the operator after it, used only to show that a property
notices it.

### 2.1 OwnerLock

State: `lock` (the inode at `lockPath`), `contents` (the markers in each inode), and per
process a program counter `pc` that names the next filesystem call and the locals that
later calls compare with: `tok`, `claim`, `seen` (the `lstat` taken), `obs` (the marker
found), `moved` (the directory renamed into quarantine). Actions follow the code's
functions: `Mkdir .. Confirm` are `tryAcquire`, `Preserve` and `"abandon"` are
`cleanupFailedAcquisition`, `RemoveMarker`/`RemoveDirectory` are
`removeMarkerThenDirectory`, `Look .. ReadBusy` are `inspectLock` and the branch on its
result, `ReclaimMarker`/`ReclaimDirectory` are `reclaimDeadOwner`, `PublishClaim ..
QuarantineRmdir` are `reclaimOldEmptyDirectory`. Two calls without a shared effect in
between are one action (`readdir` of a name and its `lstat`).

What is abstracted: a marker's text is `<<process, serial>>`; writing the temporary file,
its fsync and its rename are one `PutMarker`; age is a free choice, since any process may
have slept; a quarantined directory left behind is never read again and so forgotten;
`mkdir` may return any free inode, the most hostile reading of inode reuse. A pid used
again by another program is the constant `PidReused`: its dead owner looks alive and is
never reclaimed. `CHANGED` results and `ENOENT`s are the branches on `lock` and
`contents`. The restart of a crashed process is another member of `Proc`.

### 2.2 WriteRecovery

State: per call a `pc`, its `req`, `env`, `replay`, `attempt` and the message of the
attempt (`copy`, `answer`); of the ledger, the first intent (`firstEnv`) and the latest
record (`latest`) of each id, because that is all `findWriteRecoveryStateByRequestId` and
`listUnresolvedWrites` decide on, and whether some line is torn (`corrupt`); the owner of
each id's lock; `age` of an id; and Intuit: `stray` copies, `memory`, `applied`. `sent`
and `drawn` are history.

`Append` is one step because the ledger lock is held around write and fsync; a failed
append, or a crash in one, leaves nothing, the line, or a torn line. `TornElsewhere` is
the same happening to another write, all ids sharing one file: a line that only lacks its
newline is whole until the next append makes it torn, which is one order of these two. `Receive` may turn a message
that was applied, refused or is still travelling into a 408/5xx or a time-out; a message
abandoned while travelling becomes a stray copy. `Retry` allows a retry whenever the code
might (a 408, which the code never retries, is not told apart from a 5xx; whether the
back-off fits before the deadline is left open).

One clock: the code computes a new write's retry deadline when it sends, a few
milliseconds after the time stamp of the intent, and compares a replay with the time
stamp; the model has one `age`. Assumption about Intuit (`Forget`): an id is forgotten
only after the replay window (`QBO_RECOVERY_REPLAY_MAX_AGE_MS`, 90 s by default) and not while a copy sent earlier is still on its way. Not modelled:
`claimRecoveryRequestId` and the optional monthly audit.

### 2.3 CsvImport

State: per call its `plan`, what it `found` in QuickBooks, what is still `todo`, the
current `chunk` with its message (`wire`, `accepted`, `answer`); the journal (`row`,
`preview`, `torn`); the import lock's `holder`; and outside: `chart` (what the categories
resolve to now), `strays` (batches whose call is over), `books`. `Fail` stands for every
error before the next append: a query, the policy check, a token, the wait for the
lock. `PartialAppend` is what a failed append leaves; the lines of one append may be kept
partly. `ScanMarkers` may miss posted rows (date window, indexing delay); a truncated scan
throws and is a `Fail`.

Not modelled: parsing and planning of the rows, the wording of a preview, closed-period
warnings.

### 2.4 TokenLifecycle

State: the three files of a slug, `canon` (the token file), `journal` (the refresh recovery
journal) and `stage` (the import sidecar); the holder of the refresh `lock`; per process
its `op` (using, authorizing, importing, resuming), `pc`, the credential in hand `cur` and
the canonical one it read earlier `before`. Outside: `issued` numbers what Intuit issues,
`expired` is the clock, and `spent` is history: the refresh tokens that were sent without a
definite answer, or replaced. A bundle is its access token's number, its refresh token
and the quarantine mark; Intuit may keep the refresh token or replace it.

`Use .. Load` are `getValidTokens`; `RecoverSettled`, `Promote`, `Tidy` are
`recoverNormalRefreshLocked` (its refusals are the absence of a step other than `Abort`);
`Choose .. Post` and the three answers are `refreshTokensLocked`; `Reject`,
`FailAmbiguousRefresh`/`Mark` and `Record .. Confirm` are its three endings. `Authorize`
starts where the browser flow has a credential in hand, `Import` and `Resume` are the
Playground command; all three end in `Save .. Clear`, which are `persistAuthorizationLocked`.
Each durable replacement of a file is a step of its own; reads and decisions between two
of them under the lock are part of the step. `Abort` is every throw, every failed file
operation (which happened or did not: the rename is atomic) and the death of the process.

Assumptions, and what they leave out: one company and one realm, so the duplicate-realm
checks can only throw; a call that carries a newly minted credential ends before that
credential's access token expires (one hour, against time-outs of minutes), while a call
that waits for the lock or for an answer may wait for any time; `OutsideAuthorization` is
the writer outside the module that two comments of the code reckon with. Disconnecting is
in `Authorization`: its journal never exists here.

### 2.5 Authorization

State: the three files of each slug, `file`, `stage` and `receipt` (the disconnect recovery
journal, a state for each credential in it); `slugLock` and `realmLock`; the server's one
`pending` attempt and whose server has the callback `port`; per call its `op`, `pc`, slug
`at`, the grant `cur` it saves or revokes, the grant `prev` it would roll back to, and a
disconnect's journal in memory (`book`, `todo`, `durable`). Outside: which grants Intuit
issued for which realm, and (history) for which it may have carried out, or has confirmed,
a revocation.

A call is a callback of the server (`Attempt`) or a command-line process (`Proc`).
`BeginAuthorization .. Fail` and `Connected` are `beginAuthorization` with its timer and
its status, `CancelAuthorization` the tool of that name; `RunAuthorizationFlow`,
`ImportRefreshToken` and `RecoverStagedTokenImport` are the other ways to a credential; all
meet in `TakeSlugLock`/`Begin`, `LockRealm`, `Vet`, `Write`, `VerifyImport`, `RollBack`,
which are `persistAuthorizationLocked` and its verification. `DisconnectCompany ..
UnlinkReceipt` are `disconnectCompany`: the journal before the first revocation, a mark
before each, the answer after it, in memory and, unless that save fails, on disk; files go
only when everything is confirmed and recorded, the journal last.

`Fail` is every throw, every failed file operation, every refusal of Intuit and the death
of a command-line process, at any step; so a check is the guard of the step behind it. A
check that is repeated later on newer data only adds refusals and is left out, and so is
`--replace-existing`. `Overtaken` says whether an attempt may be cancelled or replaced
while its callback is at work: the code lets it, and that is a finding; the run and the two
theorems about the listener exclude it, the others do not need to.

### 2.6 WritePolicy and JournalPlan

State of `WritePolicy`: the `policy` file, the number `gen` of its generation (its
identity: device, inode, size, times), the newest `backup`, the server's `cache`, the
policy `lock`, and per process the step, the change and the document of an update; `want`
is history, the rules users have set. `SetCompanyPolicy`, `ReadDocument`, `Replace` are
`setCompanyPolicy` in three steps, `FailUpdate` its throw or its process's death;
`DeleteFile` is anybody. A rule that is absent is "unset" or 0: so a rule that a person
wrote by hand as `null` for one company, which overrides the default with nothing, and a
cap of 0, are not modelled; `setCompanyPolicy` writes neither.

State of `JournalPlan`: `plans` (`pendingWritePlans`) and what each `previewed`; per call
its arguments, its `manifest`, the companies `left`, and for a check the policy `copy` it
has and the generation `since` which it began; the version of each company's `books`;
`posts`. What the lines of an entry resolve to in a company is the version of its books: an
edit changes it. `Resolve` is one company of the first loop, `Preview`, `Confirm`,
`RefusePlan` the branch on the plan id, `Check`, `Judge`, `Send` or `PostFails` one company
of the second, with other calls and processes between them. `Effective` is `policyFor`:
the rules of all names of one realm, merged pairwise by `Stricter`, a recursive function
like the loop in the code; `WriteAmount` adds the lines of each side. The amount and the
dates of a write are given, not collected from its body, and `qboRequest`'s first check in
`Resolve` is one step (it is repeated before anything is written).

### 2.7 Allocation, Reconciliation, Bookkeeping

`Allocation` has `planInvoiceAllocations` and `planBillPaymentApplication`, in cents, with
the amounts of the caller in tenths of a cent so that rounding happens; half a cent is left
out, because `toFixed` decides it by the binary fraction. `Reconciliation` has the signs
and rows of `planImport`, `bankRegisterFromGl`, `bankTieOut`, and `matchTransactions` with
its dynamic programme: `ByDate` are the rows of one amount in the order of their sort,
`ScoreRow` is a row of the table, `BestScore` the table. A cell carries the pairs that make
its score; the code finds them again from directions and checkpoints, which are left out.
Loops over rows are recursive functions of the number of rows seen (`Spread`, `Keep`,
`ScoreRow`, `BestScore`) and sums are `SumFunction`, so that they can be reasoned about.
`Bookkeeping` puts the algorithms to work:
`CreatePayment` and `CreateBillPayment` plan and post, `BankShows` and `NextDay` are the
bank and the calendar, and `ReconcileBankCsv` reads a statement that the bank prints
(`Printed`) against the ledger QuickBooks reports.
QuickBooks' own part - a line lowers a balance, the register, the General Ledger with its
opening row - is modelled from how the code reads it, and marked external.

`BookkeepingAssumption` says what the tools' schemas do: amounts asked for are positive
(`index.js:2601`, 2605, 3148). A document is an invoice, a bill or a credit, because the
tools fetch it as one; an invoice that cannot be fetched is `None`. A cell of a file that
shows a negative amount has some mark, or nobody could read it.

## 3. Runs

| Run | Instance | Shows |
|---|---|---|
| `owner_lock` | 3 processes, 2 on one host and 1 remote, 2 serials, 4 inodes, Windows, 1 crash or failed call | the safety properties and the refinement |
| `owner_lock_liveness` | 2 processes, 1 crash, one pid used again | `CallEnds`, `CrashRecovers` |
| `owner_lock_delayed_rmdir` | 2 processes, no fault | a promise in a comment that the code does not keep (below) |
| `write_recovery` | 3 callers, two of which retry writes, 1 id, 2 envelopes, 1 retry, 2 stray copies, 2 faults | the safety properties |
| `write_recovery_rejected` | 2 callers, 1 crash | a promise in a comment that the code does not keep (below) |
| `csv_import` | 2 calls, 3 rows in chunks of 2, 2 plans, 2 faults | the safety properties |
| `token_lifecycle` | 2 processes, 5 credentials issued, any number of crashes | the safety and action properties |
| `token_stranded_stage` | 2 processes, 4 credentials, imports interrupted at the end too | a promise in a comment that the code does not keep (below) |
| `authorization` | 2 slugs, 2 realms, 1 browser attempt, 2 command-line processes, 2 grants | the safety and action properties |
| `authorization_overtaken` | the same with 2 attempts and 1 process, attempts overtaken | a promise in a description that the code does not keep (below) |
| `journal_plan` | 2 names for one or for two companies, 2 calls, 1 plan, 2 processes that change the policy twice, 1 change of the books | the safety properties |
| `bookkeeping` | 3 invoices, 2 bills and a credit of 3 parties, 11 payments, 3 days, 3 rows in the books and at the bank, 3 export formats | the algorithms against what they are for |

Why these bounds. *Lock*: a wrong reclaim needs an observer, an owner and a newcomer,
hence three processes, and a directory each plus one that comes back; one fault beside
them brings every interleaving with a crash; more of each is the theorems' business.
*Writes*: ids share only the torn line, so one id with three callers (original, replay,
rival) and two envelopes shows what two ids would; two faults are a crash and its
recovery's crash. *Import*: three rows in chunks of two give a full chunk and a last one;
two calls and two faults give a crash, a rerun, and a crash of the rerun while an old
batch is still on its way. *Tokens*: the first credential, a refresh whose answer is
kept in the journal, an authorization or import beside it and one more refresh take four;
the fifth lets an outside writer come between. The lock serializes everything but the
outside writer, so two processes show what more would. *Authorization*: a conflict needs
two names that want one company and a third call between two steps of theirs; two grants
are one to save and one to revoke or to lose against; the theorems have no such bound.
*Plans*: two confirmations race for one plan while another process takes a policy through
two generations, which is a stale copy and its replacement; the entry's sides differ, so a
cap between one line and a side tells whether lines are added. *Bookkeeping*: rows of equal
amounts on neighbouring days, three a side, are the smallest case in which the nearest
match is not the best; payments with fractions of a cent, repeated documents, foreign
documents and too much money are among the eleven. Symmetry is used only in safety runs and only for sets whose
members the module treats alike.

Deadlock is checked in every run but `bookkeeping`, which ends when its days and rows are
used up.

Properties beyond the types:

* `MutualExclusion`, `OwnerKeepsMarker` (a release never finds its marker gone),
  `ClaimPinsDirectory` (no owner is inside a directory about to be moved away),
  `NoLiveLeftover` (a failed call of a live process leaves nothing that nobody would
  reclaim), `OnlyOwnMarkersRemoved`, `ImplementsExclusiveLock`.
* `CallEnds`, `CrashRecovers`. `CrashRecovers` says *one* crash. Two can leave two markers
  in one directory, which the code calls malformed and leaves to an operator; so does the
  marker of another host or of a pid in use again.
* `AtMostOnce`, `BoundEnvelope`, `OkMeansApplied`, `ResolvedNotResent`.
* `NoReplay` (across processes and crashes), `SpentIsGuarded` (why it holds: whatever may be
  consumed is marked or journaled), `QuarantinedIsExpired` (why it is harmless that
  `chooseRefreshSource` returns a fresh credential on disk without reading its mark),
  `SuccessorKept` (the only copy of a new refresh token stays until it is installed),
  `RecoveryMovesForward` (recovery does not overwrite a newer authorization).
* `UniqueRealm`, `NoForeignRevocation` (the identities are checked once, before several
  requests), `NoRevocationReplay`, `ReceiptKept` (no credential goes before its revocation is
  confirmed and recorded, and none comes meanwhile), `LockOrder` (why slug and realm locks
  cannot wait in a circle), `PortReleased`, `ReportedCompanyLanded`.
* `RulesKept` (updates and a deleted file), `BooksGuarded` (an alias, an override or a cached
  copy never loosens a rule), `PlanPostedOnce`.
* `MoneyConserved` (per party, to the cent), `MatchOptimal` (against every possible pairing),
  `TieOutExact` (the difference shown is what the two balances differed by before the first
  day, for every range of days, and nothing else).
* `RowPostedOnce`, `PostedIsInBooks`, `RejectedIsNotInBooks`, `SentAsPreviewed`.

### Fairness

Only `owner_lock_liveness` assumes any. Every live process takes its next step (`WF`):
calls of the filesystem return, and every `fn` run under a lock ends because its HTTP
calls have time-outs. Leaving the wait loop by the deadline, and finding a directory older
than `staleAfterMs`, are strongly fair: a process that waits again and again reads a clock
that advances. Nothing else is assumed: calls may never be made, crashes may happen or not.
The other modules state no liveness: their calls either end by an error, which every step
allows, or wait for a lock, whose waiting `OwnerLock` has; that a plan, an import or a
disconnect always succeeds is not promised.

## 4. Findings

* **A delayed rmdir can touch the newcomer** (`owner_lock_delayed_rmdir`). The comment at
  `owner-lock.js:595-597` says a new owner can acquire the path "without any delayed rmdir
  being able to touch it". A releaser that stalls between its unlink and its rmdir (line
  195) leaves an empty directory; another process quarantines it; a newcomer creates the
  directory anew; the stalled rmdir then removes it before the newcomer's marker is in it.
  The newcomer's call fails with an error. Exclusion is not affected.
* **A rejection can hide an applied write** (`write_recovery_rejected`). The comments at
  `audit.js:432-433` and `qbo.js:2158-2159` take a 4xx for a clean resolution. When the
  first attempt's fate is unknown (crash, time-out) and its replay is refused for a reason
  that has nothing to do with the id - an expired access token, throttling - the rejection
  becomes the latest record: the write leaves the list of unresolved writes and cannot be
  replayed, yet the first copy is, or will be, in QuickBooks.

* **A stranded stage is a second copy of the refresh token** (`token_stranded_stage`). An
  import saves its credential as the canonical one (`qbo.js:1080`) and removes its stage
  last (1716). If it stops in between, the stage stays, unmarked. Ordinary use later
  refreshes the canonical copy, and the answer is lost or brings a new refresh token.
  Running the Playground command again resumes the stage: its access token has expired, so
  `refreshTokensLocked` is called with `persist = false`, does not look at the recovery
  journal (1547), and sends the same refresh token again, although 1574-1576 say that it
  "will never replay `current.refresh_token` blindly". `token_lifecycle` and two
  theorems exclude exactly this interruption (`PromotionInterrupted = FALSE`).

* **A callback can report into another attempt** (`authorization_overtaken`). The callback
  of the listener reads the module's `pending` again after its awaits (`qbo.js:912`, 924).
  When `cancel_connection` and another `connect_company` came in between, it writes its
  result into the new attempt: `check_connection`, which is to "confirm which QuickBooks
  company actually landed" (`index.js:1171`), reports the new slug as connected to the old
  one's company. The credential itself is saved under the slug it was asked for.

## 5. Proofs

Assumptions: those named `...Assumption` in each module and nothing else; the sets of
processes, inodes, ids and so on are arbitrary, also infinite. They say what the code
gives: realms are numbers, in `WritePolicy` the companies on a machine are finitely many,
in `Bookkeeping` the documents are and amounts asked for are positive, and `None` is none of
the values it stands beside.

*OwnerLock.* `MutualExclusion` is not inductive. The invariant that is (`LockInv`) speaks of
*pins*: a process inside `fn`, or about to rename the directory away, has seen its own
marker (or claim) alone in the directory. `Pinned`: that marker is still at `lockPath`.
`OnePin`: at most one process pins, owners and claimants together, for a second one would
have had to see its own entry alone beside the first. `ReclaimsDead`: a reclaimer names
the marker of a dead process, never a pin's. `QuarantineApart`: quarantined directories
are not at `lockPath`. `OwnNames`: processes use marker names of their own. `NoLiveLeftover`
and `OnlyOwnMarkersRemoved` need additionally where each marker of a live process can be at
each step. `Refinement` maps `holders` to the processes inside `fn`: a `Confirm` that
succeeds is `Acquire`, `RemoveMarker` and a crash or fault inside `fn` are `Leave`, all
other steps stutter.

*WriteRecovery.* `Owned`: only the holder of an id's lock is past "own". `Drawn`: an id is
drawn for one new write, and an id without a durable intent was never sent. `Bound`: a
call past its intent works under the first envelope and its intent stays the latest
record. `Remembered`: Intuit remembers what it applied as long as a copy is on its way or
a call may send one - this is where the replay window and the deadline are needed.
`SeenOk`: a success seen is one. Together they imply the five theorems.

*CsvImport.* `Exclusive`: only the holder of the import lock is past "lock". `Accounted`:
a row the journal holds to be open is in no book and no batch on its way; one adrift is in
one batch only. `Knows`: what a call found out about its rows stays true while it holds the
lock. `Previewed`: a live call past the comparison agrees with the newest preview.

*TokenLifecycle.* The invariant has two layers. `TypeInv`, `JournalStep` and `Clocked` hold
without any assumption: what a process at each step has in hand (`Shape`), that the journal
is the one its own call wrote while a call is between its preparation and its end
(`JournalStep`), that the successor in a journal is later than its predecessor, and that a
marked or waiting credential has expired (`Clocked`); they give `QuarantinedIsExpired`,
`SuccessorKept` and `RecoveryMovesForward`. `Kept` needs `~PromotionInterrupted`: `Numbered`
(nothing carries a number that was not issued), `SpentKept` (a spent refresh token is in
the token file only under a mark or a journal, and never in hand at "post"), `WaitServed`
(a call that waits to refresh will find a credential in the token file), `Source1` (what it
sends is what it read there), `Apart` (staged and imported refresh tokens are nobody else's). Interrupting a
promotion breaks `Apart`, and that is the finding. `Kept` gives `NoReplay` and
`SpentIsGuarded`.

*Authorization.* `UniqueRealm` speaks of token files, but is kept by locks, by what calls
have in hand and by what journals remember, so the invariant (`Inv`) has eight layers, each
needed by the next. `Shape`: types, and what the next step of a call says about its locals.
`Locked`: who is inside holds the lock of its slug, and a realm lock has its holder inside.
`Homes`: a grant that somebody has was issued, and belongs to one slug - in files, journals
and memory together, so that a revocation can only be one's own. `Alone`: a call that saves
a grant, or revokes, guards its companies: a guarded company is locked and nobody else's.
With it a save keeps `UniqueRealm`. `Ordered`: the least lock still missing lies above those
held; that a least one exists comes from the library's well-founded order of finite sets
(`LeastNumber`). `Marked`: a grant whose revocation may have been carried out is marked as
sent wherever its slug keeps it, so it is not sent again. `Kept`: journal on disk and in
memory agree, what they call confirmed is revoked, and files go in order. For the listener,
`Served` under `~Overtaken`: whose server has the port waits, and a callback at work belongs
to the pending attempt. Most steps leave most layers alone; `Calm`, `Ladder`, `Gains` name
what an action can do to a layer, so that its proof has one case for each kind of step.

*WritePolicy.* `StrictestWins`: whatever the merged rules of any number of names permit, the
rules of each of them permit. `Effective` and `WriteAmount` are recursive functions on
finite sets and on positions; the library's induction theorems cannot be used, so a smallest
set (number) for which the recursion defines no function, two merges differ, or the claim
fails, is taken and led to a contradiction (`SmallestSet`, `MergesAgree`, `MergesExist`,
`SumsExist`).

*JournalPlan.* `Updates`: the rules users have set are in the file, or in the document that
is about to replace it, unless the file is gone, and a document is written for the file
whose backup was taken; with the lock this gives `RulesKept`. `Plans`: a plan that waits has
posted nothing and nobody posts under it, so the call that takes it is alone with it, and
what it has left is what was shown and not posted. `Guards`: a call that sends has a copy
from its own check, which permits the entry under every name (by `StrictestWins`).

*CsvImport*, types: a chunk of `NextChunk` has at most `ChunkSize` rows, because all of it
but its last row comes before that row (`LastRow`, `NextChunkBounded`).

*Bookkeeping.* Its properties are about algorithms on rows of any number, so most of the
proofs are inductions over data. The library states induction with an operator as parameter,
which no installed prover instantiates; `NatInduct` and `FiniteInduct` say the same of a set
that is closed under the step (from `LeastNat`, the least number of a set), and `Iterates`
says that a recursive function over `0..n` exists, so that `Spread`, `Keep`, `ScoreRow` and
`BestScore` may be unfolded one step at a time. `SumFunction` is recursive over sets: its sum
over a set is that over one member and over the rest, *whichever* member (`SumRemove`, from
`AddsExists`, `AddsAgree`), and from that follow sums of unions, differences, images and
longer lists.

`MoneyInv`, the types and `MoneyConserved`, is inductive; what carries it is about the plans.
`InvoicePlan`, `BillPlan`: an accepted plan has one line for a document, of the payer's,
positive and within its balance, and its lines make up the money; `SpreadPlan` is the loop of
the bill payment, where what is left and what is spread add up to what there was.
`PaymentConserves`: taking such lines off the documents and entering the money keeps the
balance of every party.

`MatchIsOptimal`. A cell of the table is best if no matching of its rows scores better
(`Best`). In rows of one amount, ordered by date, a best matching that uses the last two rows
in different pairs can be uncrossed: pairing the two with each other, and their partners,
costs no more (`Uncross`, `Exchange`), and the partners are within the tolerance. So a cell is
best when the three it is computed from are (`CellBest`), by induction so is the table
(`BestScoreBest`), and as rows match only rows of their own amount, the pairs of all amounts
together are best (`MatchPairsBest`, over the finite set of amounts). `Ranks` shows that
`Ordered` is a sequence: the members of a finite ordered set have 0, 1, 2, ... before them.

`TieOutIsExact`. What the file prints is read back with its sign in each convention
(`PrintedReads`), so the import's flows are the bank's rows of the range (`ImportFlows`), and
the register's are those of the ledger, whose ending is its balance on the last day
(`LedgerReads`). Matched rows have equal amounts and are paired one to one, so the sums of
what is left on both sides differ by what the flows differ by (`LeftOver`,
`LeftUnmatched`); inflows less outflows are the net change (`SignSplit`), and what remains is
the balances before the first day. It needs only the types of a state.

Only model-checked: the liveness properties `CallEnds` and `CrashRecovers` (fairness and
ENABLED are out of the prover's reach). Every invariant and action property that a passing run
checks is a theorem. `token_lifecycle`'s `NoReplay` and `SpentIsGuarded`, and the two about the
listener, are theorems under the named assumption the runs make.

## 6. Not modelled, and what could come next

* **Key store** (`secure-store.js`). Two processes that create the encryption key at first
  use are a real hazard, and it is listed. The file variant could be modelled: a complete,
  flushed temporary file is published by an exclusive hard link, and the process that loses
  reads the winner's key (89-200). With the keychain and DPAPI the same question is decided by
  commands whose behaviour would be an external step. The case most worth a model is a power
  loss: a reader may use a key that was just linked, for a token file in another directory,
  before its creator has flushed the key's directory.
* **Client roster** (`clients.js`): read, change and replace one JSON file under the owner
  lock, the steps of `setCompanyPolicy` without a cache and backups.
* **Company registry**: a scan, modelled by its two uses (`Siblings`, `Elsewhere`);
  `resolveCompany`'s matching of names is not.
* **Text**: `parseCSV`, `lines.js` (names to ids), the collection of amounts and dates from
  the body of a write, `findDuplicateGroups`, `reports.js`, `links.js`, `compact.js`.
* **`connect:batch` and its HTTPS catcher**: they call the same `persistAuthorization`.
* **`claimRecoveryRequestId`** and the optional monthly audit.
* **Tools, schemas, setup and diagnosis programs**: sequential code whose results nothing
  else reads. That the confirmations of `create_payment` and `create_bill_payment` plan again
  with the balances of that moment (`index.js:2630`, 3183) is in `Bookkeeping`.

Next would be: what a rejected refresh of a staged credential leaves of it (`TokenLifecycle`
has the step); `resolveCompany` against a reference definition; the composition of
`JournalPlan` with `WriteRecovery`, where an entry whose answer was lost is replayed under
its request id after its plan is gone.

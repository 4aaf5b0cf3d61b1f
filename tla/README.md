# Verification of the redemption service

The service (`backend/src`) keeps a stock of accounts (auth files of a third-party
service), sells them through redeem codes, and replaces broken ones. This directory
holds TLA+ models of it, TLC configurations that check them on small instances, and
proofs for every size.

Abbreviations: R = `backend/src/repository.rs`, M = `backend/src/main.rs`,
D = `backend/src/domain.rs`.

## 1. The system

| Component | State | Operations | Hard behaviour |
|---|---|---|---|
| Redemption store (R) | SQLite tables `accounts`, `redeem_code_batches`, `redeem_codes`, `redeem_redemptions`, `redeem_after_sales`; reservations are two columns of `accounts` | prepare, release, heartbeat, settle, after-sale settle, import, delete, auth and status writes, batch and code administration | the same fact is kept in several tables by separate statements; reservations lapse by time; deletion of accounts and batches |
| Redemption chunks (M:1892-2086) | local: prepared ids, reservation id, task sets | prepare, refresh tasks, probe tasks, settle, release on error | between the two transactions lie minutes of network calls, with nothing locked |
| Refresh and probe (M:2277-3165, 3912-4047; D:788-1039) | writes status, tokens and snapshots | one task per account: wham/usage, exchange of the refresh or session token, account check, store, verdict | results arrive after the account was redeemed, deleted, re-imported; the provider rotates refresh tokens, so what is not stored is lost; a verdict may rest on what the provider thought before |
| Job queue (M:1196-1890) | `redeem_jobs`: a map behind a mutex | submit, poll for a slot, run chunks, progress, prune | admission is checked, the database is awaited, then the job is inserted; polling is not first come, first served |
| Automatic probe (M:2173-2239, R:1010-1118) | settings row with last start and finish | tick, manual run, settings update | interval check before `try_lock`; four parties read the settings, change a copy and write it back whole; disconnects and crashes inside a run |
| Rate limiter (M:3758-3845) | buckets per address, settings row | check, clear | fixed windows and their boundaries; a request is judged by settings it read before the administrator changed them and cleared the buckets |
| Import (R:328-540) | `accounts`, fingerprints | commit per 100 accounts | partial failure, duplicates inside one upload |
| Pools, settings, exports, login, encryption, schema upgrades, frontend | - | CRUD and formatting | none that a model checker would reach |

How they interact: a client submits codes, either synchronously (`/api/redeem/export`,
one chunk) or as a job (the queue, then chunk after chunk). A chunk *prepares* in one
transaction: it works out how many accounts the codes need and reserves about twice as
many under a fresh uuid. Then it refreshes and probes these accounts over the network,
with a heartbeat on the reservation after every result, and *settles* in a second
transaction, which looks at codes, batches and accounts anew. Everything the
administrator does, and the automatic probe, writes the same rows meanwhile.

What makes the parts correct:

- store: an account is delivered once; rows, redemptions, counters and code status tell
  one story; a customer keeps the account; replacements only for failed accounts and
  within the limit; deliveries are whole, usable and from the right pool;
- chunks: a chunk takes only what it selected and still holds; a live reservation is
  respected; a replacement is for the accounts the chunk has looked at; chunks and
  reservations end;
- job queue: limits and slots hold; a running job is never pruned and never lost;
  progress does not go back; no client is shut out;
- refresh and probe: a login the provider still accepts stays known to the service
  unless something named loses it; a snapshot shows what the rows hold; verdicts have a
  cause;
- automatic probe: one run at a time, the interval kept, the switch respected, the front
  accounts probed again and again;
- rate limiter: at most two windows' worth of requests in any window, and who waits as
  told is let in.

`PROJECT.json` lists the hazards at their lines with the properties aimed at them.

## 2. Modules

| Module | Models | How it corresponds to the code |
|---|---|---|
| `RedeemStore` | the tables and every transaction | A variable is a column (or columns always written together); an action is one `BEGIN IMMEDIATE` transaction or one `UPDATE`, which SQLite runs one at a time. `PrepareRedeem`, `PrepareAfterSale`, `Release`, `Heartbeat`, `Settle`, `SettleAfterSale`, `Import`, `DeleteUnbound`, `StoreAuth`, `StoreRedeemedAuth`, `SetStatus`, `CreateBatch`, `UpdateBatch`, `DeleteBatch`, `SetCodeStatus`; `Tick`, `TokenAges`, `BatchExpires` are the passing of time. |
| `RedeemSettle` | the two settling transactions, statement by statement | extends `RedeemStore`, whose `Settle` and `SettleAfterSale` it takes apart: `BeginRedeem` reads demands and candidates, `Allocate` is a turn of the loop over the demands, then `InsertRedemptions`, `BindAccounts` with its row count check, `MarkCodes`, `CountCodes`; `BeginAfterSale` and one `Reissue` or `Refuse` a code; `ClearReservation`, `Commit`, and `Abandon` at any point. `view` is what the transaction sees of the tables, its own writes included. |
| `RedeemLedger` | what the service promises about accounts | `Arrive`, `Withdraw`, `Deal`, `Recall` |
| `RedeemStoreImpl` | `RedeemStore` implements `RedeemLedger` | stock is the unredeemed live rows, deliveries are the redemptions |
| `RedeemChunk` | several chunks on one store | extends `RedeemStore`: each step of a chunk is a transaction of the store plus the chunk's program counter. `Outside` are the other writers. |
| `RedeemJobs` | the job queue | an action per acquisition of the mutex on `redeem_jobs` |
| `ProbeVerdict` | the classification of the provider's answers | pure operators: `WhamStatus` is `normalize_wham_usage_response` with the quota windows, `RefreshFailure`, `SessionFailure`, `CheckFinding`, `Merged` and `LifecycleStatus` are the steps of the deep check's diagnosis |
| `AccountCare` | refresh and probe tasks, several at once, and the provider | extends `ProbeVerdict`: a step is one HTTP exchange or one transaction of a task (`Wham`, `Exchange`, `Session`, `Check`, `Store`, `Mark`, `Record`), `Abort` ends one anywhere; `Deliver`, `DeleteBatch`, `DeleteAccount`, `Reimport` are what else writes the rows. The provider is external: it takes each refresh token once (`spent`) and hands out a new edition (`Makes`), and `Reconsider` changes what it thinks of an account. |
| `AutoProbe` | the automatic probe | the worker's tick from interval check to finished mark, manual runs, settings requests; each read and each write of the settings row is an action |
| `RateLimiter` | the limiter of redeem requests | `Arrive` reads the settings, `Pass`, `Admit` or `Deny` judge under the lock, `Save` and `Clear` are the two steps of an administrator |
| `*Proofs` | proofs about the module they are named after | section 4 |
| `MC*` | instances for TLC | |

Definitions with "Mutant" in their comment are plausible bugs; no specification uses
them. They are put in the place of the definition they follow to see that the
properties notice.

Abstractions worth knowing:

- An auth file is `usable` (expires later than now plus the grace of 600 s, D:17) or `stale`.
  Import stores only what the code stores: `available` with either, `at_expired` with
  `stale`.
- Rows come in any order where the code orders by `created_at`, so allocation is any
  greedy result (`Allotments`), and `LIMIT` keeps any rows (`Windows`). That the loops of
  the code, code by code, come to such a result is what `RedeemSettle` is for.
- While a settling transaction is open nobody else writes (`BEGIN IMMEDIATE`), and it
  judges by the time it read when it began (`now`), so `RedeemSettle` lets nothing else
  happen meanwhile and the clock stand still.
- Plan filters and inactive pools are left out: they only shrink the candidates.
- `redeem_code_id`, `redemption_id`, `redeemed_at` are one value, `binding`: every
  statement writes the three together.
- A code gets numbered redemptions; `redemption_id` points to the last one.
- Ids never return: a deleted account that is imported again is a new row. Reservation
  uuids are minted once.
- The settle passes the ids *selected* at prepare as verified, whether or not their
  probe succeeded (M:1957-1964): so does the model.
- A failed heartbeat and a failed release are logged and ignored: both are possible.
- `AccountCare` knows an auth file by its edition and the credentials in it (`files`): a
  session answer may bring a refresh token the file did not have (M:3010). Every
  successful exchange makes a new edition; a refresh token is taken once, session tokens
  last. An answer is a status class and which of the code's word lists find its text; the
  lists differ (`TokenInvalidated`, `WorkspaceDeactivated`, `BanWords`). A quota window is
  what it reports of its use and its reset.
- What is assumed of the provider: its token endpoint is another host than its web pages
  and may hand out new tokens whatever the standing of an account, blocked and banned ones
  included; it refuses a refresh token only for cause (it was used before, or the account
  is blocked or banned) and may fail to answer. Its web pages (wham/usage, session,
  account check) may refuse anybody with a 401 or 403, and let no blocked or banned account
  in.
- In `AccountCare` a delivery takes any available rows: which ones is `RedeemStore`'s
  matter, and the tasks cannot tell.
- In `AutoProbe` and `RateLimiter` a time is its age, counted up to a bound beyond which
  no condition of the code can tell ages apart. `ended`, `wiped`, `judged`, `recent`,
  `promised` and `served` are history for the properties.

## 3. What TLC checks

| Run | Instance | Properties | Shows |
|---|---|---|---|
| `store` | 3 accounts, 2 codes of one batch, 1 account a code, 1 after-sale, 1 reservation | `BindingMatches` `Exclusive` `RoundsAgree` `BindingStable` `ReissueOnlyFailed` | every transaction in any order |
| `pools` | 2 accounts, 2 batches in 2 pools, up to 2 accounts a code | `TypeOK` `CountsAgree` `WholeDeliveries` `DeliveriesUsable` `ImplementsLedger` | pool isolation, counters, edits of `accounts_per_code`, refinement |
| `recall` | as `store` | `NotReturnedToStock`, violated | README.md:22 against `delete_redeem_batch` |
| `settle` | 3 accounts, in stock or delivered to 2 codes of one batch, up to 2 accounts a code, 1 after-sale; every other transaction of the store between the settling ones | `SettleTypeOK` `RowChecksPass` `SettlesAtomically` | what is committed statement by statement is one settle of `RedeemStore`; what is abandoned leaves no trace |
| `contention` | 2 chunks, 2 accounts, 1 code, with and without probing, in two worlds: redemptions and after-sales next to imports of known files, deletes and aging tokens; redemptions with deep checks next to batch and code edits, deletion and refreshes | `ChunkTypeOK` `HoldsOnlyItsSelection` `TakesOnlyWhatItHolds` `LiveHoldsRespected` | two chunks for the same stock, lapsing reservations, a world that changes between prepare and settle |
| `reissue` | 2 after-sales of one code, 4 accounts, 2 reissues; probes | `ReplacesWhatItSaw` | concurrent after-sales |
| `liveness` | 2 redeeming chunks, failures, losses, deletes | `ChunksEnd` `ReservationsEnd` | nothing is stuck |
| `jobs` | 2 clients, 4 jobs, 2 slots, queue of 3 | `JobTypeOK` `LimitsHold` `TasksHaveEntries` `PrunesOldestOnly` `ProgressForward` `ClientsServed` `RunsComplete` | the queue |
| `care` | 2 tasks, 1 redemption; 2 accounts with refresh tokens in good standing, or 1 account with any kind of file about which the provider changes its mind, or 1 with a session token; up to 2 new editions an account | `CareTypeOK` `SnapshotFollows` `RevivedWithCause` `CondemnedWithCause` `LoginKept` | late writes, spent tokens, verdicts |
| `snapshot` | as `care` | `SnapshotKept`, violated | README.md:22 and 29 against `update_redeemed_account_auth_snapshot` |
| `autoprobe` | the worker, 1 manual run, 1 admin request, 2 accounts of which a run takes 1, 1 fault | `AutoTypeOK` `OneRun` `WorkerSpaced` `StaysOff` `FrontProbed` | lost updates of the settings row, the lock, the interval |
| `limiter` | 2 clients, 1 request in flight, windows of 1 and 2 ticks, limits 1 and 2 | `LimiterTypeOK` `BurstBounded` `PromiseKept` | window boundaries, settings that change under a request |

Bounds and why they suffice. `MaxPerCode`, `MaxAfterSale`, `TTL` bound counters the code
bounds itself (100, 10, 30 minutes); with one account a code and one after-sale a code,
its replacement and another code compete for three accounts, which is the smallest
instance in which an account can be delivered wrongly in each of the ways `Exclusive`
names. Two accounts a code matter only for partial deliveries (`pools`) and two reissues
only for an after-sale that settles after another one (`reissue`, whose fourth account
lets both chunks hold a replacement). `TTL = 1` lets a
reservation be live or lapsed, all the code distinguishes. One batch and one code in
`RedeemChunk` are enough for two chunks to want the same thing. The chunk runs start from
`StockedInit`, a set of databases `RedeemStore` reaches, instead of the empty one: the
steps to get there are checked in `store` and `pools`. `Outcomes` is what probes and
refreshes write: one good and one failed status stand for the six, because the code only
asks whether a status is `available`, `at_expired` or entitles to an after-sale.

`settle` starts from databases in use (`MCInit`: everything in stock or delivered, with or
without a reservation, codes of one or two accounts, some already replaced), because two
codes of two accounts compete for three only after many steps from an empty database. Every
other transaction is taken between the settling ones, but only databases like the first
ones are explored further (`InUse`, the run's constraint): deleted rows, stale tokens,
lapsed reservations, disabled or expired codes and batches, which only take accounts and
codes out of the competition, are looked at as the result of one transaction.

`pools` has no after-sales, so that two accounts a code fit; the proof of the refinement
(section 4) has them. In `care` two tasks are the smallest number that can spend each
other's refresh token. An account has at most two editions after its first (`last` of the
start, `MaxEdition`): one is enough for a task to hold an edition that is not stored, two
for a session answer whose refresh token is exchanged, or for an exchange of what another
task has stored; with two accounts there is one. A redemption of two accounts shows a
snapshot that is rebuilt in part. The provider's standing takes all four values where it
is `fickle`. In
`autoprobe` an interval of one tick and ages up to one tell a run that is due from one
that is not; one of two accounts is in front. In `limiter` two different windows and
limits let a request bring settings of another age to a bucket; `Requests` is one, because
a request that waits for the lock may already be overtaken by the administrator, and the
proofs have any number. Nobody is on the whitelist there (`Lists`): such a client is let
through like all are while the limiter is off.

Symmetry sets are used in the safety runs only. The constants permuted appear in no
definition; `pools` swaps its two batches together with their codes and pools, which maps
`BatchOf` and `PoolOf` to themselves. In the chunk runs `CHECK_DEADLOCK FALSE`: each chunk runs once and then
everything may be over; in `care` too, where all rows may be deleted.

Fairness. `FairChunkSpec`: tokio keeps polling a chunk's tasks, and each HTTP call has a
timeout of 30 s (M:100), so a chunk that can take a step takes one; the clock goes on.
Nobody is obliged to start a chunk, to fail or to get lost. `FairJobSpec`: a spawned job
polls every 350 ms and its chunks end, which is what `ChunksEnd` says. Submissions are not
fair. Polling is weakly fair only: of the jobs of *one* client any may be overtaken for
as long as that client keeps submitting, and `ClientsServed` claims no more than that
the client is served. It needs a slot that the other clients' shares leave free.

`FairAutoSpec`: the clock, the worker and the manual requests go on; the worker is a loop
that tokio keeps polling, and `tokio::sync::Mutex` gives a waiting manual run its turn.
Admin requests, manual requests and faults are not fair; `MaxFaults` bounds database
errors, disconnects and crashes, without which nothing need ever be probed.
`FrontProbed` supposes that the switch stays on and that the account stays among the first
`max_accounts_per_run` by `created_at`; accounts behind these are never probed while they
stay behind, as R:805 takes the same front every time.

`HoldsOnlyItsSelection` deserves a word: the settle cuts its candidates to the number
demanded (`LIMIT`, R:2809) and drops unverified ones after that (R:2846). If the
reservation could hold an account the caller did not select, codes would be refused while
there is stock. The invariant is what makes the order harmless.

Disagreements between documentation and code. README.md:22 says that redeemed accounts are
not returned to the allocatable pool. `delete_redeem_batch` (R:1407) returns all accounts
of the batch to stock, and they can then be sold again (run `recall`); `BindingStable`
states what does hold. README.md:22 says as well that redeemed accounts keep a
redemption-time auth snapshot for repeat downloads, and README.md:29 that original
redemption snapshots are retained for audit. A deep check of a redeemed account makes the
code build the snapshot anew from the rows and write it over the old one (R:932; run
`snapshot`): what it keeps is not what was handed out but what the service holds now, and
that is `SnapshotFollows`. Two more sentences of the README do not describe the code, and
no run is about them: README.md:23 says that access tokens are refreshed only for
unredeemed accounts, but a deep check of a redeemed account stores the refreshed file
(M:2545, R:866: `Store` in `AccountCare`, `ProbeStores` in `RedeemChunk`); README.md:24
says that the automatic probe calls the wham/usage endpoint only and does not refresh, but
`deep_check_enabled` is on by default (R:4650).

`LoginKept` lists the ways in which the service can lose a login: the answer to an
exchange is lost; the task is aborted between the exchange and the store (the database
error of *another* task of the same refresh does that: `collect_refresh_result` returns at
M:4034 and the set with the other tasks is dropped); the account is redeemed, freed or
deleted between load and store, so that the update finds no row (R:835, R:866); an old
file is imported over it. The run and the proof say that there is no other; these four the
code does have.

`RevivedWithCause` says what it takes to make an account available that the provider
blocked or banned all the time: a deep check whose exchange succeeded. The code allows
that, because after an exchange `merge_probe_into_diagnosis` (M:2884) lets the account
check decide only if it says banned or exhausted, and takes a 401 or 403 `risk_blocked`
for available. There is no other way, neither without new tokens nor without a deep check.

`CondemnedWithCause` is about deep checks of files with a refresh token. A verdict
`auth_invalid` or `forbidden` about an account the provider never complained about comes
from the refusal of the task's own exchange alone, and that from an earlier or
simultaneous task that used the refresh token first; after a successful exchange nothing
the pages answer can condemn the account. The property does not speak of probes without a
deep check, where a 401 of wham/usage alone condemns an account whose access token has run
out, and nothing in that answer tells the two apart.

What the properties leave out because the code does it: a settle without reservation and
without probe takes accounts others hold (`TakesOnlyWhatItHolds`); the worker may start
right after a manual run (`WorkerSpaced` compares runs of the worker); saved settings may
be lost to a mark (`StaysOff`, `WorkerSpaced`). The hazards in `PROJECT.json` say so at
their lines.

## 4. What is proved

Everything below is proved for every value of the constants, from the named assumptions
in the modules only: finite sets where something is counted, a `None` that is none of the
values, the catalogue functions, bounds that are natural numbers. Each module's theorems
follow from one inductive invariant: it holds initially, every step keeps it (one lemma
per action), and it implies the property.

**`RedeemStoreProofs`**: `TypeCorrect`, `NoDoubleDelivery` (`Exclusive`),
`RowsMatchRedemptions` (`BindingMatches`), `EveryReissueCounted` (`RoundsAgree`),
`CustomersKeepAccounts` (`BindingStable`), `OnlyUsableDelivered` (`DeliveriesUsable`).
The inductive invariant is
`IInv == TypeOK /\ RoundsAgree /\ BindingMatches /\ ListedHaveRows /\ Exclusive`.
`TypeOK` is not inductive alone: that a code has room for one more redemption follows from
its after-sales being counted (`RoundsAgree`) and limited. `Exclusive` is not inductive
alone: a settle hands out rows without a binding, and only `BindingMatches` says that such
a live row is listed by no redemption; a row that is imported must not be listed already
(`ListedHaveRows`). `DeliverIInv` is the core: it needs of the caller only that the
accounts handed out are unredeemed and that each code served has no redemption or a
permitted reissue. So reservations, probes and verified sets do *not* matter for
exclusiveness: the conditions on the rows in the settle transaction alone ensure it.

`Next` bounds what callers of a settle say they have verified to accounts in stock, and to
the bound ones for an after-sale, so that TLC has fewer sets to try. `CallersModelled`
proves that nothing is lost by that: with callers that name any accounts (`OpenSpec`) the
store has the same behaviours. An account that is not in stock is no candidate, and a code
whose present accounts were not all named might as well not have been asked for.

The last section has `CountersRight` (`CountsAgree`), `DeliveriesWhole`
(`WholeDeliveries`), `OnlyFailedReplaced` (`ReissueOnlyFailed`), from
`SaleInv == IInv /\ CountsAgree /\ WholeDeliveries /\ RedeemedInBatch`. The parts need
each other: an edit of `accounts_per_code` leaves old deliveries whole because it is
refused once the counter is positive, and the counter is positive because it agrees with
the redemptions; deleting a batch may reset the counter because only its own codes are
counted; that codes with redemptions have a batch at all is `RedeemedInBatch`.

Every step of `Next` is a `Transaction`, a disjunction of the store's operations with any
arguments. The lemmas are about `Transaction`, so the module about chunks can use them.

**`RedeemSettleProofs`**: `SettleIsAtomic` (`SettlesAtomically`), `RowCountsRight`
(`RowChecksPass`), `SettleTypeCorrect` (`SettleTypeOK`), and `SettleImplements`, that the
store with its settles taken apart implements `RedeemStore`: every theorem about
`RedeemStore` holds of it too. The inductive invariant `SettleInv` is `IInv` and, while a
transaction is open, `OpenInv`. `Greedy` says that each code the loop has passed took what
it needs from the source, or nothing because less than that was left, and less is left
now: at the end of the loop that is an allotment of `RedeemStore`. `ViewFits` says of each
table how the view differs from it at each statement, so that at the commit the view is
the table `Settle` or `SettleAfterSale` makes of it. For an after-sale it matters that a
code's replacements are not yet in the view when the code is judged, that earlier codes'
replacements are, and that judging by the view gives the same as judging by the tables.

**`RedeemStoreImplProofs`**: `StoreImplementsLedger`, that `Spec` implements
`RedeemLedger` under the mapping of `RedeemStoreImpl`: initial states map to initial
states, each transaction to `Arrive`, `Withdraw`, `Deal`, `Recall` or a stutter.

**`RedeemChunkProofs`**, about the chunks' own properties: `ChunkTypeCorrect`, `ChunksDeliverOnce` (`Exclusive`),
`HoldsOwnSelection` (`HoldsOnlyItsSelection`), `DeliversOwnHoldings`
(`TakesOnlyWhatItHolds`), `ReplacesOnlySeen` (`ReplacesWhatItSaw`), `LiveHoldsKept`
(`LiveHoldsRespected`), for any number of chunks beside everything in `Interference`. The
inductive invariant `ChunkInv` joins `IInv`, the types, `HoldsOnlyItsSelection`,
`OwnReservation` (ids are the chunk's own) and `IdsMintedFirst` (no row holds an id that
has not been minted). The argument is short: every step is a claim, a settle or *tame*,
and a tame step gives no row a new holder and delivers nothing. A claim uses a new id, so
it cannot add to what another chunk holds; a settle takes from what its id holds.

About the database under the chunks: `ChunksTransact`, each of their steps is one
transaction of the store or leaves the database alone. `StockedInit` satisfies the store's
invariants as well, so the store's results hold there too: `ChunksCountRight`
(`CountsAgree`), `ChunksDeliverWhole` (`WholeDeliveries`), `ChunksLeaveDelivered`
(`BindingStable`), `ChunksDeliverUsable` (`DeliveriesUsable`), `ChunksReplaceFailed`
(`ReissueOnlyFailed`), and `ChunksKeepLedger`: a step of the chunks is a step of the
ledger or a stutter. In the runs these properties are checked of the store alone.

**`RedeemJobsProofs`**: `JobTypeCorrect`, `EntriesStay` (`TasksHaveEntries`),
`LimitsNeverExceeded` (`LimitsHold`), `OldestPruned` (`PrunesOldestOnly`),
`ProgressNeverBack` (`ProgressForward`), from
`JobInd == JobTypes /\ TasksHaveEntries /\ CountersFit`. `CountersFit` relates the counters
of a job, which are written one group at a time, to each other at every stage; that the
progress computed from them never falls needs lemmas about integer division.

**`AccountCareProofs`**: `CareTypeCorrect`, `SnapshotsCurrent` (`SnapshotFollows`),
`NoneRevived` (`RevivedWithCause`), `NoneCondemned` (`CondemnedWithCause`), `LoginsKept`
(`LoginKept`). The inductive invariant `CareInv` adds to types and snapshots that bound
rows are listed (`BoundListed`), that editions in hand have been made and only made ones
are spent (`EditionsMade`), that a task's record fits the place it is at (`TasksOrderly`),
that what a task holds between an exchange and its store nobody else holds (`SoleHolder`)
and that a finding of available has its cause (`VerdictsJust`). `NoneCondemned` looks at
the step in which the verdict falls: the lemmas go through the calls a deep check makes
and show that only a refused exchange can come to such a verdict. TLC checks two new
editions an account, the proofs any number.

**`AutoProbeProofs`**: `AutoTypeCorrect`, `RunsExclude` (`OneRun`), `WorkerKeepsInterval`
(`WorkerSpaced`), `SwitchHolds` (`StaysOff`), from `AutoInd`, which says of the copies of
the settings row who holds one (`CopiesHeld`), how old the marks in them can be
(`EndsLater`, `Remembered`) and what the worker's decision rests on (`DecidedWell`).

**`RateLimiterProofs`**: `LimiterTypeCorrect`, `PromisesHold` (`PromiseKept`),
`BurstsBounded` (`BurstBounded`).
`PromiseBacked` is the strengthening: as long as requests bring the same settings, the age
of a full bucket and the ticks left of the promise make up the window, and a client that
has waited and not been let in since has no current bucket. `BurstBacked` is the one for
bursts: the limit in force bounds what was admitted in the last ticks without a bucket, and
with one what was admitted before it began, while what was admitted since it began is its
count. Instead of a list of admissions, which would have to be summed, the history variable
`recent` keeps the number for each length of time, as far back as the longest window.

Only model-checked: liveness (`ChunksEnd`, `ReservationsEnd`, `ClientsServed`,
`RunsComplete`, `FrontProbed`), which is out of the prover's reach. Every invariant and
action property of a run that should pass is also proved.

## 5. Plan

Done: the store with its ledger, its settles statement by statement, chunks, the job queue, refresh and probe tasks with the
rotation of tokens, the automatic probe, the rate limiter, and the safety theorems above.
What could follow:

1. the identity of an imported account: fingerprint against legacy key, duplicates inside
   one upload, against a reference definition;
2. the greedy selection pass of the prepare (R:2090) as a function, checked against
   `Selections`;
3. deletion and emptying of pools next to imports into them.

## 6. Not modelled

- Extraction of auth files from uploads (JSON, token lists, archives) and the reading of
  JSON answers: conversions of text. Which classes of answers the code tells apart is in
  `ProbeVerdict`.
- Import: the search for the row a file belongs to (hashes) and the commit of every 100
  accounts. An upload that fails half-way is a prefix of single imports; its report is
  left out.
- Pools: rows no account operation changes; the active flag only shrinks the candidates.
- Exports, code lists, dashboards (read only), encryption, login (a comparison of a
  constant), schema upgrades (before anything else runs), the frontend, deployment.
- Settings of the automatic probe that do not decide when a run starts or which accounts
  it takes; how a client's address is read from headers.
- The number of network tasks in flight is not limited in `RedeemChunk` and
  `AccountCare`: more interleavings, not fewer.

# Verification of rekor_watch and the Rekor/CT monitors

TLA+ models of the programs in this repository, model-checked with TLC and, where
the prover reaches, proved with TLAPS for every value of the constants.
`PROJECT.json` maps every definition to the source lines it stands for, lists the
runs, the mutants that show each property can fail, the hazards of the code and the
theorems.

## 1. Inventory

| Component | Source | State it keeps | Operations |
|---|---|---|---|
| tile reader | `pkg/tiles/client.go`, `pkg/ct/v2/vendor.go` (`PartialOrFullResource`) | locals of one call | `GetTileIndex`, `GetEntriesByIndexRange`, `ReadEntryBundle` |
| consistency check | `pkg/tiles/consistency.go` | none | `VerifyConsistencyWithCheckpoint` |
| monitoring iteration | `cmd/rekor_watch/monitor.go`, `shards.go`, `pkg/rekor/v2/*.go` | `tracker.shards`, locals of an iteration | `refresh`, `runOnce`, `catchUpShard`, `decideSearchRange` |
| notifier | `cmd/rekor_watch/notify.go` | locals of a cycle, the webhook limiter | `runOnce`, backoff, batching |
| main loop | `cmd/rekor_watch/main.go` | ticker | `monitorLoop`: an iteration, then a notification cycle, every interval |
| SQLite store | `pkg/store/sqlite/sqlite.go`, migrations | `checkpoints`, `subscriptions`, `matches`, `failed_entries`, `users`, `auth_tokens`, `sessions` | one statement per method, and `BeginTx` |
| subscription API | `cmd/rekor_watch/web/server.go` 771-1062 | the table `subscriptions` | create (with a cap per user), update, delete, enable, disable |
| magic-link login | `cmd/rekor_watch/web/server.go` 295-711, `pkg/auth` | the tables `users`, `auth_tokens`, `sessions`; mailboxes and cookies outside | request link, follow link, authenticate, log out, cleanup |
| rate limiter | `cmd/rekor_watch/web/ratelimit.go` | table of token buckets under a mutex | `Allow`, `Cleanup` |
| one-shot monitors | `internal/cmd/common.go` (`MonitorLoop`), `cmd/rekor_monitor`, `cmd/ct_monitor`, `pkg/util/file` | checkpoint file, range in the config | consistency check, identity search, write checkpoint |
| HTTP retry | `pkg/util/retry.go` | attempt counter | `RoundTrip` |
| identity matching | `pkg/identity`, `pkg/fulcio/extensions` | none | regular expressions and X.509 over one entry |
| senders | `cmd/rekor_watch/notifications`, `pkg/email`, `pkg/notifications` | none | one HTTP or SMTP call each |
| URL validation, safe dialer, metrics, TUF/TLS set-up, frontend | see `PROJECT.json` | none that the rest reads | |

How they interact. `monitorLoop` runs one goroutine: an iteration of the monitor,
which reads the log, and the notifier's cycle, which reads what the iteration
recorded. They only communicate through the database. The web handlers run
concurrently with both, on the same database, one statement (or one short
transaction) each. Nothing is held in memory across an iteration except
`tracker.shards`, so a restart resumes from the tables.

What is hard here: the owner of a subscription changes it between the moment an
iteration or a cycle listed it and the moment it acts on it; a shard's
transaction fails as a whole; the process stops anywhere; the log grows and
discards partial bundles while it is read; it shows older or rewritten history;
a webhook gets a delivery whose answer is lost; shards appear, disappear and
come back; two requests of one user interleave their statements; a token is used
up before the session it buys exists; a table of limits forgets what it limited.
The properties each component needs:

- tile reader: the entries of a range, no hole and no repetition;
- monitoring iteration: no match and no parse failure behind a stored checkpoint
  is missing, none is recorded twice, a checkpoint only ever extends, retention
  keeps the newest rows, a shard is eventually caught up with;
- notifier: at-least-once delivery with repetitions only where the
  documentation allows them, backoff and auto-disable that nobody can reset,
  every match eventually delivered to a receiver that answers;
- login: a link signs in once and its mailbox only, the newest one only, what was
  refused stays refused, what was given works until it expires, and a link is used up in
  vain only by a fault;
- subscription API: no user exceeds the cap, and the answers agree with the table;
- rate limiter: no key exceeds rate and burst although buckets are forgotten, the
  table stays bounded, a key that still has a bucket and waits as told is let in;
- one-shot monitors: the range searched next starts where the last one ended.

## 2. Modules

| Module | What it is |
|---|---|
| `Tiles` | tile arithmetic, shared by the reader and the monitor |
| `TileReader` | `GetEntriesByIndexRange`, one action per bundle it reads, against a log that grows and prunes |
| `RangeRead` | the abstract specification of `TileReader`: a range read in one step |
| `LogWatch` | the monitoring iteration over the SQLite store, with the subscription handlers and the log as environment |
| `MatchFeed` | the abstract specification of `LogWatch`: a cursor per shard that hands out what it passes |
| `Notifier` | the notification cycle over the store, with the owners' requests and the receivers as environment |
| `MonitorLoop` | the one-shot and periodic monitors of the tile-based logs, and the checkpoint file between their processes |
| `LegacyLoop` | the same loop over Rekor v1 and RFC 6962 logs, with batches, retries and short answers |
| `Login` | magic links, accounts, sessions and their cleanup, one action per statement |
| `SubscriptionAPI` | the subscription handlers in their transactions over concurrent connections |
| `RateLimiter` | the keyed rate limiter with its bounded table |
| `TokenBuckets` | the abstract specification of `RateLimiter`: one token bucket per key |
| `MC...` | values of the constants, and symmetries, for TLC |
| `TileReaderProofs`, `LogWatchProofs`, `MonitorLoopProofs`, `LegacyLoopProofs`, `NotifierProofs`, `LoginProofs`, `SubscriptionAPIProofs`, `RateLimiterProofs` | theorems |

### TileReader

`published` is the set of tree sizes the log has signed a checkpoint for: a
partial bundle exists for each of them until it is discarded (`Prune`), which a
tile log may do once the full bundle exists. `Call`, `SkipStartTile`,
`ReadStartTile`, `ReadFullTile`, `ReadEndTile` and `ReadFails` are the
consecutive parts of `GetEntriesByIndexRange`; between any two of them the log
may move. `ReadFails` has both ways in which a read ends the call: the bundle is not
there (`BundleMissing`), or it is and the request fails, the context is done or an entry
does not decode, which the observation `fault` records. An entry is its own log index.
`byUser` separates ranges that came
from two checkpoints from those of `--start-index` and `--end-index`. For the
latter the doc's "(start, end]" is too strong: the last bundle is taken whole, so
an end inside a full tile returns the rest of that tile too. `RangeCovers` states
what does hold.

`RangeRead` is what the callers see of it: one step that returns the consecutive
entries after `start` up to one of `ReadEnds` (`end`, or the end of its tile when the
full bundle stands in for the partial one), in the log of that moment. A fault may break
any call; one that fails without a fault is refused, and that happens only to a user's
range that the log cannot serve. `MonitorLoop` takes the same
`ReadEnds` for its searches, and `LogWatch` the same two ends of a range between
checkpoints, so the refinement is what makes one step of theirs a fair picture of a call.

### LogWatch

Database tables are variables (`checkpoint`, `subs`, `matches`,
`failedEntries`), a statement is an atomic step, and the transaction of
`catchUpShard` is one step (`Commit`) because SQLite shows nothing of it before
`COMMIT`: it contains every insert, the trim and the checkpoint. `CommitRejected`
is the same transaction when a listed subscription was deleted meanwhile and the
foreign key rejects the row, `CommitFails` any other error.

| Code | Action |
|---|---|
| `shardTracker.refresh` | `StartIteration`, with `FetchShards` (the error path keeps the old shards) |
| `ListSubscriptions`, `HasAnyCheckpoint` | `LoadIteration`, `LoadFails` |
| `LoadCheckpoint` to the same-size return | `LoadAndVerify`, `LoadAndVerifyFails` |
| `decideSearchRange` | `DecideSearchRange` |
| `IdentitySearch` | `Search`, `SearchAborts` (undecodable entry), `SearchFails` |
| `BeginTx` to `Commit` | `Commit`, `CommitRejected`, `CommitFails` |
| end of `runOnce` | `FinishIteration` |
| process exit, `newShardTracker` | `Crash`, `Restart` |
| handlers of the API | `CreateSubscription`, `UpdateSubscription`, `DeleteSubscription` |

Abstractions. Whether an entry matches a value, or cannot be used, is given by
the constants `Hits`, `Unparsed` and `Undecodable`. A tree head is its size and
which of two histories it belongs to. An iteration's several rows for one entry
and subscription (an entry with two matching certificates) are one row. The rows
of one commit are ordered by log index, as `CURRENT_TIMESTAMP` and the row id
order them; `batch` stands for time. The monitored values are valid, as the
handlers check before they store them, so `VerifyMonitoredValues` only fails on
an empty list. The cap on subscriptions and the ownership checks only remove
requests and are left out.

`base`, `since`, `evicted` and `firstDeploy` are observations that no guard
reads. `since` is what makes `NoMissedMatch` exact: a subscription watches an
entry if it was listed, with its present value, before the entry was appended.
One created between `ListSubscriptions` and `ReadCheckpoint` does miss what is
appended in between; the monitor promises nothing about those entries.

### Notifier

One cycle of `notifier.runOnce`: `StartCycle` lists rows and subscriptions,
then each group is handled in the random order of a Go map by `Skip` (disabled,
backing off), `Defer` (rate limit) or `Deliver`, and every statement after the
delivery is a step of its own, with a failing variant: `MarkNotified`,
`RecordSuccess`, `RecordFailure`, `DisableFailing`. Between any two of them the
owner may act and the process may stop. `RecordMatch` is the iteration that runs
between two cycles. Retention evicts rows whether or not they were notified, as the
code does; liveness is about the rows that stay.

Times are relative to the start of the current cycle, as the code compares with
the cycle's `now`: `wait` is how far `next_retry_at` lies ahead, `age` how long
`last_failure_at` lies back. `StartCycle` lets one of `Elapsed` pass. The rate
limiter is seen from here as `Burst` webhooks per host and cycle, then possibly
more. `Backoff` is `notificationBackoff` in closed form and `BackoffWithJitter`
the set of values the random factor can give.

`copies`, `unmarked`, `tries`, `slack` and `stale` are observations:
what the receivers saw, and how many failures or overtaken changes a fault or
the owner accounts for.

### MonitorLoop

One process after the other runs `MonitorLoop` with the Rekor v2 or static CT
callbacks over one checkpoint file. `Start` is `mainWithReturn`; `Check` is
`RunConsistencyCheck` and the choice of the range, with `CheckExits` for a range
that ends before it starts and `CheckFails` for an error, which a periodic monitor
survives; `Search`, `Notify` and the write follow, each with a failing variant
that ends the process, as the code returns. `Truncate` and `FinishWrite` are the two
halves of `os.WriteFile`. `Crash` may come anywhere.

`startIndex` and `endIndex` are the fields of the config that the loop overwrites,
`home` is the shard found at the start: the logic is a value receiver, so that the
shards a consistency check finds (`CheckedShard`) are used for its own checkpoint (`cur`)
and not for the search. A missing and an empty file are the same (`None`), as in the code.
Every entry is one to report, there is at least one monitored value, and the
log is honest (`LogWatch` models one that is not). A search is one step;
`TileReader` takes it apart, and `SearchEnds` are the ends at which `RangeRead`, which it
implements, can stop. What was printed, or appended to the identities file, before a failing
notification counts as not reported.

`base`, `reported`, `isRanged`, `waived` and `lost` are observations: a range
configured by the user leaves entries out on purpose (and the checkpoint is then
saved past its end), and a write cut short loses the position.

### LegacyLoop

The same loop with the callbacks of Rekor v1 and RFC 6962 (`kind`). `Check` is the
consistency check against a front end that may lag behind (`Seen`) and the choice
of the range. Rekor's range is (`startIndex`, `endIndex`] over indices that number
the entries of all trees; `FetchBatch`, `FetchRetries` and `FetchFails` are the
batches of `GetEntriesByIndexRange` under `Retry`. CT's range is inclusive at both
ends and one request, which the log may answer with a prefix (`withheld`). A new
active tree makes the consistency check fail from then on, as the proof is asked for
in another tree: `Consistent` requires the same tree. Configured ranges and the two
halves of a write are those of `MonitorLoop` and are not repeated.

### Login

A request is a handler that runs one statement after another: `RequestLink`,
`StoreToken`, `SendMail` for `POST /login`; `FollowLink`, then `ConsumeToken` or
`RefuseToken`, `LookUpUser`, `SaveUser` or `SaveUserRejected`, and `CreateSession` for
`POST /auth/callback`. `Authenticate` is `authenticatedUser` and `Logout` the handler
behind it. Both can fail and do not say so: a session that cannot be read is answered
like one that is over (`AuthenticateFails`), and a logout whose `DELETE` fails like a
logout (`LogoutFails`, which also has the deletion whose answer is lost). `DeleteExpiredAuthTokens` and `DeleteExpiredSessions` are the two
statements of `runCleanup`. The clock moves between any two of them, a statement
fails, a mail or an answer is lost, the process restarts. Anyone who can read a mailbox
may follow its links any number of times.

A token and its hash are one link, a session id and its cookie are one number. Rate
limits only turn requests away. `issued`, `consumed`, `newcomers`, `hindered`,
`refusedLinks`, `refusedSessions`, `misjudged` (the sessions that a browser was told are
over for no other reason than a failed statement), `loggedOut`, and `newest`, `deadline`
and `ends` (the last link of each address, and until when links and sessions were given)
are observations.

### SubscriptionAPI

The handlers over `subscriptions` on several connections to a database in WAL mode.
`Count` opens the transaction's snapshot, `Insert` takes the write lock, which SQLite
refuses to a snapshot that another commit has overtaken (`outdated`, `InsertRejected`),
and `Commit` publishes the row. `CommitFails` covers an error whose commit took place.
A deletion that takes effect and is answered with an error is not modelled: its owner
asked for it, and `AnswersMatchTable` would excuse it.
`UpdateSubscription` and `DeleteSubscription` are single statements; `OtherCommit` is
any other writer of the database, which overtakes snapshots as well. Values and
destinations, enabling and disabling are in `LogWatch` and `Notifier`, where they matter.

### RateLimiter and TokenBuckets

The mutex makes each call one step: `AllowKnown`, `DenyKnown`, `AllowNew`, `DenyNew`,
`Cleanup`. A bucket is brought up to date only when it is used (`Advance`), as in
`golang.org/x/time/rate`, of which the module models `advance`, `ReserveN` and `CancelAt`
as the code uses them; levels are counted in units of time, so that a token is worth
`Interval`. `TokenBuckets` is the abstract specification: one bucket per key for ever.
`level` maps a key without an entry to a full bucket, and a sweep is a stutter because an
entry that was not seen for a window is full again. `RetryHonest` is about tokens: a key
that was swept while it waited has them, but can meet a full table when it comes back.

## 3. Runs and bounds

| Run | Bounds | Shows |
|---|---|---|
| `TileReader` | tiles of 3, sizes to 8, all ranges | exact ranges between checkpoints, covering ranges otherwise, no bundle missing between checkpoints, refinement of `RangeRead` |
| `LogWatchSubs` | 1 shard of 3 entries, tiles of 2, 2 subscriptions (symmetric), 2 values, retention 1, 1 fault, rewriting, stale and pruning log | type invariant, nothing missed, failures recorded, no orphans, newest kept, checkpoint extends, refinement of `MatchFeed` |
| `LogWatchLive` | 2 shards of 1 entry, one of them with an undecodable entry, 1 subscription, 1 fault, fairness | nothing missed or doubled across shards that come and go; a configured shard is caught up with unless an undecodable entry lies ahead |
| `LogWatchFirstDeploy` | 2 shards of 2 entries, 1 fault | *violated*: a first deployment interrupted between shards back-searches |
| `Notifier` | 2 subscriptions (a mailbox that refuses, a host that accepts or loses the answer), 3 rows, retention 2, batch 1, 2 failures to disable, backoff 2 to 4, burst 1, 1 edit, 1 fault, fairness | acknowledged before marked, no needless repetition, failures bounded, change overtaken once, backoff respected, every match delivered |
| `MonitorLoop` | 2 shards of up to 4 entries, tiles of 2, 5 configured ranges, 2 faults | nothing skipped, nothing repeated, memory and file agree |
| `MonitorLoopRollover` | the same without ranges and faults | *violated*: after a rollover the first entries of the new shard are not searched |
| `LegacyLoop` | 2 trees of up to 4 entries, batches of 2, 2 attempts | nothing skipped but what the log withheld, nothing repeated, memory and file agree, ranges in order |
| `LegacyLoopShort` | the same | *violated*: a short answer of a CT log leaves entries unsearched |
| `Login` | 2 requests, 2 addresses (both symmetric), 2 links, ages of 1, time to 2, 1 fault | a link signs in once and its mailbox only, only the newest works, refusals stand unless a failed statement alone was their reason, links are lost only by faults and first sign-ins that race, what was given works until it expires |
| `SubscriptionAPI` | 2 requests, 2 users, 3 names (symmetric), cap 2, 4 ids, 1 fault | cap respected, answers agree with the table |
| `RateLimiter` | 3 keys (symmetric), burst 2, window 5, table of 2, time to 7 | rate respected, honest waiting times, refinement of `TokenBuckets` |

The bounds let the interesting cases happen: a tile boundary lies inside the
sizes, a range can begin and end in the same or in different tiles and skip
whole ones; retention, batches, the cap and the table of buckets overflow; a token
expires between any two statements of its handler; the window is not a multiple of
the interval, so that the rounding in `Window \div Limit` shows; a fault or edit can
fall between any two steps. The properties relate at most two shards, two
subscriptions, two requests or two consecutive commits, and the theorems below remove
the bounds from every property but the two of liveness. No run
constrains the state space otherwise, and deadlock is checked in all of them: there is
always a step. No bound limits the number of processes or iterations of `MonitorLoop`
and `LegacyLoop`.

Every module states `TypeOK`. It is among the properties of the runs of `LogWatch`,
`MonitorLoop` and `RateLimiter`; those of `TileReader`, `Notifier`, `SubscriptionAPI`,
`LegacyLoop` and `Login` hold in the same instances (add them to the `INVARIANTS` of the
cfg). `TableBounded` and `NamesUnique` are proved (`TableKept`, `NamesKept`) and are not
among the runs' properties.

Symmetry is used in `LogWatchSubs` for the subscriptions, in `Login` and
`SubscriptionAPI` for requests, addresses, users and names, and in `RateLimiter` for the
keys, none of which the modules order or choose among; these runs check invariants, properties of single
steps and refinements of safety specifications only.

Fairness. `FairSpec` of `LogWatch` is weak fairness of the goroutine's own steps:
`monitorLoop` starts an iteration at every tick and the calls in it return
(`ctx` bounds them). Nothing is assumed of the log, the owners or the operator.
Failures are bounded by `MaxFaults`, which stands for "only finitely often"; a
rejected commit is not a fault and is bounded by the deletions, which use up
row ids. `FairSpec` of `Notifier` is the same for the cycle.

### Disagreements between code and documentation

The first three are runs that TLC violates.

1. `hasAnyCheckpoint` is meant to tell a first deployment from a rollover
   (`cmd/rekor_watch/monitor.go` 65-70, 86-90), but only within one iteration.
   If the first iteration commits one shard and not another, the second
   iteration searches the other shard from its first entry
   (`LogWatchFirstDeploy`).
2. The checkpoint is written after the search "to ensure identities are always
   searched" (`internal/cmd/common.go` 302-303). After a rollover the index reached
   in the old shard is used for the new one, and a running process goes on reading
   the old one, so that the new shard's first entries are skipped
   (`MonitorLoopRollover`). While the new shard is smaller, each process ends with
   "start index must be less or equal than end index". `rekor_watch` keeps a
   checkpoint per shard and is not affected.
3. The same comment fails for an RFC 6962 log that answers `get-entries` with fewer
   entries than were asked for, which the RFC allows: the rest is never asked for
   again, and the tree head is saved (`LegacyLoopShort`).

Seen while modelling, as behaviour of the models rather than as runs:

- an entry that is not valid JSON makes `getEntriesFromTile` fail
  (`pkg/tiles/client.go` 207) and stops its shard, although entries that "could not be
  parsed or processed" are to be persisted (`pkg/store/store.go` 112-115);
  `EventuallyCaughtUp` therefore excludes such a shard;
- the tuple `(monitored_value, origin, log_index)` is documented as stable
  across redeliveries (`README.md` 443-445), and the payload carries the value the
  subscription has at delivery time (`cmd/rekor_watch/notify.go` 147);
- after a Rekor v1 log starts a new tree, the consistency check of `rekor_monitor`
  fails in every later iteration;
- `ct_monitor` on a log that did not grow asks for entries from `TreeSize` to
  `TreeSize`, which the log refuses, and the process ends, although it "runs
  indefinitely" without `--once` (`cmd/ct_monitor/main.go` 269-271); the inclusive end
  also makes a restarted process read one entry again, which `NothingRepeated` allows
  for explicitly;
- `GetEntriesByIndexRange` of `pkg/rekor/v1` says that equal ends return a single entry;
  it returns none;
- two first sign-ins of one address that overlap leave the second with an error 500 and
  its link used up (the exception in `LinkLostOnlyByFault`);
- "only the most recent" link is the one stored last: if mails are reordered or the last
  one is lost, the link in the mailbox does not work;
- a logout whose `DELETE` fails clears the cookie and leaves the session, and a database
  error in `authenticatedUser` sends the browser to the login page although its session is
  valid and works again later; `RefusedForGood` excepts these sessions (`misjudged`).

## 4. Proofs

For every value of the constants, under the named assumptions of the modules (a
positive tile width, natural bounds, a window of at least the limit, `None` not a value;
`PowerAssumption` says that powers of two are natural numbers, which the provers do not
know):

- `LogWatchProofs` proves `TypeCorrect`, `CheckpointExtends`, `NoOrphans`,
  `NoDuplicates`, `NoMatchMissed` and `NoFailureUnrecorded`. The inductive
  invariant `IInv` joins the type invariant with:
  `JobInv` (between search and commit, the job's previous checkpoint is still the
  stored one, its head is consistent with it and not beyond the log, and its
  range starts where `DecideSearchRange` says), `CheckpointInv` (a shard has a
  base exactly when it has a checkpoint, which the log has reached), `IdInv` (an
  id that was never handed out is in no table and no listing), `MatchInv` and
  `FailureInv` (what a *listed* subscription is owed, whether or not its value
  was edited since) and `RowInv` (where partial bundles are kept, no row lies
  beyond its shard's checkpoint, which is what makes a repeated range
  impossible). None of the properties is inductive alone:
  `NoMissedMatch` says nothing of the job between search and commit, and
  `NoDuplicateMatch` nothing of where the next search starts. Each step has one
  proof step per action.
- `NewestRowsRetained`, in the same module, is about the cardinality of what a trim leaves.
  `RowOrderInv` (the rows of one transaction are of one shard, and none is of a later
  transaction) makes `(batch, index)` an order of a subscription's rows. The rank of a row
  is the number of newer ones; it maps the rows of a subscription one to one onto
  `0..n-1`, a trim keeps those of rank below `MaxMatches`, and so keeps `MaxMatches` of them
  when there are as many. No induction over the rows is needed, only the library's facts
  about injections between finite sets.
- `SingleShardForwardOnly` is the first disagreement of section 3 turned round: with one
  shard, and a log that shows no outdated head, a first deployment goes forward only under
  all failures and crashes. `RekorAlwaysSearched` of `LegacyLoopProofs` does the same for the
  third.
- `Refinement` of `LogWatchProofs` is `Spec => ImplementsMatchFeed`.
  `Commit` maps to `Advance`, the handlers to `Subscribe` and `Unsubscribe`,
  `LoadIteration` to `LookUp`, and every other step stutters.
- `MonitorLoopProofs` proves `MonitorTypeCorrect`, `NoneSkipped`, `NoneRepeated` and
  `Agreement`. The invariant joins `FileInv` (a watched shard has its checkpoint in the
  file except between the two halves of a write, the shard has reached it, and
  everything behind it is accounted for), `RestInv` (between two iterations a
  position in memory is the file's), `CheckpointsInv` (the two checkpoints of an
  iteration are the file's and one the log has reached, of the shard that is
  searched or a later one) and `RangeInv` (the range is what lies between them, and
  at the write it has been reported). `NothingSkipped` alone says nothing of an
  iteration that has searched and not yet written.
- `NotifierProofs` proves `TypeCorrect`, `OnlyAcknowledgedMarked`,
  `RedeliveredByFaultOnly`, `OneStaleDelivery`, `FailingIsDisabled` and `BackedOff`. The
  invariant says who is being delivered to (`Working`), that a row id belongs to one
  subscription (`Ids`), that a row which still waits was received exactly as often as it
  was not marked afterwards (`Copies`; the bound on redeliveries is not inductive without
  it), that what an outdated delivery went to is not due with an outdated listing again
  (`Overtaking`), that whoever is listed as due has an attempt left (`Counting`), and
  that wait and age of a row together cover its backoff, with the listing's failure count
  equal to the row's (`Waiting`; `RecordFailure` takes the count from one and the backoff
  from the other).
- `TileReaderProofs` proves `TypeCorrect`, `ExactRange`, `RangeCovered`,
  `BundlesFound` and `Refinement` (`Spec => ImplementsRangeRead`). The lemmas about
  tiles come first (`LastTileCovers` among them, of which `LogWatchProofs` and
  `MonitorLoopProofs` have the short form `LastTileReach`). The invariant says that what was
  read is the run of indices after `start` up to the start of the next tile (`FullInv`), and
  that a tile which lost its partial bundles is full (`LogInv`): a bundle between two
  checkpoints is then always there, and a longer result ends with its tile. In the
  refinement `ReadEndTile` is the one step that answers and `ReadFails` the one that refuses
  or, by a fault, breaks the call; the other reads stutter.
- `LegacyLoopProofs` proves `TypeCorrect`, `NoEntrySkipped`, `NoEntryRepeated`,
  `MemoryAgreesWithFile`, `NoRangeReversed` and `RekorAlwaysSearched`. Its invariant is that
  of `MonitorLoop` for indices that number the entries of all trees: `FileInv` (everything
  behind the file's tree head is reported or was withheld), `WaitInv` (memory and file),
  `IterationInv` (the two tree heads of an iteration are of the same tree and in order),
  `RangeInv` (the range is what lies between them, and what was fetched is its beginning,
  batch after batch, whatever was retried) and `WriteInv` (what is to be written has been
  accounted for).
- `LoginProofs` proves `SignsInOnce`, `NewestOnly`, `MailboxOwner`, `StaysRefused`,
  `LostOnlyByFault` and `Kept`. The invariant follows one link through its life:
  `Fresh` (a link being stored is in no table, mailbox or other request), `Rows` (one row
  per link, the unused ones are the newest, a consumed one is marked), `Boxes` (it is in
  the mailbox of its own address only), `Hands` (once consumed, one request holds it until
  a session exists), `Accounts` and `Founded` (the account of an address goes back to a
  first sign-in that is looked up no more, which shows that a request which loses the race
  for an account has another link to blame). `KeptLinks` and `KeptSessions` tie the expiry in
  a row to what was promised when it was given, which `WorksUntilExpiry` needs to survive the
  clock and the cleanup. One lemma per action says what it does to its
  request, `Fading` what all the others have in common.
- `SubscriptionAPIProofs` proves `SubscriptionTypeCorrect`, `CapKept`, `NamesKept` and
  `AnswersKept`. The invariant adds `Counted`, the heart of the argument: a
  transaction that may still write has counted the rows as they are *now*, since every
  commit outdates the snapshots of the others and only one writes at a time; and
  `Writing`, that the writer is alone and its name free. The rest is cardinalities of
  finite sets.
- `RateLimiterProofs` proves `LimiterTypeCorrect`, `TableKept`, `RateKept`, `RetryKept` and
  `LimiterRefinement`. The invariant is `Shape` (types, and no bucket is of the future),
  `Budget` (what was granted since `t` and what the bucket holds now fit into a burst and the
  refill since `t`, which is inductive where `RateRespected` is not) and `Promises`. Both it and
  the refinement rest on one fact of arithmetic: an entry that `sweepStale` removes is full.

Only model-checked: liveness (`EventuallyCaughtUp`, `EventuallyNotified`), which is
out of the prover's reach, as is ENABLED. The values of recursive definitions for every
input would need induction over data, which is out of reach as well; no model defines an
operator that way.

## 5. Plan

Done, in this order: `Tiles`, `TileReader`, `LogWatch`, `MatchFeed`, `Notifier`,
`MonitorLoop`, then `Login`, `SubscriptionAPI`, `RateLimiter` with `TokenBuckets`, and
`LegacyLoop`, with the proofs above. What would come next: an abstract specification that
`MonitorLoop` and `LegacyLoop` both implement, as `LogWatch` does `MatchFeed`.

## 6. Not modelled

Matching of identities (`pkg/identity`, `pkg/fulcio/extensions`, `pkg/rekor/v1/identity.go`:
regular expressions, X.509, ASN.1) is a pure function over one entry and enters as the
constants `Hits` and `Unparsed`. Senders, notification platforms, URL validation, the safe
dialer, TUF and TLS set-up are I/O whose result is an outcome of a delivery or a failed
refresh. Metrics, the frontend and log output influence nothing that is modelled. The
read-only listings of the dashboard show tables and change nothing. A shard that leaves the
configuration is dropped with its tail unsearched, by design of `refresh`; no property
speaks of it. Contention for the SQLite write lock is modelled in `SubscriptionAPI`, where a
transaction reads before it writes; elsewhere it appears as a failing statement.

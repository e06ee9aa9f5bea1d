# TLA+ verification of legacyDoc

legacyDoc documents legacy source code with a team of LLM agents. A client posts
a snippet, an uploaded zip or the URL of a repository; the API stores a job; a
worker claims it, runs the agents on every file and stores a document per file.
The jobs table on Postgres is the queue, and the only thing API and workers
share by design. The hardest part of the system is in that path: several worker
processes with several slots each, leases that run out, retries with a backoff,
crashes between commits, users who cancel and delete at any moment. In front of
it stand the sign-in, the rate limiter and the accounts; behind it, for every
file, the agents with the chain of vendors they ask. This directory models all of
these, checks the models with TLC and proves nearly all of their safety properties
with TLAPS.

Paths below are relative to `src/`; `core/` is `packages/core/legacydoc_core/`,
`worker/` is `apps/worker/legacydoc_worker/`, `api/` is
`apps/api/legacydoc_api/`.

## 1. Inventory

| Component | State it keeps | Operations | What is hard | What makes it correct |
|---|---|---|---|---|
| Job queue (`core/queue.py`, `core/models.py`) | table `jobs`: status, locked_by, attempts, lease_expires_at, scheduled_at, deleted_at | enqueue, claim_job, heartbeat, complete_job, fail_job, reap_expired_leases, cancel_job | concurrent claims, leases, writes on stale reads, fairness | one executor per job, bounded attempts, final terminal states, every job settles |
| Worker process (`worker/runner.py`) | per slot: worker id, the Job object its session loaded; shutdown flag | claim, execute, reap, notify, drain on SIGTERM | crashes, a session that fails inside its own error handler, webhook order | a claimed row is executed or given back; the webhook tells the truth |
| Job processor (`worker/processor.py`) | table `documents`, extraction directory, the loop's locals | process for three job types, resume, heartbeat per file, persist per file, cleanup | half-done attempts, several attempts on one directory and one unique key | no file paid twice, no directory pulled from under a slot, no archive left |
| Jobs and projects API (`api/routers/jobs.py`, `projects.py`) | uploaded archives; rows of `jobs`, `projects` | create, upload, cancel, delete history, delete project | races with the worker, a file and a row that cannot commit together | only finished histories are deleted; the file lives as long as the job needs it |
| Admission (`api/deps.py`) | reads jobs, usage, credit | enforce_job_quota, enforce_cost_budget | check-then-act across requests | no more jobs than the plan allows |
| Billing (`core/billing.py`) | pricing rows, credit grants, usage records | balance_for, settle_overflow, grant_credit | a spend read before the lock, month boundaries, two first inserts | credit is consumed once, oldest first, never below zero |
| Administration (`api/routers/admin.py`) | users' plan and status, prices, credits | change_plan, change_status, update prices, add_credits | changes in mid-month, a sale that settles old debt, a status switched while its user signs in | what is sold arrives; a switch touches nothing it did not mean to |
| Authentication (`api/routers/auth.py`, `deps.py`, `core/security.py`) | users, api keys, reset links, failed_login_attempts | register, login, request and confirm a reset, create and revoke a key, accept a credential | overlapping transactions of one account, columns an ORM does not write back | a link works once; what a reset ends stays ended |
| Rate limiter (`core/ratelimit.py`, `api/ratelimit.py`) | counters per key, least recently used evicted | dispatch, check, evict | window boundary, eviction forgets, one limiter per process | within a window's length no more than the allowance and the share of it the seconds are worth; Retry-After is right to a second |
| Provider router (`packages/providers`) | recorded calls | resolve_chain, complete, the adapters | a fallback chain, error classes that differ by vendor and SDK | every attempt recorded; a call ends |
| Agent pipeline (`packages/agents`) | symbols, findings, warnings of one file | reader, chunks, merge, review rounds, rewrite, summary | concurrent chunks under a semaphore, who reviewed the last draft, symbols of one name | what is delivered is where the parser saw it and was audited; only a whole file fails |
| Context selector, parser, chunking, symbol index (`packages/agents`, `packages/parsing`) | the index of a job | pure functions with budgets | symbols larger than a budget, nested and nameless classes, gaps | every symbol the parser yields in one chunk, or every line where it yields none; budgets kept and used |
| Plans and depth (`core/plans.py`, `core/domain.py`) | none | resolve_depth, limits | little | the depth never exceeds the plan |
| Archive extraction (`core/archive.py`) | a directory | safe_extract | headers that lie, limits hit half-way | the limits hold on the disk at every block |
| Clone and scan (`core/repository.py`) | a temporary directory, the counters of a scan | clone, scan, cleanup | a clone thread that outlives its timeout, a scan that stops | the directory is gone afterwards; what is left out is counted or marked |
| Documents API, exporters, e-mail | none | reads, formats, sends | nothing a model shows | - |
| Web client (`apps/web`) | polling state | waitForJob, followJob | a job that never ends, a lost answer | polling stops at a terminal status |
| CLI, migrations, deployment (`apps/cli`, `infra`) | - | run by hand | restart policy, replicas, volumes | the containers see what they exchange |

How they interact: the API and the worker never call each other. The API inserts
a row; a worker polls `claim_job`; progress, lease renewals and verdicts are
updates of that row; documents are rows of their own. Uploaded archives travel
through a directory whose path is stored in the job. Webhooks go from the worker
to the client. Admission and billing read what the worker wrote. Every worker
process also runs a reaper that gives expired rows back to the queue. Every
request passes the rate limiter of its process and then, with a session or a key,
the sign-in. Within a job, the processor fetches the files into a directory of its
own, builds an index of all of them, and calls the pipeline file by file; the
pipeline calls the router, and the router the vendors.

## 2. Modules

| Module | Models | Uses |
|---|---|---|
| `JobQueue` | the table and the seven functions of `core/queue.py` (Postgres branch) | |
| `Worker` | worker processes, slots, `_execute`, `process()`, reaper, drain, crash, restart | `JobQueue` |
| `JobSystem` | the whole: API handlers, worker, clock; the properties; the refinement mapping | `Worker`, `JobLifecycle` |
| `JobLifecycle` | the abstract specification: what `docs/api-contract.md` lets a client expect of a job | |
| `ClaimOrder` | the order of `claim_job` under a load that never ends | `JobQueue` |
| `Accounts` | one account: the requests that admit jobs and settle what it spends against its credits, and the administrator | |
| `SignIn` | one account: password, lock, sessions, API keys, reset links, and the administrator who switches it off and on | |
| `RateLimiter` | the throttle of one API process | |
| `Orders` | sorting a finite set, and the part of a sequence at some places | |
| `ProviderRouter` | the chains of vendors, the adapters, the usage row of every attempt, for many calls at a time | `Orders` |
| `DocumentationPipeline` | the agents on one file, at every depth | `ProviderRouter` |
| `Workspace` | clone, extraction and scan, with the thread and the disk | `Orders` |
| `Parsing` | the walk of a syntax tree and the cutting into chunks | |
| `SymbolIndex` | the index of a job, the references and the context of a prompt | `Orders` |
| `RepositoryAnalysis` | a job from its archive or repository to the prompts of each file | `Workspace`, `Parsing`, `SymbolIndex` |
| `MCJobSystem`, `MCClaimOrder`, `MCAccounts`, `MCSignIn`, `MCRateLimiter`, `MCDocumentationPipeline`, `MCRepositoryAnalysis` | constants for TLC | |
| `JobSystem_proofs` | theorems about the job system, and that it implements the life cycle | `JobSystem`, `JobLifecycle_proofs` |
| `JobLifecycle_proofs` | what the life cycle alone guarantees | `JobLifecycle` |
| `Data_proofs` | lemmas about sums, sorted sets, parts of a sequence and recursion along one | `Orders` |
| `SignIn_proofs` | theorems about `SignIn` | `SignIn` |
| `Accounts_proofs`, `RateLimiter_proofs` | theorems about `Accounts` and `RateLimiter` | the module, `Data_proofs` |
| `Pipeline_proofs` | theorems about `DocumentationPipeline` and the router under it | `DocumentationPipeline`, `Data_proofs` |
| `RepositoryAnalysis_proofs` | theorems about the disk, the scan, the chunks and the prompts of a job | `RepositoryAnalysis`, `Data_proofs` |

### State and code

* `row[j]` is the row of the jobs table. `lease` is `lease_expires_at` compared
  with the clock (none, live, expired); `due` is `scheduled_at <= now`. The
  only other use of `scheduled_at` is `ORDER BY`, so `ahead[j]` keeps the due jobs
  with an earlier one. Two rows written by one reaper transaction have the same
  `scheduled_at` (Postgres `now()`), hence an order and not a sequence.
* Each function of `queue.py` is one SQL statement (two in one transaction for the
  reaper) and one operator. `FailJob` is the exception worth knowing: `fail_job`
  is `session.get` followed by assignments. The worker's session has loaded the
  job before and has `expire_on_commit=False`, so `get` answers from the identity
  map, and the flush is an UPDATE by primary key. The decision is therefore
  `MayRetry(s)` on `snap[s]`, and the write ignores what the row has become.
* `Held` are rows written and not committed. `_execute` calls the webhook of a
  failure inside `session_scope`, so the row stays locked for the length of the
  call: `claim_job` skips it, every other writer waits.
* A step of a slot runs to the next `await` that lets somebody else in. `pc[s]`:
  `claimed` (committed claim), `prepare` (job loaded, up to the first progress
  report), `fetch`, `scan`, `list` (already_documented), `loop` (heartbeat and
  skip), `generate` (pipeline.run), `persist` (insert and commit), `outcome`
  (back in `_execute`), `notify` and `commit` (a definitive failure), `announce`
  (a success).
* `zip[j]` is the uploaded archive, `tree[j]` the directory `archive_<job id>`.
  Cleanup is not an action: it is part of every step that leaves the `try` of
  `_document_archive`.
* `Abandon` is what happens when a statement fails: SQLAlchemy's session is
  unusable afterwards, so `fail_job` on it raises too, `session_scope` rolls back
  and `_slot` logs. The row stays as it is. `SessionFails` lets it happen at every
  statement; `Persist` does it when the unique key or the foreign key refuses.
* A worker id ends in a fresh uuid, so a restarted process never equals an id it
  left in the table: `Orphan` renames those to `Ghost`.
* `deleted` and `docs = {}` are delete_from_history; `snap.intact` remembers whether
  params and webhook_url were still there when the slot loaded the job.

Abstracted: the content of everything; progress text; usage records; the poll
interval, the backoff's length and all other durations (the clock is two actions,
`Lapse` and `Due`, that may come at any time the code allows); the result of the
pipeline, of a fetch and of a scan, each a free choice between the outcomes the
code distinguishes (done, `LegacyDocError`, anything else). The SQLite branch of
`claim_job` serves the unit tests and is left out.

### Accounts

`Accounts` stands beside the queue: what it needs of a job is whether it is
queued or running, its month and what it has spent. A request is one READ
COMMITTED transaction, and each of its statements that another transaction may
change the answer of is an action: `Begin` (the user with his plan, and for a job
the global budget), `ReadSpend` (`load_pricing`, `spend_in_month`),
`SelectSettlement` (`FOR UPDATE`), `Charge` (the loop over the credits and the
flush), `Quota` (the balance and the two counts), `Commit`. The session has
`autoflush=False`, so a new settlement row is inserted by the flush that ends
`settle_overflow` or, when nothing is pending, by the one in front of the commit;
the loser of two inserts gets an `IntegrityError` and is gone (`Duplicate`). What a
request has written and not committed is kept in `request[r]` (`locked`, `owed`,
`taken`), and is lost when it is turned away: a 402 rolls its own settlement back.
`settled` is a function on the months that have a row. Amounts are integers,
reais and percentages are left out. The statements of `Quota` are one step, as is
all that `Begin` reads: nothing is written between them.

A consequence worth knowing: `enforce_cost_budget` locks the settlement row and
keeps it until the job is committed, so on Postgres two `POST /jobs` of one account
are serialised and the quota cannot be passed by both. Limitation 3 of
`docs/como-funciona.md` ("Cotas checadas antes de enfileirar, sem trava") needs the month to turn between
them.

### SignIn

A request is one READ COMMITTED transaction again: what it has loaded is kept in
`request[r].seen`, and the tables change when it commits. Between the two lies a
password hash, which is slow. Two details of SQLAlchemy decide what an overlap
does. The session does not flush before it commits, and a flush writes only the
columns whose value differs from the one loaded: `Flush` says that, and it is how
a stale lock counter is written over a newer one and how a lock survives a reset.
An `UPDATE ... WHERE` runs at once on the rows that match when it starts, waits for
whoever has updated one of them (`Held`) and checks that one again on what is left
behind: `Claim` for a single link; `Sweep` for all open ones when nobody holds any,
else `SweepWaits`, which remembers those it has found, and `SweepEnds`, which takes
those of them that are still open. A link committed meanwhile is not among them. Time is
the age of things in ticks of the cooldown between two links; the JWT is its `iat`
and is refused when it is older than `password_changed_at`. Hashes are 1 and 2 in
turn, so that every reset changes them. A used link is forgotten and its place
taken by the next, so that links can be asked for without end.

### RateLimiter

Seconds, modulo `Cycle`, a common multiple of the windows; a window's index is
kept as the number of windows since (`age`). The estimate is multiplied by the
length of the window, which turns the code's comparison of floats into one of
integers. Retry-After is where the floats show: `math.ceil` of what should be a whole
number of seconds may be one more (at second 40 of 60 the code says 21 and not 20), so
`SecondsUntilAllowed` is the set of the two answers (`Rounded`). The clock of the code
has fractions of a second and the model has not. `order` is the OrderedDict. `burst` and `since`
are read by the properties only: what went through in each of the last seconds,
and who was seen since. The estimate lets a client pass twice its allowance
within the length of a window if the window is longer than twice the allowance in
seconds, as those of the code are (20 or 30 requests in 300 seconds): the last
weight of the old window is then less than one request. What it never lets pass is
more than the allowance and the share the seconds of the window are worth, and
that is `NoDoubleBurst`. Where a key is evicted its `burst` is forgotten too:
`NoDoubleBurst` is about keys the limiter remembers, `Remembered` about which.

### The agents

`DocumentationPipeline` is `run()` for one file, with `pc` for the await it is at.
A call to a model is a state of `ProviderRouter`: it is asked, a vendor fails and
the next is asked, one answers; calls that are under way together end in any
order. The adapters are operators from what a vendor replies to the class the code
raises, one for SDKs with and one for those without a parsing helper, one for
Gemini; the retries in the SDKs are external. What a model may answer
is a constant operator (`Writes`, `Improves`) or everything the draft allows
(`Verdicts`); names may be bare, qualified or invented. Chunks enter in order as the
semaphore lets them; `Merge` puts them together in the order of the file. An
entry of a model carries a name and a line it claims; `Anchored` puts the parser's in
their place, except in a chunk without spans (a file without a grammar or without
symbols), where the code keeps the model's own. A row of usage is an entry the
session has added: it is lost when the session is rolled back, and that of a failed
attempt has neither tokens nor a cost, so what a vendor charged for it is not in the
spend. The prompts, the token counts and the prices are left out.

### From a repository to prompts

`RepositoryAnalysis` follows the other half of the processor: `Workspace` fetches,
entry by entry and block by block, with git in a thread that the job may stop
waiting for; `Parsing` and `SymbolIndex` are functions, checked against
definitions that are written without recursion or a loop (`ChunksCoverTheFile`,
`PromptsFilled`). A tree is a sequence of nodes with their depths, as tree-sitter's
walk visits them, each of them below the root or below a node before it (`Tree`); a
text is a length and the names it mentions, by symbol and by line: a chunk of lines is
told of other files' symbols as one of symbols is. Each way out of a `try` ends with
`Cleanup`, also when the archive is none, an entry is encrypted or its checksum is
wrong (`ArchiveFails`); `cleanup_directory` may fail with a warning and leave anything
behind (`Removed`, `warned`), which `Worker` leaves out. The agents are one step here, as this
path is one step in `Worker`. Abstracted: the tokenizer and the globs (common words,
hit or miss), the reasons for which an entry is passed over (one kind), directories
and names a scan ignores (they are not in the walk).

### Time and leases

A lease lasts 900 s and is renewed at each progress report and in front of each
file; between two renewals lies at most one fetch or one run of the pipeline. A
provider call times out after 120 s, but a run has many: chunks times review
rounds times retries times the providers of the chain. So a slot normally renews
in time and *can* fail to. The constant `Stalls` names the places where a live
slot may outlive its lease: `{}` for the normal case, `PC` for the worst. Properties
that hold only for `{}` are checked and proved with it, and runs show what is lost
without it.

### Fairness

`FairSpec` assumes that the clock runs (weak, per job), that a slot which holds a
job goes on with it (weak; every call has a timeout), that a drained process
exits and that docker restarts what is down (`restart: unless-stopped`). `Reap` and
claiming get strong fairness: a process does both first thing when it comes up, so
a crash loop does not keep them off for ever. There is none for the API, for
drain, crash or a failing session. `ClaimOrder` has weak fairness for slots and
backoffs and none for arrivals. `RateLimiter` needs the clock to run and nothing
of its clients. `DocumentationPipeline` is weakly fair as a whole: a call of a
vendor ends, since the SDKs have timeouts and a limit of retries, and asyncio runs
what is ready. `Accounts`, `SignIn` and `RepositoryAnalysis` claim no liveness.

## 3. Runs

All of `MCJobSystem` have two worker processes with one slot each, `MaxAttempts = 2`
and files numbered from 1. Two processes are what it takes for everything the
components do to each other: a stale and a fresh executor, a reaper that survives
the crash of the other process. A second slot in a process would differ from a
second process only in that both crash together. Two attempts separate "may
retry" from "last attempt"; two files separate the first, the resumed and the
next file of a job. Snapshots, leases and documents are per job, and jobs only
meet in the choice of `claim_job`, so two jobs of different priority cover their
interaction. The state spaces are finite without further bounds: attempts are
bounded by the code (with stalls too, as `AttemptsBoundedUnderStall` shows). The
processes are interchangeable, each with its slot: `two_jobs`, which claims nothing of
liveness, uses that (`SYMMETRY`). A repository goes the way of an upload in `Worker`
but leaves nothing in a shared directory; it is the job of `stall_attempts`, and the
proofs are for every kind. That a job settles is checked where slots may outlive
their leases anywhere, which includes that none does.

| Run | Instance | Checks | States |
|---|---|---|---|
| `two_jobs` | upload of two files, and a snippet in a project, with webhook; different plans, no stalls | `TypeOK`, `WorkspaceIntact`, `SucceededFreesDisk`, `NeverPaysTwice`, `ExclusiveExecution`, `OwnershipIsCurrent`, `AttemptsBounded`, `SuccessAnnouncedIsDurable`, `DeletedStaysGone`, `TerminalIsFinal`, `ImplementsLifecycle` | 647,730 |
| `stalled_upload` | an upload of two files, stalls anywhere, fair | `RowConsistent`, `AttemptsBoundedUnderStall`, `SucceededHasDocuments`, `Settles` | 247,943 |
| `claim_order` | two paid jobs and a free one for one slot, for ever | `BestBandServed` | 248 |
| `accounts` | one account, as described above | `TypeOK`, `ChargedOnce`, `SoonestFirst`, `ForgivenOnlyWithoutCredit`, `AdmittedWithinPlan` | 2,046,836 |
| `sign_in` | one account, two requests under way, three links, a session and a key | `TypeOK`, `FewLinksOpen`, `LinkPaysOnce`, `EndedStaysEnded` | 2,418,853 |
| `rate_limiter` | one client, three rules, room for two keys | `NoDoubleBurst`, `Remembered`, `RetryAfterIsTight`, `ComesBack` | 93,494 |
| `documentation` | four files, two sets of vendors, every depth | `UsageTellsTheCalls`, `DeliveredIsGrounded`, `AuditedAsDelivered`, `FailsOnlyWhole`, `Ends` | 162,232 |
| `repository_analysis` | 8,403 archives, repositories, files and contexts | `DiskWithinLimits`, `WorkspaceFreed`, `ScanTellsWhatItLeft`, `ChunksCoverTheFile`, `PromptsFilled` | 242,728 |

`accounts` has two requests under way, two jobs, two credits of one unit that
expire in months 2 and 3, two plans whose ceiling may be 1 or 2 units, one job at
a time and one a month, files of 2 units, a global budget of 4 and two months
(`LastMonth`). Two requests are a stale one and the one it waits for; two credits
and an overflow of up to 3 units are what the order of expiry, the spill from one
to the next and forgiveness need; a month of one job is enough because the job of
the month before can still be running. Further bounds: `MaxFiles = 1` file per job,
and a job is cancelled only before its first file, as repeated cancelling would
need a larger budget to end. `TurnsMidway = FALSE` keeps
the month from turning inside a request, in every run.

`sign_in` has `MaxFailed = 2` and counts failures up to 3 (`AttemptsCap`): below,
at and beyond the lock. A lock, and the longest one, is one tick (`LockUnit`,
`LockCap`), a session lives one and a link two, so that each can be alive, spent
and gone while the others are not. Two requests are a stale one and the one it
meets; a third place for a link lets two requests ask for one each in front of an
older one. No request lives through two instants of the clock (`late`); the order
of everything else is free. Requests and links are interchangeable (`SYMMETRY`).

`rate_limiter` has allowances of 1, 3 and 1 in windows of 3, 4 and 1 seconds and so
`Cycle = 12`: a window longer than twice its allowance, one in which the estimate
is fractional, one that always is at its edge, and three keys for
`MaxTrackedKeys = 2`. A second client would be two
more keys of the same rules.

`documentation` has a file without content, one without a grammar, one with two
methods of one name in two classes, and one of three chunks for two permits
(`ChunkConcurrency = 2`), one round of rewrites (`MaxReviewRounds = 1`), and a
verifier that is shown two symbols (`MaxAudited`). A writer answers with qualified
names, with bare names and an invention, or with an invention alone; a verifier
may reject any of the names and one that does not exist. With one set of vendors
every chain has one member; with the other that of the writer has two.

`repository_analysis` has every archive of up to three entries under two names
whose headers may lie, and of one too many (`MaxEntries = 3`), with limits of 2
blocks a file and 3 in all; every walk of up to four files of seven kinds for
`MaxFiles = 3`; every syntax tree of up to three nodes of seven kinds, and every
file of up to four lines of three lengths, for chunks of `MaxTokens = 14` of which
the header takes 2 and leaves at least 4; three files that mention each other in
every way the five bodies allow, with and without one from an earlier attempt, for
two references of 3 characters; every list of up to three of seven entries of the
project context, for two of 4 characters.

What they show. Whatever crashes, drains, fails or is cancelled, as long as leases
are not outlived a job has one executor at a time, which knows the truth about
it; it is retried at most `MaxAttempts` times; no file is paid twice; the archive
stays under the slot that uses it; a terminal state is final; deleted histories
stay empty. With stalls, several slots may execute a job at once, and what
remains is: rows are consistent, a success has documents, attempts have the bound
2 * MaxAttempts - 1, and every accepted job still ends. Within the best plan
`claim_job` starves nobody; a job of the free plan can wait for ever behind
paying ones, by design. An account is charged once for what it overspends, whoever
settles it under whichever plan and price, from the credit that expires soonest,
and is forgiven only what no credit covers; its jobs stay within its plan.

A reset link changes the password once, however confirmations and new requests for
a link overlap; a session that a reset ended stays ended; no more links are open
than requests overlap. A client gets its allowance in any window's
length, and beyond it the share that the seconds of the window are worth; is told by
Retry-After, right to a second, when it will be let in (refused a second before, let
in a second after; of the second itself see `retry_refused` below); and comes back
however often it asks meanwhile. The limiter forgets the key that has been quiet for
longest. What the agents deliver of a file with a grammar stands where the
parser saw a symbol of that name, was audited as it is or says that the audit did
not take place; a file is an error only if the writer failed on all of it; every
attempt at a vendor has its usage row; every file ends. On the disk an archive
never exceeds its limits, and when a job is over nothing of it is left, whatever
raised on the way, unless the removal itself failed with a warning or git outlived
its timeout (`ClonesRemoved` below). The result of a scan counts what it left out or is marked
as truncated; what of that reaches the client is the processor's choice: it passes on
neither `skipped_binary` nor, for an archive, the mark. Each symbol the parser yields
goes to the agents in exactly one chunk, its body cut when it exceeds the budget;
code outside symbols is not sent in a file that has some; in a file that has none
every line is in exactly one chunk, but for a blank end. References and context use
their budgets in order of relevance; as in the code, what separates two entries
is not counted.

`CHECK_DEADLOCK` is left on everywhere: processes can always crash or restart,
prices change, and the clock runs. `DocumentationPipeline` and
`RepositoryAnalysis` stop when the file or the job is over, and `Idle` says that
this is no deadlock: the caller goes on.

The `Bug:` operators next to a definition are seeded faults (a dropped guard, a
forgotten file, a status that is not written). Each property was checked to fail
when its fault replaces the definition; no specification uses them.

### Promises the code does not keep

Four runs end in a counterexample to a sentence of the docs or the tests:

| Run | Property | What happens |
|---|---|---|
| `stall_attempts` | `AttemptsBounded` | a slot outlives its lease in the pipeline, the reaper gives the job to another, the first fails and `fail_job` requeues it by primary key: a third execution with two attempts. The same write can undo a terminal status |
| `topup_swallowed` | `TopupStartsFull` | the sale of a credit settles what the account overspent before, so the credit arrives partly or wholly spent; it is forgiven only if somebody looked at the balance first |
| `reset_stays_locked` | `ResetUnlocks` | a confirmation loads an account that is not locked; a login fails and locks it; the confirmation sets `locked_until` to None, which is what it has loaded, so the ORM writes nothing and the account stays locked after the reset |
| `retry_refused` | `RetryAfterIsEnough` | Retry-After is the second at which the estimate is the limit, and the code refuses what is `>=` it: a client that spends its allowance at the start of a window, is refused and waits as told is refused again and let in a second later, under each of the three rules of the API. `test_waiting_the_advertised_time_actually_works` passes because at its second 40 of 60 the floats make 21 of 20 |

Three more are stated as properties and have no run of their own; TLC refutes each within
half a minute when it is added to the configuration named:

* `InsistingProlongs` (`rate_limiter.cfg`, a PROPERTY): `docs/api-contract.md:477-478`
  says "insistir só prolonga o bloqueio". A request that is refused is not counted
  (`core/ratelimit.py:67-74`), so asking again changes nothing about the wait. What holds
  is the opposite, `ComesBack`; its seeded fault `CountAll` is what the document
  describes.
* `ClonesRemoved` (`repository_analysis.cfg`, an INVARIANT): `docs/como-funciona.md:465`
  says "`finally: cleanup_directory` **sempre**: a v1 deixava um clone órfão de
  101 MB". A clone exceeds its timeout, its directory is removed or not there yet, the
  thread goes on and creates it: nobody removes it. `WorkspaceFreed` exempts this case
  (`late`) and a removal that failed with a warning (`warned`), no other.
* `NoCodeLeftBehind` (`two_jobs.cfg`, an INVARIANT): `docs/como-funciona.md:382-384` says
  "nenhum caminho deixa código de cliente parado no disco do servidor". A job that fails for
  good in front of the `try` of `_document_archive` (no provider is configured), or is
  failed by the reaper, leaves its zip on the disk.

Others are in the models or were seen while they were written:

* `DeletedStaysGone` holds only without stalls: the late slot's `_persist` inserts a
  document into a history that was deleted meanwhile. The remedy for this and for
  `stall_attempts` is the guard `heartbeat` and `complete_job` already have, `WHERE
  locked_by = :worker_id`, in `fail_job` and around `_persist`.
* An upload whose commit fails leaves its zip on the disk as well.
* `infra/docker-compose.yml` gives API and worker no common upload volume. The
  constant `SharedUploads` says whether there is one; the runs have it.
* A crash after the commit of a success, or a failure by the reaper, calls no
  webhook; that of a failure is called before a commit which may fail
  (`NotifyFailure`, `CommitFailure`).
* A database error leaves a row running under a slot that has dropped it, until the
  lease runs out (`Abandon`).
* When the month turns between the sum of the spend and `period_key()`, the old
  month's overflow is charged again as the new month's: with `TurnsMidway = TRUE`,
  `ChargedOnce` fails.
* Failed logins that overlap count as one, and a stale one that has read an old
  count can write `locked_until` away. Links asked for at the same time stay open
  together.
* The rewrites of a review are keyed by the bare name: two methods of one name in
  two classes both become what was rewritten last (`Collect`, `Replaced`), which
  also takes its class from the model (`Corrected`). The summary of a file is
  written from the symbols as they were before the review (`digest`).
* `docs/como-funciona.md` says that a symbol above the budget of a chunk is sliced
  ("fatiado"). It is cut off, as `tests/test_parsing.py` expects, and the mark
  `truncated` is read by nobody. A scan of an archive that stops at its limits is not told, where that
  of a repository is. The files of a resumed job do not see the summaries of the
  earlier attempt.

The limitations `docs/` already lists (only queued jobs can be cancelled, quotas
are checked without a lock, the rate limit is per process, no idempotency key, an
upload retried after an error finds no archive) are modelled as they are and
not reported.

## 4. Proofs

TLAPS checks all of it from the named assumptions on the constants: the job system
for any number of jobs, slots, processes and files and any `MaxAttempts` and
priorities, `SignIn` for any number of requests, links, sessions and keys,
`Accounts` for any number of requests, jobs and credits and any plans, prices and
months, `RateLimiter` for any clients, allowances, windows and capacity,
`DocumentationPipeline` for any files, chunks, rounds and vendors with a key and
whatever the models answer, the disk and the scan of `RepositoryAnalysis` for any
limits, archives and repositories.

| Theorem | States | From |
|---|---|---|
| `TypeCorrect`, `Consistent` | `TypeOK`, `RowConsistent` | `QueueAssumption`, `WorkerAssumption`, `SystemAssumption`: wherever slots stall |
| `AttemptsBoundedAnyway` | `AttemptsBoundedUnderStall` | the same three: wherever slots stall |
| `OwnershipHolds` | `OwnershipIsCurrent` | also `Stalls = {}` |
| `ExecutionIsExclusive` | `ExclusiveExecution` | also `Stalls = {}` |
| `AttemptsStayBounded` | `AttemptsBounded` | also `Stalls = {}` |
| `TerminalStaysFinal` | `TerminalIsFinal` | also `Stalls = {}` |
| `NothingPaidTwice` | `NeverPaysTwice` | also `Stalls = {}` |
| `LifecycleImplemented` | `ImplementsLifecycle` | also `Stalls = {}` |
| `HistoryStaysTrue` | `HistoryIsTrue`, of `JobLifecycle` | nothing |
| `DeletedGoneForGood` | `DeletedStaysGone` | also `Stalls = {}` |
| `SuccessShowsDocuments` | `SucceededHasDocuments` | also `Stalls = {}` |
| `AnnouncedSuccessIsDurable` | `SuccessAnnouncedIsDurable` | also `Stalls = {}` |
| `WorkspaceStaysIntact` | `WorkspaceIntact` | also `Stalls = {}` |
| `SuccessFreesDisk` | `SucceededFreesDisk` | also `Stalls = {}` |
| `AccountTypes` | `TypeOK` of `Accounts` | `AccountAssumption`, `TurnsMidway = FALSE` |
| `OverflowChargedOnce` | `ChargedOnce` | the same |
| `CreditsUsedSoonestFirst` | `SoonestFirst` | the same |
| `ForgivenOnlyWhenEmpty` | `ForgivenOnlyWithoutCredit` | the same |
| `AdmissionsWithinPlan` | `AdmittedWithinPlan` | the same |
| `NeverADoubleBurst` | `NoDoubleBurst` | `LimiterAssumption` |
| `TheLastUsedAreRemembered` | `Remembered` | `LimiterAssumption` |
| `RetryAfterHolds` | `RetryAfterIsTight` | `LimiterAssumption` |
| `LinkUsedOnce` | `LinkPaysOnce` | `SignInAssumption` |
| `EndedSessionsStayEnded` | `EndedStaysEnded` | `SignInAssumption` |
| `FewLinksStayOpen` | `FewLinksOpen` | `SignInAssumption` |
| `SignInTypes` | `TypeOK` of `SignIn` | `SignInAssumption` |
| `UsageAlwaysTells` | `UsageTellsTheCalls` | `KeySetsAssumption`, `PipelineAssumption` |
| `DeliveredStaysGrounded` | `DeliveredIsGrounded` | the same |
| `AuditedWhatIsDelivered` | `AuditedAsDelivered` | the same |
| `OnlyWholeFails` | `FailsOnlyWhole` | the same |
| `DiskStaysWithinLimits` | `DiskWithinLimits` | `LimitsAssumption`, `JobsAssumption` |
| `WorkspaceAlwaysFreed` | `WorkspaceFreed` | the same |
| `ScanAlwaysTells` | `ScanTellsWhatItLeft` | the same |
| `ChunksAlwaysCover` | `ChunksCoverTheFile` | `ParsingAssumption`, `JobsAssumption` |
| `PromptsAlwaysFilled` | `PromptsFilled` | the same, `IndexAssumption` |

Without the premise `Stalls = {}` `AttemptsBounded` fails (`stall_attempts`), and so
do `DeletedStaysGone` and what rests on ownership. Without `TurnsMidway = FALSE`
`ChargedOnce` and `AdmittedWithinPlan` fail: TLC finds the month that turns inside
a request.

The argument:

1. `JobSystem_proofs`, first part: each operation of `queue.py` preserves `QueueOK`
   (types, row agreement, order), whoever calls it.
2. `JobSystem_proofs`, second part: `TypeInv` adds the workers' types and "a slot has a job
   exactly while it is at work". No assumption on leases.
3. `JobSystem_proofs`, fourth part: `ExclusiveExecution` is not inductive: what keeps a second
   slot away is that the row is running under the first one's name and that its
   lease is live. `OwnershipIsCurrent` says so for every executing slot, together
   with the truth of its snapshot. It needs two facts about rows: a queued job has
   an attempt left (`BudgetKept`, else a claim could exceed the budget) and only a
   job that is over is deleted. `OwnInv` is their conjunction. One lemma per actor:
   the API never touches a running row, the reaper only rows without an executor,
   `claim_job` only queued rows, and a slot only its own.
4. `RowAdvances` bounds what one step does to a row; `TerminalIsFinal` and half of
   the refinement follow from it.
5. `JobSystem_proofs`, last part: `ProgressHonest` relates a slot's locals to the documents
   table (what the loop knows is stored; what is stored is known or behind the
   loop). `RefineInv = OwnInv /\ ProgressHonest` gives `NeverPaysTwice`, and that
   every step of the system is a step of `JobLifecycle` or invisible there.
6. `JobLifecycle_proofs` shows what the history of a job says in the life cycle;
   `JobSystem_proofs` instantiates the theorem with the refinement mapping, and the
   system inherits it through `StepMaps`. That is what the abstract specification
   is for: neither leases nor slots occur in this part of the argument.
7. `AnnounceInv`: a slot that is about to announce a success has committed it, and
   a terminal state stays (`RowAdvances`).
8. `DiskInv`: the files of an upload are there from the first look at the archive
   to the slot's own `finally`, and gone when it says that all went well. Inductive
   because only the executor and, for jobs nobody executes, the API write them.
9. `SignIn_proofs`: a confirmation holds its link from the claim on, and all open
   links from the sweep on, so no second one reaches its commit (`Ownership`). A
   late confirmation meets no session younger than its password, unless its link is
   gone or about to go (`Lateness`).
   `FewLinksOpen` is not inductive: two requests that swept nothing will open a link
   each, and a sweep that waits takes links that others may have closed. `Few`
   therefore speaks of every set of requests past their sweep: as many as these and
   the links they leave open together are no more than there are requests. `OneWaits` says
   that of two confirmations that wait in their sweep, or are past it, one has found
   the link of the other and waits for it. The types need that `2^n` is a number, and no
   prover has a theory of powers: it is, because a set of `n` elements has so many
   subsets.
10. The third part of `JobSystem_proofs` (attempts) needs no assumption on leases. Every claim gives a number that no
   other slot has (`AttemptsApart`), and a requeue beyond the last regular attempt
   spends the number its slot was given, so `Paid` counts the numbers below
   `MaxAttempts` that some slot still holds: at most `MaxAttempts - 1` of them.
11. `Data_proofs` finds out what `SumFunctionOnSet` of the community modules adds up
   to. It is a recursive function behind a `CHOOSE`, and the induction theorems of
   the library take an operator; but the subsets of a finite set are well-founded,
   so a set of counterexamples has a least one (`SubsetInduction`). From there on a
   sum is what one expects: an element taken out, two parts, a renaming, an interval
   shifted by one. The same set of counterexamples shows that sorting by an order
   without ties takes every element once (`PlaceTaken`, `SortedAll`): `Nth` is a
   `CHOOSE`, and nothing else says that there is something to choose.
12. `Accounts_proofs`: `ChargedOnce` alone says nothing of the requests under way.
   `IInv` adds what each has a right to believe: who has the lock on the row of the
   month is alone (`Exclusive`), what it takes is there, in the order of expiry, and
   with what is charged already no more than it owes (`Paying`); what was read
   without the lock is a lower bound of the tables (`Informed`); a job that can still
   be committed fits into the plan (`Admitted`), because the request that could
   spoil it waits for the lock or fails on the key of the row. `TakeTotal` says
   that the greedy choice of `Take` pays all there is and no more than is owed.
   `SoonestFirst` and the other action properties follow from `Paying` at the commit.
13. `RateLimiter_proofs`: `NoDoubleBurst` needs what the two counters mean.
   `Accounted` says that `current` is the sum of `burst` since the window began,
   that what is older is no more than `previous`, and that there was room for the last
   request when it came. With `previous` at most the allowance the bound is
   arithmetic. `InOrder` says that behind each key of `order` are exactly the keys
   used since, and that a key that is gone had at least `MaxTrackedKeys` behind it.
   `RetryIsTight` is arithmetic about `Ceil` and the integer above it, for every
   state with counters within the allowance, whichever of the two is the answer.
14. `Pipeline_proofs`: what is delivered is grounded only if everything on the way to
   it is. `InFile` says so of the draft, the findings and the rewrites under way,
   `Written` says of the answers what the models may say, and `InStage` that the
   calls under way are those of the stage, so no late answer can be taken for one of
   the next. `Told` counts the rows of a call against the vendors it has asked, and
   `Audited` is `AuditedAsDelivered` between the last audit and the end. Most of the
   work is in the operators: each `_dedupe` sorts by an order without ties, so every
   place of its list is taken by exactly one element (`PlaceTaken`), which is what makes
   the result a list of elements of the input at all; the parts of the chunks are put
   together by a recursive function, and a least counterexample (`UpTo`) shows what
   comes out (`JoinsSeq`).
15. `RepositoryAnalysis_proofs`: `DiskWithinLimits` is about the disk, and the code
   counts blocks. `Counted` says that the count covers the disk: it does, because an
   entry that overwrites an earlier one of its name, or is removed, leaves less on the
   disk than was counted. `Watched` says that a thread that still runs is waited for
   or was given up with its job; with it, and `warned` where a removal failed,
   `WorkspaceFreed` is a matter of going through the ways out. `InScan`
   says how far into the walk a scan has come: its files are those at the source
   places before (`At`), one more place adds one file or none (`AtNext`), and what is
   taken from a part of the walk is a prefix of what is taken from all of it
   (`AtPrefix`), which is where a truncated scan stands.
16. `ChunksCoverTheFile` is about what three recursions compute, and no prover does
   induction over data; each is compared with its solution, written down without
   recursion. What `Symbols` yields below a node is what stands at the visible places
   below it, with the named classes between the two behind the parent (`Listed`):
   the nodes below a child lie before the next child (`ChildInside`), everything
   below a node is a child or below one (`InsideChild`, where a tree must be one), so the
   children's parts put one behind the other are the node's (`PiecesListed`), and two
   solutions of the recursion agree from the last node back to the root
   (`SymbolsListed`). The two loops are followed step by step (`Recursion`): `Holds` says
   that the chunks made and the one being filled hold the symbols seen so far, and
   relates the characters of a chunk to the tokens it is filled by, each rounded up
   (`FilledFits`); `Tiled` says that each line up to the cut is in exactly one range.
   `PathsKnown` says that the file in hand is one of the texts of the job.
17. `PromptsFilled` speaks of sets and sums where the code sorts and loops. Both orders
    are strict and total: of the references, because the rank of a name and the place
    in its list tell two definitions apart (`MentionsOrder`), of the context, because
    scores are fractions with positive denominators and compare transitively
    (`Fractions`, `Scores`). `Gathered` is the invariant of the loop: what is kept
    stays within the room, and each candidate passed over was so behind the first
    `m` kept ones, all of which come before it, because they were as many as are
    told, left no room for it, or had it already. What is kept later does not change
    that (`NoRoomStays`), and the kept ones that do not rank below it include those
    `m` (`RoomUsed`). `IndexOK` says that the index keeps a definition under its name
    and with a summary of its own file or none.

Three statements did not survive the attempt to prove them. `NoDoubleBurst` was "less
than twice the allowance", which holds only in windows of at most twice the allowance in
seconds, and the instance had no others. `ScanTellsWhatItLeft` counted the large
files among the sources; the scan counts a large file before it looks whether it is
text, and the instance had no large binary. The assumptions of `Accounts` did not
say that there are finitely many credits and jobs, nor those of `SignIn` that there
are finitely many requests.

Model-checked only: the liveness properties (`Settles`, `BestBandServed`), out of
the prover's reach, and with them `ComesBack` and `Ends`; `SucceededHasDocuments`
where slots do outlive their leases.

## 5. Not modelled, and the plan

Not modelled, because no state of theirs could have a property:

* the documents API and the exporters (`api/routers/documents.py`,
  `packages/exporters`), the lists and metrics of the administration: reads and
  formatting; the audit log only grows;
* e-mail (`core/email.py`): sent after the commit, its failure is logged;
* the web client: a reader that polls until a terminal status, of which
  `JobLifecycle` says that it comes and stays;
* the CLI, seeds and migrations, run by hand; of the deployment only the restart
  policy, the replicas and the volumes matter, and `Worker` has them;
* prompts, tokens, prices and every wording.

Not modelled, although it could be: the first insert of the pricing rows
(`_ensure_rows`), whose loser gets an error once in the life of a database; the
SQLite branch of `claim_job`, which serves the unit tests; `validate_repo_url` and
the reasons for which `safe_extract` passes an entry over, which are decisions on
the text of a name; projects and context apart from `delete_project`.

Planned: an abstract specification of `Accounts`, in which credit is consumed once.

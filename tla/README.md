# A verification of the multi-user agent platform

This directory models the platform of this repository in TLA+, checks the models
with TLC on small instances and proves some of their properties with TLAPS for
every instance. It is kept beside the code: every definition translates code under
`src/`, and `PROJECT.json` names the lines of each (`map`).

## 1. The system

One host runs three programs over one shared `/data` volume and one PostgreSQL:

- **agent-api** (`agent_api/`), exactly one worker process: FastAPI on an asyncio
  event loop with a thread pool for the synchronous routes. It owns accounts,
  conversations, the LangGraph agent of each user and background processes.
- **workspace-api** (`workspace_api/main.py`): upload, download and deletion in a
  user's workspace; it authenticates against the same database.
- **client** (`client/`): Streamlit pages that call both over HTTP.

All three are restarted when they stop.

### Components

| Component | State | Operations | Interacts with | Hard behaviour | What makes it correct |
|---|---|---|---|---|---|
| Accounts and sessions (`shared/auth`, `auth_routes.py`, `admin_routes.py`) | tables `app_users`, `auth_sessions`, `auth_handoffs`; row locks, one advisory lock | login, logout, create and exchange a hand-off code, create, update, reset, revoke | everybody authenticates here; `update_user` calls `cancel_user_tasks` | statements of concurrent transactions, a lost connection | an active administrator remains; a deactivation leaves no live session; a code is used once; no deadlock |
| Conversations (`agent_api/main.py`) | `<thread>.json`, `<thread>.jsonl`; `USER_LOCKS`, `USER_ACTIVE_TASKS`, `runtime_registry` in memory | create a conversation, post a message, cancel | runtime, accounts | coroutines that wait for the user lock, cancellation, failures between two writes, crash | one turn per user at a time; transcript follows the memory; metadata follows the transcript; requests end |
| Agent runtime (`agent_api/runtime.py`) | the checkpoint of thread `user:thread`, the memory file | `invoke`, the structured answer, the durable copy of the memory | model provider, tools, checkpointer | fails after it has saved state | a turn is remembered once |
| Background processes (`agent_api/processes.py`) | `_live`, `metadata.json` and two logs per process, the operating system | start, list, get, read output, stop | tools of a running turn, HTTP routes, deactivation, restart | many threads in one manager, files written in two halves | a status is true; a running process can be stopped; calls end |
| Workspace files (`agent_api/workspace.py`) | a directory tree | write, append, move, copy, delete, archive | agent tools, workspace-api, shell | overlapping paths, protected directories | a failed operation loses nothing; protected directories stay |
| Workspace quota (`shared/quota.py`, `quota_backend.py`) | the sum of the file sizes | check before each write | every writer | check and write are apart, temporary files | used bytes stay below the quota |
| Redaction (`agent_api/redaction.py`, `tools/vision.py`) | pages and their pass counters; the places under a bar | detect, mask, verify, write | workspace, vision model | repeated passes that disagree; a bar drawn elsewhere than where the data were seen | what is called verified was verified; which detected values can stay readable |
| Context budget (`context_budget.py`, the figures of `runtime.py`) | the history of a conversation | summarise, offload a tool result, estimate, refuse | runtime | two counters with two limits; an exception that a summary answers; cuts that are not possible | the length of a conversation never gets a turn refused |
| Memory file (`AgentRuntime.create`, `invoke`) | `MEMORY.md` in the workspace and its durable copy | create, restore, copy | tools, deactivation | a crash inside a write that has emptied its target | some copy is whole |
| Schema bootstrap (`AuthRepository.initialize`) | the schema, the first administrator | once per start of an API | both APIs, administrators | two starts at once, their locks taken in two orders | who serves has an account with the role of an administrator; who starts comes up |
| Client session (`client/auth.py`, `app.py`, `pages/`) | `st.session_state` | login, exchange of a code, browse, logout | agent-api, workspace-api | a change of user in one browser session, a script ended anywhere | nothing of another user is shown |
| Migration (`scripts/migrate_legacy_data.py`) | the legacy trees and their destinations | copy, refuse | the APIs that serve the user meanwhile | interruption, a second run | success means every file is whole |
| Configuration, TLS, visuals, registry, code bundle | none or constant | | | | not modelled: no state to get wrong |

### How they interact

A message goes client → `require_user` (accounts) → `post_thread_message` → user lock
→ `AgentRuntime.invoke` (checkpoint, tools, processes, workspace) → transcript →
metadata. A deactivation goes client → `update_user` (transaction) →
`cancel_user_tasks` (cancels active tasks, drops the runtime and with it the process
manager). `require_user` and `require_admin` are coroutines whose database calls
block the event loop, so authentication and the body of a coroutine handler up to its
first `await` are one step of the loop; the synchronous routes run in the thread pool
and interleave with it.

The hazards of this code, each at its line, are listed in `PROJECT.json` (`hazards`)
with the properties that cover them.

## 2. Plan

| Order | Module | What | State |
|---|---|---|---|
| 1 | `AccountStore`, `Accounts`, `AccountsProofs` | what the repository promises, and the transactions on accounts and sessions that implement it; refinement and inductive invariant proved | done |
| 2 | `TurnLog`, `AgentTurns`, `AgentTurnsProofs` | what a conversation promises, and the worker that implements it | done: refinement and inductive invariant proved |
| 3 | `Processes`, `ProcessesProofs` | the background process manager with its files; inductive invariant proved | done |
| 4 | `WorkspaceTree`, `TreeProofs` | every call on the tree, whole: what is lost, what exceeds the quota; all of it proved | done |
| 5 | `FileStore`, `WorkspaceWriters`, `Sums`, `WritersProofs` | what readers see of a directory, and the uploads and writes that interleave between the quota check, the write and the name; deletion, crash; refinement and inductive invariant proved, with the sums of the quota | done |
| 6 | `Redaction`, `RedactionProofs` | the passes over the pages, what `review_required` means; inductive invariant proved | done |
| 7 | `RedactionContent` (in `RedactionProofs`) | what one page says and where its bars go, on top of `Redaction`; inductive invariant proved | done |
| 8 | `Bootstrap` | two starts on one database, with PostgreSQL's locks | done |
| 9 | `ClientSession` | one browser session over changes of user | done |
| 10 | `AgentMemory`, `ContextBudget` | the rest of the runtime: the memory file, the token limits | done |
| 11 | `Migration` | the legacy trees, file by file, with refusals, crashes and reruns | done |
| 12 | `MCParts` | the smaller parts in one model, one of them moving at a time; its invariant proved | done |
| 13 | `PartsProofs` | an inductive invariant and the safety properties of each of 8 to 11, and the invariant of 12 | done |

A module that composes accounts, worker and processes was planned and given up: what one
of them does to another is one step on each side, and each module has its neighbour's
step already (`Deactivate` and `CancelUserTasks` in `AgentTurns`, `ReplaceRuntime` in
`Processes`, `DropRuntime` in `AgentMemory`, `Change` in `Bootstrap`). The product of
their states would add size and no interleaving that these lack.

There are three abstract specifications, each shown to be implemented by the detailed one,
by TLC on an instance and by proof for all: `TurnLog` by `AgentTurns`, `AccountStore` by
`Accounts` and `FileStore` by `WorkspaceWriters`. The other modules are about one property
of one file or session each, and an abstract specification would only repeat it.

## 3. Modules

### AccountStore and Accounts

`AccountStore` is what a caller of `shared/auth/repository.py` may rely on, without locks
and statements: each call takes effect in one step, or in none when it fails; an update that
takes an administrator away does so while another one is active, and a deactivation ends the
sessions in the same step. Two calls are weaker and the specification says so. A reset or a
`revoke_user_sessions` revokes the sessions its statement has found at an earlier moment
(`Sweep`, then `EndSessions`), so a login in between keeps its session. The exchange of a
code takes the code in a transaction of its own (`Take`), and then gives a guid that is
usable at that moment (`Exchange`) or has lost the code (`Lose`).

In `Accounts` the tables are the store's. `Sweeps` are the transactions that have done the
`UPDATE` of `auth_sessions` and not committed (for a reset and a revocation; a deactivation
needs none, since the row lock keeps logins out), `Taken` the codes taken by a request that
has not resolved them yet.


`shared/auth/repository.py`, one action per SQL statement. A request is a transaction
record `txn[r]` whose `at` is the next statement; `rowLock` and `advisory` are the
PostgreSQL locks it holds. `LockUser` is `SELECT ... FOR UPDATE` of `update_user`,
`LockAdvisory` the advisory lock, `CountAdmins` and `RefuseLastAdmin` the check of the
last administrator, `Commit` the rest of the transaction; `LoginSelect` and
`LoginInsert` are the two statements of `authenticate`; the exchange of a code is
`ConsumeHandoff` then `ResolveHandoff`. `KeyShareFree` is what the foreign key of
`auth_sessions` costs: an insert takes the `FOR KEY SHARE` lock of the account's row,
which waits for `FOR UPDATE` and not for the plain `UPDATE` of a reset.

`Admit` is `require_admin`, a transaction that is over before the one it admits
begins, so an administrator who is demoted meanwhile still acts. `ExpireSession`,
`LapseHandoff` and `LoseConnection` are time and the environment. The initial state is
the one after `initialize`: one active administrator, `Bootstrap`. An account has no
user name, a password is its version. The insert and the commit of a login, one
statement followed by nothing else, are one step.

One worker serialises its own `update_user` calls on the event loop, because that
handler is a coroutine; the model lets them interleave, as the repository is written
for several processes and its design document asks for (the count of administrators
under a lock).

### TurnLog and AgentTurns

`TurnLog` is the promise of a conversation: it remembers turns one at a time, a
question reaches the transcript only while it is the newest turn remembered, its
answer only directly behind it, and nothing is written twice.

`AgentTurns` is the worker. A request is the turn it asks for. `queue[u]` is
`USER_LOCKS[u]` with its holder in front, `tasks` is `USER_ACTIVE_TASKS`, `registry`
is `app.state.runtime_registry`, `loop` names the coroutine that is between two steps
without an `await`. `AdmitCreate`, `CreateRuntime`, `RuntimeGone` and `EnsureThread`
are `create_thread` in the thread pool, `EnterLock` and `AcquireLock` the way of
`post_thread_message` into the lock, `SaveCheckpoint` and `InvocationReturns` the
invocation, `AppendReply` and `FinishTurn` the writes that follow, and
`InvocationFails`, `DeliverCancel`, `WriteFails`, `Crash` the ways out.
`Deactivate` and `CancelUserTasks` are the two halves of the administrator's
`update_user` with no `await` between them.

### Processes

`BackgroundProcessManager`. `proc` is what the operating system has (running,
draining its pipes, gone), `meta` the status in `metadata.json`, `live` the manager's
`_live`, `call[c]` the call of a thread with its own copy of the status. A
`write_text` empties the file and then writes it, so another thread reads an empty
file between the halves, and two writers that both emptied it leave the end of the
longer text behind the shorter one ("corrupt"): both make the reader's `json.loads`
raise. After that `list_processes`, which reads every file, answers with an error for
as long as the file is there. `Restart` takes the processes along
(`--die-with-parent`) and leaves the files. `ReplaceRuntime` is what
`cancel_user_tasks` and the next request do together: calls in progress go on in the
old manager, processes run on, and the new manager does not know them. `DiskFails` is a
`write_text` of `metadata.json` that raises, with the file as it was or torn; `unsaved` are
the processes it has happened to. A start it hits has started a process that no manager
lists.

### WorkspaceTree, WorkspaceWriters and FileStore

`WorkspaceTree` is `WorkspaceManager` with each call one step: `dirs` and `files` are the
tree, `raised` says how the last call ended. `WriteText`, `AppendText`, `MakeDirectory`,
`DeletePath`, `CopyPath` and `MovePath` have the method's order of refusals: parents are
made before a refusal, the quota is checked before the old destination is removed, and
the old destination is removed before it is known whether the copy or the move can
succeed. `CopyTree` and `CopyFile` are what `rmtree`, `copytree` and `copy2` do;
`MovePath` holds the cases in which `rename` fails. A path is resolved already, and
content is a sequence of units. `Named` are the paths that calls name, `Paths` those the
system takes at all. The bound is used where the code runs into one: a directory copied to
more than one level below itself (`Endless`) is copied again and again until names become
too long, and then the call raises and leaves the copies (`CopyEndlessly`; which of them
there are by then depends on the order in which a directory is listed, and is left free).
Symbolic links are left out.

`WorkspaceWriters` is the same directory under concurrent calls. A job is one
`upload_file`, `write_bytes` or `write_text`; `name` binds names to inodes, `temp` are the
temporary files, and a `write_text` keeps writing to the inode it opened. The steps are
the points where another thread or process can come between: the look at the old file
(`Begin`), the measuring of the workspace (`Measure`), each chunk (`ReadChunk`), the
rename or link (`Replace`, `Link`), the `finally` (`Cleanup`), and the opening and the
writing of a text file (`Open`, `WriteText`). Writers overlap because an upload runs in a
program of its own, because a turn runs the tool calls of one answer in parallel, and
because a tool outlives the cancellation of its turn. `DeleteAll` is the deletion of the
directory together with the next `ensure_layout`. `Used` is what `used_bytes` finds, the
files with a name (`Published`) and the temporary ones (`Unpublished`); calls and names are
finitely many, so that these are sums.

`FileStore` is what somebody who lists and reads the directory sees of it: the names
(`Files`), what is under each (`Content`), and which `write_text` has its file open
(`Writers`). An upload or a `write_bytes` is one step there (`Put`), or none: the quota
check, the temporary file, its chunks, a refused link and the clean-up are not seen. A
`write_text` is two (`OpenText` empties, `WriteText` writes over what others have written
since), which is what the code does. A `write_text` whose file has lost its name writes
where nobody looks, a crash leaves emptied files empty (`Stop`). The quota is no part of it.

### Redaction

`redact_pdf`, one action per page and pass. `Detect`, `Review` and `ReadBack` are what the
first loop does to a page (detection, the review passes, OCR over the masked page), `MaskOutput` and `CheckOutput` what an output pass does to a page of the
written PDF, `NextPage` the end of the pass, `Conclude` and `Write` the flags, the name
and the file. What OCR and the vision model answer is chosen freely, and `Fail` may end
the call anywhere. The image of a page is reduced to `sure`: as it is now, it has been read
by both without a finding or a doubt; a new mask takes that away. The source fixes
`SINGLE_PASS_REDACTION = True`, which skips every review; `Modes` has both values, since
the other branch is in the code and is one constant away.

`RedactionContent` adds to the single pass what the page `Subject` says: `text[p]` are the
values at place `p`, some words of one line; `broken` are the values that begin at one place
and end at the next, on a new line; `located` is where the vision model saw personal data,
`black` the places under a bar, `known` is `detected_values`. The code looks at the words in
two ways, and so does the module. `Lines` is how `_match_ocr_value` and
`_ocr_candidate_regions` look for a value, in one line at a time; `Joined` is how
`_redaction_values_present` does, in all words of the page one behind the other. A value that
is broken over two lines is present in the second way and has no match in the first.
`Bar` is `_region_pixels`: the first readable match of the region's value, and the region's
own place only when there is none. `Match` is one match per value, as `_match_ocr_value`
returns one. The outcomes that `Redaction` leaves free in `ReadBack` follow here from the
text. OCR reads whatever says something and is not black; what it misses is what the human
review is for.

### Bootstrap

`AuthRepository.initialize`, one transaction per start of an API, with the states of the
schema (`creator` has made the tables and not committed), the account and the locks.
PostgreSQL is external, and the model has what decides the outcome: `CREATE TABLE IF NOT
EXISTS` waits for an uncommitted table of that name and then fails (`SchemaCollides`);
`CREATE INDEX IF NOT EXISTS` takes a SHARE lock on the table until the end of the
transaction (`sharing`), which an insert of another transaction waits for; so a starter
that waits for the advisory lock with the table locked, and one that holds the advisory
lock and inserts, wait for each other, and `Deadlock` ends one of the two. `Boot` is
Docker's `restart`, `Stop` a stop from outside, `Change` what administrators do to the
bootstrap account: take the role from it, rename it, deactivate it, activate it again. A
start looks at the role only, so a deactivated account is enough for it (`Admins`).

### ClientSession

One browser session. `script` is where the run of the page is between two accesses of
`st.session_state`, at each of which Streamlit may end it (`Interrupt`); `held[k]` says
whose data key `k` holds. `Rerun` to `StoreUser` are `require_login`, `Keep`, `Browse` and
`Forget` the pages, `ServerLogin` the form of agent-api, which sets a cookie or comes back
with a code, `Revoke` everything that ends a login elsewhere.

### AgentMemory and ContextBudget

`AgentMemory` has both copies of `MEMORY.md` with each write in two halves (`torn` between
them). `create` is `AgentRuntime.create`, `turn` the way of `invoke` to the copy at its end,
`edit` a tool's thread that writes the file and may outlive its task (`stray`). `spoilt` says
that the file was removed while the durable copy was torn, or that a crash has hit a tool's
write: what no copy can make good.

`ContextBudget` has one conversation against the window. `Trigger`, `KeepTokens` and
`InputBudget` are the figures of `runtime.py` in integer arithmetic, `Estimate` is the
counter of `context_budget.py` with its factor of one and a half. `Call` is a model call of
the graph, with `BudgetAsk` for a new message and `Results` for the results of two tools.
The middleware that summarises is the library's, so it is modelled from how `invoke` sets it
up and marked external where no line of `src/` shows it. It is wrapped around the check,
and the check's `ContextBudgetExceeded` is a `ContextOverflowError` (`context_budget.py:20`),
which it catches: below the trigger, a request that the check finds too large is summarised
and tried once more (`Overflow`), and only then refused. A cut takes away the oldest messages
and keeps at least the newest, whatever its size, and never parts a call from its results
(`Suffix`). If there is nothing to cut off, the request goes on as it is (`CannotCut`). The
call of the summary may fail (`SummaryFails`), and so may the model (`ModelFails`) and the
write of an offloaded result (`OffloadFails`). `newest`, `widest` and `large` are the sizes
of the messages no cut makes smaller. What a message or a summary measures is chosen freely
from shares of the window.

### Migration

`--apply` of the script: tree after tree and file after file, with the look at the
destination (`RefuseTree`), the copy that empties a file before it fills it, errors that
`copytree` collects and raises at the end, crashes and reruns. `Served` are the trees the
APIs serve: the user goes on writing there, except to the one file that is being copied at
that moment, and deletes nothing. `Repair` is the operator between two runs. The dry run
changes nothing.

### MCParts

The smaller parts in one module, side by side with a worker of one user
(`T == INSTANCE AgentTurns`). In a behaviour the part named by `part` moves and the others
rest, so the state space is the sum of the parts' and not the product; a part that rests is
in a state in which its fairness asks for nothing.

## 4. Runs

| Run | Instance | Shows |
|---|---|---|
| `accounts` | 2 accounts, 2 requests, 2 sessions, 1 reset | `AtLeastOneActiveAdmin`, `DeactivationEndsSessions`, `ImplementsAccountStore`, 546 thousand states |
| `accounts_live` | 2 accounts, 2 requests, 1 session, 1 code, fairness | `EveryTransactionEnds`, `HandoffOnce` and the invariant of the proof, here with a code |
| `accounts_stale_login` | as `accounts` | the counterexample to "a reset cancels all local sessions" |
| `turns` | 2 users, 2 conversations, 4 requests, 1 deactivation of each | `ImplementsTurnLog`, `OneTurnPerUser`, `TitleStays`, `PreviewIsNewest`, `NoTurnAcrossDeactivation` |
| `turns_inactive` | 1 user, 1 conversation, 3 requests | the counterexample to "a deactivation prevents new invocations" |
| `processes` | 1 process, 2 threads, 2 managers, a disk that may refuse a write, fairness | `OverIsOver`, `StaysStoppable`, `EveryCallEnds` and the invariant of the proof, 457 thousand states |
| `processes_status` | as `processes` | the counterexample to "current status" |
| `tree` | 2 names besides `.agent` and `shell_executions`, 7 paths that calls name and 4 below them, 2 contents, quota 2 | `NothingLostUnasked`, `FailureTouchesOnlyNested`, `OverQuotaOnlyByCopy` |
| `tree_protected` | as `tree` | the counterexample to "deleting the root and the runtime's directories is refused" |
| `writers` | 3 calls, 2 names, sizes 1 and 2, quota 2, 1 crash | `PublishedWhole`, `NoLeftovers`, `QuotaKeptAlone`, `SuccessIsWritten`, `LinkNeverReplaces`, `ImplementsFileStore` and the invariant of the proof, 700 thousand states |
| `parts` | redaction: 3 pages, 2 review passes, both modes, 3 places, 2 values, one of them perhaps broken over two lines; turns: 1 user, 1 conversation, 3 requests; client: 2 people, 3 guids, 2 keys; start: 2 APIs, 2 stops, 4 overlaps, 2 changes; migration: 2 trees of 2 files, 3 runs; budget: windows 1, 4, 20 and 128000, messages of a whole window, an eighth and a twenty-fourth, 2 calls; fairness | `UnflaggedIsSure`, `NameTellsVerdict`, `ReadableIfRepeatedOrBroken`; `PartsInv`, the invariants of the proofs of every part; `EveryRequestEnds`; `NoForeignState`, `MarkedState`; `ServesWithAdmin`, `ComesUp`; `MemoryOutlivesCrash`; `SuccessIsWhole`; `LengthNeverRefuses`; 156 thousand states |
| `redaction_bars` | redaction as in `parts` | the counterexample to "detected personal data permanently covered by black bars" |

Why the bounds are enough: the guards of `Accounts` relate at most two transactions
(two demotions that count each other, a login and a deactivation), and the theorems
remove the bound. In `AgentTurns` three requests of one user are a holder, a waiter
and a newcomer, the fourth belongs to the other user; two conversations distinguish
a lock per user from a lock per conversation. In `Processes` managers and calls only
meet over one process, since nothing is shared between two; two threads are every
pair of calls. In `WorkspaceTree` a call names two paths, which are equal, one in the other
or apart, each missing, a file, an empty or a full directory: the seven paths in `Named` have
all of these. The four below them give a copy of a directory far below itself room for a
second round. In `WorkspaceWriters` one call makes the file that two others race for.
`Redaction` has a first, a middle and a last page and the passes of the source, and the
theorems remove the bound. `RedactionContent` needs three places for a value that outlasts
the bar of the detection and the one of the read-back, and one value (`MaxBroken`) that is
broken over two lines. A change of user in `ClientSession`
involves two people, a second login of one of them and a key that is deleted before another.
There are two APIs. A stop can hit each of them once, four overlaps are more than the chain
of a collision, a deadlock and a restart, and two changes take the bootstrap account away
and give its name to another one. In `Migration` a second tree is what a failure in the
first must not skip, and the third run follows a crash and a refusal. The windows of
`ContextBudget` are the smallest there is, two at which minima bind, and the default; the
shares are a message that is too large by itself, one that is cut off and one that is kept,
and the second call follows a summary. The instance has a refusal after a cut and one after
none, and an overflow below the trigger that is caught.

Deadlock checking is off except in `tree`, where some call is always possible: sessions,
codes, requests and process guids are used once, a redaction and a migration end, and
starts, stops and model calls are bounded, so a bounded instance comes to rest.

### Findings

- **A login survives a password reset** (`accounts_stale_login`). `authenticate`
  checks the password, the administrator's `reset_password` updates it and revokes all
  sessions, and then `authenticate` inserts its session. The design document promises
  that a reset cancels all local sessions. A deactivation holds `FOR UPDATE` from its
  first statement on, so no login inserts a session between its revocation and its commit
  (`DeactivationEndsSessions`). That is all it keeps out: a login whose `SELECT` came before
  waits for the row and inserts its session after the commit. `resolve_local` refuses that
  session while the account is inactive, and accepts it again when the account is activated
  before the session expires. No property forbids this.
- **A queued message runs after the deactivation** (`turns_inactive`). A request that
  waits for the user lock is not yet an active task, is not cancelled, and starts its
  invocation for an inactive account. The design document promises that a deactivation
  prevents new invocations.
- **A process is reported as running for ever** (`processes_status`). After a restart,
  or in the manager of a replaced runtime, a process is not in `_live`, and its stored
  status is returned unchanged. The tool promises the current status. A slow look that
  writes its copy back after a stop has the same effect.

- **Overwriting deletes what deletion refuses** (`tree_protected`). `copy_path` and
  `move_path` with `overwrite` remove any destination but `shell_executions` itself, the
  root of the workspace and `.agent` included; when the source lies in the destination it
  is gone too and the call fails. The design document asks that deleting the root and the
  protected directories is refused.

- **A bar is not where the data were seen** (`redaction_bars`). The bar of a region goes to
  the first place OCR reads its value at. A handwritten signature whose name is printed on
  the same page, or the second place of a repeated name, is seen and not covered; reading
  the page back adds one bar per value and none for what OCR cannot read. The tool promises
  that detected data are covered. The single pass lists every page for human review, and
  `ReadableIfRepeatedOrBroken` says what it does guarantee: a detected value stays readable
  when it stands in the lines of the page at least three times, or when no line that is
  still seen has it and it is broken over two, where no bar is drawn at its words.

Two more observations are stated as properties that hold. `FailureTouchesOnlyNested`: a
failing call changes files only when one of source and destination lies in the other, either
with `overwrite` or in a copy far below itself, and only at and below the destination.
`OverQuotaOnlyByCopy`: without any concurrency the quota is exceeded in two ways. A file is
copied onto a directory with `overwrite`, and the check counts the directory as replaced; or
a directory is copied more than one level below itself, and the check counts one copy of the
many. With concurrency it is exceeded by any two overlapping writers
(`QuotaKeptAlone` says only then), and `write_text` without `overwrite` can empty a file
that came after its look, which `write_bytes` cannot (`LinkNeverReplaces`).

Some properties hold under a condition that the code does not mention. The length of a
conversation never gets a turn refused (`LengthNeverRefuses`), but one message with its
results that is larger than what a cut is to keep (20,000 tokens at most) can, and so can a
system prompt that takes, with tools, memory and the summary, more than four fifteenths of
the budget. A process whose metadata could not be written may run on without a manager that
lists it (`StaysStoppable` names the exception). A start of the APIs is content with a
bootstrap account that is deactivated, since it looks at the role only (`ServesWithAdmin`).
A bootstrap account that is demoted, or whose name goes to somebody who is no administrator,
keeps every later start from coming up, as the code intends (`ComesUp`); one that is renamed
is created again.

Met on the way and no matter of a model: the last handler of `redact_pdf_personal_data`
(`tools/vision.py:177`) names `exc`, which it did not bind, and raises `NameError`;
`update_user` (`admin_routes.py:46`) waits for a row lock on the event loop, which delays
every conversation; `--die-with-parent` (`shell_sandbox.py:74`) follows the thread that
started the process; a file the user writes between the migration's look and its copy is
replaced.

### Fairness

- `Accounts!FairSpec`: strong fairness of each transaction's statements. PostgreSQL
  queues the waiters of a lock and detects no deadlock here because there is none.
- `AgentTurns!FairSpec`: strong fairness of the steps of each request and weak fairness
  of `CancelUserTasks`. The loop runs every ready coroutine; `asyncio.Lock` is first
  in, first out; an invocation ends because model calls time out
  (`provider.timeout_seconds`, 180 s by default, passed on by `model_factory.py`), the
  graph has a recursion limit and shell commands a time limit.
- `Processes!FairSpec`: weak fairness of the steps of each thread, of the death of a
  process that was sent SIGKILL, and of the end of the pipes of a dead process. Nothing
  says that a process exits by itself.
- `Bootstrap!BootFairness`: weak fairness of the steps of each starting process, its restart
  included (Compose restarts what stopped), and of `Deadlock` (PostgreSQL looks for one
  after a second). Stops, and starts that overlap, are bounded: Docker doubles the delay
  between restarts, so two containers do not collide for ever.
- `MCParts!PartsSpec` has the fairness of `AgentTurns!FairSpec` and of `BootFairness`.

## 5. Proofs

`AccountsProofs` proves, for all sets of accounts, requests, sessions and codes:

- `TypeCorrect`: the type invariant;
- `Inductive`: `InductiveInv`, the conjunction of the type invariant, `LockInv` (who
  holds a lock at which statement), `GuardInv` (a transaction that is about to take an
  active administrator away holds the advisory lock and leaves another one),
  `VictimsInv` (a deactivation that is about to commit has seen every unrevoked session
  of its account), `HandoffInv` (a code that has given a guid, or is about to, is gone
  for everybody else), `IssueInv` (a login under way has a guid to itself and a
  password that was valid), `SweepInv` (only a deactivation, a reset or a revocation holds
  sessions to revoke, each one issued to its account) and `AtLeastOneActiveAdmin`;
- `LastAdminStays`, `DeactivationCorrect` and `HandoffCorrect`, which follow from it;
- `Refinement`: every behaviour of the transactions is one of `AccountStore`. `Commit` maps
  to the update, with its revocation; the `UPDATE` of `auth_sessions` of a reset or a
  revocation to `Sweep` and its commit to `EndSessions`; `ConsumeHandoff` to `Take`, or to
  nothing when there is no such code; all locking and counting to a stutter.

`AtLeastOneActiveAdmin` is not inductive: a commit preserves it only because the count
is still true when it commits, which is `GuardInv`, which in turn needs to know who has
the advisory lock. For the refinement that is the heart as well: `Update` needs another
administrator at the moment of the commit, and the count was made some statements before.
`accounts_live` checks the whole invariant, with a code. `accounts` checks the refinement
with two sessions and no code; the exchange of codes is in the theorem.

`AgentTurnsProofs` proves, for all sets of users, conversations and requests and any
bound on the deactivations:

- `Inductive`: `InductiveInv`, the conjunction of the type invariant, `QueueInv` (the
  queue of a lock has the requests that wait or hold, once each, the holder in front),
  `OwnerInv` (a conversation has one owner, so the turns in it belong to one queue),
  `MemoryInv` and `TranscriptInv` (a turn under way is the newest remembered, and the
  transcript ends with it while its appends are under way), `TitleInv` (the metadata read
  under the lock is still the file's), `CancelInv` (an invocation of a deactivated user
  is cancelled, or about to be) and `PreviewIsNewest`;
- `Serialised`, `PreviewCorrect`, `TitleCorrect` and `DeactivationCancels`, the safety
  properties and action properties of the run `turns`;
- `Refinement`: every behaviour of the worker is one of `TurnLog`. `SaveCheckpoint`
  maps to `Remember`, `InvocationReturns` to `Ask`, `AppendReply` to `Reply`, every other
  step to a stutter.

The argument rests on the lock: two turns of one conversation are of one user
(`OwnerInv`), so they stand in one queue (`QueueInv`), so only one holds
(`OneTurnPerThread`). The lemma `NextMoves` sums up what a step can do to one request and
`NextWrites` which steps write which file, so that each conjunct needs only the steps
that touch it.

`RedactionProofs` proves, for any number of pages and passes, `Inductive`: the type
invariant, `PassInv`, `SettledInv` (in an output pass the pages before the present one are
flagged or sure) and `NameInv` (nothing is flagged after the name is made); and from it
`VerdictSound` and `NameSound`. `UnflaggedIsSure` speaks only of the end of the call;
`SettledInv` is what each page adds to it, and it starts anew with each pass.

On top of it `BarsInductive` proves `ContentInv` of `RedactionContent`, for every text of the
page, every place and value, and whatever the model answers; OCR reads what is not black.
`ReadableIfRepeatedOrBroken` is about the end of the call; `BarsInv` says how it comes about:
the detection covers each known value that a line shows in one place (the first one OCR
reads), and the read-back, which matches the value only in a place that is still readable,
covers another one. A value that no line shows has no such place, which is the second case
of the property. `BarsCoverTwice` is the result.

`ProcessesProofs` proves, for any number of processes, threads and managers:

- `Inductive`: `InductiveInv`, the type invariant with `MetaInv` (what `metadata.json` says
  of a process is true of it, or not yet known), `PointInv` (where a thread is tells which
  call it is in), `HeldInv` (so is the copy of the metadata a thread holds, except what a
  stop has put there while it waits), `ListedInv` and `FileInv` (a process that runs is in
  `_live`, and its metadata can be read, or the call that is to see to it is under way, or a
  write has failed);
- `StatusTruthful` (`OverIsOver`) and `Stoppable` (`StaysStoppable`).

The argument is that "over" is a stable truth: a thread may write back a copy of any age,
because what it says of an ended process stays true (`TruthStays`), and a copy that says
"running" is no claim that the process is over. The one exception is the status a `stop`
sets before its wait, and the wait ends only with the process.

`Sums` has the lemmas about `SumFunctionOnSet` of the community modules that the quota
needs: what a sum is, and how it changes with one term. The library defines it by recursion
over the set. The theorems of induction take an operator, which the provers cannot
instantiate; here the induction is over the set of cases that are true (`NaturalInduction`,
from the well-foundedness of `<` by `WFMin`, then `SubsetInduction`), a set being a
parameter they can instantiate. A recursive *function* can thus be proved about, where its
cases fit into a set. The library adds in an order that a `CHOOSE` decides; `SumTakesOut`
shows that any term can be taken out first, and with it come sums over disjoint sets
(`SumOfUnion`), over a part (`SumOfSubset`) and over terms that have changed their places
(`SumOfImage`).

`WritersProofs` proves, for any finite number of calls and names, any sizes and any quota:

- `Inductive`: `InductiveInv`, the type invariant with `StageInv` (what the stage of a call
  says of its record, its temporary file and its inode), `OneName` (an inode has one name),
  `ContentInv` and `TextInv` (what a call has written so far, unless a `write_text` has the
  file open), `QuotaInv` (as long as calls come one after another, what the check of a
  call has found is still true when it uses it) and `AskedInv` (a call under way writes as
  much as it was asked to);
- `PublicationIsWhole`, `TempIsRemoved`, `SuccessCorrect` and `QuotaKept`, and the action
  property `LinkIsExclusive`;
- `Refinement`: what readers see is a `FileStore`. A `Replace` or `Link` that succeeds maps
  to `Put`, `Open` to `OpenText`, a `WriteText` whose file has a name to the store's, a
  deletion to `Remove`, a crash to `Stop`, every other step to a stutter (`Unseen`): it
  changes a file without a name only, which is `Fresh` again. `OneName` keeps a write from
  showing under two names.

None of the four invariants is inductive. A file is published whole because nobody but its
call knows the inode before (`Fresh`, a part of `StageInv`), and the quota is kept because
`Used` at the check and the sum after the write differ by the terms of one name and one
temporary file. The files and the sums are proved apart (`NextFiles`, `NextQuota`): the
second uses the first of the same step.

`PartsProofs` proves an inductive invariant of each of the smaller parts (`MemoryInv`,
`BudgetInv`, `ClientInv`, `BootInv`, `MigrationInv`) and from it:

- `MemorySurvives`: a copy of the memory is whole unless a tool is in the middle of a write,
  or the file is spoilt. `SourceInv` orders the two: one copy is emptied only while the
  other is there to be copied from;
- `RefusalCorrect`, for every window and every size. A refusal comes only after a cut was
  tried (`RefusedInv`), because the check's exception is caught the first time. What is sent
  then is at most the newest messages, or twice what is to be kept and the summary
  (`TriedInv`), since a cut must not part a call from its results. What is to be kept is at
  most a fifth of the budget (`KeepIsAFifth`), and the rest is the arithmetic of the factor
  of one and a half (`RefusedForOthers`);
- `MarkCorrect` and `PageCorrect`: state of a user is only in a session marked with him, and
  a page runs only after the mark was compared (`RunInv`, `PageInv`);
- `ServingCorrect`: what `Look` has found is still there at the commit, because the table is
  locked, or nobody else sees it (`HoldInv`, `SeenInv`). It is the role of an administrator,
  and says nothing of `is_active`;
- `MigrationCorrect`: a run is past a tree only when all of it is taken over (`ProgressInv`);
- `PartsCorrect`: `PartsInv` of the run `parts`, the conjunction of these five and of
  `ContentInv`, in the specification the run checks, where one part moves and the others
  rest; so what TLC checks there, and what is proved of each part alone, are the same.

`TreeProofs` proves all that the run `tree` checks, for any names, paths, contents and quota:

- `TypeCorrect`: the workspace stays a tree: every entry has its parents, and no path is a
  file and a directory. The type invariant of `WorkspaceTree` is inductive, and this is its
  content, not the ranges. It needs the order of `Layout` (a directory comes after those it
  is in), which `ensure_layout` has;
- `UnaskedCorrect` and `FailureCorrect`: what is lost, and what a failure costs. Without
  `overwrite` the destination is free, so nothing lies below it (`NothingBelow`), and the
  image of the source (`ImageBack`, `ImageOf`) takes the place of nothing;
- `QuotaCorrect`: only a file copied onto a directory, and a directory copied far below
  itself, takes a user further over the quota.

The lemmas come in layers: paths name by name (`PrefixByNames`, `RebaseByNames`, and
`RebaseBack`: a path taken below another can be taken back), trees as values (`Tree`, with
one lemma for what each piece of a call makes of a tree: `MakeTree`, `HoldTree`,
`PruneTree`, `GraftTree`), and sizes (`HoldBytes`, `WithoutBytes`, `GraftBytes` and the
lemmas of `Sums`). A move takes up what it took up before, because `Rebase` is an injection
(`SumOfImage`); a copy of a directory adds what was measured, and what was measured as
replaced is gone. For a file that is copied, the entries below the destination are the
destination itself, except where it is a directory, and that is the exception.

The assumptions are those of the modules, which TLC evaluates in the runs: `Bootstrap` is an
account and the accounts are finitely many; users are not requests, and `None`, `Nobody`,
`Nothing` and `Unnamed` are nothing else; calls and names of the workspace are finitely
many; bounds and the quota are natural numbers; what is written is a sequence of units, and
the layout has parents first; every login session has an owner; the page looked at is one of
the pages; the windows are those `config.py` accepts.

Only model-checked: liveness (`EveryTransactionEnds`, `EveryRequestEnds`, `EveryCallEnds`,
`ComesUp`: the prover has no fairness). Every safety and action property and every
refinement of a passing run is a theorem.


## 6. What is not modelled

Configuration, TLS and the model clients, the tool registry, visual blocks, `inspect_image`
and `inspect_pdf` and the code bundle generator hold no state of their own that could go
wrong over time. Inside the modelled components: the external identity provider
(`AUTH_MODE=external`) and user names (`Accounts`, `Bootstrap`); the read-only routes and
the content of messages (`AgentTurns`, where an append of a line is one step, so that a crash
leaves no torn line, and where `invoke` always has its checkpointer); prompt building, the
seeding of skills, what the library that summarises writes and the prompt it sends with the
source of a summary, which nothing checks (`AgentMemory`, `ContextBudget`); the synchronous
`run_shell_command` and the output logs, whose writes may fail too (`Processes`); reading,
searching, archives, symbolic links and the wrapped DeepAgents backend (the workspace);
whether a file whose call succeeded still has its name (`SuccessIsWritten` speaks of the
inode); rendering, what OCR misses and the size of a bar (`Redaction`, `RedactionContent`);
what the calls of the client's pages answer, and the values of widgets that have no key
(`ClientSession`); the dry run (`Migration`). A synchronous tool whose
task was cancelled keeps running in its thread until it returns: `AgentMemory` has it for
the memory file and `WorkspaceWriters` for a write, `AgentTurns` says nothing of it. Left
open are a duplicate of a question, which the protocol cannot tell from a new one, the
signal to a process group whose number the system has given to another, and the session of
a login that overlapped a deactivation, once the account is active again.

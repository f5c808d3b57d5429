# Pivox: a TLA+ model of the control plane and its clients

Pivox is a media-asset platform: a Go control plane (`pivox-cloud` serves the
APIs, `pivox-worker` executes River jobs, both on one PostgreSQL database),
storage agents in customers' networks, and TypeScript front ends (a web app
with its own server, and an Electron desktop app). This directory models the
parts whose correctness depends on the order of things. In the control plane:
workflow runs and their recovery, the interpreter that executes a workflow, the
workflow catalog, long-running operations. In the clients: the desktop app's
and the web server's sessions, the preferences that browser tabs share and the
shell that uses them, the image editor, and the admin pages over their query
cache. Paths below are relative to the repository root, `src/` included.

Contents: [inventory](#1-inventory), [plan](#2-plan),
[modules and code](#3-modules-and-how-they-correspond-to-the-code),
[runs](#4-runs-and-bounds), [fairness](#5-fairness), [proofs](#6-proofs),
[disagreements with the code's own text](#7-where-code-and-its-own-text-disagree),
[what is left out](#8-what-is-not-modelled).

## 1. Inventory

### Workflow run executor
`src/internal/workers/run_workflow.go`, `src/internal/service/workflows/workflow_runs.go`,
`src/internal/engine/runjob/state.go`

- **State**: one `workflow_runs` row per run (state, start time, steps, output,
  error) and one River job per run (state, attempt number).
- **Operations**: `RunWorkflow` inserts row and job in one transaction;
  `Work` is a chain of short transactions (begin, load definition, load scope),
  the walk itself with checkpoints, and a final transaction; `CancelWorkflowRun`
  and `DeleteWorkflow` write the row from the API side; the River error handler
  and the stranded-run reaper finalize what a worker could not.
- **Interaction**: API server, any number of workers, River's leader (rescuer)
  and the reaper share nothing but the database.
- **Hard**: a rescued job whose old worker is alive gives two attempts of one run
  at the same time; a process may die between any two transactions; the cancel
  does not stop the worker, which finds out at its next write.
- **Correct when**: a terminal row never changes; the result columns of a
  terminal row fit its state and stem from the attempt that finalized it, as far
  as they could be encoded; a job that River regards as done has
  settled its run; every accepted run settles.

### Stranded-run reaper
`src/internal/workers/stranded_run_reaper.go`

- **State**: none between ticks; in a tick a cursor, the page, the number of jobs
  scanned. The queue it reads changes under it.
- **Correct when**: every stranded run is reached before its job is cleaned up,
  although the pages are cut from a queue that moves.

### Step reporter
`src/internal/workers/run_workflow_reporter.go`

- **State**: an in-memory accumulator guarded by a mutex; the `steps` column.
- **Hard**: parallel branches report concurrently; the snapshot is taken under
  the mutex and written after it is released.
- **Correct when**: the finalized row has every step, as long as the steps can be
  encoded; a reader is never ahead of the execution.

### Workflow interpreter
`src/internal/engine/interpreter.go`, `run_workflow.go`, `signal.go`, `activity.go`, `error.go`

- **State**: the call stacks of the branch goroutines and their contexts.
- **Operations**: walk of a sequence, condition, parallel block (errgroup,
  fail-fast), try/catch/rethrow, sub-workflow, error sequence.
- **Hard**: which error wins when a failing branch cancels its siblings, and
  which errors a catch may see.
- **Correct when**: nothing inside a block outlives it; cancellation caused by a
  sibling does not escape; failures are neither lost nor caught by the wrong
  handler; cleanup happens at most once; a run ends.

### Workflow catalog
`src/internal/service/workflows/server.go`, `src/internal/db/queries/workflows.sql`

- **State**: workflows (promoted version, etag), versions, the runs that pin them.
- **Hard**: `RunWorkflow` resolves its version without locks; clients send back
  etags they read earlier, which are hashes of the instant a transaction began;
  foreign keys cascade.
- **Correct when**: the promoted version is the workflow's own and exists, runs
  pin a version of their workflow, a matching etag means nothing has changed.

### Long-running operations
`src/internal/lro/manager.go`, `src/internal/service/operations/`,
`src/internal/workers/lro_*.go`, `src/internal/db/migrations/000001_init.up.sql` (trigger)

- **State**: `operations` rows, River jobs, the work done so far, listener
  channels in `pivox-cloud`, the LISTEN connection.
- **Operations**: create, complete, fail, cancel, delete, wait, recovery at
  start-up; six workers in three shapes (one transaction; polling; phases).
- **Hard**: work, operation and job are three records that must agree after a
  crash; notifications are not queued for a connection that is down.
- **Correct when**: a visible success is real and final; nothing is half
  committed; a waiter is told.

### Desktop authentication
`src/web/apps/electron/src/main/{oidc-login-flow,auth-session,token-store,keycloak-auth}.ts`,
`main.ts`, `renderer/lib/keycloak-auth-provider.tsx`

- **State**: in the main process the login that is under way, the token set, the
  refresh in flight and who shares it, and the encrypted refresh token on disk;
  in the renderer the user it shows.
- **Operations**: login through the system browser (loopback port or custom
  scheme), cancel, timeout, restore at start, access token on demand, sign-out;
  over IPC a read of the state and an event that it changed.
- **Hard**: refresh tokens rotate, and Keycloak ends a session whose old token is
  presented again; sign-out and sign-in happen while a refresh is in flight; reads
  answer out of order; the app may die at any moment.
- **Correct when**: one login at a time, every login settles, a token is spent
  once, a restart resumes the live session or none, the window shows that user.

### Web session
`src/web/apps/start/src/server/oidc/*.ts`, `routes/api/v1/$.ts`, `routes/auth/*`

- **State**: `web_sessions` rows, an in-flight map per server process, cookies.
- **Operations**: sign-in, callback, proxied API calls, the token of a server-side
  render, refresh, logout, expiry, the purge job.
- **Hard**: requests of one session run concurrently in several processes, each
  with awaits between reading the row and writing it.
- **Correct when**: a process spends a token once, the row holds the newest set,
  a session that was ended stays ended, every request is answered.

### Client storage and app shell
`src/web/packages/storage/src`, `src/web/apps/start/src/{lib,routes/_app,server/prefetch.ts}`,
`src/web/packages/features/src/app-shell/use-app-shell.ts`,
`src/web/packages/ui/src/theme-switcher`

- **State**: a cookie jar shared by the tabs; per tab a value cache, the URL, the
  organization list and the organization the shell is on.
- **Operations**: load, hydrate, navigate, select an organization, cycle the theme,
  refetch, sign out, sign in as another user; delivery of broadcasts and of cookie
  writes.
- **Hard**: three sources (URL, cookie, list) may disagree, the server renders with
  a cookie that changes before the page arrives, and other tabs write meanwhile.
- **Correct when**: tabs agree on what is broadcast, a page remembers and stays in
  its own organization, the next user does not inherit one.

### Image editor
`src/web/packages/image-editor/src/{engine,crop-math}.ts`,
`src/web/packages/{ui,features}/src/image-editor`

- **State**: the edit (window, angle, scale, translation, flips), bounded undo and
  redo stacks, gestures under way, the image and the loads in flight.
- **Hard**: gestures, shortcuts and loads overlap, the stacks meet their limit, and
  the geometry must keep the image under the whole crop window in every state.
- **Correct when**: undo and redo behave as a bounded log with one step per
  gesture, the flags tell the truth, no dead pixels, the image shown is the one
  named.

### Resource admin pages
`src/web/packages/{ui,features}/src/resource-admin`, `src/web/packages/features/src/secrets`,
`src/web/apps/start/src/features/secrets`, `lib/use-resource-form-nav.ts`

- **State**: the query cache, the form and its seed, dialogs, writes under way.
- **Hard**: writes answer after their page is gone, the cache is stale by design,
  another user saves the same record.
- **Correct when**: a form never starts from values older than the user's own save,
  the list returned to has it, edits are not lost without a question, no form
  waits for ever.

### Other parts
| Part | State | Hard behaviour | What would make it correct |
|---|---|---|---|
| Storage agent (`src/internal/storageagent`) | endpoints, deny list, client sessions mirrored to SQLite, pending requests by id | reconnect, handshake against configuration updates, responses after a timeout | a response reaches its own request; the newest configuration wins; revoked sessions stay revoked across a restart |
| Agent controller (`src/internal/service/storage/agent_service.go`, `src/internal/agentstream`) | registry of streams; agent and gateway rows | an old stream's cleanup after the agent has reconnected | a connected agent is registered and shown as connected |
| AI chat (`src/internal/service/aichat`) | conversation lease with TTL; two transactions per turn | lease expiry against a silent stream | one turn at a time; a turn that has the lease can commit |
| Identity sync (`src/internal/identitysync`) | Kafka offsets, user rows | redelivery, failed commits | no record skipped |
| Asset requests (`src/internal/service/requests`) | request state | concurrent transitions | terminal states stay terminal |
| Organizations, spaces, members, domains, SSO | rows with delete, undelete and purge | grace period; sole owner; domain verification | an organization always has an owner |
| IAM, API keys, secrets, connectors, tags, assets, dashboards | rows | none beyond constraints | - |
| gRPC plumbing, permissions, filters, pagination | none | - | keyset pagination is complete |
| Process wiring | none | start-up order | - |
| Chat user interface | kept by a third-party library | stream resumption | - |
| Presentational packages, vendored components | - | - | - |
| Generated code, protos, deployment | - | - | - |

The hazards, each at its line, are in `PROJECT.json` under `hazards`, with the
properties that cover them.

## 2. Plan

1. `WorkflowRuns` with the abstract `RunLifecycle` it implements - **done**, proved.
2. `StrandedReaper`, `RunReporter`: the two mechanisms `WorkflowRuns` abstracts
   to one action each - **done**, the reporter proved.
3. `WorkflowCatalog` - **done**, proved.
4. `Operations` - **done**, proved.
5. `Interpreter` - **done**, proved for every definition.
6. `DesktopLogin`, `DesktopAuth` (login flow composed with session and renderer) -
   **done**, proved.
7. `WebSession` - **done**, proved.
8. `ClientStorage`, `AppShell` (store composed with the pages of several tabs) -
   **done**, proved.
9. `Fractions`, `CropMath`, `ImageEditor` with the abstract `UndoLog` it
   implements - **done**, proved but for the geometry.
10. `ResourceAdmin` - **done** for the list's rows and the edit form, proved.
11. `AgentStream`: handshake, receive loop, reconnect, `ConnectionManager`, the
   agent and gateway rows, configuration updates; agent and controller composed
   over a stream that may break at any point. Abstract specification: a registry
   in which an agent is reachable exactly while its newest stream is open.
12. `ConversationLease`: the lease, its heartbeat, stall detection and the two
   transactions of a turn. Abstract specification: mutual exclusion of turns.
13. `Requests`, `IdentitySync`, `AgentSessions`; organizations and spaces: delete,
   undelete, purge after the grace period, members and the sole-owner rule,
   composed with `Operations`.
14. Pure checks: `WithRetry` backoff, keyset pagination and the list controls'
   cursor stack.

"Proved" above means the safety properties and the refinements; section 6 says
what stays with the model checker. What is left of the plan is modelling: items
11 to 14.

## 3. Modules, and how they correspond to the code

| Module | Models | Extends or instantiates |
|---|---|---|
| `RunLifecycle` | what a client of the run API is promised | - |
| `WorkflowRuns` | rows, jobs, workers, RPCs, error handler, reaper | instantiates `RunLifecycle` |
| `WorkflowRunsProofs` | theorems about `WorkflowRuns` | extends it |
| `StrandedReaper` | one reaper's ticks over the changing queue | - |
| `RunReporter` | step accumulator and checkpoints | - |
| `Interpreter` | one execution of a definition | - |
| `InterpreterProofs` | theorems about `Interpreter` and `RunReporter` | extends both |
| `WorkflowCatalog` | workflows, versions, etags, RunWorkflow's reads | - |
| `WorkflowCatalogProofs` | theorems about `WorkflowCatalog` | extends it |
| `Operations` | operations, workers, notifications, waiters, restart | - |
| `OperationsProofs` | theorems about `Operations` | extends it |
| `DesktopLogin` | attempts of the browser login and the slot they share | - |
| `DesktopAuth` | token engine, stored token, IPC, renderer | extends `DesktopLogin` |
| `DesktopAuthProofs` | theorems about both | extends `DesktopAuth` |
| `WebSession` | session rows, refreshes of several processes, requests | - |
| `WebSessionProofs` | theorems about `WebSession` | extends it |
| `ClientStorage` | the preference store: jar, caches, broadcasts, hooks | - |
| `AppShell` | pages of several tabs, their scope, sign-out | extends `ClientStorage` |
| `AppShellProofs` | theorems about store and shell | extends `AppShell` |
| `Fractions` | exact rationals with the NaN of a division by zero | - |
| `CropMath` | the geometry of the crop window | extends `Fractions` |
| `ImageEditor` | engine, controls, gestures, loads | extends `CropMath`, instantiates `UndoLog` |
| `UndoLog` | what undo and redo promise | - |
| `ResourceAdmin` | list, edit form, query cache, server record | - |
| `ClientPagesProofs` | theorems about `ImageEditor` and `ResourceAdmin` | extends both |
| `*MC` | constants for the model checker | extend their module |

`RunReporter` and `ResourceAdmin` prefix the names every specification has
(`ReporterSpec`, `AdminSpec`, `AdminTypeOK`, ...), because a module of proofs
extends each of them together with another component. The two do not share state
there: each theorem is about one specification.

**One transaction is one action** wherever the code locks the row it decides on.
Where it does not, the read and the write are separate actions: DeleteWorkflow's
count of active runs and its DELETE (`WorkflowRuns`), RunWorkflow's reads and its
INSERT (`WorkflowCatalog`), WaitOperation's read and registration, RecoverPending's
listing and its updates, and each phase of DeleteAccount (`Operations`).

### WorkflowRuns
`row[r]` is the `workflow_runs` row, `job[r]` the River job, `worker[w]` the
position of one executor in `Work`, `wf` the workflow with an open DeleteWorkflow
transaction and the run rows it holds locked. `start`, `steps` and `output` hold
the number of the attempt that wrote the column instead of its content: that is
what tells two attempts apart, and 0 stands for NULL. `by` is the attempt whose
walk was finalized and `lost` says that its last snapshot was nil; both are
observers. The executor records what it can encode: `FinalizeSucceeded` writes an
output or none, `FinalizeFailed` an error or none, either may come without steps
(`Snapshots`), and `Coalesce` then keeps what the columns hold. `Begin`, `LoadDefinition`,
`LoadScope`, `Checkpoint`, `Interpreted`, `FinalizeSucceeded`, `FinalizeFailed`
follow `Work` in order. `WorkFault` is a database error, a panic or a cancelled
context at any of these points; `Crash` kills the process; `Rescue` takes a job
back from a worker that may be alive. `HandleError` and `Reap` go through the same
`FinalizeRun`, as in the code. What `Interpreted` leaves open is `Interpreter`;
what `Checkpoint` writes is `RunReporter`; which jobs `Reap` gets to is
`StrandedReaper`.

### StrandedReaper
`StartTick`, `ListPage`, `FailList`, `ReapNext`, `EndTick` are the loop of
`reapStrandedRuns`; `Discard` and `Clean` are River changing the queue meanwhile.
`aged` says that a job is old enough to be cleaned: retention is days and a tick
every minute, so River never removes a job before a whole tick has passed
over it.

### RunReporter
`byID` is the accumulator; each event is a critical section (`Record`) followed
by a write outside of it (`Checkpoint`), which may be lost or overtaken. All steps
are encoded together (`MarshalLocked`), so the error of one failed step that does
not encode spoils every snapshot after it, the final one too (`garbled`).

### Interpreter
The definition is a finite tree (loops do not exist in the language), so each
block is executed at most once and `st`, `at`, `res`, `held` per block replace the
call stacks. The result classes are those the Go code distinguishes with
`errors.Is`/`errors.As`: nil, the end signal, a context error, a retryable and a
terminal error, and the HTTP client's own timeout, which `isContextError` takes for
a context error although no context was cancelled. `held` is the error of an errgroup (which is also what cancels
its context), of a try or of a run. Sub-workflows are unfolded into the tree;
recursion and depth guards are in `Refused`. Expression values and step outputs
are data: a condition may take any branch.

### WorkflowCatalog
An etag is the instant its transaction began (`md5(now()::text)`), drawn from
`Instants` in any order: `now()` does not wait for the row's lock, so a later write
may carry an earlier instant or the same. `stamps` are the instants a row has had
and `tied` the rows that were written twice with one; both are observers. A fork
reads its source without a lock, so the copy may be older than the source.
`seen` is what a client read, etag included; an
update or delete is conditional on it or unconditional. A run is PENDING, ACTIVE
or OVER here.

### Operations
`TxOps` are delete and undelete of organizations and spaces, `PollOps` domain
verification, `PhaseOps` account deletion; `eff` counts committed phases. `Write`
is an UPDATE that commits, with the trigger: PostgreSQL queues a notification at
the commit of the transaction that sent it, `DoneEdge` is the trigger's condition,
and `Refresh` is an update of the same row that leaves `done` alone. The INSERT and
the DELETE fire no trigger. `inbox` is what is queued on the LISTEN connection;
delivery, and the read of the caller that is woken, are steps of their own. `waiter` is a WaitOperation
call with its channel of capacity one. `Restart` restarts `pivox-cloud` only, as
the two binaries are deployed apart.

### DesktopLogin and DesktopAuth
Each call of `runLogin` is an attempt with a closure of its own: `task` is the
continuation it waits for, `result` what its promise resolved with. `inProgress`
and `current` are the module variables all attempts share. `DesktopAuth` adds the
`AuthSession` (`tokens`, `inflight`, `callers`), `disk` for the safeStorage file,
`ready`, and the renderer with its reads under way and what it shows (`view`). A
turn of the main process's event loop is one action, as JavaScript guarantees. A
session is named by the login that created it, and its refresh tokens by their
generation, which is all that rotation and reuse depend on. `Restart` ends the
process at any point and keeps only the disk, which the keychain may no longer
decrypt. The observers `silent`, `unsaved`, `torn` and `reused` remember that the
session changed and nobody was notified, that a login could not write its token,
that a rotation was never saved, and that a spent token was presented. The scopes
ask for `openid offline_access`, so every token set has a refresh token and an
ID token; the branches for sets without are not modelled.

### WebSession
`rows` are the `web_sessions`, `flight[p][s]` the in-flight map of a process,
`req` the requests being served with the await they are at. `Arrive`, the `Load`
actions, `DeleteSession` and `ClearCookie` follow `getSession`, the proxy, the
render and the logout; a request that has read a stale row is one step short of
the shared refresh (`JoinFlight`), so that the row may change in between. A
callback that breaks before or after the exchange (`CallbackBreaks`) keeps its
transaction cookie. `FlightReads`, `IdpAnswers`, `FlightWrites`,
`FlightRefused` and `FlightFails` follow `refreshSession`. Expiry and the thirty-day
lapse may fall at any time.

### ClientStorage and AppShell
`ClientStorage` gives the operations of the store: `Get`, `Set`, `Notify`,
`Deliver`, `Commit`. A write of `document.cookie` reaches the jar later than it
reaches the page's own cache, and broadcasts of one tab arrive in order, of two
tabs in any. `AppShell` composes them with pages: `Load` is the server's part of
a page view (it reads the jar then), `Hydrate` the browser's, `Navigate`,
`SelectOrganization`, `Refetch` and `CycleTheme` what a user does. A selection is
remembered at once, while its navigation is on its way (`going`) until the route's
gate lets it through (`Arrive`), or a link, a reload or another selection overtakes
it; `dropped` remembers the first of these. `Effects` is
the outcome of the React effects that a render sets off, in the order they are
declared. Organizations stand for all scopes: spaces are not told apart.

### CropMath and ImageEditor
Lengths are exact fractions, and the straighten angle is the one whose tangent is
3/4, so that coverage is decided and not rounded. Division by zero yields NaN,
as it does in the code before an image is known. The edit state is a record of
what undo restores; `preStraighten` and `drag` are empty or hold the one state
the gesture began in. Controls are guarded by the flags their buttons are disabled
with, shortcuts are not, as in the code. A gesture (`preStraighten`, `drag`) is
one action per pointer event; its commit is one undoable step. A second pointer
takes a drag over, and a source may be loaded twice at once. `mixed` remembers
that another edit or a load overlapped a gesture. Rendering changes no state.

### ResourceAdmin
A record is its version, which is also its etag. Reads and writes have three
moments: sent, served, answered; any of them may be overtaken by navigation, by
another form or by another user. `Forgotten` and `Invalid` are removeQueries and
invalidateQueries, `Passes` the one-shot bypass of the unsaved-changes guard,
`Submittable` and `Usable` when the form's buttons work. The list's delete dialog
deletes this record or another row (`other`); the latter changes nothing of the
record, but its success fetches the list, under whichever page is open by then.

River, errgroup, PostgreSQL's NOTIFY, Go's HTTP client, Keycloak, the browser's
cookie jar and BroadcastChannel, and the query cache are external: modelled
from how the code uses them, and marked so in the map.

## 4. Runs and bounds

Deadlock checking is off where a system may stop (clients stop calling, a run is
over, bounds are used up) and on for the reaper, which ticks for ever.

| Run | Instance | States | Shows |
|---|---|---|---|
| `runs` | 1 run, 2 workers, 2 attempts | 275,334 | row invariants, frozen terminal rows, refinement of `RunLifecycle`, every run settles |
| `reaper` | 4 jobs, pages of 2, cap 3, 1 failed listing, jobs 1 and 4 expire | 76,677 | every stranded run reaped while the backlog fits |
| `reporter_steps` | 3 branches | 102,632 | final steps complete, no reader ahead |
| `catalog` | 2 workflows, 3 versions, 1 run, 1 client, 2 configs, 2 instants, symmetric | 577,081 | links, numbers, etags, promotion |
| `operations_work` | 2 of: org delete, domain verification, account deletion; 2 attempts, 1 restart, faults | 1,687,162 | success is real and final, no half commit |
| `operations_wait` | 1 of: account deletion, domain verification; 2 waiters (1 with a deadline), 2 attempts, 1 restart, faults, drops | 276,545 | phases, wake-ups |
| `interpreter` | a tree of 32 blocks with every kind nested in another | 45,400 | structured concurrency, error classes, termination |
| `desktop_auth` | 2 logins, 2 concurrent calls, 1 rotation per session, 1 restart, 2 reads | 229,920 | one login, tokens spent once, disk and window follow, nothing hangs |
| `web_session` | 2 processes, 2 requests, 1 sign-in, 2 rotations, 1 fault | 195,240 | tokens kept, revocation for good, requests answered |
| `app_shell` | 2 tabs, 2 users, 2 organizations, 3 themes, 4 acts, symmetric | 620,935 | stores agree, scope held, next user clean |
| `image_editor` | 2 images, 2 templates, 3 handles, 1 pull, history of 2, 5 operations | 641,737 | undo log, flags, no dead pixels, image shown is named |
| `resource_admin` | a record and another row, 3 server writes, 8 user acts | 478,522 | fresh seeds and list, guarded edits, forms settle |

Several of the properties are conjunctions of parts that are named and explained
in the modules: `WorkAgrees`, `AnswersAgree`, `HandlersKeepFailures`,
`SessionSound`, `NothingHangs`, `TokensKept`, `StoresAgree`, `ScopeHeld`, `Told`.

Why these are enough to make the interesting cases happen:

- `runs`: two workers and two attempts give two live attempts of one run, a last
  attempt that fails and a rescue past the last attempt. Runs do not interact
  except through the workflow that is deleted, and the theorems of section 6 hold
  for any number of them.
- `reaper`: a cap that is not a multiple of the page size makes the last page
  shorter than the others; four jobs and a cap of three let the backlog exceed the
  cap, fit, or shrink as jobs expire between pages.
- `catalog`: three versions over two workflows are needed for a fork between
  workflows, a promoted and an unpromoted version, and a delete of the newest. Two
  instants let a row be written at different ones in either order, and at one twice;
  the theorem `EtagsCurrent` is for any number of them.
- `operations_*`: the shapes differ only in their worker, and meet only where an
  organization delete cancels a verification; hence one of each, and two asked for
  (`MaxFiled`) where they meet. A waiter waits for one operation, so one at a time
  is asked for in `operations_wait`.
- `interpreter`: one definition, chosen so that each error class can be raised in
  a parallel branch, a catch, a sub-workflow and an error sequence. Other shapes
  of trees are covered by the theorems of section 6, except for `RunEnds`.

- `desktop_auth`: a sign-in over an older session, a login cancelled or timed out
  while its exchange is under way, a refresh that outlives a sign-out, and a start
  from a token that a previous life of the app rotated all fit in two logins, one
  rotation and one restart. Undelivered change events are coalesced above one: a
  second event in a row only repeats the read. The custom-scheme transport is the
  other value of `Transport`.
- `web_session`: two requests and two processes give a shared flight, two flights
  of one session, and a logout against either; two rotations let a late write meet
  a newer one. The requests' sessions interact only through the browser's cookie.
- `app_shell`: four acts are enough for a page in each tab, a selection and a link,
  a reload or a sign-out that crosses it; hydrations, the picker's arrivals, cookie
  writes, deliveries, refetches and lost memberships are not counted. A second user
  who shares one organization and lacks the other makes remembered values right for
  one user and wrong for the next.
- `image_editor`: a history of two is full after two of the five operations, so
  that the limit, undo past it, and an edit after an undo all happen. The images
  differ in ratio; the pull widens the window by one handle, narrows it by the
  other (down to the least size on the small image) and shifts along both axes.
- `resource_admin`: eight acts allow three forms in succession with their saves;
  three server writes allow another user's save between two of them.

Every property has a mutant: a definition with a plausible bug (`Name_Bug`, next
to the definition it replaces) under which the property fails.

## 5. Fairness

- **Goroutines** that can take a step do (weak fairness of worker steps, of the
  interpreter's walk, of WaitOperation calls): Go's scheduler guarantees it, and
  activities end because HTTP clients have a timeout.
- **River** hands out available jobs, rescues orphans and records outcomes (weak
  fairness of `Lease`, `RescueOrphan` and of the worker's `Settle`): its leader
  runs these as periodic services. A live worker's job need not be rescued.
- **The reaper** keeps ticking, and a finalize that is repeated tick after tick
  succeeds eventually: strong fairness of `Reap` and of each job's
  `ReapNext(TRUE)`. Weak fairness would not do, because a DeleteWorkflow may hold
  the row lock again and again and because a finalize may fail now and then;
  PostgreSQL serves a lock's waiters in order.
- **Transactions end** (weak fairness of DeleteWorkflow's commit or rollback).
- **The LISTEN loop** reconnects after its backoff and drains what it received.
- **Desktop app**: a request to the provider is answered or fails, an IPC message
  is handled, and the login's five-minute timer fires. The user's browser owes
  nothing: the timer is what ends an abandoned login.
- **Web server**: the database and Keycloak answer every call that is not failed.
  A crashed process owes nothing; its requests end with it.
- **Admin pages**: every request is answered or its connection breaks.
- `AppShell` and `ImageEditor` state no fairness: all their properties are safety.
- Clients, administrators, DNS, crashes and faults owe nothing.

Checkpoints are excluded from the fairness of a worker, since a walk that
checkpoints for ever would otherwise count as progress.

## 6. Proofs

Checked by TLAPS for every value of the constants that satisfies the modules'
assumptions. These are: bounds are natural numbers (at least one attempt, login
or read where the code has one), special values such as `None` and `Absent` lie
outside the sets they are added to, the editor has a Free template without a ratio
and a slider that can be at zero, the blocks of a definition form a tree (`TreeAssumption`,
`ShapeAssumption`: a run, a sub-workflow and a try have their two sequences,
activities have no children), and what `items.ts` declares of the theme and of
the active organization (`ItemsAssumption`). TLC evaluates each of them on the
instances of section 4.

Every proof has the same layout: an inductive invariant as a conjunction of named
parts, each with a comment on what it is for; a lemma that it holds initially; a
lemma per action, or per group of actions, that it is preserved; and the
theorems, which follow from it. The invariants were also checked by TLC on the
instances of section 4.

### WorkflowRunsProofs
| Theorem | States |
|---|---|
| `TypeCorrect` | the type invariant |
| `NoRunLost` | `CompletedJobSettledRun` |
| `OutcomesConsistent` | `OutcomeOfOneAttempt` |
| `TerminalFrozen` | `TerminalRowFrozen` |
| `StartOnce` | `StartStampedOnce` |
| `RefinesLifecycle` | `ImplementsLifecycle`: the specification implements `RunLifecycle` |

The inductive invariant is `TypeOK` with `RunInv`. None of the claims is
inductive on its own. That a completed job has settled its run needs to know that
a worker about to return nil has found or left a settled row (`WorkerInv`), in
spite of what other workers do to it in between; this in turn needs that settled
rows never become unsettled. The finalizers may be handed nothing for a column (an
output, error or snapshot that cannot be encoded), and COALESCE then keeps what the
row had. That the columns still tell one story needs that a row which is not terminal
has no output and no error yet (`RowInv`), and that a worker about to finalize a
success has walked. `StartStampedOnce` and the refinement need that a
PENDING row has no start time and a RUNNING one has. The refinement maps the row's
state, whether a start time is set, and which result column is set, and proves
that each action is a step of `RunLifecycle` or leaves these alone.

### WorkflowCatalogProofs
| Theorem | States |
|---|---|
| `PromotedOwn` | `PromotedIsOwn` |
| `RunsPinOwnVersion` | `RunPinsOwnVersion` |
| `EtagsCurrent` | `EtagIsCurrent` |
| `PromotedStays` | `StaysPromoted` |
| `NumbersDenoteOne` | `NumberDenotesOne` |

The inductive invariant `CatalogInv` adds to these what a RunWorkflow call may
believe (`RequestsLinked`: the version it resolved was one of its workflow's, and
still is if it exists at all), that versions belong to live workflows
(`VersionsLinked`), and that no client holds an etag its row has not had
(`EtagsBehind`): a write at an instant that is new to the row then leaves all of them
behind. An etag is the instant its transaction began, which the environment chooses
and may choose twice; `EtagIsCurrent` does not speak of a row that was written twice
at one instant (`tied`), where it is false.

For the numbers, `NumbersInv` adds that the numbers of a workflow are bounded by
the highest it has issued. A bounded set of numbers has a greatest element (its
least upper bound, which exists because the numbers are well-founded, is one of
them), so MAX is what it should be, and MAX + 1 is free.

### InterpreterProofs
| Theorem | States |
|---|---|
| `WalkCorrect` | the inductive invariant `WalkInv` |
| `ConcurrencyIsStructured` | `NothingOutlives` |
| `InterruptionIsOutside` | `InterruptedOnlyByContext` |
| `FailuresAreKept` | `HandlersKeepFailures` |
| `FinalComplete` | `FinalStepsComplete` of the reporter |
| `ReadersBehind` | `NeverAhead` of the reporter |

The run of section 4 has one tree; the theorems hold for every tree. There is no
induction over it: `StackInv` says how a block and its ancestors may stand to each
other, so that a return disturbs only the block and its parent; `HeldInv` says
what the errors kept by parallel blocks, tries and runs stand for; `OutcomeInv`
says what each result means for the blocks inside (a failure began at a step, a
success leaves only failures that are excused), and each return derives it from
the results of the children (`Accounts`). An interruption is traced to its source in
the same way: to the job's context, or to an HTTP call that ran into the client's own
timeout, which the code does not tell from a cancelled job (section 7).

The reporter that the walk reports to: `ReporterInv` says of every snapshot, in
flight or written, that it is behind the accumulator (`Behind`), so that a
checkpoint that overtakes another cannot run ahead. It ties each branch's
position to its step (`BranchInv`) and the errgroup's context to the failures
that were returned (`ContextInv`), without which a skipped step could not be told
from a lost one. `FinalInv` adds that only a failed step can make the final snapshot
unencodable (`garbled`), so that a run which succeeds always has its steps.

### OperationsProofs
| Theorem | States |
|---|---|
| `WorkIsSound` | `WorkAgrees` |
| `AnswersAreSound` | `AnswersAgree` |
| `SuccessIsFinal` | `SuccessFinal` |

`OperationsInv` says of each operation what its row may show (`RowInv`), which
attempts and steps its job has (`JobInv`), and what has been committed when an
attempt stands where it does (`WorkInv`): a crash repeats the steps from the
start, so what a step finds is what an earlier attempt may have left.
`NoticeInv` says that notifications and the channels they fill follow the update that
finishes the operation, not the progress that polls write to the same row.
`SuccessIsFinal` covers every shape; its statement excepts the two writers that do not
look at `done` (section 7).

### DesktopAuthProofs
| Theorem | States |
|---|---|
| `TokenSpentOnce` | `SpentOnce` |
| `SessionIsSound` | `SessionSound` |
| `ViewIsTrue` | `ViewAgrees` |

Three layers as in the code. `LoginInv`: the slot belongs to one live attempt, and
the current flow to that attempt where the flow's state says. Over it
`SessionInv`: every token, wherever it is, comes from a successful login, the
disk follows memory, and Keycloak's newest token of a session that is not torn is
held or is in the flight that was granted it (`NewestHeld`); `SpentOnce` is not
inductive without that. Over both `ViewInv`: a mounted window has been told, is
asking, or knows.

### WebSessionProofs
| Theorem | States |
|---|---|
| `TokensAreKept` | `TokensKept` |
| `Revoked` | `RevokedForGood` |

`RowIsCurrent` says nothing of a session that is being refreshed. The invariant
follows the token through the flight (`NewestKept`, `FlightAgrees`): row, flight
and Keycloak agree until the grant, row and flight until the write, and one
process at most is past its read (`OneSpender`). `LateInv` keeps a request that
found its session gone at its first read. `RevokedForGood` follows because a
refresh writes with an UPDATE, which finds no row.

### AppShellProofs
| Theorem | States |
|---|---|
| `StoresAreSound` | `StoresAgree` |
| `ScopeIsHeld` | `ScopeHeld` |
| `NextUserIsClean` | `NextUserClean` |

For any number of tabs, users and organizations. `ThemeAgrees` speaks of a browser
at rest; `ThemeInv` says what is true on the way: there is a newest theme, the
last write and the last message of the tab that set it carry it, and whoever
expects neither has it; without a race one tab at most is spreading one.
`ChannelInv` says that a page that does not run has no cache and gets no message.
`ScopeInv` says that the organization of a page's URL is in its cache, which no
other tab writes, or the one its picker sent it to (`Held`), unless a link overtook
that choice. `UserInv` follows the remembered organization from its author
through the writes in flight to the jar: without a session there is none left,
unless a page survived the sign-out.

### ClientPagesProofs
| Theorem | States |
|---|---|
| `EditorTells` | `Told` |
| `ImageIsNamed` | `ShownIsNamed` |
| `EditorIsUndoLog` | `ImplementsUndoLog`: the editor implements `UndoLog` |
| `ListIsFresh` | `ListFresh` |
| `FormsSeededFresh` | `SeededFresh` |
| `EditsAreGuarded` | `EditsGuarded` |

**The editor**, for any history limit, templates, handles, images and slider
positions. `EditorInv` keeps all edit states that are shown or remembered in one
set of well-formed ones (`EditsIn`), so that a step which moves a state between
past, canvas, gesture and future preserves the whole at once; what the geometry
computes is only known to be a fraction or NaN, which is what the flags need
(`Differs`). `OneGesture` says that a second gesture is noticed.

The refinement maps the history to a log: the past, the state of the last edit
and the future; the cursor is after the past. A gesture is an edit that has not
happened yet, so the slider's moves and a drag's are stutters, and the release is
the edit. The lemmas are about sequences: what `pushHistory` keeps is the log up
to the cursor, without its first state at the limit (`KeptOfLog`); taking a state
off one end and putting it on the other leaves the log as it is (`CursorMoves`).
The bound `Len(past) + Len(future) <= MaxHistory` of `Told` is needed for the
step at the limit, which is why the invariant comes first.

**The admin pages**, for any number of writes, forms and versions. `AdminInv` says
what is true while answers are on their way. An acknowledged write was applied
(`WritesInv`), so no version the user was told of is ahead of the server
(`ToldInv`). What is cached or fetched of the record was read after the last
acknowledged write, which threw away the rest (`RecordInv`). A fresh list, or an
answer on its way to it, has the write that led back to it (`ListInv`), unless the
list took an answer for its own that was already on its way when the write was
acknowledged (`joined`). `FormInv` says that a form which writes or deletes has been given the
record, so that the etag it sends is one of the server's versions, and that
nothing reads the record without a form.

### Only model-checked
- Liveness: `RunSettles`, `ReapedWithinCap`, `RegisteredIsWoken`, `RunEnds`,
  `NothingHangs`, `Answered`, `FormSettles`. TLAPS does not reason about fairness
  and ENABLED.
- `NoDeadPixels`: fractions are reduced by a recursive greatest common divisor,
  which only induction could reason about, and the geometry over all images is
  nonlinear arithmetic over them. Both are beyond the provers.
- The statements of section 7, which are false.

The reverse also holds: `TypeCorrect` is proved for every value of the constants
and is not repeated by a run.

## 7. Where code and its own text disagree

Some statements of the documentation, of comments and of the schema are written
down as properties that the code does not have. They stay in the modules, and no
run checks them; added to the configuration that is named, TLC shows the
behaviour.

| Property | Says | The code |
|---|---|---|
| `UnforcedDeleteSparesActive` (`WorkflowRunsMC.cfg`) | `workflows.sql:85-86`: "with force=false a nonzero count blocks the delete" | `server.go:563` counts without a lock; a run that begins after the count is removed while RUNNING |
| `StrandedReaped` (`StrandedReaperMC.cfg`) | `stranded_run_reaper.go:106-108`: "the next tick continues where it left off" | every tick starts without a cursor and counts settled jobs (`:164`), so jobs behind the cap are never reached |
| `NumbersMonotonic` (`WorkflowCatalogMC.cfg`) | `000001_init.up.sql:1503`: "monotonic per workflow" | `workflows.sql:109` takes the maximum of the versions that exist: the number of a deleted newest version is issued again |
| `WaitReturns` (`OperationsWait.cfg`) | `operations/server.go:272`: "waits until the operation is done or the timeout elapses" | `manager.go:452` registers after it has read and does not read again: a completion in between wakes nobody |
| `SignedOutStays` (`DesktopAuthMC.cfg`) | `keycloak-auth.ts:80-81`: "clears local tokens first (so the app is signed out even if the network step fails)" | a refresh in flight at that moment stores its tokens when it ends (`auth-session.ts:145`), and the session is back |
| `ClearsOwnCookie` with `MaxLogins = 2` (`WebSessionMC.cfg`) | a refused session's cookie is cleared | the answer of `routes/api/v1/$.ts:94` clears whichever session the cookie names by then, a newer sign-in's too |
| `NoDeadPixelsAnywhere` (`ImageEditorMC.cfg`) | `docs/image-editor.md:68`: "Three formulas guarantee zero dead pixels at any rotation angle and translation" | the bounds of the two axes are computed apart, so that a straightened image shifted along both leaves a corner uncovered |

Others were met on the way and have no run of their own:

- **A cancelled operation's work is committed.** `lro_delete_space.go:55` and its
  siblings do not read the operation; `manager.go:505-506` says the worker
  "observes the cancelled row". The client then sees CANCELLED and the deletion.
- **RecoverPending** (`manager.go:542`) fails by id what it listed as pending; an
  operation that completed in between is overwritten. `SuccessFinal` excepts it.
- **VerifyDomainWorker.failOp** (`lro_verify_domain.go:186`) swallows a failed
  write, so that the job completes with the operation pending; that is why
  `CompletedJobSettled` speaks of the other two shapes. The deadline of the worker
  is declared on its arguments (`:55`), where River does not look.
- **A domain verified at the last moment** makes MarkDomainFailed match no row,
  which is logged, and the operation fails next to a verified domain (`:128`).
- **A refused organization delete** has cancelled the organization's other
  operations in the same transaction (`lro_delete_org.go:76-101`).
- **Checkpoints overtake each other** (`run_workflow_reporter.go:62`), so a reader
  of a running run may see a step go back; `NeverAhead` is what remains true. A
  cancelled run may show a finished step as RUNNING for good (`:141`).
- **Columns the finalizers leave out.** Empty variables or an output that does not
  encode give a SUCCEEDED run without output (`src/internal/workers/run_workflow.go:260-266`),
  an error that does not encode a FAILED run without error (`:301-305`), and a
  snapshot that does not encode leaves the steps of an earlier checkpoint, or of an
  earlier attempt (`run_workflow_reporter.go:99-102`). Lost checkpoints are then not
  "harmless" (`:27-28`). `OutcomeOfOneAttempt` and `FinalStepsComplete` say what
  remains.
- **An HTTP call that times out is handed back to River.** `connector/http.go:28-29`
  says of exhausted retries that the activity "fails the run TERMINALLY", but
  `src/internal/engine/signal.go:48` takes the client's own deadline for a cancelled
  job. `InterruptedOnlyByContext` has it as a source of its own, "timeout".
- **Etags are instants.** `workflows.sql:56,73` sets `md5(now()::text)`, and `now()` is
  the beginning of the transaction: two writers that began in one microsecond, one
  of which waited for the other's lock, leave one etag on different contents.
  `EtagIsCurrent` excepts such rows.
- **An account deletion delivered again after its success** finds the identity's row
  purged and fails the operation that succeeded (`lro_delete_account.go:145-152`, whose
  FailOperation does not look at `done`). `SuccessFinal` excepts it.
- **An unforced DeleteWorkflow** removes PENDING runs and the history of finished
  ones (`server.go:563`).
- **A sub-workflow started in a catch** sees the caller's error scope
  (`src/internal/engine/run_workflow.go:178`, against `:101`).
- **A CEL evaluation that is interrupted** by cancellation is an ordinary terminal
  error, which a try may catch; a try also catches retryable infrastructure faults.

In the clients:

- **Concurrent theme changes** in two tabs leave each with the other's, for good,
  since messages of different tabs and writes to the jar have no common order;
  `ThemeAgrees` excepts it. A page that is hydrating misses a broadcast.
- **A tab of the previous user** that is left open at a sign-out may write
  ACTIVE_ORG again, which `logout.ts:65-66` clears for that reason;
  `NextUserClean` excepts it.
- **The picker remembers before it navigates** (`use-app-shell.ts:239-243`,
  `start/src/routes/_app.tsx:165-171`): while the gate decides,
  the remembered organization is ahead of the URL, and a link within the old
  organization that overtakes the choice leaves it so. `RouteIsRemembered` speaks of
  the organization the page is on its way to, and excepts the second.
- **A login whose tokens cannot be saved** (`token-store.ts:55` throws) fails, but its
  session stays in memory and nobody is notified (`keycloak-auth.ts:66-69`).
  `ViewAgrees` and `DiskFollowsMemory` except it.
- **`scope-resolve.ts:19`**: the check that a stale cookie "can only demote to the
  selector" is made against a list that may be cached and stale itself.
- **`engine.ts:824`**: "If crop shrunk: keep current scale", but the scale drops to
  the new minimum.
- **`image-editor.hooks.ts:31`**: onEditChange is "Called whenever edit state
  changes"; drags never reach it.
- **Loads**: a load that ends in the middle of a gesture leaves the gesture's origin
  of the old image; a load that was asked for earlier and ends later replaces the
  newer image; edits made before any image has loaded compute NaN; an unmount in
  the middle of a drag leaves the drag's origin.
- **The back link of a form** (`scoped-secret-form.tsx:14-27`) leaves without the
  question that guards edits; `EditsGuarded` excepts it.
- **Fields stay editable during a save**, and what is typed then is lost. A form
  keeps the values it was seeded with but sends the etag of the record as
  refetched since, so that another user's save that arrived in between is
  overwritten by values older than it, although the etags match.
- **A form left during its save** leaves the list fresh with the old row when the
  answer comes later; `ListFresh` speaks of forms that were still open.
- **A list that joins an older fetch.** A row's delete whose dialog was dismissed
  refetches the list under the form that was opened since (`use-resource-list.ts:104`).
  An answer read before that form's save and still on its way when the save marks
  the list stale without fetching it (`use-resource-form-nav.ts:98-99`) is taken by the
  list for its own, and shown as fresh without the save. `ListFresh` excepts it.
- **A list's delete** has no catch (`use-resource-list.ts:93`): a broken connection
  leaves its spinner on; a dialog dismissed during a delete shows its error in the
  next row's dialog.

In parts that are not modelled yet: an agent's old stream unregisters its new one
(`agent_service.go:332`) and marks it disconnected, under a context that may
already be cancelled (`:420`); the conversation lease lapses before a stalled
stream is aborted (`src/internal/service/aichat/stream.go:805`).

## 8. What is not modelled

- **Data**: definitions, CEL, URLs, secrets, outputs, error texts, proto
  conversion, filters and ordering of lists.
- **Activities** beyond the outcome classes they can have. The retry loop inside
  an http activity is one step with the outcome of its last attempt.
- **The cascade** of organization and space deletes is one flag.
- **Time**: deadlines, TTLs and intervals are choices that may fall either way.
  The one exception is the retention of discarded jobs (section 3).
- **Rendering**: canvas drawing, the export rectangle, layout, wording and keyboard
  focus change none of the state the models keep.
- **Client storage's** localStorage backend, `remove` and `clear`, and the spaces
  inside an organization; the **create form**, and the list's filters, sorting and
  cursor stack.
- **Most of the TypeScript by volume**: about a quarter is generated (API types,
  route tree), another quarter is vendored (shadcn, AI Elements), and much of the
  rest is markup over the hooks that are modelled. None of it keeps state whose
  order matters, so the share of lines the models stand for is small.
- **WAITING** runs: the state is reserved, no code sets it.
- **The parts of the table in section 1** that the plan has not reached, and those
  that keep no state of their own or only single rows guarded by constraints.

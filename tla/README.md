# ScopeForge: a formal model of its session engine and web application

ScopeForge runs assisted security assessments. An operator creates a session, a
planner turns its objective into tasks and steps, agents work through the steps
by calling tools, operators approve what the policy will not let pass, and a
runtime service runs the commands in containers. People see and steer all of it in
a web application, which holds a copy of what the API says and decides from that
copy what may be clicked. This directory holds TLA+ modules translated from the
source of both, the TLC runs that check them and proofs of their main theorems.

- [1. The system](#1-the-system)
- [2. Modules](#2-modules)
- [3. How the code's concurrency is modelled](#3-how-the-codes-concurrency-is-modelled)
- [4. Runs](#4-runs)
- [5. Where code and documents part](#5-where-code-and-documents-part)
- [6. Proofs](#6-proofs)
- [7. Not modelled](#7-not-modelled)
- [8. Plan](#8-plan)

Run everything with `tlc -workers 2 -config X.cfg M` and `tlapm M.tla`.

## 1. The system

Paths are relative to `src/`; `app/` stands for `apps/api/app/`, `web/` for
`apps/web/src/`.

| Component | State | Operations | Talks to |
| --- | --- | --- | --- |
| Job queue: `app/repositories/sessions.py`, `app/integrations/queue`, `services/worker` | rows of `jobs`; messages in Redis; what a worker process holds | create, send, claim, succeed, fail, cancel, reconcile | every runner through `run(job_id)`; the API through `send_task` |
| Session service: `app/services/sessions/service.py` | the session's status | start, pause, resume, stop, archive, terminal command, start and stop a runtime, files | job queue, runtime service |
| Planner: `app/services/sessions/planner.py` | tasks and steps | plan, fail, reconcile stale jobs | model provider |
| Agent runner: `app/services/agents/runner.py` | steps, tool calls, approvals | the turn loop | provider, policy engine, job queue |
| Approvals: `app/services/approvals.py` | approval requests, tool calls | approve, deny | job queue |
| Tool executor: `app/services/runtime/executor.py` | tool calls, runtimes, evidence | execute a tool call | runtime service, object storage |
| Runtime service: `services/runtime` | containers and volumes | start, stop, execute, files | Docker |
| Event stream: `app/realtime`, `session_events` | event rows, a cursor per socket | append, poll, replay | every writer above |
| Review: `app/services/review`, `app/repositories/review.py` | evidence, findings, reports | propose, accept, render, finalise | job queue, storage |
| Memory: `app/services/memory` | documents and chunks | propose, approve, embed, search | job queue, provider |
| Authentication: `app/services/auth`, `app/auth` | users, workspaces, sessions, tokens | login, refresh, logout, bootstrap | Supabase |
| Policy engine, tool registry | none (pure) | decide, validate arguments | agent runner |
| Control plane: projects, scopes, policies, profiles, users, tokens | one row each | create, read, update, delete | audit log |
| Replay, analytics, providers | none of record | read | |
| Query cache: `web/app/App.tsx`, `web/hooks` over TanStack Query | per query: data, fetch in flight, error; mutations in flight | mount, poll, retry, invalidate, mutate | the API; every page |
| Sign-in: `web/hooks/useAuth.ts`, `RequireAuth`, the login page | the answer about the user, the route | log in, log out, redirect | query cache |
| Home page, approvals, evidence, memory, reports, sessions and command center, setup, runtime console | what the operator selected, filtered, typed; copies of rows in forms | select, filter, page, type, decide, save | query cache, API |
| Providers and policies, users, analytics | local filters; examples where the API has no rows | show, filter | query cache |

### What is hard

All processes are stateless and share one Postgres database under READ COMMITTED.
No read takes a row lock and no row has a version column. A handler reads rows,
tests what it has read, perhaps calls another service, then overwrites rows by
primary key and commits. So everything a handler tested may be stale when it
writes, and the only exclusion is that rows one transaction has flushed block the
writers of others until it commits. Celery acknowledges a message before the task
runs: a message may be delivered twice, or be lost with its worker. The
`hazards` of `PROJECT.json` list where each of these bites.

The web application has one thread but many answers in flight. A list on the screen
is as old as its last fetch; polls, invalidations and keystrokes start others; a
mutation's answer may arrive when the operator has selected something else, and its
callback then writes to whatever is on the screen. Forms hold copies of rows that
effects refresh when some dependency changes, so typed text may sit over a row it
was not typed for. The conditions of buttons repeat the guards of the API in files
of their own, and one row is worded by a different function on every page.

### What makes each part correct

- **Job queue.** A job is begun once however often its message arrives; `attempts`
  counts the beginnings; a `running` row has a worker or is the trace of a crash;
  a queued job ends.
- **Planner.** A session in `planning` has a job that will move it on; it is planned
  once; planning ends.
- **Agent and approvals.** A session that awaits approval has a pending request;
  nothing is done about a tool call nobody has decided.
- **Executor.** A call that is queued or running has an executor and is settled; the
  command runs no more often than there are jobs for it; its output becomes one
  piece of evidence; a running container belongs to a row the API can find.
- **Stop.** A requested stop takes effect whatever the runtime service answers.
- **Query cache.** A view never goes back to older data; a change that was
  acknowledged is shown, or an error is; what is polled catches up.
- **Forms and decisions.** What is typed, chosen or decided reaches the row that was on
  the screen: notes, findings, memories, titles, commands, the policy of a session.
- **Buttons.** A click is refused only if somebody else was faster, and what the API
  would accept is offered.
- **Words and numbers.** One row is told alike on every page; the numbers above the
  lists add up to the lists; nothing that waits for a person is hidden.
- **Event stream, authentication in the API** (planned): no event is skipped; one
  workspace is bootstrapped and a logout ends a session.

## 2. Modules

| Module | Models | Extends |
| --- | --- | --- |
| `JobQueue` | job rows, outbox of committed but unsent jobs, broker, workers, the cancelling and reconciling transactions | |
| `EngineState` | the rows of one session, runtimes and containers, the locals of every handler in progress, shared reads and writes | `JobQueue` |
| `PlanSession` | `PlanSessionRunner` and `reconcile_stale` | `EngineState` |
| `AgentRun` | `AgentRunSessionRunner` | `EngineState` |
| `Approvals` | `ApprovalService.approve`, `deny` | `EngineState` |
| `ToolExecution` | `ToolExecutionRunner`; the launching of a runtime | `EngineState` |
| `SessionService` | `SessionService`, `AgentOrchestrationService.run_session` | `EngineState` |
| `SessionEngine` | the composition, its specifications and properties | the five above |
| `ServerView` | abstract: what a screen promises of the data it shows | |
| `QueryCache` | TanStack Query as `App.tsx` and the hooks use it; refines `ServerView` | |
| `WebLists` | what pages do to lists: first, keep a selection, filter, count, sum, slice | |
| `AuthGate` | `RequireAuth`, the login page, the query of the user | |
| `SessionViews` | the words four pages have for sessions, steps and runtimes | |
| `HomePage`, `HomeApproval` | what the home page counts; its approval panel | `SessionViews`, `WebLists` |
| `SessionsBoard` | the list of sessions and the command center, beside the API's guards | `WebLists`, `SessionViews` |
| `SetupFlow` | the setup form and the requests of `useCreateAssessmentFlow` | `WebLists` |
| `ApprovalsBoard` | the approvals page | `WebLists` |
| `EvidenceBoard` | the evidence page, its inspector, update and review in the API | `WebLists` |
| `MemoryBoard`, `MemorySearch` | the memory page with the API's lifecycle of a memory; its search | `WebLists` |
| `ReportBuilder`, `ReportOutline` | the reports page with title, render, finalise; its outline | `WebLists` |
| `RuntimeConsole` | the runtime page: session, call, dialog | `WebLists` |
| `Overviews` | numbers over the lists, from rows and from the analytics API | `SessionViews` |
| `RowDetails` | details beside rows: approvals, calls, writes, risks | |
| `Directories` | users, providers and policies, analytics | `Overviews` |
| `WebApp` | the application: one open page; properties across pages | all pages |
| `MCJobQueue`, `MCSessionEngine`, `MCQueryCache`, `MCWebApp` | symmetry and constants for TLC | |
| `JobQueue_proofs`, `SessionEngine_proofs`, `SessionRunners_proofs` | theorems about the queue and the engine | TLAPS |
| `QueryCache_proofs`, `WebLists_proofs`, `WebForms_proofs`, `WebNumbers_proofs`, `WebApp_proofs` | theorems about the web application | TLAPS |

`JobQueue` is both a component and the abstract specification of what the engine
does with jobs: each action of the engine conjoins one action of `JobQueue` (or
leaves it unchanged), and the property `JobSpec` says that the composition
drives the queue only as the queue alone may move.

### State and code

| Variable | Code |
| --- | --- |
| `job` | `jobs.status`, `jobs.attempts` |
| `outbox` | jobs whose creating transaction has committed and whose `send_task` has not been called |
| `broker` | messages in Redis, per job |
| `worker`, `work` | the process's position in `run()`: `loaded` (read as queued), `working` (claim committed), `failing` (rolled back, before `_mark_failed`), and the locals of the runner it is in |
| `canceller`, `reaper` | the transactions of `stop_session` and `reconcile_stale`, as far as they concern jobs |
| `session`, `step`, `done`, `planned` | `sessions.status`, `steps.status`, completed `tasks`, how many plans were committed |
| `tool`, `approval`, `evidence` | a tool call, its approval request and its evidence rows |
| `runtime` | `row` is `runtime_instances.status`, `box` the container, `launch` the call that starts it |
| `task` | `jobs.type`, the tool call of its payload, and who created it |
| `req` | an API handler between its read and its commit |
| `begun`, `overlap`, `orphaned`, `runs` | history variables; no action reads them |

`PROJECT.json` maps every definition to its lines.

## 3. How the code's concurrency is modelled

### The engine

- **An action is a read or a committed write.** A handler whose read and write have
  something slow between them (a provider, the runtime service, an upload, a lock)
  is split there. SELECTs issued back to back are one read, at the moment of the
  test they serve.
- **Blind writes.** What a handler writes does not depend on the row's present value:
  `Claim` adds one to the `attempts` it *loaded*, `PlanCommit` writes `running` over
  whatever the session has become, `WakeSession` uses the status *seen*.
- **ORM subtleties.** SQLAlchemy leaves out an UPDATE whose value equals the one
  loaded (`WriteCall`, `StopRuntimeCommit`); a re-read in one transaction returns the
  object already loaded, so the agent's loop does not see a stop (`AgentRead`);
  a commit expires what was loaded.
- **Row locks.** `RowFree`, `CallFree` and `StepFree` say which flushed rows block a
  writer: `stop_session` holds jobs and tool calls over its call to the runtime
  service, an executor its tool call over the upload of evidence, an agent run the
  step it started over its call to the provider. A handler that has already read when
  it meets the lock overwrites afterwards (`ExecFailWaits`).
- **Failures** are switched by `Faults`: a worker crash (`crash`), a second delivery
  (`duplicate`), `send_task` or the commit after it raising (`enqueue`), a job older
  than `job_stale_seconds` (`stale`), the API dying between commit and send
  (`api_crash`), a worker whose clock is behind (`skew`), a failing call to the
  runtime service, before or after its effect (`runtime`), a failing upload (`upload`).

Abstractions: what a plan says is its tasks and steps; the policy's verdict and the
provider's answer are nondeterministic; a command is taken to print something; tool
calls born in a final status (denied, `file.*`, `memory.*`) are not represented, since
nothing but listings reads them; one `stop_session` and one `reconcile_stale` are in
progress at a time; where Postgres would break a deadlock of two flushes by
aborting one transaction, the model's atomic flush lets neither begin it; the steps
of a session are taken in a fixed order (the code orders by task id, a random UUID, so
every order is some run's order); an API process dies only between a commit and
`send_task`. `PlannedSpec` starts from a session that has just been planned, its planning
job done and no longer in `Jobs`; it spares the runs about agents and tools the states
of planning, which the run `planning` covers from `draft`.

### The web application

- **Two levels.** `QueryCache` models fetches, polls, retries and invalidations over
  versions of resources, and shows that each view moves through versions the server
  has had, forwards only. With that, the modules of the pages let a fetch take the
  rows of the moment in one action, and keep the fetches in flight only where a page
  waits for them (`AuthGate`, `HomeApproval`, `MemoryBoard`, `MemorySearch`).
- **A render ends an action.** React runs the effects of a render before the user can
  act on it, so each action of a page ends with the reselection, reset or redirect
  of its effects.
- **Callbacks run when their answer arrives**, on the state of that moment: what a
  decision clears, what feedback is about, which dialog is closed.
- **Other people and workers** write the same rows in actions of their own
  (`OtherOperator...`, `OtherWrites...`, `RenderJob`, `EmbedMemory`), so that what is
  on the screen is stale whenever it can be.
- **The API's side of a click** (what an update, a review, a promotion, a finalisation
  does, and when it is refused) is part of the page's module, translated from the
  services; it is one transaction. Where the API itself races (two approvals that
  both read one request pending), the engine modules say what happens.
- **Pages share no state.** `WebApp` opens one page and takes its steps; whatever the
  specification of one page shows (`BoardSpec`, `MemorySpec`, ...) holds of it in the
  application. The theorem `PagesKeepTheirSpecs` says so, and theorems are therefore
  stated for the pages.
- **Derived numbers** (`HomePage`, `Overviews`, `RowDetails`, `Directories`) are operators
  over the rows fetched. A list that is filtered is the set of the places the filter lets
  through (`PlacesOf`), so that a count is the size of a set, a sum that of a disjoint
  union (`SumOf`) and a slice the first few places (`FirstFew`); a step of a plan is the
  pair of its task and its place there. Runs enumerate the lists of up to
  `MaxListed` rows (`MaxPlanned` tasks and steps, `MaxWork` jobs and calls); the theorems hold
  for any. They assume rows of one moment, lists that are not cut by a limit, and rows
  within the window of the analytics; between two refetches the page may show numbers
  of two moments. Only findings and jobs on the home page are different, since two of
  their answers stand side by side: a row keeps its status in the database, the one its
  session's list told last (`seen`) and the one the analytics counted (`counted`);
  `RowAppears` and `RowMoves` change the first, `FetchSessionRows` and `FetchAnalytics` read it, at
  any moment or never, and the window of the analytics may cut the oldest rows off.
  Deletion is left out: no page deletes a finding or a job.

Abstractions: texts are reduced to the row they were typed for; wording, layout,
colours (but for tones that tell a failure) and sorting are left out; a filter over
free text is a set of rows it lets through; pages of a table have one row.

## 4. Runs

| Run | Instance | Shows |
| --- | --- | --- |
| `jobs_faults` | 2 jobs, 2 workers, 2 messages per job, every fault | `RunsOnceUnlessClaimsOverlap`, `AttemptsCountRuns`, `RunningHasWorker`, types |
| `planning` | from `draft`: 2 operators, 2 requests among start, stop, archive; crash, duplicate, enqueue, stale, skew and api_crash | `PlanningHasJob`, `PlannedOnce`, and that the engine implements `JobSpec` |
| `approval` | 1 step, 3 jobs, 1 tool call and the executor; run, approve, deny, stop; stale | `CallHasExecutor`, `PendingNeverRuns`, `AwaitingHasPending`, `EngineTypeOK` |
| `tools` | 2 workers on one tool call, 2 deliveries, 2 runtimes; terminal, stop, start a runtime; crash, duplicate, upload | `EvidenceOnce`, `BoxTracked`, `RunsHaveJobs` |
| `live_planning` | 2 operators, 3 requests; enqueue, stale; fairness | `PlanningEnds`, `JobSettles` |
| `live_tools` | 2 tool calls, 1 worker, 3 requests among terminal, stop, stop runtime; runtime, upload; fairness | `CallsSettle`, `StopSucceeds` |
| `web_cache` | 2 keys, one polled, 2 mutations, 3 versions; fairness | `SavedIsShown`, `ShowsServer`, `PolledCatchUp`, types |
| `web_pages` | 16 pages, two rows of everything | the properties of the table below |
| `stopped`, `cancelled`, `rerun`, `interrupted` | the smallest that do it | section 5 |

What `web_pages` shows, page by page:

| Property | Page | Says |
| --- | --- | --- |
| `LoginIsNotStranded` | login | who has logged in is not left on the login page |
| `OfferedIsAccepted` | sessions, reports | a click is refused only if the row was moved meanwhile; every transition is offered |
| `SessionsAreAsChosen` | setup | a session has all its targets, and the policy and provider chosen unless they were gone |
| `DecisionsAreInformed`, `FeedbackIsTrue` | approvals | a note is sent with the request it was typed for; success is announced only of what the database holds |
| `DecidedLeavesPanel` | home, approval panel | no fetch in flight brings a decided request back |
| `SavesGoWhereTyped` | evidence | no finding is saved with the fields of another |
| `EditsGoToTheirMemory`, `NextActionSeesLast` | memory | the same of memories; the panel waits for the refetch that shows the change |
| `SearchFollows` | memory, search | results are of the fields above them, and a memory rejected here leaves them |
| `TitlesGoHome`, `OutlineFollows` | reports | titles and outlines go with their report |
| `ConsoleStaysInSession` | runtime console | tables, commands and dialogs never mix sessions |
| `PagesAgree` | home, details | one row is told alike on every page |
| `HomeTells` | home | while findings and jobs change and answers are late, what two answers tell to wait or to have failed is counted, and the badge is never below the queue; failures stand out in a cut list |
| `NumbersAddUp` | overview, details, directories | of answers of one moment: pending approvals are one number, lists and shares add up; the card of confirmed findings tells zero |
| `RowsTell` | overview, details, users, directories | the row and the panel beside it contradict neither each other nor the API |

`OfferedIsAccepted`, `PagesAgree`, `NumbersAddUp` and `RowsTell` are conjunctions of named parts,
each with a comment where it is defined. Their exceptions say what the code does not
promise: `awaiting_approval` sessions are in no tab of the home page and are stopped in
the command center only, an awaited call is worded as failed, a refetch that fails
strands a login.

Three things that these properties do not claim, since the code does not do them:

- *The home page does not count every finding of its own queue.* The metrics "Candidate
  findings" and "Failed jobs" are counted by two analytics queries that are never polled
  (`useWorkspaceHome.ts:387-388`, `:419`, `:430`, `:645-647`), the queue and "visible here" by
  one query per active session (`:690-710`, `:760-762`). While the analytics of findings have
  not answered or have failed the metric is 0 beside a queue that lists findings; while an
  older answer of the overview stands, fewer jobs failed than are visible. `HomePage`
  therefore fetches the answers one by one, lets the rows change in between, and
  `HomeTells` says what remains: what *both* answers tell to wait or to have failed is
  counted, the badge (`:767`) is never below the queue, a metric of findings that is zero
  means that the analytics told of no finding, and once all answers are current the
  metrics are not below the queue.
- *The card "Confirmed findings" of the analytics page does not count them.* It looks
  `confirmed` up among the counts by severity (`analyticsMapping.ts:75`,
  `services/analytics.py:84`), where it never is, and tells zero. `ConfirmedCardTellsZero` in
  `NumbersAddUp` says that, and that it so disagrees with the evidence page just when a
  finding is confirmed. Nothing in the documents says what the card should count, so it is
  a hazard here and not an entry of section 5. The other card of that list that is not in
  `NumbersAddUp`, "Job failures", shows one number of the overview, which `HomePage` models.
- *An untouched form is not saved as it was.* The inspector of a finding words severity
  `info` as `Low` and saves `low`; and whenever the status it shows is reviewable it also
  posts a review (`EvidenceReviewScreen.tsx:532-551`, `useEvidenceFindings.ts:80-81`), which
  makes the sender the reviewer and replaces the note (`services/review/service.py:442-472`).
  `EvidenceBoard` has both requests, the status that they write and that the finding was
  reviewed, not by whom; `SavesGoWhereTyped` says only that they go to the finding that
  was edited.

**Bounds.** Two workers and two operators are the fewest that race, and a handler
interferes with another only through rows, so a third adds no new kind of
interleaving. Two messages per job let two claims overlap and a late duplicate meet a
finished job. `MaxRequests`, `MaxPlans`, `MaxTurns`, `MaxRuntimes` and `MaxCopies` cap the
counters in the guards of `Ask`, `PlanCommit`, `AgentFileCall`, `CreateRuntime` and
`Enqueue`; one plan more than the code should make, and one runtime more than a session
needs, are allowed so that a second one would show. Two turns let an agent run
take a step it did not start. On the pages
two rows are enough for one to be on the screen and another to take its place, a page of
a table holds one row so that two make two pages, one other operator's write per memory
(`MaxWrites`) lets an acknowledged version be overtaken, and each filter has a value that lets
all rows through and one that does not. Which evidence supports which finding does not
change while the page is open; `SupportsInPlay` has each piece support one finding, the
other one, or none. Of two memories one is old (`OldMemories`: absent or approved at
first), and agents propose the other. `MaxVersion = 3` lets a fetch, a mutation and a
foreign write each see another version. Lists of the derived numbers have at most three
rows (`MaxListed`: one that a filter lets through, one it does not and one that changes the
order), four for failed work (`MaxWork`: one more than the group shows), and plans two tasks
of two steps (`MaxPlanned`). Two findings or jobs (`MaxCountedTwice`) in two sessions
(`HomeSessions`) let one be known to both answers and one to neither or to one, and one session be
active and the other not; two tools (`ToolNames`) let one rate be above the overall rate and
one below, two pieces of evidence (`Pieces`) one be cited and one not. Every page starts
from a state of rest, and rows it knows may appear, change or go while it is open.
Users ask a bounded number of times, so the system
comes to rest and the runs say `CHECK_DEADLOCK FALSE`.

**Which faults are left out of which run, and why.** Each omission is a case the code
does not handle; section 5 and the hazards name it.
`CallHasExecutor` excludes `enqueue` (a failed send of an approved job fails the job and
leaves the call queued; a lost send in `_queue_terminal_tool` leaves the new job unsent)
and `crash` (a job cancelled by stop while its worker runs and then dies leaves the call
running with no running job for reconciliation to find). `BoxTracked` excludes `runtime`
(a start whose reply is lost leaves a container under a failed row) and
`stop_runtime` (which accepts a runtime that is still starting). `PlanningEnds` and
`CallsSettle` exclude `crash` and `api_crash`, which nothing repairs by itself, and
`duplicate`, since a broker that redelivers for ever starves the workers.

**Fairness.** A handler in progress goes on (`Resolve`, the API's threads), a committed
job is sent (`ApiEnqueue`), a worker receives, begins and carries on
(`Receive`, `Begin`, `RunnerStep`), the runtime service answers (`LaunchStep`; every
HTTP call has a timeout). It is weak fairness of each process, which is what a thread
scheduler gives. Nothing is assumed of users, and nothing of `reconcile_stale`:
no schedule in the repository starts it.
`PolledCatchUp` rests on `CacheFairness`: the page is in the foreground, so its interval fires
(weak fairness of `Poll`), and requests are not lost for ever (strong fairness of `Read` and
`Arrive`, which failures disable again and again). Nothing is assumed of users, mutations or
other writers, and without the interval the property fails.

Every property has a mutant in `PROJECT.json`: a definition changed as a plausible bug
would change it (defined just before the original, marked `\* mutant`), under which the
run finds the property violated.

## 5. Where code and documents part

| Run | Document | Code |
| --- | --- | --- |
| `stopped` | `docs/DATABASE_DESIGN.md`: from `stopped` only to `archived` | the planner, in a call to its provider while the session is stopped, sets it `running` |
| `cancelled` | `docs/design/AGENT_AND_TOOL_DESIGN.md`: `cancelled` is final | an executor overwrites the call that stop has cancelled |
| `rerun` | `docs/ARCHITECTURE.md`: never silently rerun high-risk commands | two approvals that read one request as pending queue two jobs (one operator alone cannot do it: `OperatorsBoundRuns`) |
| `interrupted` | `docs/ARCHITECTURE.md`: mark interrupted tool calls | `reconcile_stale` writes the job and the session only |

TLC also reaches: a request both approved and denied, whose call ends as denied and
runs; a runtime stopped while it starts, whose row is then written `running`; an agent
run that writes its stale view over a step another run completed, in a session
that is complete. They stem from the same read-then-overwrite and have no run of
their own.

## 6. Proofs

`JobQueue_proofs`, for any sets of jobs and workers, any bound on the broker and any
faults, from `JobQueueAssumption` alone (`AttemptsAreExact` states the second half of `ClaimsExclude` by itself):

- `JobTypeCorrect`: `JobSpec => []JobTypeOK`.
- `ClaimsExclude`: `JobSpec => [](RunsOnceUnlessClaimsOverlap /\ AttemptsCountRuns)`. Neither
  is inductive: a worker that has *loaded* a job may still begin it. `ClaimInv` adds
  that a job never begun is the only kind that is `none` or `queued`, that a worker holding
  a loaded job saw no attempts, and that outside `overlap` there is one such worker.
- `RunningIsOwned`: `JobSpec => []RunningHasWorker`, inductive as it stands given the types.
- `JobsInPlayExist`: what a process sends, works on, cancels or reconciles is a row that
  exists. No run checks it; the engine's proofs rest on it.

`SessionEngine_proofs`, for any clients, workers, jobs, tool calls, steps, plans and
runtimes, any operations and any faults, from `JobQueueAssumption` and
`EngineAssumption`; each is stated for `Spec` and for `PlannedSpec`.

- `EngineImplementsJobQueue`: `Spec => JobSpec` and `PlannedSpec => JobSpec`. The variables of
  the queue are variables of the engine, so the mapping is the identity; each of the engine's
  actions is shown to be a step of the queue or to leave it alone.
- `EngineJobsAreSafe`: hence the invariants of the queue hold in the engine.
- `EngineTypeCorrect`: `[]EngineTypeOK`. Typing alone is not inductive: what an executor writes is
  well typed only if its job is an execution job, which `WorkMatches` records (a worker's
  locals belong to the type of the job it holds, and an executor that has an answer has an
  outcome), and jobs keep their type because a job in play is never created again
  (`JobsInPlay`). `TypeInv` is the conjunction. One lemma per group of actions
  (`PlanTypes`, `AgentTypes`, `ExecTypes`, ...) shows `DomainOK'`.
- `ApprovalGates`: `[]PendingNeverRuns`, by `GateInv`: a tool call that does not exist yet has no
  approval, no job and has not run, and a pending one has no job and has not run. An
  executor touches only the call its job names, which is then neither.
- `AwaitedIsPending`: `[]AwaitingHasPending`. That a request is pending is not inductive: the operator
  about to resolve it may have seen the session before it waited, and would not
  wake it. `WakeInv` says that while the session waits there is a pending request such that
  everyone about to resolve it has seen the session waiting. It holds because the agent
  makes the session wait in the transaction that creates the request.

`SessionRunners_proofs`, about what runners do with jobs, plans and calls, in the same
generality, each for `Spec` and, but for `PlansAreSingle`, for `PlannedSpec`. `RunnerInv` joins what they
all rest on: `TypeInv`, that the planner works on planning jobs and the agent on agent jobs
(`RunnerMatches`), and the claims of the queue (`ClaimInv`, and `HeldInv` from `ClaimedAreHeldOnce` in
`JobQueue_proofs`: a claimed job is held by one worker unless claims overlapped).

- `EvidenceIsSingle`: `[]EvidenceOnce`, under every fault. Two executors may hold one call; `EvidenceInv`
  says that only one of them is between its flush of the call's row and its commit, and
  that what it saw of the evidence then is still so: the lock of the row lies around look-up,
  upload and insert.
- `PlanningIsServed`: `[]PlanningHasJob`, under every fault. It is inductive given the types; each way a
  planning job ends (planned, failed, cancelled, reconciled) moves the session on in the same
  transaction.
- `PlansAreSingle`: `[]PlannedOnce`. `PlanInv`: as long as there is one planning job and no overlap, there is one
  plan at most, and once there is one, no planner is at work and the job was begun, so that
  it is not begun again. The planner that commits is the only one.
- `RunsAreAccounted`: `[]RunsHaveJobs`, under every fault. `RunInv` compares the runs of a call with those of
  its jobs that are spent, that is, begun and with no executor that may still start the command.
- `OperatorsBoundRuns`: `[]RunsHaveOperators`, under every fault, for finitely many operators; no run checks
  it. It says how far the finding `rerun` goes: n operators run a command n times at most, and
  one alone runs it once, unless claims overlap. `ApprovalInv`: the jobs of a decided call and
  the decisions still in progress are together no more than the operators, for a decision uses
  up the request that made it, and none is begun once the request is seen decided. An operator
  of the model is whoever has one request to the API in progress: two tabs of a browser count
  as two.
- `BoxesAreTracked`: `[]BoxTracked`, assuming `CallsReturn`: no failing calls to the runtime service and no
  `stop_runtime`. Both are needed. A start whose reply is lost leaves a container under a row
  that is then written `failed`, and `stop_runtime` (`sessions/service.py:419`) accepts a runtime
  that is still starting and marks it stopped while the start goes on. Crashes, second deliveries
  and stops of the session are allowed: the executor that dies while a runtime starts leaves
  the row `starting`, by which the container can be found. `BoxInv` says what the progress of a
  launch tells of row and container, and that a stop in progress is about a launch that is done.
- `CallsAreServed`: `[]CallHasExecutor`, assuming `WorkersLast`: sends succeed and workers do not crash. A failed
  send fails the job and leaves the call queued (`approvals.py:125`); a job cancelled by a stop
  while its worker is at it and then dies leaves the call running with nothing for
  reconciliation to find. `CallInv` says more: an executor counts only if it
  will settle the call (`Settler`), and while a stop is between its flush and its commit, every
  call that the stop does not cancel is served by another job than those it does.

The two assumptions are those of the runs that check the properties; they are hypotheses on the
constants `Faults` and `Ops`, not on the code, and the cases they leave out are listed as hazards.

The theorems about the web application hold for any sets of rows, filters and bounds, from the
named assumption of each module.

- `QueryCache_proofs`: `CacheTypeCorrect`, `AcknowledgedIsShown` (`[]SavedIsShown`) and
  `CacheImplementsServerView` (`CacheSpec => ShowsServer`, the refinement of `ServerView` under which
  views are keys and what is shown is the cached version; a `Read`, a failure or an
  invalidation is a stutter, an `Arrive` a `Show` unless it brings what is there). `CacheInv` adds
  that a key has one request in flight (`OneRequest`), that an answer under way lies between the
  data and the server and is no older than the last acknowledged change
  (`AnswersInOrder`), and that the version of a committed mutation is one the server has
  reached (`CommittedIsStored`).
- `WebForms_proofs`: `DecidedStaysAway`, about the home page. `DecidedIsResolved`: what was decided
  here is resolved in the database for good, so only a fetch that read before could bring it
  back, and the acknowledgement cancels that. `DecisionsCarryTheirNote` and
  `AnnouncedIsHeld`, about the approvals page. `BoardInv` adds that a note belongs to the
  panel that is open, that a decision in flight names a request and carries its note, and
  that the database holds the verdict of a decision that was accepted or announced.
  Then `LoginEndsInside` (no anonymous answer is under way once a login was
  admitted), `SavesArrive` (the fields are always those of the finding selected),
  `TitlesArrive` (the draft is of the chosen report), `FinalizeNeverRefused` (`RenderedStays`: what is
  shown or was clicked as rendered is rendered or final in the database),
  `EditsArriveHome` and `AcknowledgedIsSeen` (`MemoryInv` adds `ActionIsWhole` and `VersionsGrow`:
  an acknowledged version is stored, and the page is behind it only while the list that
  follows is fetched, or after an error).
- `WebApp_proofs`, first page by page:
  - `ConsoleKeepsToSession`. What the console shows is of the session that is resolved from the
    URL and the list. That is not inductive: `DialogIsOfRequested` adds that with a
    session in the URL a dialog is opened only once the list was fetched, which then lists
    that session for good, and `ListedTogether` that sessions are listed all at once, so that
    the resolved session does not change under an open dialog.
  - `SessionsComeAsChosen`. `FlowIsOfItsRows`: the rows of a create flow were copied when it was started and
    have a target, and from its scope on the project excludes what they exclude.
  - `SearchIsFollowed`. An answer in the cache is of its own fields, which `AnswerFits` says; that a
    rejected memory may be in one is marked when the two overlap (`OverlapIsMarked`).
  - `OutlineIsFollowed`, by induction on the refreshes of the effect; `IsSection` says that a
    section keeps its fields.
  - The statuses of sessions: `TablesAgree` compares the two tables that were written apart, of the
    buttons and of the API, action by action.
- `WebApp_proofs`, then of the application. `PagesKeepTheirSpecs`: `WebSpec` implies the specification of every
  page; each step of the application is a step of one page and leaves the variables of the
  others. `PagesKeepTheirPromises` collects the safety of the pages from it.
  `OffersAreAccepted`: `[]OfferedIsAccepted`, where a session that was offered an action and moved
  meanwhile is the only reason for a refusal (`LifecycleIsOffered`). `PagesAreTyped`: `[]WebTypeOK`, with
  the invariants above where typing alone is not inductive: what the inspector saves is
  typed because its labels translate back (`EvidenceTyped`), the outline counts numbers because
  findings and references are finitely many (`CountsAreNumbers`).
- `WebNumbers_proofs`: the numbers and words that pages derive, for lists of any length, plans of any
  size and whatever is rounded. `HomeHidesNothing`: `[]HomeTells`. The other parts are lemmas that
  two theorems of `WebApp_proofs` join: `NumbersAddUpAlways` (`[]NumbersAddUp`) and
  `RowsTellTheTruth` (`[]RowsTell`), beside `PagesTellAlike` (`[]PagesAgree`). A page's list stays what
  it was fetched as (`HomeListTyped`, `OverviewListed`, `DetailListed`, `DirectoryListed`), findings and
  jobs that two answers count stay typed through every write and fetch (`RowsStayTyped`), and
  what is said of either is then a fact about finite sets of places:
  - Two answers: what both tell to wait lies in what each counts, so neither count is smaller
    (`ReviewsAreCounted`, `FailuresInBoth`), for any number of rows, whoever changed them
    and whichever answer is late; the card of confirmed findings is zero because no severity
    is `confirmed` (`ConfirmedCardHolds`).
  - Counts: a filter and its complement, or the parts by status, share a list out
    (`PartsAddUp`, `SharedAddUp`, `ListAddsUp`), and the sum over all keys is the length of the
    list (`SumOfCounts`).
  - Plans: the place of a step is found alike by all pages (`OneCurrentStep`), and the steps
    completed task by task are those completed in all (`OneNumberOfSteps`), since the places of the
    steps are the disjoint union of those of the tasks.
  - Slices: `FirstFewAreFew` says how many rows a slice has, and `FailuresAreThere`, from it, that both kinds
    of failed work are among the three that the group shows.
  - Rounding: `RoundedIsNearest` brackets a rounded share; two complementary rates then make at least
    a thousand and at most 1001 tenths of a percent (`RatesFill`), and fewer than a thousand calls of
    which one has not ended make less. The overall rate lies between the rates of the tools
    (`SharesSurround`: a share of the whole is between the shares of its parts), but for one
    tenth by which the second rounding may raise it (`RoundedTwice`).
- `WebLists_proofs`: what `FirstOf`, `StillOrFirst` and the ranks behind table pages return, and the
  arithmetic of `PlacesOf`, `FirstFew`, `DisjointUnion` and `SumOf`, cited by the others.

The attempt to prove `AnalyticsAddUp`, a part of `NumbersAddUp`, for any number of calls showed that
its first form held only because runs fetch three: the API rounds the overall rate to
hundredths of a percent (`services/analytics.py:303`) and the page rounds that again to tenths
(`analyticsMapping.ts:21`), while the rate of a tool is rounded once. One success
in 22 calls of one tool is 4.545...%: the table says 4.5%, the metric above it 4.6%. Two
complementary rates may also make 100.1%, and no share of findings is certain to be seen
once there are more than 200. The property now says what is true at any length.

Every safety property of the passing runs is stated by a theorem. Model-checked only:

- Liveness (`PlanningEnds`, `JobSettles`, `CallsSettle`, `StopSucceeds`, `PolledCatchUp`), which needs
  fairness and `ENABLED`.
- The four properties of section 5, which are false.

No module here declares a RECURSIVE operator.

## 7. Not modelled

- Of the engine: the file operations of a running runtime and the creation of a session
  (one row and an audit record each); events, messages and audit rows beside the state.
- The event stream, the API's sessions and bootstrap, the policy engine and the tool
  registry, the control plane and replay: section 8 says which are planned.
- Of review and memory in the API: whatever pages do not meet, that is, evidence
  acceptance, exports, the text of reports, chunks, conflicts, deletion.
- Of the web application: layout, badges, colours, type declarations and the wrappers
  around `fetch`, which hold no state; sorting and free-text filters; state local to
  one panel that nothing else reads (tabs of a panel, expanded rows, the note of the
  home page's approval panel).
- Provider clients, object storage, Docker, Redis, Celery, Postgres, Supabase and the
  library code of TanStack Query are external: only what the code relies on is
  modelled.

## 8. Plan

1. Done: the engine and its queue; the query cache and the pages; their runs; the proofs
   of section 6.
2. `EventStream`: `session_events` ids drawn before commit, the socket's cursor, the limit
   of 200 rows; the abstract specification "every committed event is sent once, in order"
   as PROPERTY, and the condition under which it holds (one writer at a time).
3. The review and memory services under concurrent requests: rendering against
   finalising, editing against embedding, over `JobQueue`.
4. `AuthSessions`: bootstrap, refresh, logout; `Runtimes`: the runtime service in detail.
5. The policy engine and the tool registry as operators against a reference definition.
6. Proofs: that a page over `QueryCache` implements the page whose fetches are atomic.

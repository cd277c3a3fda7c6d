# Labfy Investigation: verification models

Labfy Investigation keeps evidence, entities and relations of an investigation
in a folder with an SQLite base, and works on it with several processes: a C
core with background threads, a command per operation (`tools/local_jobs.c`), a
worker that runs analyses, and a Python server for the browser. The modules here
model the parts where processes, threads, files and two databases meet without
a common transaction, and the transactional services and data access on which
they rest. TLC checks every module on small instances; TLAPS proves the
invariants of most of them (the store, the workers and their supervision, the
background tasks and their users, imports and uploads, migrations, the records
and their publication) for every value of their constants.

Paths are those of the repository, with `src/` in front in PROJECT.json: `core/`
below stands for `src/core/`, `web-graph/` for `prototypes/web-graph/`.

## 1. Inventory

### Modelled

| Component | Code | State | Operations | Met by |
|---|---|---|---|---|
| Job store | `core/local_job_store.c` | `jobs.sqlite`: jobs, attempts, transitions, plans, plan_jobs, controls | enqueue, admit_plan, claim_next_budgeted, finish_budgeted, requeue_interrupted, reconcile_interrupted, request_cancel, set_paused, request_stop, set_stopped | every process of `tools/local_jobs.c`, each with its own connection |
| Worker | `tools/local_jobs.c` `run_worker`, `execute_job` | the flock on `worker.lock`, the attempt in hand, a timer thread, a signal flag | recover, claim, execute, record | the server launches it and signals its process group |
| Publications of analyses | `eml_analysis_persistence_service.c`, `exiftool_persistence_service.c` | a staging file, a derivative file, rows of `Enquete.sqlite` | prepare (with replay), write, rename, commit, undo | the worker only |
| Supervision | `web-graph/workspace_server.py` | `worker`, `worker_supervisor`, `worker_supervisor_stop`, `workspace` | start_worker, stop_worker, _supervise_worker and the handlers that call them | a thread per HTTP request, a supervisor thread, worker processes |
| Library of investigations | `web-graph/web_library.py`, the handlers of the server, `create-workspace` | registry, pending intention, folders with manifests, generation, active investigation | create, adopt, discover, open, close | the browser; a command that outlives a killed server |
| Upload reception | `workspace_server.py`, `evidence_staging.c` | intent.json, staged files, quota, a lock per upload | announce, receive, prepare, confirm, cancel, expire | the browser; the confirming command |
| Evidence import | `evidence_importer.c`, `evidence_copy.c`, `confirm_import` | the copy, the evidence row, intent and receipt of an upload, a file lock | hash, copy, verify, commit, clean up, bind, replay | the desktop task and the command |
| Background tasks | `background_task.c`, `task_manager.c` | state, result and references of a task; the list and the callback registrations of the manager | new, start, return, settle, cancel; add, remove, cancel_all, set_changed_callback | main loop, pool threads, foreign callbacks |
| Tool initialisation | `tool_initializer.c`, `tool_registry.c`, `tool_catalog.c` | the initializer, its task, the registry without a lock | start, check, publish, cancel, free | the task runtime |
| Tool runs | `local_tool_runner.c`, `document_tool_runner.c`, `tool_process.c` | the child, its session, two pipes, a limit of output, a deadline | fork, exec, drain, stop, reap, verdict | analyses of the worker, the tool's descendants |
| Graph loading | `investigation_graph_load_task.c`, `investigation_graph_loader.c`, `investigation_graph_model.c` | the load, its user data, a graph under construction | start, read, deliver, cancel, free | the task runtime; writers of the base |
| Records and their services | `observation_review_service.c`, `relation_service.c`, `relation_type_service.c`, `person_entity_service.c`, `extraction_drop_service.c`, `osint_dns_integration.c`, `eml_integration.c` | the rows of the base, an open transaction per connection | review, propose, integrate, relate, merge types, drop, unlink | commands and tasks, each with a connection |
| Data access | `dao/*_dao.c` of the graph, `models/*_record.c`, `statement.c`, `transaction.c` | rows, open statements, SQLite's locks | one call per reading or writing | the services above |
| Base of an investigation | `database.c`, `schema.c`, `schema_current.sql`, `investigation_project.c`, `investigation_session.c` | folder, base, version stamp | create, open, migrate, open read-only | every process |
| Graph publication | `core_graph_projection_service.c`, `core_graph_snapshot_serializer.c`, `local_correlation_service.c`, `local_planner_service.c`, `local_report_service.c`, `export_core` and `review` of `local_jobs.c` | readings in hand, three published files | read, compose, write and rename, republish after a review | worker, review, import, export and report processes |
| Research campaigns | the research tables of the job store, `campaign` of `local_jobs.c` | plan, decisions, grants, action and campaign rows, artefacts with mark and staging file | admit, grant, revoke, contact, stage, rename, record, reconcile | the server's commands, network adapters |
| Code changes | `web-graph/code_change.py` | a record per change, a worktree, a patch, the repository | propose, approve or reject twice, edit, test, review, apply, compensate, roll back, recover | the developer agent in one tooling thread, people, Git |
| Toolbox of the agent | `web-graph/tool_provisioning.py`, its routes | requests, generations, integrations, the current generation: files without a lock | propose, two gates, build, integrate, activate, roll back, verify at the start | threads of the server, one tooling thread, Podman |

The core was written for a GTK desktop that has since been removed; the
background tasks and their users remain as a library that the tests exercise.
`evidence_importer`, the observation review, the graph projection and both
publications are called by `tools/local_jobs.c`.

Hard behaviour. Several processes on one SQLite file, with operations that are
sometimes one transaction and sometimes autocommit statements; crashes between a
file and the row that names it, in five places (publication of an analysis,
import, campaign, creation of an investigation, migration), and between the
record of a code change and the tree that Git writes; retries by key with
bounded attempts and a time budget shared by the jobs of a plan; cancellation
against completion, in the store, in the tasks and in the tool runs; callbacks
that free or restart what calls them; registries and events of which only single
accesses are locked; children that outlive their parent. PROJECT.json lists
these hazards one by one, each at its line.

What makes each component correct is stated with its properties in section 3.

### Not modelled

| Component | Why |
|---|---|
| Research adapters, privacy egress | network I/O and parsing behind one contact of `ResearchCampaign` |
| Person creation and identity imports | several imports and one transaction under a guard; planned |
| Evidence reclassification | a move of a file and an update of its row, the shape of `EvidenceImport`; planned |
| Reports of the server (`report_bundle.py`) | files of a bundle; planned. The document of a report is in `GraphPublication` |
| Integrity verification, previews | sequential walks over rows and files; their tasks are instances of `TaskRuntime` |
| Bank, identity, OCR, PDF and e-mail parsing | text in, fields out: out of proportion for a model checker |
| Agent gateway, missions, proposals | turns and human decisions; planned last |
| Local model, sandbox, developer agent | child processes, and a model's choice of what to edit; the changes themselves are in `CodeChange` and `ToolProvisioning` |
| `tool_task.c`'s wrapping of a run in a background task | `TaskRuntime` and `ToolRun` cover its two halves; their composition is not checked |
| Other data access objects (extraction, financial, identity, traceability, OSINT, roles) | the pattern of `RecordReads`, for analyses that are not modelled |
| List models, web application, browser, packaging, tests | no state that another actor changes, or no code of the system |

Heartbeats, exports and listings only read or refresh a time stamp.

## 2. Modules

| Module | What it is |
|---|---|
| `LeaseQueue` | abstract specification: a job waits, is leased under a fresh number at most `limit` times, and ends |
| `JobStore` | the tables and their operations; refines `LeaseQueue` |
| `JobWorker` | EXTENDS `JobStore` with worker processes, files and extractions |
| `WorkerSupervisor` | server threads and worker processes, with the store and the worker reduced to what the server observes |
| `TaskRuntime` | tasks, the manager, references and callbacks |
| `ToolInitializer`, `GraphLoad` | EXTEND `TaskRuntime` with its two users |
| `ToolRun` | one run of a tool, in each of the three runners |
| `Records` | the services over the rows of one base |
| `GraphPublication` | the projections and who publishes them |
| `EvidenceImport` | the import of a file, by task or by command |
| `UploadServer` | EXTENDS `EvidenceImport` with the server around it |
| `WebLibrary` | the library of investigations |
| `ResearchCampaign` | grants, campaigns and their artefacts |
| `SchemaMigration` | projects, sessions and the migration of a base |
| `RecordReads` | the data access calls, statement by statement |
| `CodeChange` | controlled changes of the code, with people and Git in the same repository |
| `ToolProvisioning` | the toolbox of the agent behind its two gates |
| `LeaseQueue_proofs`, `JobStore_proofs`, `JobWorker_proofs`, `WorkerSupervisor_proofs`, `TaskRuntime_proofs` (with `ToolInitializer` and `GraphLoad`), `UploadServer_proofs` (with `EvidenceImport`), `Web_proofs` (`SchemaMigration`, `ResearchCampaign`, `CodeChange`, `ToolProvisioning`, `WebLibrary`), `Records_proofs` (with `GraphPublication` and `RecordReads`) | theorems |
| `MCJobStore`, `MCJobWorker`, `MCRecovers`, `MCWorkerSupervisor`, `MCDesktop` (with `SchemaMigration`), `MCRecords` (with `MCReads`), `MCUploadServer`, `MCWeb`, `MCResearch` | instances for TLC |

Two conventions. A definition may have a variant before it, marked `Fault:`: a
plausible slip in the same code that no next-state relation uses, and which
breaks the property it was written for when it takes the definition's place.
And an MC module may hold several modules that share nothing: a variable `scope`,
chosen by the initial state, says which of them a behaviour is about. The
others then stand still, and fairness is asked only where something runs.

### JobStore

What the code runs in one transaction (`admit_plan`, the claim from BEGIN
IMMEDIATE on, `finish_budgeted`, both recoveries) or as one statement is one
action. What it spreads over statements is several: `enqueue` is
`EnqueueLookup` and `EnqueueInsert`, a claim is `ClaimReadControls` and
`ClaimJob`, a cancellation is `CancelRead`, `CancelUpdate`, `CancelLog`, and
`resume` is two statements. `call[c]` is what caller `c` read before; `Abandon`
is its death, or its giving up on a locked file, at that point.

* Identifiers are model values. The time and identifier a claim sorts by are a
  number `order`, which the caller chooses.
* An owner token, a random UUID, is the number of the claim that drew it:
  `EndAttempt` lets any caller present any token ever drawn, so a process that
  comes back late is among the behaviours.
* Milliseconds are counted in units; `Quantum` is what a claim asks for
  (30 000 ms in the worker). Charge and refund are the code's arithmetic.
* `attempt` keeps the rows of `attempts` by rank; `journal` keeps the newest row
  of `transitions`.
* `dep` is modelled because the store offers it; the command line never sets it.
* Left out: heartbeat and `revision`, which no operation reads, and the texts of
  diagnostics.

### JobWorker

`worker[w].step` follows `run_worker`: `off`, `list`, `recover`, `ask`, `claim`,
`start`, `prepare`, `stage`, `rename`, `commit`, `finish`. Recovery is one action
per RUNNING job of the list, with the five outcomes of the code; the
cancellation flags are those of the list, as in the code. `Misread` is the
lookup of an extraction whose error is discarded. `Verdict` keeps the order of
the tests of lines 1377-1381. `Expire` (the budget timer), `Signal` (SIGTERM) and
`Crash` may come between any two steps. `Crash` also stands for a store that
refuses a call after its timeout of one second: the loop ends and the job stays
RUNNING. A staging file or a derivative that cannot be removed after a failure stays
(`Unremoved`, at most `MaxUnremoved`), so `NoLitter` is about behaviours without crash
and without such a removal (`Clean`). The two publications are one set of actions; `IsEml` marks where they
differ. `Damage` is an owner of the workspace who edits a published file, which
is what makes a replay ambiguous.

### WorkerSupervisor

One action per access to `workspace`, `worker`, `worker_supervisor` or the stop
event, because only single accesses are under a lock. Objects nobody refers to
any more are used again, so no run is bounded by their number. `SubmitFails` is
an export that fails between the submission and `start_worker`; `StopKill`
distinguishes a process that runs, one that ended and is not yet waited for,
and one that is gone. `Popen` itself is taken to succeed. The worker of this
module (`Boot`, `Recover`, `Claim`, `Finish`, `Leave`, `Die`) is `JobWorker` without
files, tokens or dependencies. Which waiting jobs a claim takes (`ClaimableIn`) is what the store
decides: one whose cancellation was asked or whose plan has no active time left is
`Refused`, while the supervisor's snapshot counts it as pending. A claim may use the
plan up (`spent`), the end of an attempt may give time back. `Boot` takes the lock
and reads the list with its cancellation flags, each `Recover` acts on those flags
later: a job cancelled meanwhile is queued again and `StaysRefused`. Whether recovery
finds a publication, an attempt left or none is a choice. `held` is
`paused OR stop_requested`.

### TaskRuntime, ToolInitializer, GraphLoad

A task is a reference count, a state, a result and the cancellable; a party that
holds a reference (the creator, the pool thread, the idle source of the
completion, the manager's list, a copy of that list) is counted, and
`CountsAreHolders` compares the count with the parties. Callbacks are
registrations (`slot`) with a count of their own, since the manager calls the
copy it took while another thread may replace it. Between taking a mutex and
releasing it is one step, a callback is always a step outside.
`CancelTask` leaves the mutex before it cancels, so it is two. A completion is
three: `Propagate` tests the cancellable (`background_task.c:238`) and settles what the
task will be, `Settle` writes that state under the mutex (`:263-267`) without testing
again, and the callback is delivered. A cancellation may be granted between the first
and the second. `Final` is the order in which the code decides between cancelled,
failed and succeeded.

Both users have their own tasks, `Boots` and `Loads`, among all the tasks of the
manager. `ToolInitializer` adds the one owner on the main loop and the worker that checks
tool after tool and writes a registry without a lock. Foreign code runs inside
`task_manager_add`'s notification and may cancel or free. `Detected` is any
answer. The initializer's own flag `is_running` is written apart from the state of its
task, and `BootFails` stands for the catalogue that cannot be registered as well as
for the errors of the checks. `GraphLoad` adds three readings (`ReadEntities`, `ReadRelations`,
`ReadPositions`) of a base that anybody may write in between, and an owner that
cancels, frees or restarts a load from inside its callback.

### ToolRun

`caller.kind` says which runner: `local` (`local_tool_runner_run`: fork, session,
non-blocking pipes, poll loop with deadline, SIGTERM, grace, SIGKILL to the
group), `document` (GSubprocess and two draining threads), `process`
(GSubprocess and communicate). The tool forks descendants, which may leave the
session, write, close a pipe or live on. A stream is a count of bytes, a run
keeps `KeptBytes` of it. A process that gets SIGTERM may survive it.

### Records

A service begins a transaction with the write lock, works on a private copy of
the tables statement by statement (`Opens`, `Continues`, `Statement`) and commits.
Entities are known by their normalised value; a link carries the sources it
rests on. `Sound` is what the schema and the services keep among the tables of one
state, `Exact` relates the private copy of the one open transaction to the
committed tables, call by call. Look-ups that the code makes before its transaction (`Conflict` of a
merge, the DNS integration) are steps of their own. A failed COMMIT leaves the
transaction open where the code does not roll it back.

### GraphPublication

A projection is read in as many transactions as the code opens, from a base that
`Import`, `Analyse`, `Reject`, `PromotePiece` and others change between them;
`WriteFile` writes beside and renames. `ExportFails` may strike each of the three
files of an export. `Closure` states what the loop that adds reachable nodes stops
at: the least set that contains its seeds and follows every relation. The layout of
the JSON is left out; what a snapshot names is kept, and each snapshot remembers
the states of the base it saw. A base may hold executions of OSINT tools
(`Executions`, `RanOn`, `Found`) that an earlier release recorded: at this commit one
program writes such rows (`core_graph_specimen.c:207`), so they come with `FirstDbs` and no
action adds one, but the projection still reads them last (`ReadExecutions`) and hangs them
on the entity they were run on. `DetachPiece` is `eml_integration_remove_promotion`, which only
tests call; it does not ask whether an execution was run on the entity. `why` is the state
for which a projection was refused because an edge lacked an end.

### EvidenceImport and UploadServer

A process `p` hashes the source, creates the destination exclusively, copies,
verifies, commits the row, and on a refusal removes what it made. The command of
an upload also takes the file lock, compares intent and receipt with its key,
looks for what an earlier call left, and writes the receipt. `Kill` may come
anywhere; `Alter` changes the staged file or the copy. The server serialises the
operations on one upload by a mutex that dies with it (`RestartServer`): a
command it had started goes on, which is how two confirmations meet.

### WebLibrary

`folder[i]` and `maker[i]` follow `create-workspace` and its undoing; the thread of the handler
holds the registry's file lock, writes the intention, starts the command, waits
with a limit of time, registers, and clears the intention. Adoption compares a
candidate with what it saw at discovery, and draws its key from the same `Keys` as
creations do. Opening checks, exports and then sets
the active root and the active entry in separate steps. `ServerDies` may come
anywhere. A generation is compared with the one the client names.

### ResearchCampaign

A command is a process that reads the grant, takes an action whose wave may
start, contacts the provider once, and publishes in four steps: staging file,
mark, rename, rows. Before a contact it looks for what an earlier process of its
key left. Each of the steps may fail or be the last of the process; clean-up
after a failure is the code's, under names shared by the processes of one key. A
removal may fail in silence: `stuck` marks an artefact whose final file stayed, and a
mark may stay behind.

### SchemaMigration

A session looks for the base, opens it (which creates a file that has gone
since), reads the version, migrates step by step, each script and its stamp in one
transaction, runs the repeatable script of the current schema, and reads the
record of the investigation. `base.steps` is what was applied, `base.version`
what the metadata promise. Creation of a project and its undoing are interleaved
with openings. What a step does to the rows is data, except for the scripts that
are refused when they meet what an earlier run left.

### RecordReads

A call is a program: the checks of its arguments, then statements that look up,
count, list or write. A listing is read row by row, each row must make a valid
record again, and others may commit in between. SQLite's rules are the external
part: a writer is refused while another reads or has a transaction open, and a
listing keeps its statement open until it is finalised.

### CodeChange

One lock serialises the operations, so `service` says which one is under way and
how far it has come: before or after the file, Git's writing, the record. What the files
of a change contain is one value; the patch of a change is the value it
produces, its base the commit it started from. `DiesWriting` is a process killed
while Git writes: the tree is `Torn` or complete. `Mends` is
`_recover_interrupted_states`, before any request is served. An edit counts its
replacements (`MaxReplaced` at most) against the budget `MaxEdits`, which is asked for before
the edit only. `Meddle` and `Commit`
are people in the repository. `TestEnds` chooses recipe and result. Left out: previews,
the budgets of time and of model calls, keys (a replay changes nothing), the
checks of paths and secrets, a save that fails, a second server on the same state.

### ToolProvisioning

A thread reads a request, thinks and writes it back, and each of the files is
written atomically: one step per reading and per writing. `hand[h]` is
what the thread `h` read; `past.lost` are the requests that one thread wrote over
what another had written since. `Accepted` is the check of the files at
the next start, `Opening` its success. The build of an image is one step that may
fail, before its generation is written or after, when the request cannot be written
back. Left out: the revision of the catalogue, the execution of a capability, keys,
development tasks in the one tooling thread. `MarksRequests` is one step.

## 3. Runs

| Run | Instance | States | What it shows |
|---|---|---|---|
| `store` | in turn: a plan of 2 jobs (2 attempts and 1), a claimer, a canceller, 3 units of time against 2 per claim; racing submissions, one dependency, the controls | 448 000 | the inductive invariant (rows, attempts, journal and counters agree); the plan is whole and within budget; closed attempts and ended jobs stay as they are; no analysis active twice; dependency first; the store refines the lease queue |
| `worker` | 2 workers, 2 jobs (e-mail, ExifTool), 1 crash, 1 signal, 1 failed removal (two of the three, `MaxMishaps`), 1 canceller | 3.0 million | the workers' inductive invariant; a worker owns what it runs; COMPLETED means published; no second extraction; no file left except by a crash or a removal that failed |
| `recovers` | in turn: 1 worker killed up to twice, 1 misread, with one job, a canceller and controls; the same with two jobs, of which the second may depend on the first or both may share a plan with active time for two attempts; a tool, one descendant, 2 pipes of which 1 byte is kept and 2 may be written | 438 000 | a job ends unless its plan is spent or what it depends on did not complete, an interrupted one is recovered; a run of a tool ends, has reaped its child, leaves nobody of its session alive and says truly what happened |
| `server` | 2 handlers, 2 investigations with a job each, 2 threads, 4 processes | 1.4 million | never two workers; a running worker is known to `stop_worker` or is about to be |
| `serves` | 1 handler, 2 jobs, one of them in a plan, 1 failure | 1.1 million | what the supervisor saw is served as far as the store hands it out, whatever it refuses beside; a stop that nothing follows ends everything |
| `desktop` | in turn: initializer with 2 tasks, a tool, a listener and a second thread on the manager; 2 loads of 2 entities and a relation; a base of any of 7 ages with 2 sessions and 2 creators | 951 000 | references are exactly those of the holders; a task cancelled before its completion tests for it never shows success; one writer of the registry; a graph never has an edge without its ends, whatever was written between the readings; a load ends; the version of a base never promises what was not applied, no base is locked out, newer ones are untouched |
| `records` | in turn: 2 connections over an e-mail of 2 observations, a droppable file, 2 entities, a relation, 2 types, 4 commits; 2 exporting processes over 2 pieces and 3 states of a base, with recorded executions in two of its three beginnings; 1 + 2 calls of 2 connections | 1.0 million | tables stay sound over refusals, busy commits, crashes and a transaction left open; a service takes only its own and drops whole; a published file is the projection of one state each reading saw, executions included, and a state is refused only for an execution whose entity was removed; a review is published or its failure is answered; calls answer what some state of the base held and leave no statement open |
| `uploads` | 2 uploads that claim one key, 1 import of the desktop, 2 processes, 1 fault, 1 altered file | 324 000 | quotas and locks; row and copy together or neither, except for the copy a kill leaves; a published copy is never repaired behind the back; a confirmed upload is imported |
| `web` | in turn: campaigns (3 actions in 3 waves, 2 grants, 2 keys, 1 fault); creations with adoptions under the same 2 keys, and with openings and closings (2 threads, 2 folders; 1 fault, `MaxTrouble`, and 1 change by others in the former, 2 faults in the latter); 2 changes of the code with 2 recipes, 2 deaths and 1 change by others; 2 requests for one package, 2 adapters, 2 handlers, 1 kill | 1.4 million | no second contact, waves in order, contact only under a grant, artefacts accounted for; registered once, nothing stray, nothing foreign removed, one active investigation; no change is applied without both decisions or twice, what is applied is what was reviewed and tested, a changed tree has a record; no build or activation without its gate, an activation killed anywhere is accepted at the next start |
| `restart`, `replay`, `research` | as `worker`, `uploads`, and 2 processes of one campaign key | | the code departs from its documents, see section 5 |

Bounds. Two jobs are enough for a property that relates two rows, two workers
and two handlers for a race between two, and two attempts for one retry after a
failure; a third of any of these repeats the situation of the second, since no
guard counts callers. `MaxJobs` is reached in `store`, the quota of receptions
and of the staging area in `uploads`, the registry's limit in `web`, the limits
of nodes and of indexed observations in `records`, that of output in
`recovers`. Four processes are needed in `server` so that each handler may hold
an old handle while one process is registered and one is being launched; there only the
job of the first investigation is cancelled (`FirstCancelled`). In
`recovers` a byte is kept and two may be written: the smallest run in which a
stream is cut, and one descendant is the smallest in which the group outlives
the tool. In `desktop` the ages of the base are those at which the chain changes its
form: none, the first, the guarded and looked-up steps, the one a later step
makes repeatable, the current and a newer one. `MaxCrashes`, `MaxSignals`,
`MaxMisreads`, `MaxUnremoved`, `MaxFaults`, `MaxAltered`, `MaxResearchFaults`, `MaxLibFaults`,
`MaxOutside`, `MaxDiscoveries`, `MaxBaseFaults` and `MaxReadFaults` bound how often
the environment interferes; `MaxCommits`, `MaxVersions` and `MaxReadCalls` how
often the base or the repository changes. `MaxDeaths`, `MaxKills`, `MaxMeddling`, `MaxEdits`,
`MaxTests` and `MaxGenerations` bound the two modules about changes: two deaths,
so that a recovery may die as well; two edits and two runs of tests, so that a
passed test may be invalidated. An edit makes one replacement or two (`MaxReplaced`),
so that the last one may pass the budget; the state in which the budget is used up
exactly is left out (`OneDeveloped`). In `web` one of the grants at most is revoked or
expires (`OneEnd`). There the agent works on one change at a time
(`OneDeveloped`), since it has one tooling thread; one handler serves the agent
and both serve decisions (`AgentAlone`), and at most one request is written over
(`MaxLost`).

Two bounds leave behaviour out, because the code breaks there. `Overlap` is
FALSE in `web`: two processes of one campaign key are the run `research`.
`Together` of `SchemaMigration` is FALSE: two sessions that migrate at once are an
observation of section 5. `Together` of `GraphPublication` names the pairs of
exporters that are at work at once, four of the possible ones, all from the first
beginning of the base, one or two from the others (`MCMeet`).

Symmetry is used in runs without liveness properties (`worker`, `server`,
`records`, `web`), over workers, threads, processes, connections and
identifiers that the code does not order. The two keys of the library are alike as
well: `KeysInOrder` has the second come into use where the first is in use.

Deadlock is checked in `store`, `worker`, `server` and `serves`. The others have an end by
nature: a run, a load, a campaign or a call is over, an upload is imported, and
the bounded environment has nothing left to do.

Fairness.

* `JobWorker!Fairness`: a process that runs keeps running, and when no worker
  holds the lock somebody starts one. The latter is what the server or a user
  who types `run` does; `WorkerSupervisor` examines whether the server does.
* `WorkerSupervisor!Fairness`: threads and processes that can go on do.
* `RunFairness`: the caller, its draining threads, the child between fork and
  exec, and the clock. The tool and its descendants are not fair: they may write
  nothing, never end and survive a SIGTERM.
* `GraphFairness`: the worker of a load and the main loop. Delivery is strongly
  fair, since the loop delivers other completions in between and takes its
  sources in order.
* `UploadFairness`: a confirming process and the handler waiting for it go on,
  the file lock is granted in the end, and the client asks again. The last is what
  the documents promise something for: a retry with the same key.

No request, cancellation, crash or signal is fair: nobody has to send one. Weak
fairness is enough wherever a step stays possible until its process takes it.

Limits of the liveness properties. `EveryJobEnds` is about a job without dependency or
with a completed one, since a claim waits for it (`local_job_store.c:882`) and a job behind
one that failed waits for ever; the command line sets no dependency. It
excludes, in its conclusion, a held queue, a job whose cancellation was asked while it
ran, one whose attempts are used up by crashes (see `restart`), and one whose plan has no
active time left while nobody works on the plan (`PlanSpent`, `:883-884`): no claim
takes it and nothing is given back. Interrupted attempts use a plan up, so this
happens in the run. `SeenIsServed` does not promise the jobs that the store refuses for good
(`StaysRefused`), only that they keep no other job waiting; it excludes failures
(`faults > 0`) and a change of investigation. `ConfirmedEnds` excludes altered
files, a key that belongs to another upload and a copy a kill left behind (see
`replay`). `RunBounded` excludes, for the bounded runner, a descendant that has left
the session and holds a pipe, which its document excludes as well; the other two
runners have no limit of time and promise an end only after a cancellation.

## 4. Proofs

Every theorem holds for any values of the constants its module declares (sets of
jobs, workers, callers, tasks, uploads, sessions, connections, and every bound),
from the assumptions those modules state: bounds are naturals, inputs have the shape
the code checks, `None` is a value of its own, and the sets whose members are counted
(tasks, callers, tools, evidence) are finite. The properties are seldom inductive
alone; what they need besides is named below. Each proof has one lemma per action, or
per family of actions, and one step per conjunct the action can disturb.

**Job store.** That the token of a row is that of its
latest attempt (`OneLiveAttempt`) needs that no rank above `attempt_count` was
ever written (`RanksInOrder`), or a claim could meet an old row. That tokens are
unique needs that none above `minted` was drawn (`TokensDrawn`). The budget bound
needs that a linked job's plan is admitted and that a plan not yet admitted has
spent nothing (`PlansKnown`). `JournalAgrees` needs that a caller about to write a
cancellation's journal row has set the flag before (`CallsConsistent`), and
`DependencyFirst` that COMPLETED is left by no action. The units of a plan
(`BudgetLedger`) are counted as the members of one set of pairs, an attempt and a
unit, so that a claim, an end and a refund add or remove known members and the
theorems on cardinality apply where a sum would need induction. `PlanWhole` needs
that a plan's jobs are linked in its admission alone. `StoreIsLeaseQueue` maps every
action to a step of `LeaseQueue` or to a stutter.

**Workers.** `TypeOK` carries the argument: whoever is not `off` holds the lock, hence is
alone, so a step of one worker is compared with workers that do nothing. Each property
then needs its own company. `WorkerOwnsItsJob` needs that the token in hand was drawn
(`TokenDrawn`), `CompletedIsPublished` that `ok` is only reported over a committed
extraction (`OkIsPublished`), `NoSecondExtraction` that a committed job has a row
(`PublishedExists`), or a submission could make it wait again, and
`LeftoversExhausted` that recovery is done with whatever it has taken off its list
(`SettledSoFar`). Actions are proved in four families, by what they touch: the
worker's own row (`LocalStep`), files (`FileStep`), one job of the store
(`RowStep`), and the rows others may change (`OthersKeepRows`). `StepOfStore` shows that
every step is an operation of the store or leaves it alone, hence `WorkerIsStore`:
the theorems about the store hold of the running workers.

**Supervision.** `OneKnownWorker` follows from `OneSupervisor`: the thread that
`start_worker` looks at is the only one alive, a process runs only while its
thread registers it or waits for it, and a thread that waits has registered it.

**Tasks and their users.** `CountsAreHolders` equates each count with the parties that
hold the task: the creator, the list, the pool thread, the idle source, and each caller
with a copy of the list. Every action changes these sets by one member, or by the
snapshot of one caller, so the cardinality theorems give the arithmetic.
The states of a task and of its GTask are related by `StatesAgree`, results by
`ResultsOwned`. `CancelWins` is about a cancellation asked before the completion tests
for it: while the task runs, its GTask has no verdict but a cancelled one (`CancelledEnd`,
one case per action in `CancelledStep`), and the write that follows keeps it. Between test
and write nothing can be promised, see section 5. For the initializer, the order of
`Start` (`StartInOrder`) is what makes the worker the one writer of the registry
(`OneBootstrap`), and the summary is compared with the registry part by part. For a
load, the data of a start are destroyed once, after its callback or instead of it, and the
graph under construction is closed at each of the three readings whatever the base
says by then. `InitializerUsesTasks` maps each step to one of `TaskRuntime`.

**Imports and uploads.** `BoundToKey` says why `DurableBeforeEffect` holds: the mutex of an
upload covers its reception and its command, and a command that goes on alone after
the server died still works under the key its upload is bound to. `OneCopier` needs
the file lock and `ProcsBound`. `AllOrNothing` is inductive over these with `CopyOfSource`: who
copies has no row yet, and a copy about to be recorded is what was hashed.

**Migrations.** What holds however many sessions migrate at once is `BaseIInv`: a
session past its reading has behind it every migration it counts as done
(`SessionBacked`), and the call that made the folder has it to itself (`CreatorHolds`). With
`Together` FALSE, `OneMigrates` adds that the version a session read is the one the base
still has, and from that come `VersionKept`, `NeverStuck` and `OpenedCurrent`.

**Campaigns.** However many processes run one campaign key at once, `ContactIInv` holds:
`ContactedOnce` because one process at most is the first of its key, and what it has
contacted is recorded or in its hands (`FirstContacts`); `WavesInOrder` because a result,
once recorded, stays; `ContactGranted` because what a process was denied at its start
is not on its list when it reaches a contact. `DeniedStays` adds that a revocation, a
refusal, an expiry or an excluded subject is never taken back (a deferral may be, by a
later consent, and is not counted). What is published needs more: `ResearchIInv` assumes
`~Overlap`, the processes of one key following each other, and then the files of an
action are as far as its process is (`FilesInHand`), whence every recorded result has
its artefact and every artefact its result or its mark, save one that could not be
removed (`stuck`). Without the assumption the run
`research` shows `ResultBacked` violated, so it cannot be dropped.

**Changes of the code.** The operation under way finds its record as it left it
(`Underway`), because the lock is held from the reading to the last writing and only a
death ends it early. As long as people commit what is there and edit nothing
(`meddled = 0`), one change at most is APPLYING, and `TreeInHand` says what the tree is
meanwhile: what Git wrote stays until the operation, or the next start, takes it back.
Whatever the tree differs in from the last commit is then explained by one record
(`Explains`). That tests are those of the worktree (`Standing`) holds while no death fell
between an edit and its record.

**The toolbox.** Requests may be written over by a thread that read them earlier, so what
is proved rests on what a copy says of itself: it names its own image and, from the
proposal on, an adapter (`Sound`), and where its holder is tells its state and which
decision came before (`HandsSound`). What left quarantine stays out of it (`Released`), hence
current generations, parents and what is rolled back were all approved. The number of a
build is above every number taken until it is used (`TaskSound`). That the next start
accepts the files needs that nothing was written over: an adapter once named then stays
(`OriginNamed`).

**The library.** Two locks are held at certain places of a request and only there
(`LocksHeld`), so what a request learned under one still holds when it acts
(`RequestsSound`): between the reading of the registry and the new entry, neither key,
folder nor identifier is registered (`Unregistered`), and the intention on disk is the
creation's own. Creations and adoptions draw on one set of keys, so what is registered under the key
of an intention is the intention's own folder or an existing one that was adopted
with it (`NoStrayFolder`), and no more than that is claimed. A command that still runs in a folder while the server lives is one a
thread waits for, hence in no registered folder (`RegisteredIsThere`); after a death this
is no longer so, and only the existence of the folder is kept. The root and the active
investigation differ only under the lifecycle lock (`ActiveIsRoot`). The assumptions are
that an identifier drawn for a folder is in no database (the folder's database draws one
of its own, `tools/local_jobs.c:389`), and that no value of a record is the sign for
"none".

**Records.** `RecordsIInv` is the soundness of the committed tables and of the private
copy of the open transaction, of which there is one (the write lock), with `Exact`,
which says what each call has changed so far. The journal of observations is finite and its numbers have no gap,
which is carried as an equality of sets. A statement is proved to keep the tables
sound, and to add no more than its call may (`ServicesExact`), whichever service it is
part of. **Publication.** `PubIInv` holds what each process has in
hand against the state of the base its reading began with (`ReadsOneState`,
`GathersOneState`), a refusal included: it is owed to an execution in that state whose entity is no
longer there (`RefusedForOrphan`). States of the base are anchored, that is, closed under what foreign keys
keep (`StatesAnchored`); the entity an execution was run on is not among it. Hence `PublishedWhole`. `ReviewRefreshed` needs that the files a
review still has to write and those it has written are three (`ReviewCounts`).

| Theorem | Says |
|---|---|
| `StoreInvariant`, `StoreTyped` | the invariant of the store, type correctness included |
| `LeaseExclusive` | one live attempt per RUNNING job, tokens unique |
| `PlanWithinBudget` | attempts and active time of a plan stay within its admission |
| `BudgetAddsUp` | what a plan has used is what its attempts were charged or still reserve |
| `PlanAdmittedWhole` | a plan is there with all its jobs or not at all |
| `QueueOrder` | no analysis active twice, dependency first |
| `JournalTrue` | the journal names the state where no cancellation was asked |
| `ClosedStayClosed`, `EndedStayEnded` | the two action properties |
| `StoreIsLeaseQueue` | `JobStore` implements `LeaseQueue` |
| `LeaseQueueSafe` | what `LeaseQueue` promises |
| `WorkerInvariant`, `WorkerIsStore` | the invariant of the workers; `JobWorker` implements `JobStore` |
| `WorkerKeepsItsJob` | one worker at a time, which owns what it executes |
| `CompletedMeansPublished` | COMPLETED only over a committed extraction |
| `PublishedOnce` | no second extraction of a committed job |
| `RecoveryIsComplete` | what recovery leaves RUNNING had no attempt left |
| `FailuresCleanUp` | only a crash or a removal that failed leaves a file without an extraction |
| `WorkerKnown`, `OneWorker` | one supervisor thread, one worker, which `stop_worker` can find |
| `CountedByHolders` | references, registrations, results and states of any number of tasks |
| `CancellationWins` | a task cancelled before its completion tests for it never shows success |
| `InitializerSound`, `InitializerUsesTasks` | one writer of the registry, a summary that agrees with it; the initializer implements `TaskRuntime` |
| `LoadSound` | one task per load, data destroyed once, graphs closed |
| `UploadsConsistent`, `KeyBeforeEffect` | quotas, locks, keys and receipts before effects |
| `ImportAllOrNothing` | row and copy together or neither, short of a kill |
| `ReplayRepairsNothing` | a row and its original are not written again |
| `BaseBacked` | the version is backed by migrations made, over any number of sessions |
| `OldBasesReachCurrent` | one after the other, sessions bring any base to the current version |
| `ContactsAllowed` | one contact per action, in the order of the waves, under a grant, over any number of processes |
| `CampaignsSound` | the processes of a key following each other, results, artefacts and marks agree, save an artefact that could not be removed |
| `ChangesControlled` | one change at a time, applied after both decisions and once, every changed tree with its record |
| `ToolboxGuarded` | nothing enters the toolbox without both decisions, over any handlers, adapters and kills |
| `LibrarySound` | registry, intention, folders, manifests and active investigation agree, over any threads, crashes and outside changes, creations and adoptions sharing their keys |
| `TablesSound`, `CallsExact` | tables agree; a call changes what it is for |
| `PublicationSound`, `FilesWhole` | a published file is that of one committed state, executions included; a state is refused only for an execution whose entity was removed |
| `ReviewsPublished` | a review answered as published has written its three files |
| `ReadsSound` | an answer of the data access objects was true of one state, over any connections, rows and calls |

Every invariant and action property of the passing runs is thus a theorem. Only
model-checked: the verdicts of a tool's run, which are part of the liveness property
`RunBounded`; and all liveness (`EveryJobEnds`, `InterruptedRecovered`, `RunBounded`,
`SeenIsServed`, `StopSettles`, `LoadEnds`, `ConfirmedEnds`), which the prover does not
reach.

## 5. Where the code departs from its documents

Shown by a run:

* `restart`: a job interrupted in its last attempt is refused by the requeue, the
  refusal is ignored, and it stays RUNNING.
* `replay`: a confirmation killed between the copy and the commit leaves the file
  under the one name every retry of its key wants to create exclusively; the
  upload stays CONFIRMING for ever.
* `research`: two processes of one campaign key share the final name of the
  artefact; the one whose record fails removes the file the other has recorded.

Seen while modelling, by way of a property that failed, and kept as definitions
that no run checks, each with its comment:

* `JobWorker!CancelEndsWaiting`: a cancellation that arrives after recovery made
  its list leaves the job QUEUED with `cancel_requested`, which no claim takes.
* `JobWorker!OrphanIsReported`: a crash between rename and commit ends in FAILED, not
  RECOVERY_REQUIRED.
* `WorkerSupervisor!SubmittedRuns`: a job submitted after the supervisor's last look
  is not run until the next request. `CancelReconciles`: after a cancellation killed
  the worker, the supervisor is usually still alive, so it is not started anew, and
  it obeys the stop event. `StopEndsWork`: a worker between its launch and its
  registration survives a stop.
* `WorkerSupervisor!SupervisorRests`: the supervisor counts every QUEUED or RETRY_WAIT
  job as pending (`workspace_server.py:1470`), the store hands out none that is cancelled,
  over its plan or behind a dependency (`local_job_store.c:880-884`), nor any while the
  queue is paused. Where only such jobs wait it launches worker after worker, until a stop.
* `TaskRuntime!CancelAlwaysWins`: a cancellation that another thread is granted between the
  test of the cancellable (`background_task.c:238`) and the write of the state (`:263`) is
  lost: the task ends COMPLETED, or FAILED.
* `GraphPublication!NoneRefused`: the removal of a promotion does not count executions
  (`eml_integration.c:226-238`), and what an execution was run on has no foreign key
  (`schema_v3.sql:13-14`). Once such an entity is removed, every projection, of the graph and of a
  report, is refused for an edge without an end
  (`core_graph_projection_service.c:598-611`).
* `WebLibrary!IntentionFree`: creations and adoptions share their keys
  (`web_library.py:365`, `:518`). An existing folder adopted with the key of an interrupted creation
  makes that creation refused for good (`:367`), and every other one with it (`:377`).
* `WebLibrary!CreationResumes`: `create-workspace` refuses the folder an interrupted
  one left (`tools/local_jobs.c:358`), so the intention stays and blocks further
  creations; `WEB_WORKSPACE_CONTROL.md:61-63` says the same key resumes.
* `CodeChange!EvidenceCurrent`: a death between an edited file and its record leaves
  the results of the tests for contents that no longer exist, where
  `code_change.py:564` says every mutation invalidates them. `EditingGoesOn`: a
  preparation that a death interrupts comes back as EDITING without `started_at`, and
  every operation that checks the budget fails (`:415`). `AppliedIsThere`: a rollback
  killed between Git and the record leaves APPLIED_LOCAL over a tree without the
  change, which no rollback can end.
* `ToolProvisioning!OriginFound`: a refused or waiting request still names its adapter;
  once another activates the same adapter, the next start may compare the
  integration with the wrong request (`tool_provisioning.py:897`) and refuse the
  toolbox. `ReturnsToActive`: a generation built before its parent was rolled back
  returns to it. `RefusedStaysInactive`: of two simultaneous decisions the later
  writing wins, whatever was done for the other. `BuildingIsBuilt`: an approval is
  saved before the tooling thread is found busy, or the server dies, and nothing
  builds the request any more.
* `ToolRun!SignalsItsOwn`: when the child has been waited for, its group is empty and a
  pipe is not drained yet, a stop sends SIGTERM to a number that is nobody's any
  more (`local_tool_runner.c:155`).

Seen while reading, not stated as properties:

* Job store. The table may pass LOCAL_JOB_STORE_MAX_JOBS, since rows are counted
  before the INSERT and outside a transaction. A claim may follow a pause, since
  the controls are read before its transaction (`:864`). The second of two
  simultaneous identical submissions is refused instead of finding the job. A
  diagnostic of more than 2048 bytes (`:40`) makes the UPDATE of the end fail. A job
  whose dependency failed stays QUEUED (`:881`). A job may be BLOCKED although its result
  was published, when the timer fires after the commit. Whether a job was
  running is read apart from its cancellation (`tools/local_jobs.c:2198`). Nobody
  restarts a worker that died over the only job (`workspace_server.py:1470`).
* Tool runs. The limit of output replaces an earlier CANCELLED or TIMEOUT as the
  reason (`local_tool_runner.c:287-295`). A stop before `setsid` reaches the child
  alone, whose handlers are still the caller's, so a tool that ends at once leaves
  its descendants. The other two runners have no limit of time: a descendant that
  holds a pipe blocks them until they are cancelled.
* Imports. Prepared uploads never expire, though the comment of
  `workspace_server.py:2684` counts on it. A desktop import may be cancelled between
  its commit and its completion and then shows a cancelled task over an imported
  evidence (`evidence_import_task.c:402`).
* Library. The `library_generation` the server tells may be overwritten by an older one (`workspace_server.py:1159`).
* Records. The e-mail pivot adds the source of an observation before it promotes
  it, and a promotion that matches no row is not noticed
  (`evidence_entity_dao.c:1309-1312`, `eml_integration.c:180-184`): the source of an
  observation that was promoted to another entity stays when that promotion is
  withdrawn, where `CONVENTIONS.md:665-666` has one source per promotion. A drop whose COMMIT
  fails keeps its transaction, against `CONVENTIONS.md:338-352`.
* Publication. The planner lists evidence and extractions with one SELECT each
  (`local_planner_service.c:53-54`), where `LOCAL_PLANNER_ASSISTED.md:63` speaks of one
  snapshot of the base. The check for a stale snapshot
  compares a snapshot with itself and detects nothing
  (`core_graph_snapshot_serializer.c:247`, `local_jobs.c:1812`). An older export may
  overwrite a newer one (`local_jobs.c:429`, `:1676`, `workspace_server.py:1273`). A
  report may be rendered into the workspace opened meanwhile
  (`workspace_server.py:1511`), and one that fails there stays GENERATING (`:1518`).
* Research. A replay may answer OK although nothing was done, when every action
  had been taken by a process that died. Removals of the artefact and of its mark are not
  checked (`local_jobs.c:2022`, `:2038-2043`, `:2132-2135`), so a failed one leaves a file
  without a result.
* Base. Two sessions that migrate at once may lower the version, each stamping
  what it read (`database.c:1269`, `:1290`). Read-only opening accepts version 20
  although the repeatable script may not have run (`:1220` against `:1402`). A moved
  folder is migrated before its wrong root is refused
  (`investigation_session.c:195` against `:286`). `database_open` creates a base that was
  removed after the look-up (`:162`, `:178`).
* Data access. A search by hash that fails looks like one that finds nothing
  (`evidence_dao.c:1588`); two updates do not check that a row changed (`:1339`,
  `relation_dao.c:1435`); one unreadable row fails every list (`evidence_dao.c:1692`);
  link and source are two statements outside a transaction
  (`evidence_entity_dao.c:899`).
* Code changes. The budget of edits is asked for before an edit and charged with its
  replacements after (`code_change.py:514`, `:561`), so the last edit may pass it. A recipe that cannot be started leaves TESTING until a restart
  (`code_change.py:617`). Compensation does not look at HEAD, so a commit made during the
  tests is taken back in the tree (`:857`); a reversal that Git refuses after
  its check leaves APPLYING (`:861`).

Hazards of parts that are not modelled, for later work: an orphaned source of an
e-mail (`eml_integration.c:180`), a crash during reclassification
(`evidence_reclassification.c:82`), files left by a failed creation of a person
(`person_creation_coordinator.c:422`), and a revocation between the decision and the
contact (`local_jobs.c:2088`, which `ContactGranted` permits as the code does).

## 6. Plan

1. Done: `LeaseQueue`, `JobStore`, `JobWorker`, `WorkerSupervisor`; invariants and
   refinements proved.
2. Done: imports and uploads, background tasks with their two users, tool runs,
   the library, research campaigns, records, publication, migrations, data access,
   code changes and the toolbox, all model-checked.
3. Done: the invariants of supervision, tasks and their users, imports, uploads,
   migrations, campaigns, records, publication, data access, code changes, the
   toolbox and the library proved.
4. Prove: the verdicts of `ToolRun`, once stated apart from its liveness.
5. Extend, where it pays: person creation and reclassification on top of
   `EvidenceImport`; the report bundle; the agent gateway.

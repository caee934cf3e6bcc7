# A TLA+ model of rupu

rupu runs agents: single runs, workflows of steps with approval gates, and
fleets of agents that share a message space. Most of what can go wrong in it is
not in one process. A workflow run is a directory of files that a runner, the
operator's commands, the web control plane and the loops of `rupu cp serve` all
change, each from a process of its own that may die at any point. Inside the
runner a scheduler decides which steps may run; agents wait for slots of one
process-wide ceiling; runs claim work, write to one another and record their
children in files that several processes share without a server between them;
and ticking processes turn events of a repository into runs. This project models
these parts in TLA+, checks them with TLC on small instances and proves their
main safety properties with TLAPS.

## Inventory

| component | state | operations | what is hard | what makes it correct |
|---|---|---|---|---|
| **Run lifecycle and gate ledger** (`rupu-orchestrator/src/runs.rs`, `runner.rs`; `rupu-cli` `workflow.rs`, `resume.rs`, `cp.rs`; `rupu-cp/src/api/runs.rs`) | `run.json` (status, parked gates, recorded decisions, runner pid, resume marker, claim), `step_results.jsonl`, `.pause`; in memory, each runner's gate book | approve, reject, expire, finish, claim, cancel, pause, resume, retry, reap; the resume worker and the gate sweep | some ten kinds of process, every one read-act-write; crashes between a record and its effect; leases; deadlines | one runner at a time; a gate parked or decided, never both; decisions neither lost nor applied twice; cancel final; nothing waits for ever |
| **DAG scheduler** (`runner.rs`, `run_scheduler_scoped`; `workflow.rs`) | ready set, tasks in flight, in-degrees, join arrivals, skip and prune sets, parked gates; rebuilt from `step_results.jsonl` by every process | dispatch, finish, fire joins and abort their losers, prune, park, poll decisions, pause, stop, resume | joins whose inbound paths die; losers aborted in flight; a stop, pause or crash anywhere, and resume from partial results | nothing starts before what it depends on; no node is lost; a join cuts off nothing others wait for; only dead paths are pruned; the run ends |
| **Reject cleanup** (`runs.rs`, `cp.rs`) | cleanup markers on the record | mark, list, run the chain, clear | crash between rejection and chain | every chain runs |
| **Admission** (`rupu-runtime/src/admission.rs`, `rupu-launch/src/launcher.rs`) | the ceiling's semaphore, a lend per run, a parent's child slots | acquire, acquire_run, drop; launch, dispatch, join, stop, abort | parents that wait for children, permits that drop before the children do | no deadlock; no permit lost or made; a lend only from who holds a slot |
| **Fleet messages and board** (`rupu-fleet`) | message log, roster, inboxes, broadcast log and cursors; claim files and their journal | join, leave, send, broadcast, collect; claim, reap, release | lock-free readers, leases, renames under an open file, a crash between two files | nothing delivered is lost or given twice; a reply reaches the run it was for; one lease at a time |
| **Launcher and children ledger** (`rupu-launch`) | `children.jsonl`, live children | launch, settle, claim, continue, reap, stop | a crashed parent's child continued twice | one continuation; an end is recorded once; no child runs unrecorded |
| **Autoflow claims and wakes** (`autoflow_claim_store.rs`, `wake.rs`, the event connectors, `rupu-cli` `autoflow.rs`, `autoflow_runtime.rs`) | claim and lock file per issue; poll cursors, dedupe markers, wake queue | tick, acquire, reap, release, cycle; poll, enqueue, mark processed | snapshots saved over newer records, expiry read and removal in two steps, two pollers on one cursor | one cycle per issue; an issue that is due is taken up; no event lost or doubled |
| **Agentiflow driver** (`rupu-agentiflow`) | `agentiflow.json`, budget, steering queue | rounds, stop, reap | coordinator death, hard stop | the record ends; units are wound down |
| **Node tunnel and mirror** (`rupu-cp/src/node`) | connections, mirrored runs | frames, finish, reconnect | late frames after a finish | what the node wrote is what is shown |
| **Bucket dead-drop** (`rupu-cp/src/host/bucket`) | objects, consumed keys | put, poll, finish | listing against marker | no result is missed |
| **Credential refresh** (`rupu-auth`, `credential_writes.rs`) | stored tokens, pending writes | refresh, persist, drain | rotation against exit | the last rotated token is the stored one |

The remaining crates (agent loop, providers, tools, coverage, network capture,
parsers, SCM, configuration, update, the web and macOS clients) are sequential
code, I/O or presentation; `PROJECT.json` lists them with the reason each is
left out.

## The run lifecycle: `RunRecord`, `RunLifecycle`

`RunRecord` is `run.json` without variables: the record type and, as operators
of the record, what the methods of `RunStore` make of it under the run lock
(`RecordDecision` is `record_gate_decision`, `ExpireGate`
`expire_gate_if_overdue_locked`, `ApplyEnd` `RunEnd::apply`, and so on).
`RunLifecycle` puts the processes around it. One action is one hold of the run
lock, or what a process does between two looks at the shared files, so TLC
interleaves exactly where the code can be interleaved.

| variable | code |
|---|---|
| `rec` | `run.json` |
| `proc[p]` | a `rupu workflow run`, `approve`, `reject` or `resume` process: where it is on its way to becoming the runner (`pc`), the results it read (`view`), its `GateBook` (`pending`, `applied`), the gates it has parked, its pause token and a received SIGTERM |
| `spawner` | the resume worker and the gate sweep of `rupu cp serve`, between claim, spawn and give-back |
| `pauseMark`, `pausing` | the file `.pause`; a pause request between the record and the file |
| `history` | the gate rows of `step_results.jsonl` |
| `clock` | the time stamps of decisions, as an order |
| `budget` | what is left of the bounds of a run of TLC |
| `taken` | history variable: a resume took the run from a process still executing it |

| actions | code |
|---|---|
| `SeePause`, `Park`, `Apply`, `Poll`, `Finish` | the runner: pause-marker poller, gate nodes of the scheduler, decision poll, `finish_runner` |
| `Panic`, `Crash`, `CpCrash` | a panic caught around `run_workflow`, a process killed, `cp serve` killed |
| `ReadResults`, `Claim` | `resume_decided`, then `claim_runner` and the gate book of the claimed run |
| `ResumeToDecided`, `ResumeLoad`, `Flip` | `workflow resume`: load and guards, then the flip under `modify_if_status` |
| `ApproveStep`, `OperatorApprove`, `OperatorReject`, `OperatorResume`, `Cancel`, `Pause`, `SetPauseMarker` | operator commands |
| `WebApprove`, `WebReject`, `WebResume`, `WebRetry` | control-plane requests: record, and ask for a runner |
| `WorkerClaim`, `WorkerSpawn`, `WorkerSpawnNothing`, `GiveBack`, `LeaseExpire` | the resume worker and the resume lease |
| `Overdue`, `SweepExpire`, `SweepHandOff`, `SweepClaim`, `SweepSpawn`, `SweepSpawnFails`, `SweepReap`, `Rerequest` | the gate sweep |

Abstractions, each chosen so that no behaviour of the code about gates and
ownership is lost:

- The scheduler is reduced to what the record sees of it: at any moment it may
  reach an undecided gate and park it, apply a decision it holds, or end its
  pass in any way its pause token and parked gates allow. A failure may end a
  pass at any time. Inline `approval:` steps are treated as gate nodes.
- Time is an order. A decision's `decided_at` is a counter; a deadline passes
  when it passes (`Overdue`), at any moment after the gate is parked.
- A resume marker is told from a later one by its `resume_requested_at` in the
  code; here by the set of spawners that have read the current one (`readers`).
- The five-minute resume lease runs out at any time no spawner is between its
  claim and its give-back: a spawn takes far less. The delay after which a
  stranded decision is asked for again is dropped the same way.
- Listing and claiming by the worker are one step; its reload before the spawn
  is a step of its own, as it is in the code.
- A pid is not given to a new process while the record names it.
- The compat fields `awaiting_step_id` and its kin are read as `awaiting`, which
  `sync_awaiting_compat` keeps equal.

Not modelled: runs owned by a remote host, which these loops skip; the fallback
to an unlocked write after two seconds of waiting for the run lock; `on_reject`
chains and their cleanup markers; notify hooks, seeds, checkpoints, transcripts.

### Runs

Both runs have two processes, and one or two gates, each with a given
`on_timeout`. The bounds count how often gates are parked, operators and web
requests act, pauses, cancels and crashes happen; they are guards on the
environment's actions only, so they cut a behaviour short and never change a
step. Processes are symmetric; symmetry is off in the liveness run. The runs
switch deadlock checking off because a finished run is a legitimate end.

| run | instance | shows |
|---|---|---|
| `control` | one gate in a loop, `fail` timeout; 2 parks, 2 operators, a web request, a pause, a cancel | `TypeOK`, `ParkedXorDecided`, `OneRunner`, `DeadlineKept`, `CancelledKept`, `DecisionKept` |
| `served` | two gates, one with an `approve` timeout; 2 parks, 2 crashes; fair scheduling | `DecisionServed`, `TimeoutServed` |

Two processes are enough for a runner and a challenger, which is every race on
the record: a third one would have to lose to the record the same way. Two gates
give a parked sibling while the other is decided. Two parks let a gate in a loop
be parked again after a decision, which is what `DecisionKept` needs.
`LegacyRejectsFinalize`, of runs with `PathScoped = FALSE`, is proved and has no
run.

Fairness (`served`): a process that can take a step takes one, and the loops of
`cp serve` poll for ever, which is what an operating system and a service do.
The sweep's hand-off and its claim need strong fairness, since another spawner's
claim can disable them again and again; the code retries on each tick for the
same reason. People, faults and pauses are not assumed to do anything.

### What the source says and the processes do not keep

The module states four properties that the code's comments suggest and that TLC
refutes. No run is kept for them; each comes back by naming the property in a
`.cfg` for `MCRunLifecycle` with `Proc <- TwoProcs`, `LoopGate <- NoGate`,
`PathScoped = TRUE` and the constants given here.

- `TerminalKept` (`Gate <- TwoGates`, `OnTimeout <- FailFirst`, `Budget <-
  OneWeb`): `runs.rs:2846` says a `fail` timeout "fails
  the WHOLE run immediately". The run is failed while a runner executes the path
  of an approved sibling, and that runner's end overwrites it: `finish_runner`
  (`runs.rs:2155`) respects a `Cancelled` only.
- `NoApprovalByMarker` (`OneGate`, `NoTimeout`, `WebAndPause`): a web resume of a
  run that is `Paused` on disk while its runner has not seen the pause yet leaves
  a marker; the runner parks at a gate, and the resume worker
  (`cp.rs:1441`) approves that gate.
- `NeverTaken` (`OneGate`, `NoTimeout`, `ResumeAndPause`): a resume compares the
  status alone when it flips the run (`runs.rs:2004`, `workflow.rs:3635`), and a
  process that claimed the run without changing its status is not seen.
- `ResolvedStaysResolved` (`TwoGates`, `NoTimeout`, `TwoOperatorsRepark`): the
  step results are read (`resume.rs:104`) before the run is claimed, and a gate
  another runner has resolved in between is parked again.

The same model shows: after a `fail` timeout the terminal record keeps the pid of
a live runner; a runner that ends `Failed` leaves parked gates on the record; a
runner's end overwrites `Paused` with a terminal status when it comes before the
pause is seen; a cancelled run can be resumed while the SIGTERM handler of its
process is still draining.

### Proofs

`RunLifecycleProofs` begins with the lemmas about the record operators: each
keeps the record's type, and each is an instance of `Evolves`, the few ways in
which the parked set, the deadlines and the decisions can change. The proofs use
them, one step per action, for every number of processes and gates and every
budget:

- `TypeCorrect`: `Spec => []TypeOK`.
- `ParkedXorDecidedHolds`, `LegacyRejectsFinalizeHolds`: inductive as they
  stand, given types, since every operator moves a gate from the parked set to
  the decisions and never leaves it in both.
- `DeadlineKeptHolds`: an action property, from the type invariant and
  `Evolves`.
- `CancelledKeptHolds`: every write but the flip looks at the status first.
- `OneRunnerHolds`: not inductive. `RunnerInv` adds what ties the processes to
  the record: while no take-over happened, an executing process is the one
  `runner_pid` names, or the run was cancelled under it; the proof splits
  the steps into those that touch neither pids nor executing processes
  (`StepCalm`), the hand-over of the run (`Handover`) and the steps after which
  nobody executes it (`NobodyExecutes`).
- `DecisionKeptHolds`: `finish_runner` drops the decisions whose gate and time
  stamp are among those the runner applied, and a gate in a loop is decided more
  than once. `KInv` says that a time stamp stands for one decision wherever it is
  known, on the record, in the history or in a runner's books (`Stamped`), and that
  what a runner has applied, or retired when it claimed the run, has a row
  (`Booked`). A step makes at most one decision, with the next time stamp, and
  passes the others on (`Passes`): the approval a process keeps in memory gets a
  time stamp of its own in `Claim`, and this is the one decision that is on no
  record.

They rest on the assumptions on the constants only (`RunRecordAssumption`,
`RunLifecycleAssumption`). Liveness stays with TLC: it depends on fairness and on
`ENABLED`, outside what TLAPS can do here.

## The scheduler: `WorkflowGraph`, `Dataflow`, `Scheduler`

A workflow with splits, joins or real branches is a graph, and
`run_scheduler_scoped` runs it: it drains the ready nodes in the order of the
`steps:` list, resolves gates, branches, splits and skips on the spot, spawns a
task for every other step, and awaits them one by one. A join fires when enough
live paths have arrived, or when none is left to wait for, and cuts the paths it
did not wait for. Every result goes to `step_results.jsonl` at once; a pause, a
stop, a crash or a failure loses everything else, and the next process rebuilds
its state from that file.

`WorkflowGraph` holds the workflow as a record and the questions the scheduler
asks of it: `BranchPruneSet`, `RejectionPruneSet`, and `Losers`, the ancestors a
join may cut (the code's loop that protects a candidate with a consumer outside,
until nothing changes, is the largest set of candidates closed that way).
`Reach` is the least closed set, so that no `RECURSIVE` operator is needed and
proofs can use the module.

`Scheduler` is the program. One action is what the scheduler does to one ready
node, to one join of the worklist of `drain_joins`, or with one task that
ended: between these a task can end, somebody can decide a gate, and the process
can die, which is what `await` points and the persist before the unlock leave
open.

| variable | code |
|---|---|
| `wf` | the workflow, from the constant `Workflow` |
| `result` | `step_results.jsonl`: `Ran`, `Then`/`Else` (a branch), `Approved`, `Rejected` (gates), and the markers of a skipped row, `Skipped`, `Pruned`, `Cancelled` |
| `decision`, `awaiting` | what `run.json` holds of gates: recorded decisions, gates waiting for one |
| `phase` | whether a process schedules the run, and how the last one ended |
| `sched` | the locals of `run_scheduler_scoped`: `done`, `indegree`, `ready`, `branch_skipped` (`skipped`), `dead_edges` (`dead`), `rejected_gates`, `pruned`, `Cancellation` (`cancelled`, `aborted`), the `JoinSet` (`task`), `parked_direct`, the pending decisions of the `GateBook` (`heard`), `JoinScheduling` (`arrived`, `accounted`, `resolved`) and its worklist (`todo`), `manual_pause` (`noted`), the pause token and the stop signal |
| `budget` | how many pauses, stops, crashes and failures are left |
| `lost` | history variable: what a join that fired has written off |

| actions | code |
|---|---|
| `StartPass`, `Restored` | a process takes the run up: resume seeding and the replay of join arrivals |
| `SkipWrittenOff`, `PauseBefore`, `SkipWhen`, `Gate`, `Branch`, `Split`, `Dispatch`, `RenderFails`, `DrainEnds` | the ready drain, in the order of its checks |
| `Finish`, `MarkDone`, `DrainJoin` | `finish_node`, `mark_done_and_track_joins`, `drain_joins` |
| `Work` | a spawned task: it ends, pauses at its own boundary, or fails |
| `Await`, `Collect`, `CollectPaused`, `Reap`, `CollectFailed`, `PollDecisions`, `EndPass` | the `select!` and what it yields, the end of a pass |
| `Teardown`, `TeardownOne`, `TornDown` | `cancel_finalize` |
| `Decide`, `RequestPause`, `RequestStop`, `Crash` | operators, signals, the operating system |

`Dataflow` is the abstract promise: a node gets one result, after everything it
depends on has one; a join fires by its policy, and cuts off only what leads to
it, to other lost nodes, or to joins that have fired. It knows no processes,
ready sets or interruptions. `KeepsPromise` says `Scheduler` implements it, with
the variables of the same name as refinement mapping. It promises nothing of a
node that was cut off, because the code keeps nothing there (below).

Abstractions: what a step computes is left out, so a `when:` may be false or
true and a branch take either arm; conditions do not depend on other results.
The order of a join's worklist is open. `max_concurrency` is left out: a task
that waits for a permit is a task that has not ended. A stop is noticed at the
boundaries and in the `select!`; `run_workflow` passes no cancel token, so today
only SIGTERM stops a run, at the boundaries. A node has one result: a row that
is written twice replaces the first. Several tasks of one node (an aborted one,
and its successor) are one.

Not modelled: loop super-nodes (`run_loop_node`), the linear chain mode, inline
`approval:` on a step, `on_reject` chains, the refusal to pause a run with a
workspace sync, and the parser: `WorkflowAssumption` states what it guarantees of
a workflow without loops, `Acyclic` being its cycle detection
(`workflow.rs:2961`-2995).

### Runs

| run | instance | shows |
|---|---|---|
| `dag` | seven shapes of five nodes; each with a pause and a crash, with a stop, or with a failing step; fair scheduling | `TypeOK`, `DependenciesFirst`, `DoneIsComplete`, `PrunedIsDead`, `KeepsPromise`, `Ends` |
| `skipped_reconverge` | a step that both arms of a branch lead to, one pause | violated: see below |

The shapes are those the code has rules for: a branch with an arm that leads
around a gate, a race of a short and a long path, a loser that also feeds
somebody else, a join inside an arm, two of three paths with gates, two gates
before a join that waits for both, and a step behind both a gate and an arm with
the branch declared last. Five nodes hold two joins or gates with something
before, between and behind them. The budgets interrupt a run up to twice, which
is a resume of a resume. Deadlock is checked: a run that is `Done` stutters by
`Terminated`, any other state must have a step.

Fairness (`FairSpec`): the scheduler's task is not starved and a step comes to
an end; gates get decided, and an interrupted run is taken up again. `Ends` is
about such a run: the last two are up to people, and a run nobody decides or
resumes rightly waits for ever.

### What the source says and the scheduler does not keep

- `skipped_reconverge`: on resume the direct targets of the arm not taken go into
  the skip-set of the linear mode, and a step the taken arm still leads to is
  skipped. The design says it runs, and without the pause it does.

Two more are stated in `Scheduler` and refuted by TLC, with no run kept:

- `ReadyOnlyWhenDone` (`MCScheduler`: `Node <- SevenNodes`, `Workflow <-
  LoserWithAnOpenEnd`, `Budget <- JustAPause`): a loser aborted in flight leaves
  no row. After a resume it runs again, and its end unlocks successors that are
  done already; they are skipped a second time, and what is behind them loses one
  dependency too many. A step then starts while another one it depends on is
  running. All such nodes are behind a join that has fired without them, so
  `DependenciesFirst` and the promise leave out `lost`.
- `NoDeadWinner` (`Nodes`, `Shapes`, `JustAPause`): a join in a pruned arm is never
  looked up in `pruned`. It fires on nothing, counts as a live arrival at the next
  join, and cuts the live arm.

The model also shows: a step fed only by the arms not taken
of two branches is pruned by neither, and runs (`extend_rejection_prune` returns
at once when no gate was rejected); what a branch pruned but had not yet
recorded is not pruned after a resume; a gate on a losing path that is
parked when the join fires still holds the run until it is decided; a loser's
task that fails before its abort takes hold fails the run. A branch that lost the
race and is unlocked twice after a resume (as under `ReadyOnlyWhenDone`) can be
evaluated twice, and the second time take the other arm; what the first one
pruned is on the arm it now takes. This needs seven nodes, and came up in the
proof of `PrunedIsDead`: what a join has written off promises nothing to what is
behind it, so `LivePath` follows no edge of `lost`.

### Proofs

`SchedulerProofs` proves, for every finite workflow and every number of
interruptions:

- `SchedulerTypeCorrect`: `Spec => []TypeOK`.
- `DependenciesFirstHolds`: `Spec => []DependenciesFirst`.
- `KeepsPromiseHolds`: `Spec => KeepsPromise`, the refinement.

None is inductive. `Inv` ties the scheduler's memory to the disk, for every node
outside `lost`: a node that was reached is in one place and everything before it
is done (`Waiting`), its in-degree is the number of dependencies that are not
done (`Degrees`), a join counts no arrival twice and is in the worklist only if
it may fire (`Arrivals`), and `done` agrees with the results (`OnDisk`).
`KeptInOrder` is the part that survives a process: results are in order, and
lost nodes lead only to lost nodes and to joins that have fired. The last fact
is what confines the trouble of aborted losers: whatever is unlocked too often
behind them is lost itself. It rests on `Losers` being closed (`LosersClosed`,
`CutOff`), which is the protection loop of `drain_joins`. `MarkDoneSound` and
`RestoredSound` are the two heavy lemmas: the end of a node, and the rebuilding
from disk, establish `Sound`; the lemmas about single actions reduce to them.
For the refinement every action either records a result in order
(`RecordKept`), fires a join (`FireKept`), or leaves the mapped variables alone.

- `PrunedIsDeadHolds`: `Spec => []PrunedIsDead`. `PInv` adds that the dead edges
  the scheduler has collected, and those of the gates it knows to be rejected, are
  off every live path (`DeadEnds`). A prune looks only at the edges collected so
  far, by one branch or gate at a time, while a live path is cut by all of them:
  since fewer edges reach no more (`ReachLess`), what each finds unreachable is
  off the live paths too. And no step brings an edge back (`OffGrows`, from the
  refinement: results are kept), so what is dead stays dead.
- `DoneIsCompleteHolds`: `Spec => []DoneIsComplete`. `CInv` adds that nothing is
  forgotten (`InHand`): a node with nothing open before it is ready, parked, in
  flight or done, and a join all its paths have reached is in the worklist, but
  for a pause or a stop, which leave it to the resume; and `RestoredInHand` that
  a resume has all of it in hand again. A pass that ends with nothing in hand
  then has nothing open, since of the nodes that are open one would have nothing
  open before it (`NothingOpen`, from `Acyclic`).

Both use `Inv`. All five rest on `WorkflowAssumption` and `SchedulerAssumption`.
`Ends` is liveness and model-checked only.

## Admission: `Admission`

A process runs at most `[runtime].max_concurrent_jobs` agents at a time. A run
takes a permit before its first turn and keeps it to its end; so that a parent
that waits for its children cannot starve them, it lends them one slot of its own
while it holds its permit. `Admission` is that semaphore together with what the
launcher does around it.

| variable | code |
|---|---|
| `phase` | where a run is: started, in one of its parent's child slots (`Assembled`), waiting for a permit (`Queued`), `Admitted`, `Running`, waiting for dispatched children (`Joining`), ending, dropped after its grace (`Cut`) |
| `holds`, `free` | the semaphore a permit came from, and the permits left in each |
| `lends`, `lend` | the registered lends, and the one a run found when it asked |
| `ahead` | who was waiting before it: tokio's semaphores are FIFO |

| actions | code |
|---|---|
| `Start`, `Assemble`, `NeverRuns` | dispatch, `[dispatch].max_concurrent_children`, assembly that fails or is stopped |
| `Ask`, `Grant`, `MemoryFound` | `acquire_run`, the `select!` of the lend and the ceiling, `await_memory` |
| `Join`, `Joined`, `Finish`, `End` | a dispatch that waits, the end of the loop and of a run, whose permit drops when its children are stopped |
| `Abort`, `Swept` | a child that outlives its grace: its permit drops first, its own children are stopped afterwards |

How much memory there is only delays a permit, and is left out. A child restored
from an interrupted attempt (`Restored`) starts before its parent asks; it is
joined by calls that time out, so nobody waits for it without end.

| run | instance | shows |
|---|---|---|
| `admission` | a ceiling of one, two child slots; a run with three children of which one has a child, and a run that competes with them; fair | `TypeOK`, `CeilingKept`, `LentByAHolder`, `NoDeadlock`, `Served` |
| `restored` | one child slot, one restored child | violated: see below |

A ceiling of one with a grandchild is the tightest case: the only permit is lent
twice over. Three children for two slots make one wait for a slot. Fairness: the
runtime polls every task that can go on, memory is waited for at most a minute,
and an agent loop ends (its turns are bounded). Runs end, so deadlock is off.

`restored` shows what `acquire_run` (`admission.rs:249`) does not keep: the lend
is looked up once, before the wait. A restored child asks before its parent has a
slot (`launcher.rs:1092`, `rupu-orchestrator/src/runner.rs:10683`), finds no lend,
and waits for the ceiling alone while it occupies a child slot; its parent, once
admitted, dispatches another child and waits for it, and that one waits for the
slot. The doc of `replace_launcher` (`assembly/mod.rs:301`) asks for the order
that avoids this. With the default of eight child slots it takes eight restored
children. Besides, "a hard ceiling" (`admission.rs:11`) counts families: a parent
that does not wait runs beside the child that has its lend, and a dropped run's
child works on a lend whose lender has no permit any more (`Cut` in
`LentByAHolder`).

`AdmissionProofs` proves `AdmissionTypeCorrect`, `CeilingKeptHolds` and
`LentByAHolderHolds` for every forest of runs and every limit, and
`NoDeadlockHolds` for those with `Restored = {}`. `Inv` adds to them that the phase says who
holds a permit (`PhaseSays`), that a run only finds its parent's lend (`OwnLend`),
that a lend is free or borrowed once (`OneBorrower`), that children live inside
their parents' lives (`Family`), and that a child which was not restored found the
lend (`Fed`). For `NoDeadlock`, of the runs that are stuck one has no stuck child,
which exists since launching nests to a bounded depth (`RunAssumption`): it either waits for children
that can go on, or for a lend or a permit that is free.

## The board: `Lease`, `Board`

Agents that share a message space divide work by claiming keys. A claim is a file
created with `create_new` and written afterwards; it carries a token and a lease.
Whoever finds an expired one removes it under the reap lock, and a guard that
drops removes its own.

`Lease` is the promise: a unit is leased to one grant at a time, and a lease ends
because its holder let go or because its time is over. `Board` is
`rupu-fleet/src/board.rs` with every file operation a step and a death possible
between any two. `KeepsLease` says `Board` implements `Lease`, with `lease <-
file` and the sets of expired and dropped grants as they are.

| variable | code |
|---|---|
| `file`, `written`, `owner` | the claim file: whose grant it is, and whether its record is in it yet |
| `over` | grants whose `expires_at` has passed |
| `lock` | the reap lock, released by the operating system with its process |
| `guard`, `pc`, `seen` | each bus's claim table, where it is in `claim`, `reap_expired` or a drop, and the grant it deals with |
| `journal` | `claims.jsonl` |
| `dropped`, `lost` | history: guards dropped, and journal lines a death cost |

| run | instance | shows |
|---|---|---|
| `board` | two buses, one of a session whose claims outlive it; three grants, a death; fair | `TypeOK`, `JournalTrue`, `KeepsLease`, `ComesFree` |

Three grants are a holder, a successor, and a claimant that comes back to the key
with an old read; reaping takes two processes. Fairness: somebody goes on asking
and file operations return. The run stops when the grants are used up, so deadlock
is off.

`BoardProofs` proves `BoardTypeCorrect` and the refinement `BoardImplementsLease`
for any number of buses and grants. `IInv` says that one bus at a time is inside
the lock (`Locking`), and that what it is about to remove is what it looked at
there (`Removing`): this is what the re-read under the lock is for, and the mutant
without it breaks both. `JournalTrueHolds` needs `JInv`, which follows a grant
from its bus into the journal: who has just been granted the unit has not let go
of it (`Owned`), and a grant that the journal calls claimed has the unit, or is
over, or its end is in the journal, on its way there or lost with a process; one
that the journal says ended is not in the file (`Told`). `ComesFree` is liveness
and model-checked only.

What the model shows besides: a claimant that dies between `create_new`
(`board.rs:185`) and the write leaves a file that does not parse; `read_claim`
fails on it and no lease in it ever expires, so the key is wedged, which
`ComesFree` excepts (`written`). `board.claim` answers "already held by you" from
its own table even when the lease has run out (`rupu-tools`, `board/mod.rs:326`).
A late release is safe: it compares tokens.

## The message space: `Space`

`Space` is `bus.rs`, `mailbox.rs` and `participants.rs` of `rupu-fleet`: runs join
at an address, write to an address, to a group or to all, and collect before each
turn. Writers hold the log's lock; readers do not, and take an inbox by renaming
it away, also from under a writer that has it open.

| variable | code |
|---|---|
| `log`, `logLock` | `log.jsonl` and its lock |
| `roster` | `participants.jsonl`, folded: the last run of an address |
| `inbox`, `boxLock`, `gone` | inbox files, their locks, writers whose open file has been renamed away |
| `casts`, `cursor` | the broadcast log and the cursor of each address |
| `pc`, `draft`, `mem`, `total` | where a process is, what it writes and to whom it still has to, what a collect has read |
| `got` | what each run was given, in order |
| `lost` | history: what deaths cost |

| actions | code |
|---|---|
| `Join`, `Register`, `Leave` | `join` with `register_broadcast_cursor`, `leave` |
| `WriteAs`, `Cast`, `Open`, `WriteLine`, `Unlock` | `write_as`: recipients and backpressure, the log line, `broadcast_send`, `Mailbox::send` |
| `Take`, `ReadCasts`, `Advance`, `Hand` | `MessageCollector::collect`: `drain`, `read_broadcast`, the turn |
| `Crash` | a process dies anywhere; its locks go with it |

Left out: directives, posts and receipts (no shared control of their own), the
broadcast cursor the launcher registers for a child before the child joins
(`launcher.rs:555`: a broadcast between the launch and the join waits for the child;
here an address has no cursor until its first `Register`), `mark_seen`, `leave_all`, retraction of a space and the old file layout, write
errors other than a death, and a collect that finds nothing. The rename, read and
deletion of a drain are one step, with a death in it counted as lost. The
operator always names the run a message is meant for.

| run | instance | shows |
|---|---|---|
| `space` | two attempts of one step at one address, a run at another, the operator; two messages, inboxes of one; a death; fair | `TypeOK`, `Accounted`, `AtMostOnce`, `InOrder`, `AsResolved`, `Delivered` |

Two runs at an address are what "the same address, another run" needs; two
messages with a cap of one fill an inbox and make an order. `AsResolved` is
about a writer and ends with its delivery: the roster keeps the run a reply is
meant for until the line is in the inbox. The inbox is the address's, and nothing
in it names a run: if the meant run leaves or dies before it collects, the next
attempt there is given the reply, in the model and in the code. `Delivered` is for
addresses a run stays at. Fairness: whoever waits for a file's lock gets it, and
a run that is in takes turns.

`SpaceProofs` proves `TypeOK`, `Accounted`, `InOrder`, `AtMostOnce` and
`AsResolved` for any runs, addresses and caps. Only the first and the second are
parts of the inductive `Inv`; what carries the rest is the order of the log
through every place a message can be in. What an inbox, the broadcast log and a
run's memory hold is in order (`Sorted`), each place is behind the one it flows
into (`Behind`: what a run was given, what it has read, what waits), the cursor is
behind what was read (`Cursors`), and a message not delivered yet is in none of
them (`Fresh`). Who holds which lock (`Locks`) keeps the draft the last line of
the log (`Drafts`) until it is delivered; two runs of an address share nothing
(`Apart`). That a collect drops its own broadcasts and nothing else is induction
over the sequence read (`FromOthersIs`). The proofs rest on `RunAssumption`, which
has what `join` refuses (an address that is a reserved word, `bus.rs:222`), and on
`CapAssumption`. `Delivered` is liveness and model-checked only.

## The children ledger: `ChildLedger`

A run records its process children in `children.jsonl`, append-only and folded on
read. When the run is interrupted and continued, by possibly several processes,
each may claim a child and take it on under its handle. `ChildLedger` follows one
child through the run that launched it and the runs that continue that run.

| variable | code |
|---|---|
| `life`, `pc`, `saw` | each run's process, where it is in `continue_children`, and the end it read |
| `ledger` | the child's record in each run's ledger, as `fold` reads it: pid recorded, end, who took it on, claim |
| `proc`, `own` | the child's process, and what the child's own records say |
| `job` | what a stopper (a stop, the reaper of a continuing run, the sweep) is about to record, and whom it then signals |
| `over` | the tree's root has ended for good |
| `slipped` | history: processes whose launcher or stopper died in mid-act |

| actions | code |
|---|---|
| `Reap`, `Look`, `Claim`, `Launch`, `Restore`, `RecordLaunch`, `Close` | `interrupt_orphans`, `continue_children`, `ledger::claim`, launch or restore, the prior's record closed |
| `SpawnQueued`, `RecordSpawn`, `Exit`, `Settle`, `Terminate`, `Finish`, `Leave` | the launcher, the child's run, `watch_process`, `finish_run` |
| `BeginStopping`, `StopLive`, `RecordEnd`, `Signal` | `stop_live_children` behind the spawn gate, the end, then the signal |
| `Sweep`, `Begin`, `EndForGood`, `Die` | `reap_orphaned_children`, continuations, the tree's end, deaths |

| run | instance | shows |
|---|---|---|
| `ledger` | a run and two that continue it, the sweep; two processes end or die; fair continuations | `TypeOK`, `TakenOnOnce`, `NoStray`, `EndStands`, `TakenOn` |

Two continuations race for one child; two ends let the first run go and one of
the two die in its claim. A chain of continuations is the same claim a level
deeper. Deadlock is off: everybody may be gone.

`ChildLedgerProofs` proves `TypeOK`, `TakenOnOnce`, `NoStray` and `EndStands` for
any number of runs that continue one another and any number of deaths. The
inductive `Inv` says that whoever is between its claim and the closing of the
record has the claim, and that a run that has the child in its ledger either has
closed the prior's record or has its claim still (`Claimed`): this gives
`TakenOnOnce`. For `NoStray` it adds that a process that goes has recorded what it
spawned, but for the slipped (`SpawnsRecorded`), and that a stopper that means to
signal nobody has looked after its run's spawns were over (`Jobs`): this is what
the spawn gate is for. `EndStands` is an action property of `Inv`. `TakenOn` is
liveness and model-checked only.

What the model shows besides, stated as `OneRunner` and refuted by TLC with `slipped`
empty: a stop records a child's end before it signals it (`reaper.rs:240`-271, up
to twelve seconds of grace). A run that continues meanwhile sees `interrupted`,
claims the child and starts it a second time while its first process is up
(steps: `Launch`, `RecordLaunch`, `BeginStopping`, `StopLive`, `Begin`, `Reap`,
`RecordEnd`, `Look`, `Claim`, `Launch`); `reaper.rs:17`-19 says a child is
interrupted when it is no longer running. A launcher that dies between spawn and
record (`launcher.rs:1164`) leaves a process nobody knows (`slipped`); a claim
does not look at an `abandoned` end recorded after the ledger was read; a run that
passes a child over because its claimer lives does not come back to it.

Left out: output and usage of a child, the marked process group, the restore of
its conversation. The two lines of a restored child are one step.

## Autoflow: `Autoflow`, `Wakes`

`rupu autoflow serve` and a scheduled `autoflow tick` watch issues. A tick works
from the claims it listed at its start and saves them back; a cycle on an issue
runs under a lock file with a lease.

`Autoflow` is one issue.

| variable | code |
|---|---|
| `claim` | `claim.toml`: status, a pending dispatch, what its last run has come to (`last`: open, failed, an outcome, or one that cannot be applied), whether it is due, and the ticks it was updated in |
| `lock` | `.lock`: whose, whether written, whether past its lease |
| `tick` | each process's tick, with the claim it listed |
| `lapsed` | history: a lock ran out, or went with a released claim |

| actions | code |
|---|---|
| `Begin`, `List`, `Decide` | the tick of `autoflow_runtime.rs`: reconcile with the last run, yield, dispatch, run what is due, save |
| `Acquire`, `Reap`, `Write`, `Drop` | `try_acquire_active_lock`, `reap_expired`, the guard |
| `Load`, `EndCycle`, `EndDispatch` | `execute_autoflow_cycle`, `execute_pending_dispatch_workflow` |
| `Settle` | a parked or paused run comes to its end |
| `ByHand`, `Release`, `RunOut`, `Age`, `Crash` | `autoflow run`, `autoflow release` and cleanup, time, a death |

`Wakes` is what wakes them: `poll_events` of the GitHub and GitLab connectors, the
cursor file, dedupe markers, queue and processed entries.

| variable | code |
|---|---|
| `feed`, `cursor` | the source's events so far; the cursor file (`since`, `etag`) |
| `marker`, `queue`, `processed` | the directories of the wake store |
| `tick` | each process's tick: its cursor, what it has to enqueue, the wakes it collected |
| `lost` | history: what died with its process or could not be written |

| actions | code |
|---|---|
| `ReadCursor`, `Fetch`, `FetchFails`, `WriteCursor` | a due poll; `poll_events` with page, limit and etag; the cursor is written before anything is queued |
| `Mark`, `Put`, `Collect`, `MarkProcessed`, `EndTick`, `TickFails` | `enqueue` with its marker, `list_due`, `mark_processed` |
| `Happen`, `Crash` | the source has another event; a death |

| run | instance | shows |
|---|---|---|
| `autoflow` | two processes, lease and interval set, a death; the outcomes `continue`, `continue` with a dispatch and `await_human` with a dispatch; fair | `TypeOK`, `CyclesExclude`, `TakenUp` |
| `wakes` | two processes, three events of which one is unknown to rupu, no etags, a limit of two; a death, two failures; fair | `EventKept`, `WokenOnce`, `Wakes` |
| `overflow` | one process, etags, the three events, a limit of two, no faults; fair | violated: see below |

Two processes are every race on a file that is read, then written. Three events
with a limit of two leave one for the next poll. Fairness: processes that tick go
on, leases run out and records age; nobody has to act on an issue.

`overflow`: the doc of `poll_events` (`event_connector.rs:62`) says that on
overflow "the cursor advances to the last-emitted event so the next call resumes
correctly". Its `since` does; its etag is that of the whole page
(`github/events.rs:207`). The next call is answered 304 and the events beyond the
limit wait until the repository has another one.

`AutoflowProofs` proves `AutoflowTypeCorrect` and `CyclesExcludeHolds` for any
number of processes, from `LockedByItsCycle`: until something lapses, the lock is
that of the cycle and nobody is on the way to removing it. `WakesProofs` proves
`WakesTypeCorrect`, `WokenOnceHolds` (from `MarkedOnce`: who puts an event into the
queue is alone with its marker) and `EventKeptHolds`, for every list of events in
which no two share a second (`Spread`) and, with etags, a page holds all there are
(`Whole`); `KeptInv` says that every cursor anywhere, stored or in the hands of a
slower process, has passed nothing that is not in somebody's hands
(`CursorsSound`). Both assumptions are needed, as below. `TakenUp` and `Wakes` are
liveness and stay with TLC.

What the models show besides, of the claims:

- No cycle renews its lease (`autoflow.rs:8999`-9008), though the design
  (`docs/superpowers/specs/2026-05-08-rupu-autoflow-design.md:682`) says it is
  renewed while running: after an overrun, or a release under a running cycle,
  two cycles work on one issue (`OneCycle` is refuted), and the first guard to drop
  removes whichever lock there is (`autoflow_claim_store.rs:53`-57). Without a
  `ttl` a dead process's lock never expires.
- A process that dies between creating the lock and writing it leaves a file that
  does not parse: the issue fails until it is released (`Unreadable` in `TakenUp`).
- A claim `Running` over a completed run whose outcome cannot be applied fails on
  each tick, before it could yield or run again (`autoflow.rs:9172`, 9218-9283;
  `Reconcile` is empty). Three ways lead there: a run that was paused completes
  later without a usable outcome (no output of the step, output that does not parse
  or fits no schema, another issue's dispatch, a retry without `retry_after`),
  which under the cycle itself would have blocked the claim (9129-9137); a cycle
  saves its workflow's name over the run of another (9049) and dies, and the new
  contract is applied to the old run (9529-9558, `AsRead`); a cycle dies after a
  dispatched plain workflow, whose run has no outcome at all. `TakenUp` excepts
  these and the lock above; `NoWedge`, without the exceptions, is refuted.
- Status and dispatch of an outcome are independent (9254-9288), and
  `await_human` with a dispatch is never dispatched: each tick applies the outcome
  again (9168-9172) with a new `updated_at` (9292), and a dispatch waits for a tick
  that began after it (`updated_before_tick`). `blocked` or `complete` with one rest.
- A dispatch takes no lock and can happen twice; a tick that saves its snapshot
  can turn a newer `Complete` back; a release deletes the directory of a running
  cycle, whose last save brings the claim back; wakes are marked processed whatever
  became of the issue (`autoflow_runtime.rs:592`-608).

And of the wakes: events that share the second of the last one emitted, beyond the
limit or after the poll, are passed over for good (`since` is compared strictly;
`CreatedAt <- OneSecond`); a GitHub poll sees the newest page only; a batch of
events unknown to rupu leaves `since` where it was, so that a limit's worth of
them starves what is behind; GitLab's page is the oldest hundred since the day
before the cursor (`gitlab/events.rs:140`-143), and a busier day wedges the poll;
a death between marker and queue entry, or a marker that cannot be written once
its file is there, leaves a key that refuses for ever (`lost`).

Left out: priorities and contests between issues, owner resolution (a claim whose
workflow is gone), run records that no longer load, pull requests; wakes by
webhook, follow-up or hand, which enqueue the same way, requeue and delete, payloads, and the events `rupu cron tick` polls for triggers
(`cron.rs`). A status of blocked is folded into `Complete`, which lets `ByHand` do
a little more than the command; `await_external` and `retry` into `continue`. Which
workflow a run was for is not kept: `Load` lets the run have its outcome or none
that can be applied. `Settle` ends all open runs of the issue alike.

## What is proved and what is only checked

| module | proved for all constants | model-checked only |
|---|---|---|
| `RunLifecycle` | type, `ParkedXorDecided`, `LegacyRejectsFinalize`, `DeadlineKept`, `OneRunner`, `CancelledKept`, `DecisionKept` | `DecisionServed`, `TimeoutServed` |
| `Scheduler` | type, `DependenciesFirst`, `DoneIsComplete`, `PrunedIsDead`, `KeepsPromise` | `Ends` |
| `Admission` | type, `CeilingKept`, `LentByAHolder`, `NoDeadlock` (nothing restored) | `Served` |
| `Board` | type, `JournalTrue`, `KeepsLease` | `ComesFree` |
| `Space` | type, `Accounted`, `AtMostOnce`, `InOrder`, `AsResolved` | `Delivered` |
| `ChildLedger` | type, `TakenOnOnce`, `NoStray`, `EndStands` | `TakenOn` |
| `Autoflow` | type, `CyclesExclude` | `TakenUp` |
| `Wakes` | type, `WokenOnce`, `EventKept` (distinct seconds, whole pages) | `Wakes` |

Every invariant and action property of a passing run is a theorem, and so are the
two refinements. The proofs use the named assumptions on the constants and no
others. Liveness depends on fairness and on `ENABLED`, outside what TLAPS can do
here, and stays with TLC throughout.

## Plan

Next, in this order:

1. Reject cleanup: the markers a rejection leaves, as one more file of
   `RunLifecycle`; an abstract gate ledger that `RunLifecycle` implements (from
   `Passes`).
2. Scheduler: bounded loops as an iteration over a sub-graph, and `on_reject`
   chains.
3. The bucket dead-drop: a result that lands between the listing and the finished
   marker (`poller.rs:40`), consumed keys that live in memory (`poller.rs:139`);
   and the node tunnel's mirror.

## Not modelled

- **Reject cleanup**, **node tunnel and mirror**, **bucket dead-drop**: in the plan.
- **Credential refresh**: single-flight within a process; what matters is the
  provider's answer to a rotated token, outside the code.
- **Agentiflow driver**: one loop whose decisions are a model's; its parts that
  share state are `Space` and `ChildLedger`.
- **Sessions**: a person's turns, each one an agent run.
- **Control-plane listings, hosts, web and macOS clients**: I/O and presentation;
  the requests that change a run are in `RunLifecycle`.
- **Agent loop, providers, tools**: sequential, steered by model output and remote
  services.
- **Evidence and analysis, configuration, definitions, SCM adapters but for
  polling, packaging**: parsing, storage and rendering with no shared control.

These are most of the repository's lines: data and I/O, in which there is little
state for a model to tell apart.

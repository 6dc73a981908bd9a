# Verification of gbench

TLA+ models of *gbench*, a benchmark program for language models served by
vLLM, and of the small web service that runs it from a dashboard. The models are
checked by TLC on small instances; their invariants are proved by TLAPS for every
value of the constants.

Paths are relative to the repository; `runs.py:102` without a directory means
`src/service/routes/runs.py`, `storage.py` means `src/service/utils/storage.py`,
`cli.py` is in `src/gbench/`, `serving.py`, `stress.py`, `evals.py`, `golden.py`,
`quality.py` and `throughput.py` are in `src/gbench/runners/`, `base.py`,
`search_tool.py` and `complexfuncbench.py` in `src/gbench/runners/eval_suites/`.

## 1. The system

```
 browser (ui/) --HTTP, polls every 5 s--> service/ (FastAPI, thread pool)
                                             | Popen, SIGTERM, pid checks
                                             v
                                        gbench/cli.py   one process per run
             +------------+-----------+------------+----------+-----------+
             v            v           v            v          v           v
          serving     throughput    stress      quality     golden      evals
             |            |           |            |          |           |
             +---- local vLLM server: process group, port, GPU ----+   eval_suites/
                   (_start_server ... _cleanup_server)                  base.py + ~85 suites
```

| Component | State | Operations | Hard behaviour | What makes it correct | Model |
|---|---|---|---|---|---|
| Run service, `service/routes/runs.py`, local half of `storage.py` | `ACTIVE_RUNS` (memory), one `active_run.json` per run (disk), the benchmark process, its pid | trigger, background execution, cancel, list, details | thread pool without locks, files rewritten in place, restart loses memory but not files and processes, pids are reused | outcomes shown are true; no stale entry or record; no two benchmarks at once; an acknowledged cancel holds | `RunService` |
| Local server lifecycle, `serving.py`, `utils/endpoint.py` | `server_process`; leader, engine, port, GPU of each server | start, wait for health, verify, clean up | processes hang, crash, ignore signals; foreign server on the port; Ctrl-C | a session measures its own server; nothing is left behind; the program ends | `ServerSession` |
| Capacity search, `stress.py` | `_tested_rates`, `last_pass`, `first_fail`, results of the sweeps | preflight, ramp up/down, median, summary | a wrong measurement, caches across sweeps, limits of the search | the knee brackets the capacity; a minority of bad sweeps does not move the headline | `StressSweep` |
| Suite engine, `base.py` | semaphore, traces, tallies | fetch with tool loop and retries, record, judge, summarise | concurrency, five ways out of the loop, several kinds of failure counted apart | status says what happened; tool calls are answered; it ends | `EvalSuite` |
| Evaluation sweep, `evals.py`, `utils/log_manager.py` | rows, worker threads, record files of this and earlier programs | expand, reuse, run one suite, time out, save | an abandoned suite keeps running; a crash between two files; one failure must not end the sweep | no success without a success of that suite; no suite lost in silence; the newest record is reused | `EvalSweep` |
| Golden Set, `golden.py` | resolved name, results of the cases | resolve, ask with retries, reduce | one runner for all models, several kinds of failure | a verdict rests on the model's own answers | `GoldenSet` |
| Campaign driver, `cli.py`, `core/config.py` | the shared `config`, rows, failed models | loop over passes, pillars, campaigns; exit code | one configuration object rewritten in turn; failures of several kinds meet in one code | a row is what its label says; nothing is missing; 0 means clean | `Campaign` |
| Offline throughput, `throughput.py` | child process group, a file under `/tmp` | run, kill on timeout, read back, unlink | grandchildren outlive the child; the file is shared | a program reports its own figures; an engine that was timed out costs no later benchmark its memory | `SharedMachine` |
| Quality runner, `quality.py` | shared repository, lock file, stamp, output directory | lock, checkout, build, run, read | the lock is released before the repository is used | a suite runs on the build it reports, and reads its own output | `SharedMachine` |
| Search tool, `search_tool.py` | token bucket, tally | acquire, cascade, count | many threads, one bucket, unlocked counts | never more than burst + rate; a search is put down to who served it; callers get through | `SearchTool` |
| ComplexFuncBench episode, `complexfuncbench.py` | golden calls due, their observations, free calls, rounds | request, match, align, advance, stop | calls in any order, optional calls, two lists popped in parallel | each call gets its own answer; success takes the whole chain; it ends | `CallChain` |
| Log stream, `stream_logs` | position in `master.log` | tail until the run is over | two questions on the event loop race rewrites, cancels, registration and the end of the run | no end is announced of a benchmark that runs on | `LogStream` |
| Read-only routes, configuration, GCS; user interface | files, blobs; polled copy | query, merge; trigger, cancel, compare | stale view | a query changes nothing | - |
| Serving measurement, the other suites and graders, scaffold, logs, statistics, gates | results | sequential | arithmetic and text | unit tests of the repository | - |

## 2. Modules

| Module | Models | Uses |
|---|---|---|
| `RunLifecycle` | abstract: what a user may be shown about a run | |
| `RunService`, `RunServiceProofs`, `MCRunService` | the service's handlers, background task, files, processes, restarts | refines `RunLifecycle` |
| `LogStream`, `MCLogStream` | the log stream, beside the service (proofs in `RunServiceProofs`) | extends `RunService` |
| `ServerSession`, `ServerSessionProofs` | one program's sessions with local vLLM servers | |
| `StressSweep`, `StressSweepProofs` | text and multimodal pass of the capacity search | |
| `EvalSuite`, `EvalSuiteProofs` | one evaluation suite | |
| `EvalSweep` | the sweep over the suites, and its records over several programs (proofs in `CampaignProofs`) | |
| `GoldenSet` | the Golden Set runner of a program | |
| `Campaign`, `CampaignProofs`, `MCCampaign` | the program: loops, configuration, exit code | composes `EvalSweep` and `GoldenSet` |
| `SharedMachine`, `SharedMachineProofs`, `MCSharedMachine` | several programs on one machine: throughput file and quality repository | |
| `SearchTool`, `SearchToolProofs` | rate limiter, cascade and tally under many threads | |
| `CallChain`, `CallChainProofs`, `MCCallChain` | one sample of ComplexFuncBench | |

### RunService

Granularity: an action is a stretch of code between two points at which another
thread can see or change something. A file is rewritten by `open("w")`
(truncates) and a buffered `json.dump` (flushed at close), so every rewrite is
two actions, `...Open`/`Open...` and `...Write`/`Write...`; `Overlay` says what
remains when two rewrites overlap: the shorter record leaves the tail of the
longer one behind, which `json.load` refuses (`corrupt`). Records are told apart
by their status word, and its length.

| Code | Actions |
|---|---|
| `trigger_run`, runs.py:100-132 | `TriggerCheckMemory`, `TriggerCheckDisk` |
| `_execute_benchmark`, runs.py:134-260 | `Spawn`, `Register`, `Describe`, `OpenRecord`, `WriteRecord`, `Wait`, `Decide`, `OpenFinal`, `WriteFinal`, `Leave` |
| `cancel_run`, runs.py:262-326 | `CancelActive`, `CancelRead`, `CancelOpen`, `CancelWrite`, `CancelDrop`; after a restart `CancelRecorded`, `CancelProbe` and the same rewrite |
| `list_all_runs`, `get_run`, `get_run_details` | `PollActive` (the polls reap), `ReadRecord`, `Judge`, `CondemnOpen`, `CondemnWrite` |
| `is_gbench_process_running`, `os.kill(pid, 0)` | `SeenRunning`, `PidExists` |
| `main` of gbench comes to its end, by itself or by a signal | `Exit` |
| operating system | `Recycle`, `ServiceRestart` |

`proc` distinguishes a live process, a zombie (exited, not polled), one that is
gone, and a pid in the hands of another process. `Reap` is what `Popen.poll()`
does as a side effect.

Abstracted: requests that are refused (no effect but reaping), the content of
logs and results, the merge of result files into the details, cloud storage.
A run whose trigger is accepted but whose service dies before `Spawn` is `lost`. Not
modelled is an I/O error in writing the first record: that write (runs.py:234-235) is
outside any `try`, so the background task would end there and leave its
`ACTIVE_RUNS` entry behind (the last write, at runs.py:251, is inside one).

### LogStream

`LogStream` adds the clients that follow a log. `Follow` opens it, `ReadToEnd` is the
reading up to a `readline()` that returns nothing, `AskRecord` and `AskMemory` the two
questions that then decide between reading on and `[PROCESS_COMPLETED]`, `HangUp` the
client closing its event source, `ServiceStep` a step of the service, of which a
restart breaks streams off. The generator runs on the event loop, so the two questions
are separate steps among those of the thread pool; the reading of the record and the
look at its pid are one, as a process that is found alive was alive when the record
was read. `WriteLog` makes `unread` what a stream past its end would have to read again
to see. The ten looks for a file that is not there yet are left out: they end in an
error that announces nothing.

### ServerSession

`turn` counts the sessions of one program. A server is a `leader` (the process
`Popen` returned, which listens) and an `engine` (the rest of its process group,
which holds the GPU). The runner sees the leader through `poll()`/`wait()`
(`dead` -> `reaped`) and the port through `GET /health`, which does not say whose
server answers. Both processes may die at any moment. `Docile` says whether
engines obey SIGTERM at once; `Guarded` are the sessions which start the server
inside the `try` that cleans up (only the stress runner does); `OtherServer` lets
a stranger hold the port. A signal to the group is modelled as what it does to
the leader and the engine: `TermTimeout` dooms both, and doomed processes may
take their time (`Killed` has the branch where they outlast the five seconds of
serving.py). Out-of-memory is the fate of an engine that starts while another
holds the GPU. `Measured` is the end of what a session measures; it may stay away for
ever, as quality.py:547-553 polls its suite without bound.

### StressSweep

`run_all` makes `Passes` passes on one runner object, so `estimate`
(`_probe_e2e_ms`) survives from one to the next as in the code. A sweep starts
at half the single-stream capacity or at `InitialQps`, doubles to the first miss
or to `MaxQps`, or halves to the first pass or to `MinDown`. The model's server
has a `capacity`; five gates are one verdict, which is *missed* above the
capacity and *passed* below it unless the point is *spoilt* (client too slow,
failed requests, too few samples, queues left by the point before). At most
`MaxSpoilt` sweeps of a pass are spoilt. Halving rounds either way, as rounding
to three decimals may. `Report` is `_knee_stats` with the choice of the
secondary figures; interpolation between the knee and the miss is not modelled,
but `BracketMeasured` is what it relies on.

### EvalSuite

A sample goes `unsent` -> `queued` -> `sending` -> `replied` -> ... ->
`returned` -> `recorded`; `turn` says whether the request in flight belongs to
the tool loop, is a forced final answer or the recovery of a discarded one. A
`Reply` carries only what the code asks about it: text (none, empty, white
space, words), tool calls, cut off at the token budget. `Fruitless`,
`GradesOf` and `StatusOf` are `classify_reply` with the counting of failed
requests, the graders' possible marks and the status line. Both kinds of suite
(with and without tools, with and without a judge at the end) are initial
states. `RunTools` awaits the tools of a round and `JudgeSample` the judge of a sample;
neither has a timeout, so either may never happen. `GraderRaises` is a grader of one of
the suites that raises; one that computes is taken to end. Several attempts per sample (pass@k, avg@k), sharding, metrics and the text
of prompts and answers are left out.

### EvalSweep

`Boot`, `Reuse`, `ReuseUnreadable`, `Measure`, `SuiteReturns`, `SuiteRaises`,
`SuiteRaisesTimeout`, `TimeOut`, `Saved`, `SaveFails` and `EvalsDone` are one turn of
`EvalsRunner.run` with `_run_single_eval` and `_run_with_timeout`. `Boot` is the start of
the local server or, with `--remote-endpoint`, `_resolve_remote_model_id`: `target` is the
model the suites are really put to, the first one the endpoint lists (`Firsts`, which has
0 for a local server) whatever model is swept, or the configured one where the
listing fails. `earned` (which suite once returned a success on which model, in the sweep of
which) and `listed` (the models taken from a listing) are history. A row is appended
before its record is written; whether the save is inside a `try` (`guarded`) decides
between a row that stays and a sweep that is lost. `workers` are the threads of the
pool of one program: `TimeOut` leaves its worker there, `StrayEnds` takes it away, and
`Exit` waits for all of them, as the interpreter does for non-daemon threads.
`disk` is one record per suite and run directory; `Crash` leaves the file being
written empty or torn, `Restart` starts a program with flags of its own, in a
directory of its own or, when `--results-dir` is a run directory, in the same one.
Directories are compared by name, and names have no year (`Rank`, `yearEnd`).
A record that cannot be read drops its suite from the sweep; a record of an error
is reused like any other, which is what the code says it does.

### GoldenSet and Campaign

`GoldenSet` is one runner object for all models of a program: the name it resolves
(`modelId`) outlives the run it was resolved for. It is `--golden-model-id`
(`ResolveOverride`), else the one model listed or the configured one (`ResolveListed`,
`ResolveConfigured`). A case is not applicable to a
model without its modality, is retried while failures are transient, and `Reduce`
makes the verdict.

`Campaign` extends both and adds `main`: `pass` (models in their formats), `pillar` and
`turn` (campaign) are the three loops, `conf` the configuration object that
`apply_campaign_to_config` overwrites (`Applied`), `rows` what was collected with the
lengths, window and latency objective it was *really* measured with. `MeasureCell`
is one call of a measuring runner, with the result it may have; `CellRaises` takes
out the model; `CallGolden`/`GoldenReturns` and `CallEvals`/`EvalsReturn` hand over to
the composed modules, whose steps are the steps of the program meanwhile.
`ExitCode` and `Return` are the end of `main`. `Legal` are the selections of pillars
the flags can express.

### SharedMachine

Every program has GPUs of its own; what it shares are one file under `/tmp` and one
checkout of the gemmaclaw repository. An iteration of the multimodal benchmark is
`Spawn`, `EngineWrites` (the result file), and its end: `Succeeds` (return code 0, with
or without a file), `Errs`, or `TimesOut`, which kills the process group of this
benchmark and no other. A benchmark that ends of itself signals nobody, so its engine
may outlive it (`EndsOfItself`). That engine must have closed the pipes first, as
`communicate()` waits for their end: the rare case, but nothing in the code excludes it. `left` counts
the engines that have outlived their benchmark, however many
iterations or lives ago, and `EngineDies` takes one away. `FileThere`, `FromStdout`, `OpenFile`,
`IterationEnds` and `Unlink` are how the figures are read back: nothing is unlinked
before the benchmark runs, so what is there may be older than it (`Stale`).

`Lock`, `Checkout`, `Install`, `Build`, `ClearOutput`,
`MakeOutput`, `Suite`, `ReadSummary` and `Tidy` are one quality run; the lock ends with
the build. `Killed` and `Launch` may come at any point; what a killed program was
waiting for goes on (`orphans`) and ends as it likes (`OrphanEnds`: with a file, an
engine or a summary, or without). Figures are only told apart as own or foreign. `met`, `botched`,
`good`, `bare`, `loose`, `starved` and `tree` are history. Production mode and
`--gemmaclaw-path` are left out.

### SearchTool

Time is counted in ticks, a token comes in every `Ticks` ticks, and the level of the
bucket is counted in fractions of a token. `Acquire` is one turn of the limiter under
its lock, with the sleep it may ask for (`nap`); `Answers`, `Unreadable` (an answer of
another form, which raises out of the search and is not counted), `Throttled` and
`Transient` are what a request may come to, `GoOn` the next attempt, model or round;
`ReadTally` and `WriteTally` are the two halves of the unlocked count. `ages` are the
times of the last grants. The choice among several keys, a limiter that is switched
off and the reset of the tally between suites (which lets the searches of an abandoned suite
count in the next) are left out.

### CallChain

A call is its function and one value for its arguments; the observation recorded for
the j-th call of turn t is `<<t, j>>`. `golden` holds `turn_id`, `golden_fcs` and
`golden_obs`; `RemoveCalled`, `Exact`, `Alignments`, `Compare` and `ProcessMatches` are
the comparison of a turn with what is due, `Update` and `Advance` the way through the
chain, `Stop` the judgement of an answer. What the judge or the live service finds
equal is a choice, as is the pairing by similarity. The format of a call is looked at
for every pair the code compares, exact and free ones included, so that a golden
call can itself be malformed; and a lookup whose arguments the dataset does not
keep in order is not recognised among the free calls (`Unsorted`), whose keys are
sorted on one side only. `JudgeMayBeAsked` says when the coroutine may be waiting for a judge.
Embedder, live service, answer scores and aggregation are left out.

The loops of the matching over indices are written in closed form, so that they can be
reasoned about: `ExactMatches` is the one sequence in which each call is matched with
what the earlier ones left, `Without` the removal of the first occurrences of a call,
and `Unpopped` says which places survive `remove_called_fc`, which looks each marked
call up by value and then pops from the last place found to the first. When a marked
call is due twice, the first of its places is popped twice, the second time with
what has moved there: `Stays` counts that. `PopsByValue` in `MCCallChain` compares it
with the loop as it is written, on every list of up to six calls. `taken` and `doubled`
(a marked call was due twice at once) are history.

## 3. What is checked

| Run | Instance | Shows |
|---|---|---|
| `run_service` | 1 run, 2 cancels, 1 reader, 1 log stream, 1 restart, fair | `EntryOwned`, `LiveRecordSound`, refinement of `RunLifecycle`, `EntryReleased`, `StaleRecordSettled`, `EndIsTheEnd` |
| `run_service_patient` | 2 runs, cancel, reader, restart, pid reuse, a client that waits for a run to be recorded | `OneBenchmark`: the checks in `trigger_run` do prevent two benchmarks at once for such a client, across restarts |
| `run_service_concurrent` | 2 runs, impatient client | **violated** `NoConcurrentExecutions` |
| `server_session` | 3 sessions, every switch at its worst, fair | `Reachable`, `OwnServer`, `NothingLeft`, `Finishes` |
| `stress_sweep` | 2 passes of 3 sweeps, 1 spoilt sweep, fair | `Bracketed`, `BracketMeasured`, `HeadlineTight`, `Finishes` |
| `eval_suite` | 2 samples, 1 permit, 1 tool round, 2 tries, fair | `SuccessEarned`, `FailedSound`, `DanglingOnlyWhenFull`, `Finishes` |
| `eval_sweep` | 2 models, 1 suite, 3 programs, an endpoint that lists the first model (or fails to), a budget, with and without reuse | `SuccessEarned`, `DroppedOnlyUnreadable`, `SuccessOnDisk`, `NewestWinsWithinYear` |
| `campaign` | 2 passes, 1 suite, 2 golden cases, 3 orders of campaigns, 5 selections of pillars, fair | `LabelTrue`, `StressUniform`, `Complete`, `ZeroMeansClean`, `DisturbedOnlyByTimedOut`, `VerdictNeedsAnswer`, `CampaignReturns` |
| `golden_asked` | the same program, 1 case | **violated** `GoldenAsksOwn` |
| `shared_machine` | 2 programs, 2 commits, 2 iterations, 3 restarts, programs and commits interchangeable | `AloneIsTrue`, `TimeoutStarvesNobody`, `SuiteOnOwnBuild` |
| `search_tool` | 2 threads, 2 models, 2 rounds, 2 attempts, bucket of 2, fair | `RateCapped`, `TallyHonest`, `SearchesReturn` |
| `call_chain` | 7 chains, up to 3 calls a message, 4 rounds, 2 attempts, fair | `Aligned`, `GoldenConserved`, `SuccessMeansDone`, `EpisodeEnds` |

### Bounds

* *Run service.* The handlers of two runs touch disjoint files and entries and
  meet only in the two checks of `trigger_run`; everything about one run is
  therefore checked with one run and as many threads as may overlap on it
  (background task, two cancels, a reader, a log stream: streams do not see each other), and `OneBenchmark` with two runs. One
  restart reaches every combination of lost memory and surviving files; after a
  second one nothing new is lost. Liveness is checked without `Recycle`: a pid taken
  over by a process whose command line contains "python" keeps a record `running`
  as long as that process lives, which is a hazard of the code and is listed.
* *Server.* Three sessions: one before, one that is `Guarded`, one after; a
  leftover of the first can meet the second and the third.
* *Stress.* Rates up to 20 with start 5 (or what a preflight says, 1 or 7) reach
  both limits, both parities under halving, capacity 0, below the floor and above
  the cap. Three sweeps is the code's `STRESS_REPS`; one spoilt sweep is the most
  of which the median promises anything. A cap of 0 (`--stress-max-qps 0`), for which
  the doubling would not end, is excluded by `RatesNat`.
* *Suite.* Two samples and one permit make them wait for each other, one more
  reply than `CutShare` allows is reachable, one tool round reaches every exit of
  the loop, two tries reach retry and giving up.
* *Sweep.* Three programs: one that records, one that reuses or overwrites, one that
  chooses between two predecessors, of which any may have died and one may be of
  another year. Two models: the one being swept, and one whose records and rows are
  complete; on an endpoint that lists the first, which the second is then given, or each
  its own when the listing fails. One suite for each, as the records of two suites meet
  no more than those of two models. A local server that does not come up, and a program
  without a budget, are in `campaign`.
* *Campaign.* Two passes are two models or one model in two formats, so what the first
  leaves in the configuration, the runner and the thread pool meets the second. The
  five selections cover every pillar and every pair of them that shares something;
  the three orders have a single campaign, chat-like after one with lengths of
  its own, and before one.
* *Machine.* Two programs meet or follow each other; three starts are one of
  each and a second of one, so that one dies while it holds the lock or the file, and
  both meet what that left. Two iterations
  let an engine of the first meet the second.
* *Search.* Two threads compete for one token with a bucket of two, every exit of the
  cascade is taken, `Window` = 4 grants is more than a burst.
* *Call chain.* The code allows 40 rounds and 3 attempts; no chain takes more than three
  rounds, so 4 leave room for one that goes wrong. The chains have a lookup in front,
  the same lookup in two turns, one required call twice, a search for hotels,
  optional turns at the end, the same lookup in four turns, and golden calls that are
  malformed or unsorted, which are the cases the code tells apart. Three calls in a message are one more than the longest turn.

Deadlock is not checked (`CHECK_DEADLOCK FALSE`) where the system may stop: programs,
passes, suites and episodes end, and a service whose runs are over may be asked
nothing. In `search_tool`, where time goes on for ever, it is.

### Fairness

* `RunService`: handlers and background tasks run in a pool that does schedule
  them (`WF` on `Execute`, `CancelStep`, `ReadStep`); a benchmark that was sent
  SIGTERM exits (gbench installs no handler; the default action kills); the
  dashboard's poll every five seconds (`ui/src/pages/Dashboard.tsx:268`) reads every
  record, again and again (`SF` on `ReadRecord`, as the record may be unreadable
  in between). Benchmarks need not exit by themselves and nobody need trigger
  or cancel.
* `ServerSession`: `WF` on the runner (`Prompt`), whose waits for its server all have a
  timeout: the boot loop, `wait(timeout=10)`, `wait(timeout=5)`, the GPU wait (120 s). What it
  measures has none in the quality pillar (quality.py:547-553), so `Measured` is not fair
  and `Finishes` excepts a measurement that never ends. Nothing is assumed of
  servers, engines or the user.
* `StressSweep`: `WF` on the one thread of the search; points are bounded by
  `REQUEST_TIMEOUT_S` and `MAX_POINT_S`. No exception is counted on.
* `EvalSuite`: `WF` on the event loop making some step of its own (`Prompt`); requests end by the
  client's timeout. It is not assumed that any request succeeds, nor that a judge
  (base.py:486, 520) or a tool (base.py:1345) ever answers: `Finishes` says that a sample
  that waits for a tool for ever holds up no other, and that the suite then ends
  or one of these is waited for.
* `Campaign`: `WF` on the driver, on the golden runner and on the main thread of the
  sweep, whose measurements, requests and quality suite are taken to end, and on
  the timeout of a future. A suite need not end, which is why `CampaignReturns` needs
  a budget.
* `SearchTool`: time passes, and every thread runs; a request has a timeout of 90 s
  (search_tool.py:271). It may fail as often as the code lets it.
* `CallChain`: `WF` on the one coroutine of the sample wherever it cannot be waiting for a
  judge: requests have timeouts, judges (base.py:486, 520) have none, and `EpisodeEnds`
  excepts an episode that hangs at one.

### Disagreements between code and its own comments

Two runs end in a counterexample that the comments of the code exclude.

1. Two triggers in quick succession start two benchmarks: a run is visible to
   neither check before it is spawned and registered, which may take as long as
   cloning a repository (the checks at runs.py:102-124, the record at runs.py:235).
2. The golden runner is made once for all models (cli.py:1673) and keeps the first
   name it resolved (golden.py:652): on an endpoint that serves several models the
   later ones are judged by the answers of the first, which golden.py:642 warns of.
   It goes no further: `OneAskedForAll` (proved) says that it is always one and the
   same model that answers for all of them.

Twelve more are stated as definitions of the modules and hold in no run; adding the
definition to the cfg (as `INVARIANT`, or as `PROPERTY` where it is temporal) shows
TLC's counterexample.

3. `EvalSweep!CreditedOwn`: the sweep puts every suite to the first model the endpoint
   lists (evals.py:42, called at 336), whichever model is swept, and labels the result
   with the latter (evals.py:426): of several models of one endpoint each is given the
   accuracy of the first. golden.py:642 says of such a mistake that it would "invalidate
   the whole run". Nothing else makes a model's success another's: `SuccessEarned`
   (checked and proved) excepts models that were taken from a listing, and no others.
4. `RunService!CancelHonoured`: a cancel answered "Run aborted successfully." can be
   recorded as failed or completed: the supervisor decides from what it read before
   (runs.py:245).
5. `ServerSession!CleanupOnExit` (with `Docile = TRUE`): `atexit.register(...)` stands
   behind a `return` (serving.py:108), so Ctrl-C while a server boots leaves it running.
6. `ServerSession!GroupKilled` (with `Docile = TRUE`): a leader that dies while booting
   is reaped by `poll()`, after which its process group can no longer be found
   (serving.py:2141); its engine keeps the GPU.
7. `StressSweep!SameRep` (with `MaxSpoilt = 2`): when the median sweep has knee 0 the
   secondary figures come from another sweep (stress.py:1459). That is the only case
   when the number of sweeps is odd: `SameRepUnlessZero` (proved).
8. `EvalSuite!NoDanglingGraded`: a tool call is graded as the answer when its results no
   longer fit the context window (base.py:1354).
9. `EvalSuite!SuccessScored`: a suite all of whose samples are excluded from scoring
   reports "success" with accuracy 0 (base.py:1564).
10. `EvalSweep!BudgetedRunExits` (under `FairSpec`): `shutdown(wait=False)` (evals.py:226)
   abandons a worker that is no daemon thread, and the interpreter joins it at exit; one
   wedged suite does stall the program, which cli.py:557 excludes ("so one wedged
   harness cannot stall the run"). What `CampaignReturns` shows is that `main` returns.
11. `EvalSweep!NewestWins`: run directories are named by month, day and time, so that after
    New Year the directory of the old year is taken for the newest (log_manager.py:78).
12. `CallChain!OptionalNeverCounts`: with a lookup left over behind the last required
    call a model that made every required call is counted as having stopped early:
    `Location_to_Lat_Long` is a free function but is not among those dropped at the
    end (complexfuncbench.py:651 against 81), while complexfuncbench.py:78 says that
    optional calls "never count for/against" the model. So it is when the chain ends in
    two turns of lookups only: `process_matches` steps over one of them at a time
    (complexfuncbench.py:636), and a model that answers after its last required call is
    short of the last turn (the test at 655). `OptionalHarmless` (proved) is the
    claim for chains where neither occurs.
13. `CallChain!Conserved`: when a lookup that was already made is due twice at once,
    `remove_called_fc` (complexfuncbench.py:520-529) pops, in the place of the second, the
    required call behind the first: it is never asked for again, and the episode may
    succeed without it. The chain is the last but one of `MCChains` (the same lookup in four
    turns). `GoldenConserved` and `SuccessMeansDone` except this (`doubled`).
14. `LogStream!NothingLost` (under `LSpec`, in module `MCLogStream`): what the benchmark
    writes after the stream met the end of the file, and before it exits, is never
    sent: the stream asks whether the run is alive and does not read again
    (runs.py:349-364).

Each of the three exceptions `EndIsTheEnd` makes occurs: a stream does announce the
end of a benchmark that was told to stop and still runs, of one whose scenarios are
being counted (spawned, not yet registered), and of one whose service was killed
before its first record.

Further observations, made while translating the code and not stated as properties:

* *Campaign.* Chat-like has no lengths of its own: after another campaign its throughput
  runs with the lengths left over in a window of 4096 (config.py:116 says it always
  fits), which is why `LabelTrue` excepts it. The stress test of several campaigns is
  measured at the shape of the last against the latency objective of the first
  (cli.py:1665). A harness error of the golden set is hidden by exit code 1 when a
  model raised or a text pillar failed (cli.py:79), so `ZeroMeansClean` is stated of 0
  only. `--input-lengths` is overwritten by the loop.
* *Sweep.* Under a budget a `TimeoutError` of the suite's own is reported as the budget's.
* *Machine.* Two multimodal programs share `/tmp/mm_throughput_result.json` and mix their
  figures; one alone may still take a file that was there before it for its own, once, if
  its first benchmark succeeds without writing one (throughput.py:824 asks only whether
  there is a file; `bare`); the repository is used after its lock is released; an installation or
  build that breaks off leaves the old stamp behind, over which a later run finds
  nothing to do. `AloneIsTrue` and `SuiteOnOwnBuild` except exactly these (`met`, `bare`,
  `botched`). An engine that outlives a benchmark which ended of itself is never killed
  (`loose`), as only a timeout kills the group. `process.wait(timeout=3600)` of quality.py:560 comes after the output was
  read to its end and never fires.
* *Search.* Increments of the tally can be lost, and searches of an abandoned suite are
  counted in the next one (search_tool.py:379). The cap is on grants: when the request
  leaves is up to the thread.
* *Call chain.* A model that skips a lookup due on its own turn before the first required
  call fails; optional calls made early and in parallel can leave nothing due; calls
  beyond the golden ones of a turn go unpunished.
* *Service.* The details of a run that is still running say completed as soon as one
  result file is there (storage.py:189); `ACTIVE_RUNS` is iterated while other
  threads change it (runs.py:46).

## 4. What is proved

The theorems hold for every value of the constants that satisfies the assumptions
named in the modules (finite sets of runs or samples, natural bounds, a floor of at
least two rate units that no start undercuts, orders of campaigns that exist,
selections of pillars the flags can express).

Every safety property of every passing run is proved, and the type invariant of every
module with proofs. Each proof has one inductive invariant, `IInv` or a conjunction of
named parts, one lemma per part or per group of actions, and one theorem per property.
Five theorems state definitions no run checks, since each bounds a disagreement of
chapter 3 or is a part of the invariant: `OneAskedForAll`, `SameRepUnlessZero`,
`OptionalHarmless`, `AccuracyIsShare` and `StraysTimedOut`. TLC was asked about each before it was proved.

**RunServiceProofs.** `IInv` = types, `EntryOwned`, `ProcInv` (a process is started by
`Spawn` only and exits once), `RecordInv` (before the supervisor's first record is
complete no other thread has anything to rewrite), `TruthInv` (a status, in a file
*or in the hands of a thread*, is true of its run) and `LiveRecordSound`.
`LiveRecordSound` alone is not inductive: that two writers may corrupt a record but
not while the benchmark lives needs to know which threads hold which status, hence
`RecordInv` and `TruthInv`. From it: `TypeCorrect`, `EntriesOwned`,
`LiveRecordsSound`, and `Refinement`, `Spec => ImplementsLifecycle`: every step maps to a
step of `RunLifecycle` or a stutter; rewrites map to `Show` (an outcome is withdrawn
and shown again), and `TruthInv` is why what is shown is permitted. `OneAtATime`
(`OneBenchmark`, for a patient client) adds `SoleInv`: one request at a time is past
the first check; while it scans the disk, the record of any benchmark that was not
told to stop says "running", and after the scan there is none. That no thread is
about to rewrite such a record is `TruthInv` again.
`StreamHarmless` (`LSpec => Spec /\ []IInv`) shows that the log stream disturbs none of
this: its only effect on the service is the reaping of a poll. `EndAnnounced`
(`EndIsTheEnd`) needs two more parts: `TraceInv` (only a cancel that has sent SIGTERM, or a
restart, takes the entry of a running benchmark away) for the second question, and
`ViewInv` (a stream between its questions about an orphaned benchmark found no
record) for the first; `LostKept` is why no thread can touch that record in between.

**ServerSessionProofs.** `HandleInv` (the handle is the current session's from `Popen` to
the end of the cleanup), `CleanupInv`, `FutureInv`, `PortInv` and the three safety
properties together are inductive. From them `TypeCorrect`, `ServersReachable`,
`MeasuresOwn`, `LeavesNothing`, for any number of sessions.

**StressSweepProofs.** The way up keeps "every rate measured passed, the last is the highest",
the way down the mirror image; `SweptInv` hands the knee over; `Bracketed` collects
them over the sweeps. From them `TypeCorrect`, `KneesBracketed`, `InterpolatesMeasured`,
for any limits, start rates, capacities and numbers of sweeps. `HeadlineIsTight`
(`HeadlineTight`, for an odd number of sweeps) rests on `RankedIs`: the k-th smallest
of a bounded sequence exists, and k places hold no more. The unspoilt sweeps and
those at or below the median then overlap, as two majorities do; the knee of a
common one bounds the median from below, and `KneeInv` (a positive knee is not below
the floor) settles the case that this knee is 0. With an even number of sweeps
(`GBENCH_STRESS_REPS`) the median is a mean of two knees, one of which may be 0, and
the argument does not hold. `SecondaryFromMedian` (`SameRepUnlessZero`) needs
`MedianSweepIs`: the sweep whose knee is nearest to the median has the median itself,
as for an odd number of sweeps the median is the knee of one (`MedianMeasured`).

**EvalSuiteProofs.** `TallyInv` relates the counters that are kept while replies come in,
in any order, to the cardinalities of sets of traces; `PhaseInv`, `GradeInv` and
`UngradedInv` say what is known of traces and result in each phase; `CallInv` follows
a tool call through the loop. From them `TypeCorrect`, `SuccessIsEarned`,
`FailedIsSound`, `ToolCallsAnswered`, for any number of samples, permits, rounds and tries,
and `AccuracyIsAShare`: the samples found right and those taken out of the denominator
are disjoint, so the accuracy reported never exceeds 1.

**CampaignProofs.** First the sweep by itself: `Forward` (what lies ahead of the loop has no row and no worker),
`Saving` (which rows are saved within a `try`), `AllKept`, `DirsInOrder` and
`StraysTimedOut` carry `SuccessIsEarned`, `OnlyUnreadableDropped`, `SuccessIsOnDisk`,
`NewestIsReused` and `OnlyTimedOutStray`, for any number of models, suites and programs, local
servers and endpoints. `SuccessIsEarned` traces every row and record of success to a suite
that succeeded in a sweep of that model; it adds that `target` is the model swept
or one that was listed.

Then the program: `CInv` has four parts: the invariant of the sweep, carried over to
the steps of the composition; the golden set (`GoldenInv`: a case is judged
only by a model the endpoint serves, `CasesAnswered`); the loops (`Loops`, `Covered`: every cell before
the place the loops are at has its row or its model has failed); and the shared
configuration (`ConfInv`, `RowsTrue`, `StressRows`: what the configuration is at each
place, as a function of the orders alone). The next pillar of a pass is a least
number of a set, which `LeastNat` provides without induction. From it `ProgramTypes`,
`LabelsTrue`, `StressAlwaysUniform`, `NothingMissing`, `ZeroAlwaysClean`,
`CulpritsNamed`, `VerdictsNeedAnswers` and `OneModelAnswers`, for any models, formats,
campaigns and selections of pillars. `VerdictsNeedAnswers` is about the verdict
of a set: `failed` always rests on a model the endpoint serves, `passed` does
unless no case applies to the model (golden.py:1039-1043 passes such a set without
an answer).

**SharedMachineProofs.** `TypeInv` is the types and the bounds of the counters (`Bounds`).
`Accounted` says that as long as no benchmark of this life has ended of itself and left its engine,
there is no engine and no orphan: a timeout adds none. `TimeoutsStarveNobody` follows.
`Together` (who was at the same work at once knows it) and `AloneInv`
(what is in the shared places, and whose, as long as a program has met nobody: a file that was there before
is gone after the first iteration, since its end unlinks it) give
`AloneAlwaysTrue`; `RepoInv` (what stamp, head, installation and build say of each
other between two breaks) gives `SuiteOnOwnBuildUnlessMet`, whose exceptions are those
of the property. All for any number of programs, commits, iterations and kills.

**SearchToolProofs.** `RateIsCapped` rests on a potential, `Paid`: for each i the last i grants,
and what is in the bucket now, were paid for by one full bucket and what has dripped
in since. `TallyIsHonest` needs `CascadeInOrder` (the models before the one a search
is at have failed it) and that counts in the hands of threads are never too much.
They hold for any number of threads, models, rounds and attempts and any rate.

**CallChainProofs.** A part of a sequence (`Subseq`) is given by a set of places, and its
n-th place exists by the least-number principle (`NthIs`, `EachIsNth`); so removal and
concatenation of the two golden lists keep call and observation paired (`KeepIs`,
`ConcatPaired`, `UpdateIs`). `Shares` says that what is due and what was matched share
out the required calls: a matched call moves from one to the other (`SharesTaken`),
a turn adds its own (`SharesUpdate`), and removing marked calls removes no required
one (`SharesKept`) as long as the places popped are theirs, which takes that no marked
call is there twice (`UnpoppedHas`). The invariant adds to the properties `InTurn`
(nothing is due or matched before its turn, so a new turn brings nothing that was
matched), `MarkedOnce` (a marked call is due at most once, and not at all past the last
turn, which is why calls that meet nothing due cannot end in success) and
`Comparing`. From it `TypeCorrect`, `AlignedAlways`, `ConservedUnlessDoubled` and
`SuccessIsDone`, for any golden chains, any calls of the model, any number of calls
per message, rounds and attempts. `AlignedAlways` needs no condition: even the wrong
pops are the same in both lists. `OptionalNeverCountsThere` (`OptionalHarmless`) adds
`TakenBefore`: whatever is matched is of a turn before the one due next. If every
required call is matched and the last turn has one, no turn is left, and what is still
due is dropped.

Only model-checked: all liveness (`EntryReleased`, `StaleRecordSettled`, the three
`Finishes`, `CampaignReturns`, `SearchesReturn`, `EpisodeEnds`), which is beyond the
prover, as is `ENABLED`; and that `Unpopped` is what the loop of `remove_called_fc`
computes (`PopsByValue`), which would need induction over sequences.

## 5. Not modelled

* Components without concurrency, failure handling or state of their own: graders and
  most suites, serving measurement, scaffold and registry, statistics, logs, gates,
  routes that only read, cloud storage, scripts, deployment, user interface (its
  requests are the clients of `RunService`), vendored code.
* The tau suites (`tau_common.py`): they drive an external simulator, and what they keep
  themselves is a count of failures.
* `ACTIVE_RUNS` changing while another thread iterates over it (a `RuntimeError`,
  answered with 500, state unchanged).
* Of modelled components: what each section of chapter 2 names as left out.

## 6. Plan

1. `EvalSuite` extended by several attempts per sample (pass@k, avg@k) and sharding.
2. `CallChain`: the aggregation over samples (success rate, call accuracy).
3. Serving measurement: the warm-up, the sample counts and the percentiles as
   operators, checked against reference definitions.

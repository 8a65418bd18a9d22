# TLA+ specifications of gitea-k8s-runner-plugin

The plugin runs the jobs of a Gitea (or Forgejo) runner as Kubernetes Jobs. The
runner calls it over gRPC; the plugin drives the API server; a small helper
inside the job's pod runs each step detached from the exec stream, so that a
broken stream is resumed instead of failing the step. This directory models that
machinery, checks it with TLC on small instances, and proves the main results
with TLAPS for all instances. `PROJECT.json` maps every definition to the lines
it models.

## The system

| Component | State | Operations | Interacts with |
|---|---|---|---|
| Step execution (`server.go` Exec/runStep, `stephelper`, `stepio`, `execwrap`) | runStep's argv, deadline and error; the Decoder's offset, half frame and exit code; in the pod the step directory (log, supervisor, done and pid files), the run/follow processes, the supervisor, the command and its pipes | backend.Exec of `run` or `follow`, decode, judge, back off, reattach; run, follow, supervise; kill | the exec stream (may break anywhere), files shared by processes, the runner's context |
| Environments (`server.go`, `k8s/backend.go`, `main.go`) | `s.envs`, each environment's lock, pod and instance label; the Jobs in the namespace | Create, Start, Exec/Copy, Remove, Shutdown, Sweep, DeleteOwned | the runner (one RPC at a time, cancellation, Remove during unwinding), the API server, other instances in the namespace |
| Pod readiness (`k8s/backend.go`) | first sight of pull errors, last state | WaitReady, assess | polls pods until the ready timeout |
| File copies (`server.go`, `tarx`) | a pipe, a reader goroutine, the chunk buffer | CopyIn, CopyOut | tar in the pod, the gRPC stream, the runner's copyIn and archiveReader |
| Step directories and pid files (`stephelper`, `execwrap`) | one directory and one pid file per step, processes earlier steps left | run with collect, Wrap, Kill | the next step, late `run`s of the last one |
| Preparation of the pod (`server.go`) | what is at the tool cache's path | prepare, prepareScript, imageEnv | scripts of earlier attempts that still run |
| Step wire format (`stepio`) | the Decoder's half frame | AppendFrame, Decoder.Write, RunArgv, ParseRun, mergeEnv | plugin and helper |
| Flags, options, pod spec (`main.go`, `options`, `podspec`) | configuration; the BuildInput Create keeps | parseFlags, Parse, newEnvID, BuildJob | Create, Start, the API server's validation |
| Runner's client (`runner/patches/0001`) | environment id, removed flag | Create, Start, Exec, copyIn, GetContainerArchive, Remove (once) | the plugin |
| Chart, generated code, label routing | configuration | | |

What is hard here, and to test:

* a step's output crosses a stream that may break between any two bytes, and
  three kinds of processes (run, follow, supervise) meet only through files;
* `run` may be repeated while an earlier one is still under way;
* the disk of the pod may tear a write, any process may be killed, the pod may be
  deleted while its processes still run;
* cancellation overlaps everything, and Remove overlaps what unwinds;
* the plugin persists nothing: only labels on Jobs tell the next process what
  the last one left behind.

* a copy has five parties (client, handler, goroutine, exec stream, tar), any of
  which may stop first;
* a script whose exec failed may still run beside its repetition;
* names are free text on one side and subject to the API server's rules on the
  other.

Correctness means: output exactly once and in order, an exit code only if the
step recorded it, a step never started twice, every Exec ends (StepResume); no
Job left behind, none deleted under a running call, none of another instance
touched (Environments); copies that are whole or fail, and end (FileCopy); steps
that do not disturb each other in the pod (StepDirs); one settled tool cache
(PodPrepare); a Job the API server takes and the plugin finds again (JobPlan);
bytes and command lines that arrive as sent (StepWire). The `hazards` of `PROJECT.json` list the places in the
code where each of these could go wrong.

## Modules

| Module | What it is |
|---|---|
| `StepDelivery` | abstract: what Exec promises the runner about one step |
| `StepResume` | one Exec under the step helper: plugin, stream, helper, supervisor, command |
| `StepResumeRefinement` | the refinement mapping from StepResume to StepDelivery |
| `StepResumeInvariant` | the inductive invariant of StepResume |
| `StepResumeProofs` | the TLAPS theorems about StepResume |
| `StepDeliveryProofs` | complete output, and the refinement of StepDelivery |
| `Environments` | environments and Jobs over any number of plugin processes |
| `PodReadiness` | WaitReady polling a pod whose containers fail, restart and recover |
| `PodReadinessProofs` | its inductive invariant and TLAPS theorems |
| `JobPlan` | from flags and a Create request to the Job the API server sees |
| `PodPrepare` | prepare, its script and its retries |
| `FileCopy` | one CopyIn or CopyOut, from the runner's client to tar |
| `StepDirs` | the steps of one environment and what they leave in the pod |
| `StepWire` | frames as bytes, the Decoder, and a step's command line |
| `Calls` | the last five as the calls of one environment |
| `EnvironmentsProofs`, `JobPlanProofs`, `StepDirsProofs`, `StepWireProofs` | the inductive invariant and TLAPS theorems of each |
| `CallsProofs` | the same for PodPrepare and FileCopy, and the theorems about Calls as a whole |
| `MCStepResume`, `MCEnvironments`, `MCPodReadiness`, `MCCalls` | instances for TLC |

Definitions marked "Seeded fault" next to an operator are mutations of it: a
property is kept only if replacing the operator by such a mutation makes TLC find
a violation. They are used by no action.

### StepResume

A frame of the log is two units, its header and its payload, so the stream can
break inside a frame and a write can be torn. The log only grows, so what is in
flight is the interval `dpos+1 .. fpos` of it. `before` is both runStep's local and what selects
argv: 0 sends `run`, n sends `follow n`. Time appears as `late`: ReattachTimeout
has passed since the deadline was last set.

* runStep: `ExecStart`/`ExecRefused`/`StreamBreaks`/`ExecReturns` are the ways
  backend.Exec goes, `Judge` is the switch after it, `Reattach` and
  `BackoffCancelled` end the wait, `ExecDone`, `Kill` and `KillFails` are the tail
  of Exec. `Deliver` is the sink and Decoder.Write: one unit at a time, because
  any chunking of the same units has the same effect once whole frames are held
  back.
* `run`: `CreateLog` (O_EXCL), `StartSupervisor`, `RecordSupervisor`, `RecordPid`,
  any of which may be the last thing a killed process does (`RunFails`; also the exec of
  `follow` may fail). When its stream breaks a
  `run` goes on alone; a second one may start meanwhile. A process whose number is
  used again is one that has ended.
* `follow`: `fst` is the place in its loop. `Drain` reads to the end of the log at
  that moment; the done file, the supervisor and the done file again are separate
  steps, since the supervisor moves in between.
* `supervise`: `StartFails`/`StartCommand`, `CopyChunk` per pipe reader, `Settle`
  (EOF or the grace period), `Finish`, `WriteDone`, then draining.
  `WriteLog` is one write: whole, torn or failed. The error sticks.
* Around it: cancellation, pod deletion (a deletion timestamp first, the end
  later), the deadline. A `Faults` constant selects which kinds of fault an
  instance explores: `disk`, `leftover`, `pod`, `process`.

### Environments

One record per job id. `holder` is the channel lock of an environment, and the
handlers stop wherever another goroutine can act: after the lookup in `s.envs`,
waiting for the lock, between API calls. API calls succeed, fail, or (Create) time
out and still take effect later. `Dies` loses everything but the Jobs. The runner
sends one streaming RPC at a time, may cancel it, and calls Remove once, possibly
while the cancelled RPC unwinds (patch 0001). The namespace also holds a Job of
another instance, whose id may be given to Remove. `Labels` are the values of the
`instance` backend option that runners send.

### PodReadiness

`Poll` is one turn of WaitReady's loop with assess inside: a list is a snapshot and
assess uses nothing else but its own map and the clock, so both are one step, and
what kubelet does between two polls is lost on it. `Failures` are assess's error
returns, `FirstSeen` is what it leaves in pullErrSince (absent entries are
`NotSeen`, times are ages counted in polls), `AllReady` is allReady. `Tick`,
`ListFails` and `NotReady` are the rest of the loop. Kubelet and the Job controller
are external: `NextStates` says which statuses may follow each other, with
sidecars restarted and their images pulled again. Extra containers of the
operator's podspec must be ready but may end unnoticed, as in the code. `newest`
has one pod to choose from since a Job has backoffLimit 0; progress and error
texts are left out.

### JobPlan

`Serve` is parseFlags, `Create` is Server.Create with options.Parse and BuildJob as
validation, `Submit` is boot's BuildJob and KubeBackend.Create. Names are sequences of
characters, since what newEnvID and dnsLabel make of them is the question. A podspec
is reduced to what can clash: names of containers, init containers and volumes,
main's image and mounts, host names. The API server is external: `JobValid` holds the
rules of its validation that these parts can break.

### PodPrepare

prepareScript runs once per attempt and one command at a time (`MakeLayout` to
`MakeTool`, which may fail like the first), so scripts of different attempts interleave at the tool cache's path.
`ExecBroken` leaves the script of its attempt running, dead or never started.
`box` is the main container: its tool cache variables, whether a volume is mounted
there, whether links work, always or now and then, whether there is a shell.

### FileCopy

CopyIn has four threads of control: the client (`SendChunk`, `HalfClose`,
`FillFails`), the handler (`FirstChunk`, `CopyInExecEnds`, `CopyInAnswer`), its goroutine
(`PipeWrite`, `ReaderRecv`, `DrainStream`) and tar behind the exec's stdin (`StdinEnds`,
`Extract`). Send blocks when Window messages are in the stream. An archive is a
number of units, with the end mark anywhere, after which tar may stop reading; tar
may take a cut archive for a whole one. CopyOut (`OpenArchive`, `CopyOutExecEnds`,
`CopyOutAnswer`) goes the other way, from `Produce` through `ChunkWrite`
and Flush.

### StepDirs

Execs one after the other, each with a directory and a pid file of its own; a `run` is
identified by its step and attempt and goes on when its stream breaks. collect is
three steps (`ReadDir`, `JudgeDir`, `RemoveDir`), because it acts on what it read. The
log is only a file that exists. With `helper` FALSE a step is Wrap's shell. `LateRuns`
says whether a `run` may still be starting when the next step begins: without it (run
`calls`) steps do not disturb each other, with it they do (run `collect`).

Supervisors and Wrap's shells have process numbers (`pid`). The kernel gives a new process
any number that no live one has (`Numbered`), so a number comes back once its process is
gone. The supervisor file holds pid and start time and therefore names one process; the
pid file holds a bare number, and `KillStep` hits every live process that has it then,
whichever step it belongs to. `run` and `follow` processes, and what commands fork, have no
numbers here.

### StepWire

Base 4 bytes and two-byte numbers keep int32's sign, the payload limit and split
headers within reach. `Feed` writes a chunk of any size, `DecodeFrame` is one turn of
Decoder.Write's loop. The command line goes from RunArgv through ParseRun twice and
mergeEnv; a word is what strings.Cut makes of it at "=". A log may hold frames no helper
writes: other kinds, payloads over the limit, exit frames of another length, anything
after an exit record. `DecodesPrefix` says what the Decoder makes of each of them.

### Calls

The environment's lock admits one call at a time, so a behaviour of `Calls` is one kind
of call, with whatever earlier ones left in the pod part of its component. `PlanOnly`
and `StepsOnly` are the parts that the violation runs need.

## Runs

| Run | Instance | Shows |
|---|---|---|
| `streams` | 2 processes, 2 chunks, leftovers, pod deletion | TypeOK, ExactlyOnce, StartedOnce, CompleteOutput |
| `faults` | 2 processes, 1 chunk, torn writes, killed processes, a liveness check every 2 polls | ExitIsReal, FollowIsComplete, NoCorruption, and StepResume implements StepDelivery |
| `ends` | 2 processes, no output, killed processes, leftovers, pod deletion, fairness | ExecEnds |
| `giveup`, `kill` | smallest instances | two statements of the documentation that the code does not keep (below) |
| `env_faults` | 1 job, 1 foreign Job, every fault, both labels | TypeOK, ForeignJobsStay, NoUntendedJob, FailedStartLeavesNothing, NoDeleteUnderway |
| `env_ends` | 2 jobs, crashes, SIGTERM, fairness | RemovedIsGone, OrphansSwept, JobsEnd |
| `ready` | init container, sidecar, main and an extra container; 2 polls of grace, 2 restarts, fairness | TypeOK, BlamesRepeatOffenders, HiccupsForgiven, SettledIsReported |
| `calls` | 10 classes, 13 sets of options, 8 lists of services, names of up to 5 characters; 3 attempts of prepare in 216 containers; archives of up to 4 units; 2 steps of 2 runs; logs of up to 3 frames; 3159 command lines; fairness | JobPlan: EnvIdValid, BuildKeepsValid, JobUsable. PodPrepare: CacheInUse, CacheSettled, FewBreaksForgiven, PrepareEnds. FileCopy: CopiedWhole, OutWhole, CopyEnds. StepDirs: RunsOnce, LiveKept, OldCollected, KillsOwnStep. StepWire: DecodesPrefix, CallArrives. All: CallsTypeOK |
| `namespace`, `services` | JobPlan alone | NamespaceHonoured and ServicesVetted fail |
| `collect` | StepDirs alone, with late runs | RunsOnce fails |

Bounds. Two process identities are enough for a `run` that goes on alone beside a
connected one; each may be used again, so the number of attempts is unbounded.
Two chunks give an order within a stream, interleaving between streams and a
resume before, inside and after a frame; with one chunk and the exit record there
are still two frames to break in. One success code and one failure code suffice,
as no code is compared with another. In Environments jobs share nothing but the
process, so two show what their interleaving can show. In PodReadiness a grace of
two polls tells first sight, the wait and its end apart, and three exits go one
beyond the limit of two restarts. In PodPrepare three attempts give two scripts of
the past beside a current one, and more cannot differ: they meet only at one path. In
FileCopy four units and a window of one let every party be ahead of or behind every
other, and an end mark before the last unit lets tar stop early; writes of up to three
units cross the chunk size of two. Two steps and two `run`s each are a step, its
repeated `run`, and a collect by the next step's `run`s; of each step one process has a
number at a time, so two numbers suffice (three where commands start twice), and with so
few every number that is freed is soon used again. In JobPlan names of up to
five characters exceed maxPrefix by two, in StepWire a payload exceeds MaxPayload by
one. The theorems remove these
bounds for what they state.

Fairness. `FairSpec` of StepResume assumes that goroutines and processes are
scheduled, that the command ends, that kubelet and API server serve an exec that
is asked for again and again, and that client-go notices a done context or a pod
that is gone. It assumes nothing of breaks, failures, cancellation or of what the
command leaves behind. `FairSpec` of Environments assumes that handlers run, that
the runner ends a job with Remove (act does so on every path), and that a plugin
that is restarted again and again does not crash each time before its sweep gets
to a given Job and to serving (strong fairness of sweep and Listen). `FairSpec` of
PodReadiness assumes that the loop runs, that a list asked for again and again is
answered once, and that select does not prefer the ticker for ever; it assumes
nothing of kubelet and not that the ready timeout ever passes.

`PrepareFairness` assumes that the ready timeout passes, that an exec returns once its
context is done, that timers fire; not that an exec ever works. `CopyFairness` assumes
that client, handler, goroutine and tar run and that client-go returns when the command
exited or the context is done. That the client goes on is justified by copyIn: its
fill ends or fails, and both close the stream.

Deadlock is checked for StepResume and PodReadiness, where Exec and WaitReady must
always be able to go on until they return. It is switched off
for Environments and Calls, where all jobs and calls may be over.

## What does not hold

* `giveup`: the reattach deadline runs while a step is silent but connected, so
  the first break after ReattachTimeout of silence fails the step without one
  attempt to reattach.
* `kill`: a cancellation that arrives before `run` wrote the pid file kills
  nothing; the command runs on until the environment is removed.
* `namespace`: the `namespace` backend option changes the Job's namespace but not the one
  it is sent to, so the API server refuses the Job.
* `services`: a service id that is no host name, or two ids with one label, passes
  Create and fails at Start.
* `collect`: a late `run` of a cancelled step removes the next step's directory in the
  moment between its log and its supervisor file; a repeated `run` then starts that
  step's command a second time.

Noticed while modelling, without a run of their own:

* a repeated `run` that follows before the first one wrote the supervisor file may
  report the supervisor as gone while it lives (helper.go:161);
* if the done file cannot be written and the command left a process behind, follow
  polls for ever and Exec hangs until it is cancelled (helper.go:261-264);
* Kill goes by the number alone. If a `run` outlives its step (as in `collect`), the number
  of the current step's supervisor may be free and then that late `run`'s supervisor's,
  and a cancellation kills the wrong one: KillsOwnStep fails with LateRuns (wrap.go:34-39);
* a `run` that dies between starting the supervisor and writing its file leaves a live step
  that the next step's collect takes for one that is over (helper.go:199-204);
* with the `instance` backend option Jobs carry a label that the start-up sweep does
  not select (options.go:89; `env_ends` leaves that option unset);
* a sidecar's crash loop does not delete its entry in pullErrSince, so a pull error
  that was over counts from its first sight when it comes back (backend.go:260-262);
  this is why HiccupsForgiven leaves sidecars out.

## Proofs

`StepResumeProofs` proves, for every set of processes, every number of chunks,
every set of exit codes and every combination of faults:

* `TypeCorrect`: TypeOK;
* `StepStartsOnce`: the command starts at most once;
* `DeliveredExactlyOnce`: the runner was sent exactly the log's frames up to the
  decoder's offset;
* `DecoderNeverCorrupt`: decoding fails only when the runner hung up;
* `ExitCodeIsReal`: a reported exit code was recorded, after the whole log arrived;
* `FollowTellsTheTruth`: a follower that says the log is complete has delivered the
  exit record, and resuming never asks for more than the log holds.

They rest on `ConstantsAssumption` and one inductive invariant, `Inv`
(`StepResumeInvariant`), as none of the properties is inductive alone:

* `StartInv`: before the log exists there is no supervisor and nobody about to
  start one; whoever created it is alone until the supervisor runs; and a
  supervisor in its first state has not started the command.
* `LogInv`: the log alternates headers and payloads, is whole unless a write
  failed, and an exit record is the last thing in it, carries the exit code and
  means that the log is closed.
* `StreamInv`: an attempt begins where the decoder stands, and
  what is in flight lies between the decoder's offset and the log's end.
* `DecodeInv`: ExactlyOnce, NoCorruption, and a decoded exit code is the log's
  last frame. With StreamInv nothing is in flight after it
  (`NothingAfterExit`), which is why a resumed stream cannot corrupt the decoder.
* `DoneInv`: a process past creating the log has a log to follow, and a done file
  without a message means that the exit record is in it, so a follower that drains
  after reading it delivers the record (`CompleteStays`, `DecodedExit`).
* `FollowInv`: a follower that left with status 0 had seen such a done file and
  drained the log after it.
* `ResultInv`: an exit verdict is the decoder's, and no verdict blames a follower
  that did its work.

Each part has a lemma with one step per action that can disturb it. The argument
turns on `LogOnlyGrows`: no step changes what the log already holds, and none adds
to a closed log, so what was decoded stays a prefix of the log.

`StepDeliveryProofs` goes on from there, with the same assumption:

* `OutputIsComplete`: CompleteOutput, the end-to-end statement from the command's
  pipes to the runner's stream. CompleteOutput speaks of positions in `out`
  (`Received`), since what a filter on sequences returns is out of the prover's reach.
* `ExecKeepsItsPromise`: `Spec => ImplementsDelivery`, the refinement of StepDelivery.
  The mapping (`StepResumeRefinement`) reads the promise's variables off the log's
  whole frames (`Produced`, `Recorded`), the decoder (`out`) and the verdict
  (`Reported`). `StepRefines` goes through the actions: the supervisor's `StartFails`,
  `CopyChunk` and `Finish` append at most one frame (`SupervisorRefines`), which is a
  step of Produce or RecordExit or nothing; `Deliver` completes at most one frame; the ends
  of Exec report (`ReturnRefines`); everything else leaves all four alone.

Both need `OutputInv` next to Inv: `ReaderInv` (a reader logs only what was written,
and EOF means that everything was taken and nobody writes any more), `OrderInv`
(chunks of one stream are in the log in rising order) and `PresentInv` (as long as the
log is open and no write failed no chunk that was taken is missing from it, and in a log with
an exit record none at all if the readers were at EOF). TLC checked OutputInv on the
instances of `streams` and `faults` before it was proved.

`EnvironmentsProofs` proves, for every set of environments, of labels and of faults, from
`EnvironmentsAssumption`: `TypeCorrect`, `OtherInstancesAreSafe` (ForeignJobsStay),
`EveryJobIsTended` (NoUntendedJob), `FailedStartsCleanUp` (FailedStartLeavesNothing) and
the action property `WorkIsNotPulledAway` (NoDeleteUnderway). The invariant:

* `LockInv`: who works on an environment holds its lock, except Shutdown past its
  deadline. With it neither Remove nor Shutdown reaches its Delete while a call uses the
  Job. NoDeleteUnderway excuses two cases by name: Shutdown past its deadline, and
  `Overtaken`, a Remove for a cancelled call that was sent before SIGTERM and does its
  lookup after Shutdown has emptied s.envs: it finds no environment, takes no lock and
  deletes the Job by its labels while the call unwinds.
* `PhaseInv`, `CallInv`: which handlers there can be in each phase of the process.
* `RunInv`: how the runner's view and the handlers relate; above all, a call that a
  Remove overtakes was cancelled, and a Remove that does not find the environment
  overtakes none. That is why a cancelled Start cannot create a Job nobody knows of.
* `JobInv`: NoUntendedJob without the disjunct "a handler is at work", which would not be
  inductive, since handlers come and go.
* `StartInv`: before Start succeeded there is a Job only while its handler works on it.
* `ForeignInv`: no list of this process ever names another instance's Job.

Two results have hypotheses, and the code needs both. `RemoveIsFinal` (RemovedIsGone)
assumes that runners do not set the `instance` option to another label (DeleteOwned would
not find such a Job) and that the API server carries out no creation whose caller had
given up; `SweepLeavesNoOrphan` (OrphansSwept) assumes moreover that API calls do not
fail, as a failed delete of the sweep is only logged. Crashes, SIGTERM, timeouts and, for
the first, failed calls are allowed. `GoneInv` and `SweepInv` are their invariants. The
run `env_ends` leaves these faults out too, and timeouts.

`CallsProofs` proves of FileCopy CopiedWhole (`CopyInIsWhole`) and OutWhole (`CopyOutIsWhole`) for
archives, chunks, writes and windows of any size, from `CopyAssumption`. `InInv`: the
goroutine passes on every chunk in order, the pipe ends without an error only after the
whole archive, and a tar that exits 0 short of the mark had its stdin closed early, which
the goroutine or the runner knows. `OutInv` is a balance: what the runner received, what
is in the stream, in ChunkWriter and in the writer's hands is what tar produced, unless
the call was cancelled or failed; `Units` counts the stream's chunks, of which only the last may be
short. `OrderInv` and `WayInv` say what each party has not done yet.

It proves of PodPrepare, for every set of containers and limit of attempts, from
`PrepareAssumption`: CacheInUse (`AnnouncedCacheIsInUse`), the action property CacheSettled
(`LateScriptsAreHarmless`) and FewBreaksForgiven (`BreaksAreForgiven`). `SeenInv`: what a
script saw at the path is still true when it acts on it, since nothing there is
ever replaced; `LinkInv`: where links work, no script gets to the point of making a
directory; `ProbeInv` counts the failed execs.

`StepDirsProofs` proves, for any number of steps and of `run`s per step, from
`DirsAssumption` and with no late runs: RunsOnce (`CommandStartsOnce`), LiveKept
(`LiveStepsAreKept`), OldCollected (`OldStepsAreCollected`) and the action property
KillsOwnStep (`CancelKillsOwnStep`), for any number of process numbers. The hypothesis
`~LateRuns` is needed for the first (the run `collect` is the counterexample without it)
and for the last (above). `PidInv`: no live process of an earlier step has a number that a
process of the current step has or had, since a number is given out when it is free and
earlier steps start nothing any more; and the record of the current step is the number of
one of its processes, which may be gone. `OwnerInv`: of each step's `run`s only the one
that created the log has a supervisor; `AliveInv`: a live step's files say so, and no
collect has it on its list of directories to remove; `EndedInv` and `CollectInv`: what is
over is recognised, and what a collect has passed is a live step or one that ended later;
`FilesInv` and `RunInv` tie files and processes to the latest step. `WrapInv` is the
counterpart without the helper.

`JobPlanProofs` proves, for every set of flags, requests and classes that
`PlanAssumption` types: JobUsable (`JobsAreUsable`), EnvIdValid (`JobNamesAreValid`) and
BuildKeepsValid (`BuildJobAddsNoClash`). Here the invariant (`PlanInv`: what was sent is
BuildJob of the checked input) is simple and the work is in the lemmas about the
operators: what trimming and cutting leave of a name (`TrimFacts`, `EnvIDFacts`), what
each helper of BuildJob does to a podspec (`SetupFacts`, `ServicesFacts`, `HelperFacts`,
`SharedFacts`) and that names, volumes and mounts stay distinct
(`BuiltNamesDistinct`, `BuiltVolumes`, `BuiltMountsFit`). In BuildKeepsValid `ClassFits` is
what a class must bring itself: names that do not clash, no init container called main
when main is to be added, an image from somewhere, valid host names. The instance has
classes on either side of each of these conditions.

`PodReadinessProofs` proves, for pods of any shape and limits of any size, from
`PodReadinessAssumption`:

* `TypeCorrect`: TypeOK;
* `ServicesGetTheirRestarts`: a sidecar is blamed only after more exits than the
  limit, main only after an exit. `CountInv` relates RestartCount, which lags
  behind, to the exits.
* `TransientPullsForgiven`: a pull error of a container that is not restarted is
  fatal only after every poll saw it for PullFailAfter. `PullInv` shows that
  pullErrSince and the history of the polls agree for such containers; for sidecars
  they do not (above).

`StepWireProofs` proves, for every base, payload limit, set of logs and set of calls that
`WireAssumption` types (Base even and over 3, so that the kinds are bytes and the sign is
the upper half; a payload limit that an exit record fits in and a header can hold; the
variables sent are finitely many):

* `WireTypeCorrect`: WireTypeOK;
* `PrefixDecoded`: DecodesPrefix. `DecodeInv` says that for some n the Decoder has taken n
  frames off the log (`Taken`: they were sound, they have arrived, what it delivered is
  them and what it holds is the bytes after them) and, once Write's loop is over, why it
  stopped there (`Stopped`: the log is at its end, the next frame has not wholly arrived,
  or it is one the Decoder must refuse). `FrameFacts` says that the header and payload
  of a frame's bytes give back what was encoded, `SignKept` that int32 undoes the
  unsigned field, `BadHeaderSound` that the header checks refuse exactly the unsound frames;
  `HeaderRead` and `TakeFrame` carry that from one frame to the log, `DecodeStep` and
  `FeedStep` from the log to any chunking.
* `CallDelivered`: CallArrives. `CallInv`: the line is RunArgv's of one of the calls until
  the command starts. `ParseRunArgv` says that ParseRun undoes RunArgv whatever the
  arguments, since no assignment of EnvArgs is "--"; `EnvironmentFacts` says what mergeEnv's list holds.

FlattenSeq and mergeEnv are recursive, and the library's induction theorems cannot be
used. `UpTo` takes their place: if a set of numbers has 0 and is closed under successor up
to n it has all of 0 .. n, since a least counterexample (`WFMin`) would have a
predecessor. It is applied to the sets of lengths for which the recursion has a solution
and for which the solution has the property (`FlatExists`, `FlatType`, `MergeExists`,
`MergeEnvFacts`). TLC checked `WireInv` on the instance of `calls` before it was proved.

`CallsProofs` also carries all this over to `CallsSpec`, the specification that the run
`calls` checks. `CallsInv` is the conjunction of the components' invariants. An idle
component is in a state of its invariant (`IdleFacts`), a step of CallsNext is a step of
each component or leaves it alone (`CallsSteps`), and each component's step lemma
(`PlanStep`, `PrepareStep`, `CopyStep`, `BaseInductive`, `WireStep`) does the rest. Results:

* `CallsTypeCorrect`: CallsTypeOK;
* `CallsSafe`: EnvIdValid, BuildKeepsValid, JobUsable, CacheInUse, FewBreaksForgiven,
  CopiedWhole, OutWhole, DecodesPrefix and CallArrives;
* `CallsStepsSafe`: RunsOnce, LiveKept and OldCollected, with no late runs (`DirsStep`);
* `CallsActionsSafe`: the action property CacheSettled;
* `CallsKillsOwnStep`: the action property KillsOwnStep, with no late runs.

Only model-checked:

* liveness (`ExecEnds`, `JobsEnd`, `SettledIsReported`, `PrepareEnds`, `CopyEnds`), which the
  prover does not reach;
* what the violation runs refute.

Every other property of a passing run is a theorem.

What the properties do not cover, although the models have it:

* follow's second look at the done file (helper.go:435): without it a finished step could be
  reported as vanished, which ends Exec all the same and is no completed follow, so neither
  ExecEnds nor FollowIsComplete would notice;
* a Delete that fails after Remove forgot the environment (server.go:577): NoUntendedJob
  excuses failed API calls and `env_ends` has none. The next sweep deletes such a Job;
* a Start that outlives Shutdown's deadline (server.go:614): NoUntendedJob excuses the shutdown
  phase and `env_ends` has no timeouts;
* Jobs with another `instance` label: OrphansSwept is checked and proved with Labels = {Mine};
* the race between collect and the next step's first files: only the run `collect` has it; in
  `calls` RunsOnce and LiveKept hold because no `run` outlives its step.

## Not modelled

* process numbers other than those of supervisors and Wrap's shells; Kill as more than one
  step (it signals the tree it found, waits, and signals the same numbers again);
* an error of p.Wait (helper.go:314-316): waiting for one's own child, with Go's handler for
  SIGCHLD in place, does not fail;
* in StepDirs: faults of the disk, and a `run` that dies half way. os.RemoveAll of collect is
  one step that succeeds, and its ReadDir succeeds (the code ignores both errors), so
  OldCollected speaks of removals that work. StepResume has both kinds of fault for one step;
* in JobPlan: most of the API server's validation. `JobValid` is about names, volumes,
  mounts, images of main and host names; values of labels given as options and images of services
  are not looked at, and BuildKeepsValid says nothing of them;
* follow's two arguments, lookPath, Install, the health service and the socket: single
  library calls without state shared with anything modelled;
* resource amounts, security contexts and environment variables in the pod spec, and
  which variables imageEnv passes on: data that no decision depends on;
* service logs and progress messages;
* reading ExecOutput in the runner, the patches that route jobs by label, the chart and
  generated code.

## Plan

1. `StepResume` with its abstract specification, invariant and proofs, then
   `Environments`: the core (done).
2. `PodReadiness`: WaitReady, assess and allReady over a pod whose containers fail,
   restart and recover; limits and the flicker of pull errors, with proofs (done).
3. `FileCopy`: the pipe, the reader goroutine and tar, with their end; the chunk
   writer (done).
4. `StepWire`: the decoder on bytes under any chunking, and command lines (done).
5. `StepDirs`: collect over two steps with late and repeated runs, and the
   direct exec path with the pid file (done).
6. `PodPrepare`: prepare's retries and the tool cache; `JobPlan`: flags, options and
   the pod spec (done).
7. Theorems about Environments, FileCopy, PodPrepare, StepDirs and JobPlan, and the
   refinement of StepDelivery (done).
8. Theorems about StepWire on bytes and words, and the step from the components'
   specifications to CallsSpec (done).

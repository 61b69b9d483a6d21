# A TLA+ verification of tidemark

tidemark is a stream processing engine: a job is a graph of source, operator
and sink vertices, each split into subtasks, one goroutine per subtask, bounded
channels between them. Watermarks carry event time, Chandy-Lamport barriers cut
checkpoints, and a transactional sink commits an epoch only when the checkpoint
that closes it is complete. These modules model the protocol that makes the
output exactly once, and its failures.

## 1. The system

| component | state it keeps | operations | talks to |
| --- | --- | --- | --- |
| stream elements (`core/element.go`) | none | constructors | everything |
| transport (`transport/`) | a bounded Go channel per pair of subtasks | `EmitRecord` (by key hash, one channel per downstream group), `Broadcast`, `Close` | subtask loops, gates |
| input gate (`runtime/gate.go`) | per input: ended, watermark, aligned, buffered; queues `pending`, `replay`; the channel `merged`; one forwarder goroutine per input | `Recv`, `Err`, `Wait` | channels below, subtask loop above |
| subtask loops (`runtime/subtask.go`) | the operator's keyed state, a sink's list of staged checkpoints | source, operator and sink loop; fault injection | gate, writer, coordinator, sink |
| source task (`runtime/source_task.go`) | position, barrier generator, watermark generator | emit a record, a watermark, a barrier; resume | source loop |
| coordinator (`checkpoint/coordinator.go`) | per checkpoint: acknowledgements, complete, abandoned; finished subtasks; a channel to wait on | `Acknowledge`, `Finished`, `Fail`, `CompletedAmong`, `AwaitCompletedAmong` | called by every subtask, writes storage under its mutex |
| storage (`checkpoint/storage.go`) | directories of `.state` files, metadata and a `_COMPLETE` marker | `WriteSubtaskState`, `Complete`, `Latest`, `Load` | coordinator, executor |
| transactional sink (`sinks/transactional.go`) | epoch, open staging file; staging and committed directories | `Write`, `Snapshot`, `NotifyCheckpointComplete`, `Restore`, `CommitFinalEpoch`, `Close` | sink loop, executor |
| executor (`runtime/executor.go`) | context, errors, opened sinks | start, cancel on the first error, wait, commit the final epochs, restore | everything |
| window and Nexmark operators (`operators/`) | keyed state: counts or winners, timers, the watermark | `ProcessElement`, `ProcessWatermark` | operator loop |
| Nexmark source (`sources/nexmark.go`) | position | `Next`, `Seek`; an event is a function of seed and offset | source loop |
| keyed state (`state/`) | a map | get, put, delete, iterate, serialise | operators |
| graph (`graph/graph.go`) | vertices, edges | `Validate`, `TopoOrder` | executor |

What makes each correct, and what is hard about it:

* **Gate.** A barrier goes on once every live input has delivered it, and what
  went before it is exactly what each input sent before its own. An input that
  is aligned early is held back without stopping its forwarder, then replayed
  before anything newer. Hard: which input is aligned, live, ended or replayed
  at the same moment depends on arrival order only.
* **Coordinator.** A marker means a usable checkpoint: one file per subtask, all
  of the same cut. Hard: acknowledgements race finishing sources, every write
  can fail half way, and waiters sleep.
* **Sink and recovery.** Nothing is output twice and nothing is lost whatever
  dies when. Hard: there is no atomic step over the marker and the rename, and a
  recovery can itself be interrupted.
* **Job.** It ends. Hard: alignments and `AwaitCompletedAmong` have no timeout.
* **Source.** The subtasks of a vertex cover the offsets once between them, and
  all inject the same barriers at places that a resume does not move. Hard: the
  ranges differ by a record, the budget must not.
* **Windowed count.** Every record is counted in every window that holds it, a
  window is emitted when the watermark completes it, and a recovered run emits
  what a clean one does. Hard: timers are found by the byte order of their keys,
  times saturate at both ends of int64, a fired window may be armed again, and
  watermarks start over after a restore.
* **Nexmark queries.** Their last answer for a window is the batch answer. Hard:
  q5's second stage drops late records by the same rule as the first, so whatever
  the first stage sends must arrive before the watermark that closes the window,
  through a gate that sees several of its subtasks at different points; ties must
  not depend on arrival.
* **Storage.** What a `_COMPLETE` marker vouches for is there and readable after
  any kill or power loss, and is not touched again. Hard: renames reach the disk
  in any order, a directory is reused by the next run, and there is no way to
  test a power loss.
* **Graph, transport and goroutines.** Only graphs that can be run are accepted,
  `Run` returns, and it returns nil only if everything was delivered. Hard:
  everyone blocks in bounded channels, a fan-out may meet again behind an
  alignment, and an error in one subtask must free all the others.

PROJECT.json lists the hazards line by line, with the properties aimed at each.

## 2. The modules

```
Elements ── InputStreams ── AlignedMerge ── AlignedMergeProofs
   │             └───┐                           └──── GateProofs
   └── GateCore ── Gate ── MCGate, GateProofs
          │  (implements AlignedMerge)        Shape ── Coordinator ── CheckpointRun ── CheckpointRunProofs
          │                                      └──── TransactionalSink
          │                                                  └── Job (with Coordinator) ── MCJob, JobProofs
          │                                                      (implements Output)
JobGraph ─┴─ Dataflow ── MCDataflow           Storage ── MCStorage
                                                 └────── StorageProofs
SaturatedTime ── SourceTask ── SourceVertex ── MCSourceVertex, SourceVertexProofs
      │               └──────┐
      ├── WindowCount ── WindowedRun ── MCWindowedRun, WindowProofs
      ├── HotItems, MaxBid ──┴── NexmarkRun (with GateCore) ── MCNexmark
      └── NexmarkSource ─────────────────────────────────────────┘

DataLemmas: numbers, sets and sequences, for AlignedMergeProofs, GateProofs, SourceVertexProofs, JobProofs and WindowProofs
```

**Elements** has the element kinds, and **InputStreams** the streams a gate reads
with `WellFormed`, what one producer may send on one channel: non-decreasing
watermarks, barriers numbered without a gap from the restored checkpoint, an
end-of-stream last. `OutputContract` shows that a gate's output is well-formed
again, so that the assumption carries from the sources through every operator of
the graph.

**GateCore** is the single-threaded part of `gate.go`. The fields of the struct
are the fields of a record, and each method is an operator of the same name from
one such record to the next; `handle`, `deliver`, `onBarrier`, `onEndOfStream`,
`advance`, `completeAlignment` and `drainBuffers` compose as the calls do. Gate,
Dataflow and NexmarkRun all use it. **Gate** adds the goroutines as actions:
`Forward` and `ForwarderReturns` per input, `CloseMerged`, and the
four ways one pass of `Recv` can go (`RecvPending`, `RecvReplay`, `RecvMerged`,
`RecvClosed`). A forwarder's receive and its send on `merged` are one action:
between them it holds one element that nobody else can see, and a forwarder that
is blocked there with the context done loses it (`ForwarderReturns`). `abort` is
the fault injector inside an alignment. `got` and `passed` are history variables.

**AlignedMerge** is what a gate promises: a merge that takes barrier *k* from
every live input in one step. The refinement mapping puts an input that is held
back *before* its barrier until the cut is taken.

**JobGraph** is `graph.go`: `AddVertex`, `Connect`, `Validate` and Kahn's order,
over declarations a program may get wrong. **Dataflow** starts what
`RunWithOptions` starts for any graph that `TopoOrder` accepts: one goroutine per
subtask, a bounded channel per pair of subtasks, a forwarder per channel. An
`EmitRecord` or `Broadcast` is a list of sends (`outbox`) that a subtask makes one
after the other and is stuck in when the channel is full (`room`); `Return` closes
the outputs as the deferred `CloseAll` does, `Cancel` is the executor's reaction
to the first error, and `InputsGone` the early return of a subtask whose producers
closed without an end-of-stream. Elements carry no data: an operator sends every
element on and a key's hash is any number.

**Shape** has the constants of a job and **Coordinator** the state and methods
of `coordinator.go`. A method holds one mutex across its disk writes, so it is
one action per way it can return; `AwaitCompletedAmong` gives the mutex up and
is three. `files` and `marker` are the checkpoint directories. `partlyFilled` is
what a completion that failed half way leaves behind, including the marker when
only the last directory sync failed. **CheckpointRun** calls it from subtasks
that acknowledge checkpoints in order and otherwise in any interleaving, which
covers every topology.

**Storage** is `storage.go` one level down: `WriteSubtaskState` and `Complete` are
the sequences of file system calls the code makes (`MkdirAll`, write and fsync of
a temporary file, `Rename`, `SyncDir`), one action per call, and any call may
fail. `entry` is what a process sees, `onDisk` what a power loss would leave;
renames reach the disk by themselves in any order (`WriteBack`), by a directory's
fsync at the latest. `ordered` says whether the file system writes a new
directory's own entry together with the directory's fsync, which POSIX does not
promise. A start is fresh or resumes from `Latest` if it `Loads` and passes
`CheckAgainst`. Coordinator has the same operations as one step each.

**TransactionalSink** has the state and methods of `transactional.go`; files
count copies of records so that a duplicate shows.

**Job** composes both with the three subtask loops, the executor and the restore
path. A subtask reads its inputs through AlignedMerge rather than Gate; that is
what the refinement is for. Failures are: a crash (all memory gone, an open
staging file torn or whole, also in the middle of the recovery from another
crash and in the middle of `commitFinalEpochs`), a subtask that returns an error
(plainly, in its snapshot, in writing it, in completing a checkpoint), and a
notification whose rename fails. A failed commit of a final epoch looks to the
disk like a crash at that point. An operator is abstract: it sends a record on at
once or holds it in its state until some later moment, and lets go of the rest at the
end of its input (`flushed`). **Output** is what the
reader of the output directory is promised.

**SaturatedTime** is event-time arithmetic: `subFloor`, `addCeil` and `floorMod`
over `MinTime..MaxTime` with Go's wrapping sum, difference and truncating
remainder, and the ordered encoding of a time in a key as the unsigned number its
bytes sort by. **SourceTask** has the pure parts of `source_task.go`: the range
of a subtask, the barrier budget, both generators and their resumption.
**SourceVertex** runs the subtasks of one vertex side by side, with crashes and a
resume from any checkpoint that all of them have taken part in.

**WindowCount** is `window.go`. The keyed state has the three partitions of the
code (counts, timers, the watermark), and `ProcessElement` and
`ProcessWatermark` go from one state to the next; `due` is the scan of
`collectDueTimers`, which stops at the first timer that is not due in *key*
order, so that an encoding that sorts wrongly shows. Record keys are integers
that sort as their bytes; keys of different lengths are not modelled.
**WindowedRun** puts one source subtask, the gate between and the operator
together with crashes: the operator gets its state back, the source its position,
and the gate and the watermark generator are new. A checkpoint is complete when
the operator has taken its snapshot and a crash takes the output back to what it
covers; that this is what the checkpoints and the sink really do is what Job
shows.

**NexmarkSource** is the event a seed and an offset give, the hash being any choice
of draws. **MaxBid** is q7's operator, **HotItems** q5's second stage with the
re-key in front of it; both have the shape of WindowCount. **NexmarkRun** runs both
queries on the elements of WindowedRun. The subtasks of q5's count get the same
watermarks and barriers and share no window, so they are one state `st` that moves
in lockstep; that they are really at different points shows in `chan2[a]`, from
which the gate of HotItems takes their outputs in any order. A barrier carries the
snapshots taken before it, and the checkpoint is complete when HotItems has taken
its own.

## 3. Runs

| run | instance | shows |
| --- | --- | --- |
| `gate_align` | 2 inputs, complete streams of at most 4 elements: up to 3 barriers and a repeated end-of-stream, or watermarks 1 and `MaxTime` around a record and a barrier, in any pair; injected faults | order per input, consistent cuts, nothing left behind, no record made late, the output contract, refinement of AlignedMerge |
| `dataflow` | every graph of up to 4 edges over 4 vertices: one or two sources, one or two sinks, the rest operators; a source or sink may have one setting, its factories or its parallelism wrong; those of up to 3 channels run (a source, up to 2 operators, a sink of 1 or 2 subtasks), with room for one element; a barrier, a record, the end; a subtask may fail at any moment | exactly the executable graphs are accepted, `Run` returns, nil means everything was delivered |
| `coordinator` | 2 sources, an operator, a sink; 2 checkpoints; any write may fail | markers vouch for the right files, no lost wake-up, decisions are final |
| `job_twice` | 1 source, an operator, 2 sink subtasks; 2 failures and a lost notification | exactly-once output through an interrupted recovery, commits never ahead of the marker, no drift between epochs and checkpoint IDs |
| `job_live` | 2 sources of 1 and 2 records, 1 failure | every complete checkpoint is a cut of the job, the job ends; refinement of Output |
| `source_vertex` | up to 8 records, 4 subtasks, intervals up to 3, 2 crashes | each offset once, the same barriers from everyone, one position per checkpoint ID |
| `window_late` | up to 4 records in any order up to both ends of the range, lateness 1, a crash | no timer without its count, nothing unreported, no due timer passed over |
| `window_fallback` | records later than the out-of-orderness, a crash | a violation, see section 6 |
| `nexmark` | 4 events (one no bid), 2 auctions, the last bid 3 or 4 late, ties, size 2, slide 1, lateness 1, a crash | the second stage drops and refuses nothing, the last answers of q5 and q7 are the batch answers |
| `storage` | 2 subtasks, runs of one or both, 2 checkpoints, 2 runs; kills, power losses and failing calls anywhere | a marker vouches for readable files of one shape, an announced checkpoint survives on an ordering file system, a marked directory is final |
| `storage_root` | the same | a violation, see section 6 |
| `job_behind_operator` | the shorter source goes through an operator of its own | a violation, see section 6 |

What `OrderIsExecutable` compares `Validate` with is not `Validate` again: `executable`
speaks of the graph as a whole (acyclic by its connections, every vertex on a way from a
source to a sink), the code of one vertex and its edges at a time and of what Kahn's
algorithm leaves over. Each check of `Validate` decides some graph of the run by itself:
every misdeclared vertex has one fault, and with two sources or two sinks one that is not
connected may be all that is wrong. `HotItemsAgree` and `WinnersAgree` take what the
operator emitted *last* for a window; an answer of q5 is the block of rows one firing
emits, so that an operator that forgets a window's counts between two firings is caught
by its second answer.

Bounds. Four elements per input are enough for a barrier, something held back
behind it, a second barrier among what is replayed, and the end. Three channels
are enough for a fan-out whose branches meet again behind an alignment, with one
branch longer than the other, and for two subtasks of a vertex; room for one
element is the tightest a channel can be, and the emission is chosen so that a
record is behind the barrier that is being aligned on. Two checkpoints are enough
for one to be complete while the next is open, abandoned or staged; a third adds
no new pair. Two failures are needed for a crash in a recovery, two runs of
`Storage` for one to write where the other has left off. `MinTime` and
`MaxTime` stand for the ends of int64; the window runs use four-bit times, -8 to
7, wide enough for two windows of size 4 in the middle and one cut off at each
end. In `nexmark` the last bid is so late that its windows have fired and so early that
they are not purged, which makes those that earlier bids fell into fire again: at 3 both
of its windows hold other bids, at 4 one is at the edge of the lateness. Eight records over up to
four subtasks give every way the ranges can differ and every remainder of the
interval. `MaxFailures`, `MaxLostNotifications`, `MaxCrashes`, `MaxRuns`,
`MaxEdges`, `MaxChannels`, `MaxLen`, `MaxBarriers`, `MaxRecords`, `MaxEOS` and
`MaxID` are bounds of the instances; `Interval` and `Floor` give a source its
barrier budget.

Every property has a mutant: a definition `Bad...` next to the one it replaces, a
plausible slip in the code that makes the property fail.

Deadlock is checked in every passing run but four: `coordinator`, where the
subtasks simply return, and an operator that returns early may leave the sink
waiting (section 6); `source_vertex`, where the subtasks reach the end of their
ranges; `dataflow`, where a rejected graph, one that is ordered and not run, and a run
that is over stop (`RunReturns` says that no other run does); and `storage`, where the number of runs is bounded.

## 4. Fairness

`Dataflow!FairSpec` has weak fairness of `Step`, the disjunction of what any
goroutine of a running job can do: some runnable goroutine is run, the least the Go
scheduler does. It suffices because every step uses up something. Nothing obliges a
program to build a graph or a subtask to fail.
`Job!FairSpec` has weak fairness of every
subtask and of the executor, and includes that a failed job is started again,
which the engine leaves to whoever runs it. No fairness is put on failures.

## 5. Proofs

`CheckpointRunProofs` proves, for every set of subtasks, sources and sinks and
every number of checkpoints, the properties of the run `coordinator`:
`TypeCorrect`, `MarkersVouch`, `NothingRefused`, `NoWakeupLost`,
`NothingLeftReady` and `DecisionsAreFinal`. Assumptions: sources and sinks are
disjoint subsets of the subtasks, IDs are `1..MaxID`, `NoFile` is no payload.

The inductive invariant is `IInv`. `MarkerVouches` alone is not inductive: to
know that the last acknowledgement finds everybody else's file in place one
needs that whoever is counted has written its file (`AckedHaveFiles`), that a
subtask past barrier *k* is counted in *k* unless *k* is over
(`PassedAreAcked`), that a finished subtask has stopped (`DoneHaveStopped`), that
a marker means the checkpoint is terminal (`MarkedAreTerminal`), and that a
complete checkpoint has everyone past it or finished (`CompleteCountsAll`). The
step is proved once per action and per conjunct the action touches. The theorems
about wake-ups and about checkpoints that are ready are separate inductions over
the reachable steps, and `DecisionsAreFinal` is an action property.

`WindowProofs` proves the four properties of the run `window_late` for every range
of times, window size, slide, lateness, set of inputs and number of crashes:
`TypeCorrect`, `NoTimerWithoutState`, `NothingDueIsLeft` and `NothingIsUnreported`. The argument:
`addCeil` and `subFloor` clamp (`AddCeilClamps`, `SubFloorClamps`), the encoded
keys sort as the times do (`EncodingKeepsOrder`), so a timer that the scan leaves
is not due (`LeftIsNotDue`), and a window that is purged has a fire time the
watermark has passed (`PurgedHasFired`); hence the timers that remain keep their
counts (`ProcessWatermarkKeeps`). The invariant `IInv` adds the types of what is
on its way and says the same of the snapshot as of the live state, because a
crash makes one the other. Nothing in it asks the watermark to rise, which is why
it survives the fall-back of section 6. `NothingIsUnreported` has a second invariant,
`RInv`, of the live state and the snapshot, each with its output: a window that holds
something is armed or the last emission for it has its count. A record arms what it
counts (`ElementReports`). A watermark emits every timer that is due and nothing else
(`FiredIsDue`, from the order of the timer keys being a strict one and the timers being
finitely many, `InOrderIsAll`); what it emits counts over what went before
(`LastOfTwo`), and a key and a fire time below the end of the range tell the window
(`FireTimeTells`). Assumptions: a symmetric two's-complement
range, and size, lateness and out-of-orderness within it.

`StorageProofs` proves the properties of the run `storage` for every set of
subtasks and shapes and every number of checkpoints and runs: `TypeCorrect`,
`MarkersVouch`, `AnnouncedSurvive` (on a file system that orders a directory's
entry with its fsync) and the action property `CompleteStaysFinal`. The inductive
invariant is `IInv`: a marker, on the disk or only seen, stands for files that are
in place and on the disk (`Markers`); whoever is counted has its file of this run
in place, and a run writes only above the checkpoint it resumed from (`Acks`); and
how far the operation in flight has got determines what is in place and what is on
the disk (`Writing`, `Completing`, `MadeFirst`). `Durable` adds the announcements.
The crucial conjunct is in `Completing`: past the first `SyncDir` the disk has all
that the marker will vouch for, so that it does not matter when the marker's own
rename arrives. `StartFresh` is a contract with the caller (section 6). Assumptions: no subtask is called `_METADATA` or `_COMPLETE`, a
job has a subtask, `None` is no file.

`AlignedMergeProofs` proves of the abstract merge, for every number of inputs and
every set of well-formed streams, what a gate promises (`MergeIsGood`). `Good` is
the inductive invariant: what has gone out of an input is what it sent so far, in
that order (`InOrder`); every barrier cuts every input where that input sent its own
(`Cuts`); the checkpoints taken are an initial segment on every live input and in the
log (`UpTo`, `Numbered`), without which one could not know that two inputs that have
both reached *a* barrier have reached the same one (`NextBarrier`); every input is
past every watermark that has gone out (`Timely`), hence no record is made late
(`NotLate`); and an end-of-stream is last (`EndsLast`). A step may pass an element,
send a watermark, send the end and take a cut at once, so `Good` is an operator of the
positions and the log, and there is one lemma for each of those things
(`PassAdvances`, `RecordKeeps`, `WatermarkKeeps`, `EndKeeps`, `CutKeeps`).

`GateProofs` proves that Gate implements that merge (`Refinement`), for any number of
inputs, and from it all the properties of the run `gate_align`: `TypeCorrect`,
`OrderKept`, `CutsAreConsistent`, `NeverMadeLate`, `ContractKept`, `EndIsTheEnd`. The
refinement needs the invariant `GInv`. Its heart is `Queued`: `replay` followed by
`merged` holds exactly the elements between what has been handled and what the
forwarders have taken, those of one input in the order in which they were sent; a
forwarder adds at the end (`QueueAppend`), `Recv` takes the head (`QueueHead`) and
`drainBuffers` puts back in front what was held back, which is where it belongs
(`QueueDrain`). `Held` says that only an input with its barrier has anything
buffered, `Aligned` that all aligned inputs have the same barrier and that some live
one has not, `Ends` and `Clock` that `remaining`, `watermarks` and `out` are what the
merge computes from the streams. Each kind of element is then a step of the merge
(`RecordStep`, `WatermarkStep`, `BarrierStep`, `EndFirstStep`), and one that is held
back is invisible (`HeldBackStep`). `OneBarrier` uses what is known of the merge: a
second barrier in an alignment carries the same ID, so that the code need not compare
them. Assumptions: at least one input; streams are well-formed (`WellFormed`), which
`ContractKept` shows of what a gate sends on.

`SourceVertexProofs` proves the four properties of the run `source_vertex` for every
number of records, parallelism, interval and number of crashes: `TypeCorrect`,
`SameBarriersEverywhere`, `CutsNeverMove` and `RecordsOnce`. The invariant ties the
position of a subtask to what it has emitted and to the barriers it has injected; the
arithmetic is in lemmas on division (`DivFits`, `DivSum`, `DivMonotonic`): the ranges
that `offsetRange` cuts are adjacent and cover everything, and the budget never
exceeds what the shortest range gives. Assumption: the bounds are natural numbers.

`JobProofs` proves all the safety properties of Job for every topology, any number of
subtasks, records and checkpoints and any number of failures. Three are about numbers
and hold for any routing of records: `TypeCorrect`, `CommittedAreCovered` (nothing is in
the committed directory that no complete checkpoint covers, before a run has succeeded)
and `EpochsDoNotDrift` (a sink is never notified of a checkpoint whose file it has
lost). Four are about records: `JobCheckpointsAreCuts`, `JobNoDuplicates`,
`JobNothingMissing` and the refinement `JobImplementsOutput`. None is inductive.

The first three rest on `IInv`. A sink numbers its epochs itself, commits by the numbers the coordinator
gives it, and the coordinator numbers checkpoints as the sources number their barriers;
the three counts meet nowhere, they only stay in step because of what is in the
channels. `Levels` says how: every subtask has a level, the last barrier it has sent or
taken, and the barriers in a channel are those between the levels of its two ends, each
once and in order (`Between`). A barrier at the head of all live inputs is therefore the
next one (`CutIsNext`), which makes a sink's epoch the checkpoint it acknowledges
(`SinkBarrierKeeps`) and its file in a complete checkpoint the number of the checkpoint
(`Restorable`, `PayloadIsRestored`), so that after a restart `Restore` commits up to
exactly there and counts on from there. `Coordinated` is what is known of the
coordinator: a marker stands for files to restore from, a run knows only checkpoints
after the one it resumed from. `TodoAreMarked` and `WrittenExist` are about the sinks:
what is to be committed is marked, and a file that was written is staged or committed.
The invariant survives a crash at any point, also in a recovery and in
`commitFinalEpochs`. Assumptions (`JobAssumption`): checkpoints are numbered from 1, no
source has an input and no sink an output, which `Graph.Validate` ensures, records are
finitely many, a source's budget is at most the number of checkpoints.

The other four rest on `JInv`: there are levels for which `Accounts`, `OnDisk` and `Cuts`
hold. The heart is `RunCuts`. For every checkpoint *k* of the run that is not over, and
for one after the last, the levels say who is past barrier *k*; a record its source
emitted before its barrier *k* is in exactly one place of the cut, any other record in
none. The places are the file of an operator past *k* or what an operator before it
holds, a channel to a subtask before *k*, ahead of the barrier (`OnTheWay`), and the
sinks' files of epochs up to *k* that this run wrote or the checkpoint it resumed from
covers (`Stored`). A record that is taken, held, sent on or written moves from one place
to the next (`MovesYX`, `MovesXY`, `MovesYY`, `MovesYZ`); a subtask that takes barrier *k*
has nothing more of the cut before it, and hands over the state it is in
(`RaisedSame`, `SnapshotsStay`), so no cut changes. A checkpoint that completes has
counted everybody or has the final position of a finished source, so its files are that
cut with nothing on the way (`CutMarks`, `MarkedCuts`). A restart makes the cut the state
of the run, and every later checkpoint starts out from it (`RestartWhole`); a crash tears
only files no checkpoint covers (`CrashWhole`); a run without an error that has ended is
the cut after the last checkpoint, with every record in a file (`EndCut`).

`Accounts` and `OnDisk` are what the steps of that argument need. `Counted`: who is past
barrier *k* is counted for *k* and conversely. `MarkedPassed`: a running sink is past
every complete checkpoint, so it writes to no file that is covered. `Settled`, `OwnFiles`:
what is staged after `Restore` is of this run. `Ends`, `DoneAt`, `Returned`,
`Remembered`: who returns has nothing left and no checkpoint it would still have to hear
of. The case that is hardest to see is a crash within `commitFinalEpochs`: files are
committed that no checkpoint covers, and the next run resumes from before them and writes
the same records again. `SuccessMarked` says that then every checkpoint the sources had a
budget for is complete (from `Returned`), so that the next run has one epoch only, without
a barrier (`AllLevel`); `PacedFiles` and `FinalFiles` that it is the epoch of those files;
and `FinalReplaces` that the file renamed over one of them has every record it had.
Besides `JobAssumption` this needs `RouteAssumption`: `Dest` gives a record one next
subtask from its source to one sink (`route`). A vertex with two outbound edges would send
a record along both, and "exactly once" would be a statement about each branch; every job
the repository builds has one outbound edge to a vertex (`cmd/worker/main.go:108`,
`cmd/bench/workload.go:244`, `test/chaos/run.go:186`, `test/chaos/nexmark.go:251`), and
`Graph.Validate` refuses cycles. An operator sends on each record it takes once, at once
or later: what a windowed count makes of its input is WindowedRun's matter.

`DataLemmas` holds what those proofs share. Facts about all numbers that need an
induction are stated about a set (`NatSetInduction`, from the existence of a least
element), which is how `FlattenSeqFlattens`, what `drainBuffers` does with any number
of buffers, is proved without induction over an operator.

Only model-checked: Dataflow, for whose order of vertices, wiring and bounded channels
no inductive invariant is worked out; of NexmarkRun and WindowedRun, the comparison
with a batch or a clean run (`CleanRun` is a recursion over the input, the batch answers
are counts over it, so both are inductions over data, and the Nexmark ones hold only for
inputs whose lags the lateness covers and whose windows do not saturate); and all
liveness (the prover has no fairness or ENABLED).

## 6. Where code and comment disagree

**A hang behind an operator.** `AwaitCompletedAmong` is documented to terminate because every checkpoint is
acknowledged by everyone or abandoned. Sources that run out of records tell the
coordinator (`Finished`); operators and sinks do not. If a source with fewer
barriers reaches the join through an operator of its own, that operator returns
at end-of-stream and is still counted in every later checkpoint. The gate of the
join lets the longer source's barriers through, so later subtasks snapshot and
acknowledge them, the checkpoints never complete, and every sink that acknowledged
one sleeps in `AwaitCompletedAmong` with nobody left to wake it: the job hangs
with no error. `job_behind_operator` is that job; `job_live` is the topology
the repository's test covers, where it does end.

**Late records after a recovery.** A comment in `runSourceSubtask` says the
watermark generator need not be restored, because it sees the records it would
have seen anyway, and `core.Operator` promises watermarks that do not decrease.
The new generator does not know the largest time before the checkpoint, the new
gates have forwarded nothing, and `ProcessWatermark` stores what it is given, so
after a resume the operator's watermark can fall. A record that is later than the
source's out-of-orderness is then counted where a clean run drops it, and a window
that was emitted and purged is emitted a second time. `window_fallback` finds the
shortest case: times 0, -3, -3 with a checkpoint after the first and a crash.
It takes such a record: without one the watermark after a resume never passes a
record that is still to come.

**A complete checkpoint that a power loss takes.** `docs/BENCHMARKS.md` says that a
checkpoint is durable at its `_COMPLETE` marker, and the coordinator announces it
because the marker "is on the disk and fsynced". `Complete` syncs the directory
`chk-k` and never the root in which `MkdirAll` has just made it, whereas the
transactional sink does sync the parents of what it creates. On a file system that
does not write a new directory's entry with the directory's fsync, a power loss
after the announcement can take the whole checkpoint, although a sink has committed
on it. `storage_root` is that trace; `AnnouncedSurvivesIfOrdered` shows that
nothing else is missing.

Smaller remarks, without a run of their own:

* `storage.go` says that a crash anywhere before the last step of `Complete`
  leaves a directory without a marker. Between the marker's rename and the last
  sync it can leave one. `MarkerVouches` shows that this is harmless.
* `StartFresh` assumes that a run that does not restore starts on a root without
  complete checkpoints. The code leaves that to its caller (`loadRestorePoint` with no
  root to restore from starts at ID 1); on another root it would write over them.
  `MarkerVouches` and `CompleteIsFinal`, and their theorems, hold for callers that keep
  to it, as `test/chaos/run.go:348-352` does.
* A comment at `NewQ5Rekey` says that nothing is lost by taking the window's start
  from its end. Windows whose ends saturate at the largest time get one key there.
  The bounds of `nexmark` stay below.

## 7. Not modelled, and the plan

In the order of importance:

1. Several sources of different speed into one windowed count, where the
   watermark is a minimum; unbounded sources, which have neither range nor budget.
2. The serialised form of keyed state and its two backends, the codec of the
   transactional sink's files and the readers of its output directory.

Left out for good: q0, q1, q2 and `Filter`, which keep no state; the plain
generator (as NexmarkSource without the types); the command-line programs and
benchmarks; the chaos and oracle harness, whose faults and comparisons are Job's
failures and Output; `Collect` (a locked slice); interface declarations; errors for
bytes that nothing writes and the wording of all of them; the element counts in a
checkpoint's metadata; which of several errors `Validate` reports first.

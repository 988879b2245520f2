# Formal model of BwManager (balm)

BwManager is a user-space controller for a NUMA machine on which
latency-critical applications (LCAs: memcached and xapian) share sockets and
memory with a best-effort application (BE). It polls the tail latency of each
LCA and reacts with two actuators: it limits the memory bandwidth of the BE
(MBA, through libpqos) and it moves pages of the BE to the remote node
(`move_pages`). This directory holds its TLA+ model, the TLC configurations
that check it and the TLAPS proofs about it. Paths and line numbers below are
relative to the repository root.

## 1. Inventory

| Component | Source | State it keeps | Operations | Modelled in |
|---|---|---|---|---|
| Start and configuration | `src/BwManager.cpp`, `src/MbaHandler.cpp` | settings, is libpqos initialized | `main`, `read_config`, `start_bw_manager`, `initialize_mba` | `Startup` |
| Shared-memory handshake | `src/MySharedMemory.cpp`, `src/Utilities.cpp` | the segment `MySharedMemory`, `mem_segments` | `get_shared_memory`, `get_memory_segments`, `destroy_shared_memory` | `Startup`, `Shutdown` |
| Control loops | `src/Utilities.cpp` | `current_remote_ratio`, `optimal_mba`, `slack`, `slack_xpn`, the position in the loop | one loop per mode (`abc_numa`, `page_migration_only`, `mba_10`, `linux_default`, `bw_manager_test`), `release_mba`, `apply_pagemigration_lr_same_socket`, `apply_pagemigration_lr`, `apply_mba` | `Controller`, contract in `BandwidthPolicy` |
| MBA search | `src/Utilities.cpp` | `optimal_mba` | `mba_only`, `search_optimal_mba`, `mba_binary_search` | `MbaSearch` |
| Measurement thread | `src/Utilities.cpp` | `percentile_samples`, `percentile_samples_xpn`, four violation counters | `measurement_collector`, `get_percentile_latency[_xpn]`, `get_latest_percentile_latency[_xpn]`, the reports beside it | `LatencyPoll` (polls, pushes, counters, reports), `Controller` (samples and racy reads); between them `Collector` |
| MBA handler | `src/MbaHandler.cpp` | `mba[REQUESTED]`, `p_mba_ids`, the library handle; the level of the hardware | `initialize_mba`, `set_mba_parameters`, `set_mba_allocation`, `reset_mba` | `Startup`, `Controller` (as a level), `Shutdown` (step by step) |
| Page placement | `src/PagePlacement.cpp` | the node of every BE page | `place_all_pages`, `get_new_weights_v2`, `check_sum`, `move_pages_remote` | `PagePlacement`; elsewhere as the ratio placed, with `Placement` between them |
| Shutdown | `src/Utilities.cpp`, `src/MbaHandler.cpp`, `src/MySharedMemory.cpp` | the handler each thread is in | `signalHandler`, `terminateHandler` and the clean-up they call | `Shutdown` |
| Hill climbing | `src/Utilities.cpp` | best stall rate, `optimization_complete` | `disabled_controller`, `check_opt_direction`, `apply_pagemigration_lr_dc`, `apply_pagemigration_rl_be`; no mode calls them | `HillClimbing` |
| Performance counters | `src/PerformanceCounters.cpp` | likwid handles, previous counts | `initialize_likwid`, `get_stall_rate`, `get_average_stall_rate` | their exits and the range of a rate, in `MbaSearch` and `HillClimbing` |
| Functions nothing calls | `src/Utilities.cpp`, `src/PagePlacement.cpp` | – | `get_target_stall_rate`, `apply_pagemigration_rl`, `find_optimal_lr_ratio`, `test_fixed_ratio`, `get_new_weights`, `get_node_mappings` | no |
| Logging, weights file | `src/Logger.cpp`, `src/MyLogger.cpp`, `read_weights` | log vectors | output and parsing | no: pure I/O |
| better-enums | `src/include/better-enums` | – | vendored | no |
| Scripts, tests | `scripts/`, `test/`, top-level `*.sh` | – | experiment drivers, demonstrations of likwid and boost sockets | no |

How they interact. `main` reads the configuration, initializes libpqos, waits
until an LCA reports a latency, takes the list of memory segments from the BE
through a boost shared-memory vector, once, and runs the loop of one mode. The
loop reads the last sample of each LCA from vectors that the detached
measurement thread appends to without a lock, computes a slack, and calls the
actuators: `apply_mba` writes the shared table `mba[REQUESTED]` and calls
libpqos, which takes a process-wide lock; `place_all_pages` runs `move_pages` for
every segment in an OpenMP parallel loop. SIGINT and `std::terminate` (a failed
`move_pages`) run the clean-up, with its reports, on whatever thread they hit;
`exit` in an actuator ends the process without one. What outlives a process is
the level of the hardware and the segment.

What is hard about it: unsynchronised reads of vectors that reallocate, by the
loops and by the reports; decisions on samples taken seconds earlier; two
recorded values (`optimal_mba`, `current_remote_ratio`) that must keep agreeing
with the machine along every path through nested loops with `break`, `continue`
and reverts; handlers that interrupt the allocator and libpqos, nest and run side
by side; a hand-over list that is built, read and destroyed by two processes
either of which may die; replies that arrive in pieces; truncation and overflow in
the interleave. `PROJECT.json` lists every hazard at its line.

What makes each component correct:

- start and handshake: a controller finds the machine unthrottled unless one ended
  past the handlers; it takes a list at most once, and all of it;
- control loops: the recorded level and ratio are those of the machine when a
  decision tests them; bandwidth is raised only in the green zone, pages move only
  towards the remote node, by ten, and (in `abc_numa`) only under throttling; a
  throttle is released when the LCAs recover; a lasting danger gets all pages moved;
- MBA search: it ends, on an applied and recorded level; it gives up only at the
  bottom; under a load that settles it settles on a level that meets the target;
- measurement thread: samples, counters and reports agree; a complete reply is not
  lost with its connection;
- shutdown: however the process ends in a handler, the segment is gone and the
  bandwidth is back at 100; the clean-up ends; no level is set beside it;
- placement: the share of remote pages follows the weights at every length; a full
  migration leaves nothing behind; a step never takes remote pages back;
- hill climbing: the recorded ratio follows the pages, pages move by ten, every
  climb ends and the pages then rest until the next phase.

## 2. Modules

### `Controller` (with `BandwidthPolicy`, `MCController`, `ControllerProofs`)

The main thread is a program counter `pc`; each value is a point between two
effects that another thread or a signal can observe. The read points
(`MemcachedReads`, `XapianReads`) are the calls of
`get_latest_percentile_latency` and `..._xpn`, always in this order; the others
precede an actuation. A loop variable is `i`, as in the code.

| Code | Actions |
|---|---|
| `measurement_collector` | `Push`; `BeginGrow`, `EndGrow` for a `push_back` that reallocates |
| `back()` of the vectors | `Read` (any value while that vector reallocates), `RacyCrash` |
| outer loops | `ReadHead`, then `abc_numa`, `page_migration_only`, `mba_10` or `linux_default`; `Throttle` |
| inner loop of `abc_numa` | `ReadInner`, `ChooseZone`, `CheckDanger`, `LeaveInner` |
| `release_mba` | `StartRelease`, `ReleaseStep`, `ReadRelease`, `JudgeRelease`, `Revert` |
| `apply_pagemigration_lr_same_socket` | `StartMigration`, `MigrationStep`, `ReadMigration`, `JudgeMigration` |
| `bw_manager_test`, `apply_pagemigration_lr` | `StartTest`, `TestStep`, `TestNext`, `TestReturn` |
| `apply_mba`, `place_all_pages` | operators of the same names, with their failures |
| SIGINT | `Interrupt` (what the handler leaves behind; its steps are in `Shutdown`) |

A latency is represented by its slack in per cent, the only thing the loops
compare. A failed poll and an empty vector give latency 0, hence slack 100
(`NoReply`). `mba` and `placed` are the machine; `optimal_mba` and
`current_remote_ratio` what the program believes.

`BandwidthPolicy` is the contract of the modes without loops and recorded values:
what each mode may do to the bandwidth and to the share of remote pages, given the
slack last observed. `Controller` implements it in every mode with
`level <- mba, share <- placed, view <- slack` (`PolicySpec`).

### How the modules fit together

A module that leaves something out must not assume more of it than the module that
models it shows. Two abstract modules stand between such pairs; each is implemented
by the module that models the part, and by the module that uses it:

| Abstract module | What it says | Implemented by the part | and by its user |
|---|---|---|---|
| `Collector` | the last sample of each vector changes for one LCA after the other, and is out of reach while its vector moves | `LatencyPoll` (`latest` is the back of each vector) | `Controller` (`latest <- samples`) |
| `Placement` | the pages as a whole go from one share to the next, by one step, never beyond 100, and not after the end | `PagePlacement` (`Share`: counted from where the pages are, in the segment that is furthest behind) | `Controller` (`share <- placed`) |

So what `Controller` takes for one step (`Push`, or one `place_all_pages`) is what the
many steps of `LatencyPoll` (connect, pieces, both push_backs, four counters) and of
`PagePlacement` (one iteration per segment, in any order) amount to. For `Collector`
the converse holds as well (`CollectorUnrestricted`): while the program runs and the
bound on reallocations is not met, `Controller` admits every step of it, so the loops
are proved against no less than the measurement thread may do. For `PagePlacement`,
`SegmentsShare` says what the one share means for each segment: the segments long
enough for their pages to show it (more than 30) have it between two placements, and
are at most one step apart during one.

Three more abstract modules state what a component promises to its outside:
`BandwidthPolicy` (above), `Tenancy` for `Startup` and `OrderlyEnd` for `Shutdown`
(below).

### `MbaSearch` (with `MCMbaSearch`, `MbaSearchProofs`)

`load` is the highest level of the BE under which memcached meets its target; a
sample is the reply under that load and the level of the moment, or 0 for a failed
poll, and the main thread reads it whenever it gets there.

| Code | Actions |
|---|---|
| `get_average_stall_rate` in `mba_only` | `Measure`, with the exit of likwid |
| `mba_only` | `mba_only`: the test of the target, and the call of the search |
| `search_optimal_mba` | `GiveUp`, `Probe` (the `apply_mba`), `JudgeZero`, `JudgeMet`, `JudgeMissed`, `ProbeFails`, `Revert` |
| `mba_binary_search` | the operator of the same name |

`main` no longer calls `initialize_likwid`, so that in the present build the mode
ends at its first measurement; `likwid` chooses between that build and one where
the counters run, and `NoControlWithoutCounters` says what the former does.

### `LatencyPoll` (with `MCLatencyPoll`, `LatencyPollProofs`)

The measurement thread goes through rounds: `at` is the phase and the LCA. A poll
is `Refused`, or `Connect`, then pieces (`WholeReply`, `PartOfReply`), then `Close`;
each piece is parsed as a number of its own, as in the loop around `read_some`. A
server may also never answer: nothing forces the next piece. Then come `Push`
(with `Grown` when the vector reallocates), `CountF` and `CountT` for each LCA.
The report (`Signal`, `print_logs_v2`, `PrintLine`, `PrintGarbled`, `EndFile`) runs
on the main thread beside it, or on the measurement thread, which then stands
still. Each counter and each element is read at the moment it is printed. A line is
what `fprintf` makes of its element (`Shown`): for memcached the `int` before the
decimal point, for xapian both decimals. The targets are taken to be 50, so that a
slack of an odd percentage is a latency with a fraction.

The accesses of the two threads are taken in program order and atomic: nothing in
the program orders them, but each is a single aligned word, and a vector that moves
is the exception that is modelled (`garbled`). `v_f` and `v_t` are, per LCA,
`violations_counter_f` and `_t` of memcached and `vlts_cnt_f` and `_t` of xapian.

### `Startup` (with `MCStartup`, `StartupProofs`)

Controllers are started one after the other on one machine, with any settings
(`read_config` is abstracted to the outcomes it can have: good, mode 5, unknown
mode, help, too few cores, no weights file). `pc` is where the present controller
is: `config`, `init`, `window`, `open`, `find`, `copy`, `noList`, `dispatch`,
`loop`. The actions carry the names of the functions; `get_shared_memory` is
`OpenSegment`, `OpenFails`, `FindVector`, `CopyElement` and `DestroyVector`.
Controllers end by `Kill`, `Sigint`, `MoveFails` (both run `Handler`),
`ControlExits`, `ControlReturns`, or in one of their own exits; of the loop only
the level it applies is kept (`Control`).

The application that writes the segment is not in the repository. From the way the
controller reads it, an application is taken to create the segment under the common
name, to construct `MyVector`, and to append its memory segments one by one
(`CreateSegment`, `BuildVector`, `Append`), and to die at any point. A segment that
was opened stays readable after its name is gone, as POSIX shared memory does.

`Tenancy` is the machine over all its controllers, with the command line, the copy
loop and the kinds of death left out: the list of an application is `unpublished`,
`published`, `claimed` (taken out of the segment), `managed` (a loop runs for it) and
`spent`, in this order; one controller at most holds a list; the level changes only
under a loop that manages one, or by a reset; a managed list given up without a
reset leaves the machine `stranded`. `Startup` implements it with `Life`, `mba` and
`lastControl` (`TenancySpec`).

### `Shutdown` (with `MCShutdown`, `ShutdownProofs`)

Threads are main, the OpenMP helpers and the collector. `at[t]` is what the
interrupted code of `t` was doing (in the control loop, inside libpqos, at its
segment, waiting at the barrier, measuring), `frame[t]` the next step of the clean-up
it is in: `destroy_shared_memory`, `ResetParameters`, `EnterReset` and
`ResetAllocation` (`reset_mba(100)`: the table, then the call that takes the lock of
libpqos), `EnterFini` and `Fini`, `FreeIds`, `Report`, `Exit`. A second signal starts
the clean-up again on top of the first (`Sigint` overwrites the frame: the lower one is
never returned to, since the upper one ends in `exit`). `faulty` says whether
`pqos_mba_set` may fail on this machine.

External behaviour is modelled from its use. The kernel prefers the main thread for a
process-wide signal and masks SIGINT while a thread handles it. libpqos holds its
`lock` through a call, in the control loop and in the clean-up: a SIGINT on the thread
that owns it leaves it `"lost"`, and every later call on any thread waits for ever. The
C allocator is entered in the control loop (`my_logger`), in `move_pages_remote`, in
the measurement thread (`push_back`) and in the clean-up itself (`free`, `fopen`,
`exit`): a SIGINT there (`MayAllocate`) may hit a thread inside it, which puts the
thread in `reentrant`. From then on an `AllocatorCall` of that thread comes through,
aborts or never returns, and one of another thread may wait for it. A second `free` goes
unnoticed or aborts.

`OrderlyEnd` is the end of one process with threads, handlers and signals left out:
it is `running` (levels may be applied), then `cleaning` (the segment may be removed,
the level may only become 100), then gone; `clean` needs the segment gone and the
level at 100 unless the machine is faulty, `broken` is the exit of an actuator that
failed before any clean-up. `Shutdown` implements it whatever handlers nest or run
side by side (`OrderlySpec`).

### `PagePlacement` (with `MCPagePlacement`, `PagePlacementProofs`)

`located[s]` is the node of every page of segment `s`. `place_all_pages` begins the
next ratio, `move_pages_remote(s)` is one iteration of the parallel loop, in any
order, `Join` its barrier. `Share` is the ratio the pages are nearest to, counted, in
the long segment that is furthest behind; it does not look at `ratio` or `phase`.
`Both` and `Alone` are the two phases of the interleave
(pages shared by both nodes, then those of the heavier one), `NodeOf` the resulting
node. Both phases truncate, as the conversion from `double` to `int` in the code
does; for ratios that are multiples of ten the double products and the integer
division agree. `int i * pagesize` overflows at page `PagesPerInt` (524288 in the
program); the overflow is undefined, and the build either computes in 32 bits, when
the addresses lie before the segment, or in 64: `wraps` chooses.

### `HillClimbing` (with `MCHillClimbing`, `HillClimbingProofs`)

`disabled_controller` is the mode that climbs on the stall rate of the BE alone. No
mode calls it at this commit; the model is of the mode it is written to be.

| Code | Actions |
|---|---|
| `disabled_controller` | the action of the same name: one measurement and the choice of what follows (`NewPhase`, `FirstClimb`, `EndIteration`) |
| `check_opt_direction` | `TryDown`, `JudgeTry`, `Undo` |
| `apply_pagemigration_lr_dc` | `StartUp`, `StepUp`, `JudgeUp`, `Confirm`, `StepBackUp` |
| `apply_pagemigration_rl_be` | `StartDown`, `StepDown`, `JudgeDown`, `StepBackDown` |
| exits | `CountersFail`, the failures of `place_all_pages`, the last branch of `disabled_controller` |
| the latency poll in each iteration and each step | `get_percentile_latency`: that it never returns; otherwise it has no effect but on the log |

`transient` is a history variable: whether the climb went on from the present ratio of
the pages because a worse rate turned out transient, the one way through a step that
records nothing.

A rate is a natural number, `Inf` or `NaN`, because the average divides differences
of counters; `Better`, `Above`, `Equals` and `Within` are the comparisons of the
code with the results IEEE arithmetic gives for the latter two.

## 3. What TLC checks

Deadlock is checked in every run except `shutdown`, `shutdown_sigint`, where a
process that waits for a lock it holds itself really stops, and `poll`, where the
process ends with its report and the samples are bounded.

| Run | Bounds | What it shows |
|---|---|---|
| `controller` | five modes, slacks 0 / 5 / 20 / 100, ratios 0, 60, 85 (unaligned), 100, weights 60 and 100, one reallocation, all failures | `BandwidthCoherent`, `OuterLoopUnthrottled`, `PlacementTracked`; every mode implements `BandwidthPolicy` (`PolicySpec`) |
| `controller_live` | `abc_numa` and `page_migration_only`, no failures | ratios 0, 70 and 85; `ThrottleReleased`, `DangerMigrates` under fairness |
| `search` | loads 0, 10, 30, 60 that change at will, with and without likwid, all failures | `SearchCoherent`, `GivesUpAtTheBottom`, `RaisesAtTheStart`; `SearchEnds`, `SettlesAtTarget` under fairness |
| `poll` | two rounds, slacks -1 (missed by half a unit), 5 (exactly `slack_up`, with a fraction), 100 (no reply), every cut of a reply, the report on either thread at any moment | `CountsExact`, `LinesBackCounts`, `WholeReplyKept`; the thread implements `Collector` (`CollectorSpec`) |
| `startup` | two applications of three memory segments, all settings, any number of restarts, kills and signals | `StartUnthrottled`, `ConsumedBeforeControl`; the controllers implement `Tenancy` (`TenancySpec`); `TakesWholeList` under fairness |
| `shutdown` | two helpers, levels 10 and 100, two signals, all failures | `HandlersRestore`, `ResetBeforeFini`; the end implements `OrderlyEnd` (`OrderlySpec`); `ShutdownCompletes` under fairness |
| `placement` | two segments of eleven lengths from 1 to 101 pages, overflow at 60, all ratios, failures | `SharesFollowWeights`, `LastPageOnly`, `FullMeansAll`, `RemoteGrows`; the parallel loop implements `Placement` (`PlacementSpec`) |
| `hill_climbing` | rates 1, 2, 3, 4, 8, Inf, NaN against thresholds 2 and 4, ratios 0, 40, 85, 100, all failures | `RatioTracked`, `ElseOnlyUnmeasured`, `JumpsFromTheEndOnly`, `OptimizedIsStable`; `ClimbEnds` under fairness |

Each of these runs also checks the type invariant, except `controller_live`.

Why the bounds are enough. The loops compare a slack with two thresholds only: the
four slacks are one in danger, one exactly at each boundary, and no reply; together
with "above both" this is every outcome of every comparison (`NoReply` is above
both). The ratio 60 takes a migration through several steps with stops, 85 past the
end of the loop (in `controller` and in `controller_live`), 100 is the early return, 0 the state in which nothing may be
throttled. One reallocation is enough for one racy read at each read point, since
it may begin at any time. The search tries 40, 20 and 10 only: the loads meet the
target at all of them, at some, at the last and at none. Two rounds give the report
a round it has seen, one it has seen in part and one it has missed. Two
applications and three memory segments allow a controller to take the list of the
first in part, or late, while the second publishes. Two helpers allow two failures
side by side beside a waiting main thread; with two signals a handler of SIGINT
interrupts a terminate handler, or runs beside one of another thread. In `placement` the lengths include 1 to 4
pages, where truncation costs most, and lengths just below and beyond the overflow.
The five rates are, against the best rate 1, equal, inside the operation region, on
its boundary, outside it, and a change of phase. The proofs (section 5) lift the
safety properties to all values.

Fairness. All of it is weak fairness of code that runs without waiting for
anybody, so that the scheduler suffices:

- `controller_live`: the steps of the main thread and the end of a reallocation.
  Nothing is assumed of `Push`, because a poll of a server that accepts and never
  answers blocks for ever; the loops of these two modes read the vectors only and do
  not poll. `ThrottleReleased` and `DangerMigrates` are conditional on samples that
  stay in the zone; frozen samples (a poll that hangs) are outside that premise unless
  they freeze there. `DangerMigrates` claims the pages up to the last step that fits:
  from 85 they end at 95, the record at 105, and the loop never runs again.
- `search`: the steps of the main thread. `SettlesAtTarget` is conditional on a
  load that settles and, from some point on, on samples that are up to date when they
  are read (between a probe and the next reading they may be old).
- `startup`: the steps from `OpenSegment` to `Dispatch`. Nobody has to start a
  controller, publish a segment or answer a poll.
- `shutdown`: each thread's clean-up, but for a call of the allocator after some thread
  was interrupted inside it (`MayHang`); no signal has to come. `ShutdownCompletes`
  claims the end of every clean-up, unless a signal interrupted some thread inside
  libpqos or the allocator, at its work or in a clean-up.
- `hill_climbing`: the steps of the main thread, while it is not in a poll that never
  returns. `disabled_controller` and its climbs call `get_percentile_latency`
  themselves, without a timeout: `ClimbEnds` claims that a climb ends unless such a poll
  hangs.
- `poll` assumes none: its properties are about safety.

### Disagreements between the code and what it says

Each has a run in which TLC finds a violation.

| Run | Code | Says |
|---|---|---|
| `controller_xapian` | The inner loop of `abc_numa` tests the danger zone of memcached only (`src/Utilities.cpp:249`): xapian alone in danger stalls the loop | "danger zone, apply page migration" (`:250`) |
| `search_highest` | The search starts at 40 and stops there if the target is met: 60, 50 and 90 are never tried (`src/Utilities.cpp:1104`) | "Search the highest MBA that still meets the target SLO" (`:1093`) |
| `shutdown_sigint` | A SIGINT inside `pqos_mba_set` or an allocation waits for itself (`src/Utilities.cpp:88`), in the control loop or in the clean-up of `terminateHandler` | "terminate program" (`:85`) |
| `placement_wrap` | Pages beyond 2 GiB of a segment are never moved (`src/PagePlacement.cpp:364`) | "initial page placement with weighted interleave" (`:334`) |

Seen while modelling, without a run of their own:

- `release_mba` reverts from 90 to 80 (`src/Utilities.cpp:1703`), the level before
  was 60; the comments say "Valid MBA states in our case: 100, 90, 60, ..." (`:1095`)
  and "revert_back to the previous mba" (`:1702`).
- Wrong weights and a failed level call `exit` past the handlers and leave the
  bandwidth at 10 (`src/PagePlacement.cpp:76`, `src/Utilities.cpp:1732`);
  `src/MbaHandler.cpp:86` says "set mba back to 100 i.e. default before quitting".
- Two failing `move_pages` free `p_mba_ids` twice (`src/MbaHandler.cpp:96`).
- A migration stops when one LCA of two has slack (`src/Utilities.cpp:1279`, the log
  says "SLO has been achieved").
- A failed poll counts as the best slack in `release_mba` (`:1689`; the comment says
  "only release mba while we are in the green zone!").
- At ratio 100 the bandwidth is released level by level, although the comment at
  `:1626` says at once (the code tests for 0).
- The step from 40 to 50 swaps the two nodes in the interleave and moves nine tenths
  of the pages instead of one (`src/PagePlacement.cpp:408`).
- A poll that fails after a piece returns that piece, not 0 (`src/Utilities.cpp:986`,
  "Don't terminate just return 0").
- The counters take a slack of exactly `slack_up` for a violation (`:1058`), the
  loops do not (`:189`).
- The file of memcached cuts off the fraction of a latency (`:1895`), which the counters
  compare (`:1061`): 1000.5 against a target of 1000 is a violation whose line says
  1000.
- A report may print more missed targets than violations, since it reads the two
  counters at different moments (`:1870`).
- `apply_pagemigration_lr_dc` does not record a ratio whose rate was transient
  (`:1564`), although its header says "Handle transient cases - fixed" (`:1518`): the
  next climb then jumps by more than the "10%" of `ADAPTATION_STEP`
  (`src/include/BwManager.hpp:51`). Nothing calls it.

## 4. What is modelled only in part, or not at all

- `Controller` starts where the loop starts, on a machine at level 100, and treats
  the pages as one ratio; `PagePlacement` says what a ratio means for the pages, and
  `Startup` when the level is 100.
- `mba_only` is not among the modes of `Controller`; it is `MbaSearch`.
- Stall rates: the average over sorted samples without its outliers
  (`get_average_stall_rate`) is floating point over driver output. Only its range
  and its exits matter to what is modelled; in `mba_only` the rates are logged only.
- `scripts/bwap_gd_executor.c` is a stand-alone gradient descent over run times of
  programs it starts through `system()`; it shares no state with the controller.
- Parsing: of the configuration its outcomes are kept, of the weights file the
  weights, of a reply which pieces are numbers.
- The functions nothing calls (section 1) have no model.
- Durations (`sleep`, `usleep`) are not modelled: any number of samples may arrive
  between two steps of the main thread, or none.
- `move_pages` moves every page it is given an address of, or fails as a whole.
- `Shutdown` treats a report as one step; what it reads beside the measurement
  thread is in `LatencyPoll`. It treats `exit` as the end of the process at once:
  static destructors running beside other threads are not modelled.
- A `MyVector` that the application reallocates while the controller copies it is
  not modelled: the writer is not in the repository.

## 5. What is proved

For every value of the constants that satisfies the assumptions named in the
modules, TLAPS checks:

| Module | Theorems |
|---|---|
| `ControllerProofs` | `Invariance`, `TypeCorrect`, `Coherence`, `Unthrottled`, `Throttled`, `Tracked`, `PagesByStep`, `ReleasesJustified`, `PolicyRefinement`, `CollectorRefinement`, `CollectorUnrestricted`, `PlacementRefinement`, `CallsBounded` |
| `MbaSearchProofs` | `Invariance`, `TypeCorrect`, `Coherent`, `NoControl`, `Bottom`, `Raises`, `SearchBounded` |
| `LatencyPollProofs` | `Invariance`, `TypeCorrect`, `Exact`, `Backed`, `Aligned`, `Kept`, `CollectorRefinement` |
| `StartupProofs` | `Invariance`, `TypeCorrect`, `Unthrottled`, `Consumed`, `Once`, `TenancyRefinement` |
| `ShutdownProofs` | `Invariance`, `TypeCorrect`, `Restored`, `ResetFirst`, `LevelsEnd`, `OrderlyRefinement`, `CleanUpBounded` |
| `PagePlacementProofs` | `Invariance`, `TypeCorrect`, `Shares`, `Full`, `LastPage`, `Grows`, `PlacementRefinement`, `SharesAgree` |
| `HillClimbingProofs` | `Invariance`, `TypeCorrect`, `RatioIsTracked`, `ElseUnmeasured`, `Jumps`, `Stable`, `ClimbBounded` |

Every safety property of the passing runs has its theorem. `MigrationThrottled`,
`PagesMoveByStep` and `ReleaseJustified` of `Controller` follow from the contract
`PolicySpec` that `controller` checks; they are stated on their own terms and proved
(`Throttled`, `PagesByStep`, `ReleasesJustified`). In the same way
`NoControlWithoutCounters` of `MbaSearch`, `FilesAlign` of `LatencyPoll`,
`HandedOverOnce` of `Startup` and `NoLevelAfterCleanUp` of `Shutdown` are proved and
in no run, the latter two because they follow from `TenancySpec` and `OrderlySpec`;
nor are `SegmentsShare`, the two refinements of `Controller` into `Collector` and
`Placement`, and the bounds below. The arguments:

- *Controller.* None of the properties is inductive: whether `mba = optimal_mba`
  after `Revert` depends on what `release_mba` applied three steps before.
  `IInv` states, per point of the main thread, the mode it belongs to (`ModeInv`),
  the level about to be applied relative to the hardware (`LevelInv`), the slack the
  pending actuation was decided on (`SlackInv`), and the loop variable relative to
  the ratio placed (`RatioInv`, `AlignedInv`). One lemma per action shows that it is
  kept; action properties and the refinement follow step by step from `IInv`.
- *MbaSearch.* `LoopInv` and `TrialInv` say which level is applied, recorded and
  next at each point of a search; that a search cannot give up above 10 needs the
  level before each probe.
- *LatencyPoll.* `CountInv` relates each counter to its vector with the sample that
  is pushed but not yet counted; `PrintedInv` and `LinesInv` say that what is printed
  lags behind the counter, and a file behind its vector. The lemmas about `AtMost`
  say how counting a sequence goes with its prefixes and its last element;
  `AtMostShown` that the lines, each cut off as its file does, show as many latencies
  beyond a threshold, cut off likewise, as there are samples beyond it.
- *Startup.* `HandoverInv`: a list an application's loop has been run for is
  destroyed, so that no controller can find it again.
- *Shutdown.* The heart is `QuietInv`: while any thread cleans up, the main thread is
  in a handler itself, or it is in the parallel loop and a helper that failed there
  never reaches the barrier. Hence no level is requested between `ResetParameters`
  and `ResetAllocation` of any handler, and what each handler achieved (`StepInv`)
  stays true however they interleave.
- *PagePlacement.* `TwoPhases` and `Deviation` bound the truncation of both phases,
  `HalfCount` counts the pages of one parity in an interval through a bijection,
  and `RemotePages` adds them up: the share is right to within a page and a half.
  In a segment of more than 30 pages that is less than half a step, so that the ratio
  applied is the one its pages are nearest to (`MeasuredIsApplied`).
- *HillClimbing.* `ClimbInv` puts the loop variable one step ahead of the pages
  inside a climb, unless it starts after one whose last step was passed on a transient
  rate (`EndedTransient`); `PhaseInv` says that the branches
  of the first iteration are reached with no best rate yet.
- *Refinements.* Each maps the initial states and then every action to a step of the
  abstract module or to a stutter, from the inductive invariant of the detailed one.
  `TenancyRefinement` needs of `HandoverInv` that the list a controller holds is
  destroyed in its segment: so its life ends with the controller, by whatever way
  (`EndOfController`), and nobody else's does.
  `OrderlyRefinement` needs `QuietInv` for the levels and `StepInv` for the end:
  when any thread reaches `exit`, or a second `free` aborts, the segment is gone and
  the level was put back. `PlacementRefinement` of `PagePlacement` shows that the share
  counted from the pages changes only with the move of the last long segment, and then
  by one step, in whatever order they move; in `Controller` it needs `RatioInv`: the
  loop variable is one step ahead of the pages, and at most 100.
- *Bounds.* `CallsBounded`, `SearchBounded`, `ClimbBounded` and `CleanUpBounded` give a
  natural number (`Left`) that every step inside a release or migration, a search, a
  climb or a clean-up decreases, whatever the samples, the rates, the load and the
  other threads do in between. This is the half of `SearchEnds`, `ClimbEnds` and
  `ShutdownCompletes` that does not depend on fairness; the other half, that an
  enabled step is taken and that one is enabled, is what TLC checks. The bound is on
  one call only: the inner loop of `abc_numa` as a whole has none, since samples that
  keep changing may keep it going.

The assumptions are those of the constants only: slacks are integers that include
"no reply" and the two thresholds are in order; start ratios are natural numbers (at
most 100 in `HillClimbing`); rates and thresholds of a climb are natural numbers;
loads are at most 100; helper names differ from the other threads; levels are
natural numbers; a list has at least one memory segment; a segment has at most twice
the pages an `int` can address (4 GiB).

Only model-checked: the liveness properties, and the runs that look for a
disagreement. Proofs about fairness and `ENABLED` are out of the prover's reach.

## 6. Plan

1. What follows from `BandwidthPolicy`, `Tenancy`, `OrderlyEnd` and `Placement` by
   themselves (a throttle is only ever lifted by the ladder; a machine that is not
   stranded or faulty and has no list managed is unthrottled), proved once on the
   abstract modules, so that any other implementation has it too.
2. The levels of `Startup`'s `Control` and `Sigint` against `Controller` and
   `Shutdown`: that `Controller` implements what `Startup` assumes of a loop, and
   `OrderlyEnd` what it assumes of a handler.
3. That one of the steps counted by the bounds is always enabled, as a state
   predicate, which is what remains of termination short of fairness.

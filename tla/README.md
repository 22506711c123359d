# Verification of the `subprocess` crate

Specifications, model-checking configurations and machine-checked proofs for the process containment
and teardown logic of this repository. Source paths below are relative to the crate (`src/...` is the
crate's `src` directory, that is `src/src/...` from the root that `PROJECT.json` names).

The crate spawns children, *contains* them (cgroup, job object, process group, session, fd marker or
ppid tree walk), and tears a contained tree down: on `kill_tree`, on `terminate_tree` and the graceful
shutdown built on it, and on `Drop`. What makes that hard is that the crate works on raw pids in a host
where every other process is free to fork, exit, change credentials, leave the group or have its pid
recycled between any two system calls, and that the asynchronous `Drop` must neither block for ever nor
lose a zombie.

## Inventory

| component | state it keeps | operations | interacts with | hard behaviours | what makes it correct |
|---|---|---|---|---|---|
| reaper pool (`tokio/child.rs`, `tokio/child/reaper.rs`) | the lazily published pool, its channel, its workers; each child's `OsResources` | `Drop`, `LazyPool::get`, `Pool::dispatch`, `work`, `run_teardown` | all dropping threads share it; hands jobs over a channel; falls back to tokio's orphan queue | racing initialisation, spawns that fail halfway, children no SIGKILL ends, panics in a wait | a published pool never shrinks; no job lost or doubled; `Drop` returns; waits are bounded and pinned |
| identity (`identity.rs`, `identity/*`) | none (a pid and a start token) | `of`, `exists`, `is_alive` | every mechanism verifies through it | pid reuse, coarse clocks, denied queries | a pid that changed hands is never taken for its old holder |
| tree walk (`containment/treewalk.rs`, `containment/enumerate*`) | none between calls; a snapshot and a frontier during one | `descendants_with`, `kill_by_identity`, `hard_kill`, `terminate` | identity, process table | stale parent links, recycling mid-walk, check-then-act | targets are genuine, the walk is complete, it returns |
| group / session (`containment/unix.rs`, `containment/unix/group.rs`) | the pgid | `signal_group` (kill, term) | identity, `/proc` or sysctl | partial delivery of `killpg`, members that refuse, recycled pids, credential changes | `Ok` is never reported over a member left unsignalled; no stranger is hit |
| fd marker (`containment/fdmarker.rs`, `marker_eof.rs`) | a pipe whose write end the whole tree inherits | `hard_kill`, `terminate`, `wait_drained` | tree walk, group, identity | forks between snapshot and signal, blind passes, refused members | `Ok` only on a finished sweep; the loop ends |
| cgroup (`containment/cgroup.rs`) | the leaf directory and its events fd | `try_create_leaf`, `hard_kill`, `wait_drained`, `Drop` | the kernel's cgroup tree | an edge missed between read and arm; a leaf that will not go away | a drain is neither missed nor reported early |
| job object (`containment/windows.rs`, `job.rs`) | a handle under a lock, consumed once; a duplicate of it per wait | `assign`, `hard_kill`, `disarm`, `wait_drained`, `Drop` | the kernel's job | which handle closes last; pids recycled between listing and opening; rounds that outlast a deadline | as for cgroup; what is dropped dies, what is detached lives |
| dispatch (`containment/dispatch.rs`) | the chosen mechanism | `prepare`, `attach_tree` | all mechanisms | the fallback order; attach that fails after the spawn | a child is contained as asked or the spawn fails |
| graceful shutdown (`child/graceful.rs`, `tokio/child/graceful.rs`, `process/graceful.rs`) | the grace deadline, what the watch proved, the sweep's error | `graceful_shutdown`, `graceful_shutdown_tree` of owned and foreign handles | term, drain, sweep, reap | a timeout racing the exit; errors superseding one another; a future dropped at an await | the sweep is skipped only on proof that the tree is gone; who was asked to exit is killed or seen to exit |
| waiting (`wait*`, `tokio/wait.rs`) | a watch on a pid | `wait_exit`, `wait_tree_drained` | identity, marker, cgroup, job | exit before the watch is armed | no lost wake-up |
| sync child (`child.rs`, `child/*`) | the std child and its containment | `kill_tree`, `terminate_tree`, `wait_tree`, `detach`, `Drop` | dispatch, reaping | a pgid that was recycled after a wait; a kill that is refused before a blocking reap | teardown before reap; the drop returns |
| spawning (`child/spawn*`, `tokio/spawn*`) | `spawn_lock`; ends, marker, leaf and job of the call | `spawn` on every backend | dispatch, elevation, stdio resolution | two spawns at once; a failure after the process was started; a root that runs and exits under the call | an error leaves nothing; nothing a spawn makes inheritable (Windows ends, the macOS marker) leaks to another child; a reported containment is real |
| stdio (`stdio.rs`, `crt_fds.rs`) | the redirections | `resolve_stdio`, `resolve_raw_ends`, the pre-pass for tokio's pipes, the CRT table | spawning | merges into pipes somebody else makes; a length in 16 bits | the child's descriptors are those that were asked for, on every backend |
| pumps (`child/pump.rs`, `tokio/pump.rs`) | one stream each | `communicate` | pipes of the child | full pipes, early close | no stream waits for another |
| persisted identities (`identity/persist.rs`) | a serialized record | `to_persisted`, `from_persisted` | identity | another boot, session or clock | a record never resolves to a stranger |
| elevation (`elevation*`) | none | `plan`, the rewrite, sanitizing | spawning, external helpers | precedence of cases; what a wrapper does to descriptors and containment | the verdict does not depend on who asks; containment is not silently lost |
| command builder, quoting (`command*`, `quote*`) | fields | builder, string functions | - | none concurrent | round trip |

`PROJECT.json` lists the same components with what is modelled of each, and under `hazards` the places
where this code could go wrong in ways a test would hardly reach.

## Modules

Below each abstract claim there is one module per component; `MC*` modules give TLC its small
instances, `*_proofs` modules hold the theorems.

The reaper:

- `ReapService` - what the drop of an asynchronous child promises: resources are settled on the spot or
  handed to one first-in first-out service of bounded concurrency that never closes, loses, doubles or
  reorders.
- `ReaperPool` - the detailed specification: every handle's `Drop` (one `pc` per handle, so all drops
  overlap), `LazyPool::get` with its unlocked fast path, the init mutex, the spawn loop with each spawn
  free to fail, publication or the abandoned attempt with its joins, the final unlocked read, and the
  worker threads. `os[c]` says who owns a child's `OsResources`; `proc[c]` is the root as the kernel has
  it. An attempt's channel and workers are named after the child whose drop runs the attempt, because a
  drop makes at most one.

The mechanisms' signals:

- `ProcessTable` - pids that are recycled, start tokens, parent links that are rewritten on exit (Unix)
  or go stale (Windows). The kernel's own moves are the environment; the queries `Exists` and `IsAlive`
  are `identity.rs`.
- `TreeWalk` - snapshot, layer-by-layer walk with each candidate resolved at the moment it is visited,
  then the kills. On Unix verifying and signalling are two steps (`TakeAim`, `Shoot`), on Windows one
  (`KillAtOnce`), as the code holds a handle there. The OS may refuse the kill of some pids (`refusing`) as
  it may refuse to identify others (`denied`): either ends in `NotAttempted`, which `spared` records.
- `GroupTeardown` - `killpg`, the direct fallback, the listing (pid by pid on Linux, one sysctl on
  macOS), and for each listed member the query, the verified resend or probe, the second query and the
  verdict, against a host that forks, exits, regroups and changes credentials between any two of them.
- `FdMarkerSweep` - the macOS marker's `hard_kill` and `terminate`: passes of snapshot, walk, holder scan
  (one listed pid at a time), resolution, group signal, then one kill at a time. A kill is the system calls
  it is on macOS, where nothing but a pid is at hand: `kill_holder` asks the pid for the marker again
  (`held`), `kill_by_identity` compares its identity (`aim`, taken at time `since`), and the bare pid is
  signalled; `strays` records who was hit instead. `seen`, `progressed`, `incomplete`, the fold of the group's errors
  and `finish_sweep`. The walk and the group signal, which the two modules above take apart, are one step
  each here. The host forks, exits, closes the marker, leaves the group, execs a setuid binary and recycles
  pids in between.

The drains:

- `TreeDrain` - what `wait_tree` promises whatever the mechanism: a drain is reported only of an empty
  tree, `MembersRemain` only when time is up, an error only when the tree can no longer be observed.
- `DrainCall` - what the mechanisms with a drain edge share: the tree, the one wait, its deadline, the
  tokio reactor (`changed` at the descriptor, `queued`, `ready`, and `newer` for the readiness that
  `clear_ready` must spare), the threads that call `kill_tree` and the owner who detaches or drops.
- `CgroupDrain`, `JobDrain`, `MarkerDrain` - one mechanism each, on the synchronous and the tokio child:
  the leaf whose `cgroup.events` is read before every wait; the job whose handle is taken under a lock
  while the wait goes in rounds on a duplicate; the pipe whose end of file is awaited on a kqueue of the
  call's own. They use disjoint variables of their own and the same `pc`, since a child has one mechanism.
- `WaitTree` - `Attached` and its tokio counterpart: the three of them composed with the host, the
  clock and the owner; its properties, and the refinement of `TreeDrain`.

The shutdown:

- `GracefulShutdown` - `graceful_shutdown` (`op = "lone"`) and `graceful_shutdown_tree` (`"tree"`) of a
  synchronous child, an asynchronous one and a foreign handle, then the synchronous `Drop`. `pc` follows
  the code: the cooperative signal by mechanism (`Term*`), the grace (`watch`, then `probe` where an end
  of file or a timeout proves nothing), the sweep, its backstop on the handle, the reap; and the branch
  of a failed sweep that collects an exit already observed. `drained`, `rootExited`, `watchErr` and
  `sweepErr` are the code's locals. What the modules above establish of a mechanism's delivery is one
  step here (`TermGroup`, `HardKill`), whose freedom is theirs: a walk may reach any members; a group or a
  marker those it names that do not refuse, but for any it does not see (`Missable`: members that refuse and
  are hidden by hidepid or cannot be queried, and under a marker the child of a forker that exited, as in
  `sweep_fork_exit`), who are neither reached nor reported; and an error is a fault of the setting. Where the
  OS offers no handle (`bare`, macOS) a signal to the root's number is two steps, `Verify` and the signal,
  and the parent of a foreign process may collect it in between. `asked`, `swept`, `early`, `late`, `missed`
  and `stray` are history.

Spawning:

- `StdioResolution` - from the redirections to the ends of child and parent: `resolve_stdio` on the
  synchronous child, the pre-pass for the pipes tokio would otherwise own, the raw Windows backend, the
  size of the CRT table (in 16 bits). `Faithful` is the reference they are compared with: what was asked,
  without passes or orders.
- `Elevation` - `plan` with the structural refusals, the gate, the wrapper's own limits, and the derived
  command with its environment, descriptors and containment.
- `Spawn` - one call per thread, each the sequence of steps its backend takes (`Program`): refusals,
  preparation, `spawn_lock`, marking and closing of inheritable ends, the create step with the hooks of a
  forked child in the order they were registered, assignment and resumption, identity, attachment, adoption
  by tokio, the password, the drop of what is left. An error replaces the rest by what the code undoes
  (`Unwound`, `Teardown`). The root runs from its creation on: it forks, and exits, under the call.

## Runs

| run | instance | question |
|---|---|---|
| `reaper` | 3 children (one wedged, one panicking, one refusing its kill), pool of 2, fair | the pool keeps its width and its lock discipline (`PoolIsSound`), no job is lost or doubled and no wait is unbounded (`JobsAreSound`), a release collects the root (`ReapBeforeRelease`), the pool implements `ReapService`, `DropReturns`, and one wedged child does not starve the others (`Bulkhead`) |
| `treewalk` | 4 pids; a Unix host with a denied identity and a refused kill, a Windows host, and a Windows host that recycles pids mid-walk and refuses a termination | no stranger gets in where parent links and tokens claim to keep it out, the walk is closed, what it found is killed but whom the OS refused it, a pinned handle hits nobody else, the call ends |
| `treewalk_stale_ppid` | 4 pids, Windows | violated: every target is genuine |
| `group` | 3 pids; SIGKILL and SIGTERM, Linux and macOS listings, hidepid, foreign and excluded members, setuid during the call, an unrelated process | `Ok` is the truth about the group, signals go where they should and a SIGTERM once, nobody who was reached is reported as refusing, the call ends |
| `sweep` | 3 pids; an unreadable table, recycling, every move of a member with every fault, a `terminate` | `Ok` over no listable holder of a tree that stays, the marker channel aims at inheritors only and its bare pid strays only to a process younger than the check, whatever was met and not reached is reported, the loop ends |
| `sweep_fork_exit` | 3 pids, members that exit | violated: `Ok` means swept |
| `drain` | 3 pids, one thread that kills; each mechanism, synchronous and tokio, bounded and unbounded; forks, recycled pids, removal of the leaf, full pipes, members that cannot be opened, failing calls, detach and drop, fair | every wait implements `TreeDrain`; no drain goes unseen; bounded waits and abandoned watchers end; a dropped tree dies, a detached job runs on |
| `drain_detach` | 2 pids, a detached leaf | violated: a detached tree runs on |
| `graceful` | 3 members, two calls; 21 deployments of mechanism, owner and faults | `Ok` leaves nobody it covers running, nobody who was asked is abandoned, no stranger is signalled outside the two windows the code names, every call and drop returns |
| `spawn` | seven families of deployments, see below | an error leaves nothing, a reported containment is real, no Windows end and no macOS marker leaks to a concurrent child, descriptors are those asked for, an elevation's verdict does not depend on who asks |
| `spawn_fast_exit` | one contained spawn on Linux | violated: the fallback of a failed placement kills nobody |
| `spawn_refused` | one raw spawn on Windows | violated: a refused spawn has not mutated the parent |

Settings. A run asks its question of several hosts and several kinds of call at once: the constant
`Settings` is a set of records (platform, mechanism, which processes exist, which faults may happen), and
the variable `setting` is one of them, chosen in `Init` and never changed. `Others`, `MaxToken`, `SameTick`
and the rest are read out of it, so a module says `Others` where it means the processes of its host. A
property that is promised only on some hosts says so in its own antecedent (`WalkIsGenuine` where nothing
is recycled, `StayersAreSwept` where members do not leave the sweep by themselves, `RefusersWereSpared`
where no exec changes credentials between a signal and its probe and a recycled pid can be queried,
`Covered` for what a mechanism can name and see at all).

Bounds. Three children on a pool of two are enough for every overlap of two initialisation attempts
with a third drop that finds the pool, for a worker that is wedged while another serves, and for two
jobs queued behind it. In the table models three or four pids give a chain of depth two below the root
plus an unrelated process, and the setting's `maxToken` (the last start token handed out) allows a pid to
change hands at least once after the snapshot. Tokens are the only unbounded counter of the code that is
capped. `StayersAreSwept` is about hosts in which a member does not exit, exec or close the marker of its
own accord once the sweep has begun (`leaves` is empty): `sweep_fork_exit` shows what happens otherwise.
In `drain` three pids let one member exit, a second be waited on and a third be forked or recycled in
between; one process handle per round (two where a member cannot be opened) makes every job larger than
what `WaitForMultipleObjects` takes at once. There is one wait per behaviour: waits share nothing but the
handle, which the killer thread takes from under them, and each marker wait arms a kqueue of its own.
In `graceful` three members give the root a child that can leave and a grandchild it forks after leaving,
and `MaxCalls = 2` lets a second shutdown meet what a failed or cancelled one left (a collected root above
all); a process that is gone does not come back, since a new descendant is any member not yet born.
`spawn` takes its deployments in families: pairs of concurrent spawns (`Threads`); every containment on
every platform and API with each step failing (`Mechanisms`, `Flagged`); every shape of the slots 0 to 3
(`Redirected`), with 7280 and 7281 on either side of the CRT table's limit in `Mechanisms`; every backend,
authentication and privilege (`Matrix`), each refusal crossed with the elevated caller (`Crossing`), and
wrapped spawns under every late failure (`Wrapped`). Two threads are enough for a leak, which needs one
that makes an end and one that creates a process. A descendant of the root stands for all of them: the
promises ask where it was forked into, not how many there are.
Deadlock is not checked where the modelled call simply ends or every handle is dropped (`spawn` marks its
end by a step of its own and is checked).

Fairness. `ReaperPool` assumes that a thread that can run does run (weak fairness of each drop's and
each worker's step) and that a killed child that is not wedged does exit. Nothing makes a user drop a
handle, and tokio's orphan handling is not assumed to run. `WaitTree` assumes that whoever is
inside a call goes on, that the reactor delivers what is queued, that the deadline of a bounded call
comes, and that a process which SIGKILL or `TerminateJobObject` has reached does exit; nobody has to
fork, exit, kill, cancel, detach or drop. `BoundedWaitEnds` leaves out, by name, the two waits that do
not end for that reason alone: a job whose members keep forking (a round of `wait_drained_raw` that
started with no time left goes back for another one when its poll finds a member that has exited) and a
tokio wait on a marker that is written full all the time, whose timer is not polled between two readinesses
that are there already. `GracefulShutdown` assumes that the call goes on and that a doomed process exits;
a member that ignores the request never has to. That the calls of `TreeWalk`,
`GroupTeardown` and `FdMarkerSweep` end needs no fairness to state: `CallMakesProgress` says that every
step of the call lowers a lexicographic measure (`Left`), which no move of the host raises.

## Where the code and its documentation part

Five runs show a disagreement; `PROJECT.json` quotes both sides.

- `treewalk_stale_ppid` checks `TargetsAreGenuine`, the claim of `treewalk.rs` line 8 that each *genuine*
  descendant is killed. Tokens are compared with the root's only. On Windows a stranger newer than the
  root, left with the stale ppid of a dead parent, becomes a "descendant" when a genuine one is given
  that pid. Lines 29-31 consider a recycled *root* pid and no deeper one. In the same way a candidate
  recycled between the snapshot and its resolution is newer than the root and passes; that is why
  `WalkIsGenuine` is stated for hosts in which nothing is recycled during the call.
- `sweep_fork_exit`: `fdmarker.rs` says a pass that resolves nothing new has closed the gap. A member that
  forks after the snapshot and exits before it is looked at leaves a child no channel has listed; when that
  was the last thing to resolve, the pass counts as idle and `hard_kill` answers `Ok` over the running child.
- `drain_detach`: `CgroupLeaf::drop` writes `cgroup.kill` when the leaf cannot be removed, which it
  cannot while the detached tree is in it. `Attached::disarm` does nothing for a cgroup because "drop
  doesn't kill". `DetachedJobRuns`, in `drain`, is the same promise for a job, where `disarm` keeps it.
- `spawn_fast_exit`: `attach_tree` takes a root that is not in `cgroup.procs` for a failed placement and
  drops "the empty leaf". A root that forked and exited is not listed either, and the drop kills its
  descendant, in a spawn that succeeds.
- `spawn_refused`: the raw Windows backend clears the inheritance of the parent's std handles before the
  last checks that may refuse the spawn, against its own comment.

Smaller ones that no run is spent on:

- The synchronous teardown of a failed spawn promises never to block for long (`child/spawn.rs`
  296-298, 318-321), yet an elevated child that refuses its kill is waited for; the asynchronous
  `reap_now` (`tokio/child.rs` 755-772) skips that wait. `FailureLeavesNothing` excuses such a child.
- `SharedChild::new` failing (`child/spawn.rs` 338) leaves a running child behind; it is excused likewise.
- A spawn that fails after the take of its descriptors (`child/spawn.rs` 123) has used up the command's
  redirections: a retry spawns without them.
- The descriptor of `cgroup.procs` loses its `FD_CLOEXEC` in the parent (`cgroup.rs` 362), so a child
  another thread spawns meanwhile may inherit it. On macOS `std::io::pipe` gives a pipe its `FD_CLOEXEC`
  in a second system call; the marker's is made under `spawn_lock`, the pipes for redirections are made by
  `resolve_stdio` before it (`child/spawn.rs` 154), so a concurrent spawn may inherit those. `EndsStayPrivate`
  is about what the crate itself makes inheritable: the child ends on Windows and the marker on macOS.
- A failed spawn may leave the directory of its leaf: `try_create_leaf` forgets it when `cgroup.procs`
  cannot be opened (`cgroup.rs` 349-352), and the second `rmdir` of `CgroupLeaf::drop` is refused while what
  it killed is not reaped (`cgroup.rs` 306-313, which says so). `FailureLeavesNothing` names these two leaves,
  `forgotten` and `busy`, and allows no other.
- `child.rs` 241-242 calls the walk immune to a recycled root; it starts from the root's bare pid, and on a
  root that was collected it walks whoever has the pid now.
- A listing that fails after `killpg` (`child/graceful.rs` 188-190, 217) returns an error between the request
  and the sweep: the one way, besides cancelling, in which `NoneAbandoned` lets a call stop short.
- Variables passed to `doas` or `pkexec`, a variable name no flag can carry, and a program under `pkexec`
  that begins with a dash are refused only when a wrapper is built, hence not to an elevated caller
  (`WrapperLimit` in `Stable`).
- `can_observe_drain` says the job's edge is a completion port, which the wait deliberately does not use.
- A tokio wait may answer `MembersRemain` although the tree drained before the deadline when the reactor
  has not delivered yet (`mayMiss` in the refinement). A second `hard_kill` on a consumed handle answers
  `Ok` whatever the first one is about to answer. A timeout on Windows is cut at 2^32 - 2
  milliseconds, after which `MembersRemain` comes early.
- The marker's `terminate` signals the group and then every walked and held identity, so a member of
  both gets SIGTERM twice; `unix.rs` probes rather than signal anew just to avoid that.

## What is proved

Each theorem holds for every value of the constants under the module's named assumption, which only
gives types (that the root is a pid, that settings are made of the values the code has; `SpawnAssumption`
adds what the builder's own types and signatures enforce, see below). The three theorems that a call comes
to an end assume in addition that there are finitely many pids, and `OkIsTheTruth` makes one assumption of
its own, see below.

`ReaperPool_proofs`, for any set of children, any pool width and any choice of wedged, refusing
and panicking children: type correctness; `PoolIsSound` and `JobsAreSound` with their parts
`PoolNeverShrinks`, `JoinsNeverWaitOnAReap`, `ReleasedOnlyAfterOwnFailure`, `JobsAccountedFor` and
`WaitIsBoundedAndPinned`; and the action property `ReapBeforeRelease`. The inductive invariant has layers,
each proved on the ones below it. `PoolInv` is about the init lock
and the attempts: the lock is held from the recheck to the end of the loop, nothing is published while
an attempt is under way, a worker past `recv` belongs to the published attempt, an abandoned attempt
was fully made and has a failure in it. None of the stated properties is inductive without it: that a
published pool is whole needs to know that no abandoned attempt shares its workers. `JobInv` is about
the jobs: a drop that has not finished still owns its resources, a worker has a job exactly while it
waits or releases, and the counting of `JobsAccountedFor` itself. `ExitSeen` adds that a worker about
to release saw the exit or a panic.

The same module shows that `ReaperPool` refines `ReapService` (`PoolImplementsService`). The step that
takes work is the one that needs an argument: an idle worker of the published attempt means fewer children are being
served than the pool is wide, by the injection that seats each served child at its worker.

`WaitTree_proofs`, for any pids, threads, faults, refusals and batch
size: type correctness, that `WaitTree` refines `TreeDrain` (`ImplementsDrain`), and `DetachedJobRuns`.
The refinement rests on `DrainInv`, which says what each mechanism's evidence is worth. A leaf that
could be removed is empty and cannot be filled again. A wait that blocks on a leaf or a job has looked
since the call began and seen someone, so that `MembersRemain` is never said of a tree that was empty
all along. The end of file of a marker, once there, stays pending until a wait takes it. The job's part
(`DisarmInv`) is that without a killer the handle is still there when `detach` reaches for it, so the
limit is clear before any handle closes, whichever closes last.

`GracefulShutdown_proofs`, for any tree, any number of calls and any deployment with any faults: type
correctness, `OkMeansTreeDown`, `NoneAbandoned`, `NoStrangerSignalled`. The invariant has five parts.
`RootIsOurs`: while an owner's call runs, the root is not collected unless it was before the call began, so
its number names nobody else. `StandsFor`: what has happened by the time the call stands where it stands
(before a backstop there was a sweep, before a reap a sweep or a proof). `UnbornHoldNothing`: a member that
is not born holds no marker and is in no group, so a fork by nobody named names nobody. `SweptClean`:
after a sweep without an error, and up to the `Ok`, nobody whom the mechanism can name is running but
those the sweep did not see; it is preserved because only a named live member could fork another, and a
child of one that was missed counts as missed. `AimHolds`: a number that was found to be the root's is still
the root's when it is signalled, unless the parent of a foreign root collected it since (`late`).

`ProcessTable_proofs` has the lemmas on the table that the next three share: what each move of the host
changes, and that an identity of the past (`Past`) never runs again and never comes back.

`TreeWalk_proofs`, for any number of processes and any host: type correctness, `StrangersAreKeptOut`,
`WalkIsClosed`, `TargetsAreKilled`, `HandleHitsItsTarget`. Closure is `LayersFit`: an edge that was
visited leads to an accepted or a pruned pid, and an edge under an accepted pid that was not yet visited
hangs under the current or the next layer. That strangers stay out rests on the host's `LinksAreTrue`
(where orphans are reparented, the parent a link names is running, and children of the tree are of the
tree) and `RootLinks` (everywhere, who names the root as its parent was forked by it or is older), on
`SnapIsTrue` (what the snapshot says of a pid is true until the pid is recycled) and on `Followed` and
`RootLayer`, which carry descent from layer to layer, and to the root's own children on hosts whose
links go stale. `Settled` says that what is no longer to be killed is dead, doomed, aimed at, or
was spared because the OS refused.

`GroupTeardown_proofs`, for any number of processes: type correctness, `SignalsAreAimed`,
`RefusersWereSpared`, and `OkIsHonest`
under one assumption, `TermHosts`: on a host a SIGTERM is sent to, no exec changes a member's credentials
during the call, and no member is a system process a signal is refused to but a probe is not. Without it
a member that refused `killpg` and accepts the later probe counts as reached, which no second look can tell
apart. The invariant says that the leader's pid stays its own (`LeaderPinned`, `LeaderStays`), that
meanwhile whoever is in its group was forked into it (`GroupIsOurs`), that every identity the call has met
is reached, refused, unassessable or still to be looked at (`Accounted`), and that SIGKILL downs what it
reaches. `RefusersWereSpared` needs `RefusalInv`: whom the call reached takes its signals for as long as it
exists, so an EPERM in the turn of a member that was reached came from the next process on its pid, or from
a zombie, and `reconfirm_survivor` finds the member gone.

`FdMarkerSweep_proofs`, for any number of processes, any host and any faults: type correctness,
`KillsAreAimed`, `FailuresSurface`, `StayersAreSwept`. Each has a part of the invariant to itself.
`HoldersInherit` says that whoever holds the marker is of the tree, and `HeldHolds` that what `kill_holder`
confirmed is of the tree or has given up its pid since, so that it passes the identity check only if it is
of the tree. `AimIsFresh` says that since that check the pid has changed hands only to a process created
later, which is whom a bare pid may hit (`wait/macos.rs` 3 calls that window irreducible).
`SeenAreReached`: an identity in `seen` that is still a member was reached, is in the pass's hand, or has
been noted as a gap; nothing is dropped on the way. `BreaksShow` is about the fold of the group's errors.
`NoneOverlooked` is the argument of the re-snapshot loop. Call a running process that holds the marker and
can be queried *open*. Where members do not leave, an open process stays open and was forked by an open one,
so if there is one at all, then one that was there at the snapshot. What `seen` had by then is reached,
hence down, so this one is new: the pass either resolves something, and another one follows, or knows of a
gap, or still has that process ahead of it in the scan. Exactly this fails in `sweep_fork_exit`, where the
forker exits before its turn.

The same three modules prove that the calls end (`WalkComesToAnEnd`, `CallComesToAnEnd`, `SweepEnds`):
`CallMakesProgress`, together with two things TLC is not asked. The measure is made of natural numbers, so
it cannot fall for ever, and no move of the host raises it. In the sweep an identity never dealt with before
outweighs everything else in the measure, and there are only so many; without one a pass may be repeated
once at most, since nothing is left to resolve.

`Spawn_proofs` has two parts. The first is about `StdioResolution`: the wirings of all four backends are
`Faithful` for any redirections on any descriptors, and the CRT table's check refuses exactly the tables
that 16 bits would cut short.

The second proves every property of the `spawn` run, for any number of calls that spawn side by side, any
commands, any machine and any faults: `TypeOK`, `EndsStayPrivate`, `FailureLeavesNothing`,
`ContainmentIsReal`, `StdioIsFaithful` and `PlanIsStable`. `SpawnAssumption` says what a caller can hold
ahead of a spawn: a command with the fields of `Command` (`Configured`), descriptors that are
numbers of 31 bits with one redirection each, of which only a merge names another slot (`Redirections`:
`Fd` is an `i32` that its conversion asserts is not negative, and `Command` keeps a map of them), off Windows no
creation flag but `no_window` (the other setters do not exist there), no wrapper before a rewrite made one;
and a machine that is one of the three systems.

None of the properties is inductive, because what a call has done is not written down anywhere but in what
it still has to do. So the invariant (`Inv`, `AlwaysInv`) is read off the steps that are left. `Earliest`
and `Latest` give every step its place in the order all backends share; `ProgramFits` shows that the
program of every backend, system and mode is in that order and has everything that is due (a lock and an
unlock around each creation, a `close` on Windows, a `fence` on macOS, a `resume` for a job), and
`StoppedInOrder` the same of each cleanup an error leaves. From there `Course` (`ScheduleOK`, `PendingOK`,
`FailingOK`, `BackendOK`) is kept by every step, which either passes the step at hand or halts in cleanup
(`StepMoves`). `Course` is what gives a step its past: at `create` the ends are resolved and marked
and the lock is held (`HeadCreate`), at `attach` the resume is behind (`HeadStarted`). The other parts say
what follows for the call's resources: `EndsOK` that an inheritable end or a bare marker means the call is
between its lock and its unlock, `RootOK` that a suspended root has its resume ahead, `KidOK` and `GroupsOK` where
root and descendant are, `PreparedOK` and `WiringOK` what was prepared and resolved, `EndedOK` that a failed
call has its child still to end or has ended it, and `LeafOK` that a leaf which is left was forgotten or holds
what its drop killed.

`EndsStayPrivate` then is `Isolation`: if another call had an inheritable end at a creation, both would
be between their lock and unlock, and the lock has one holder. `FailureLeavesNothing` and
`ContainmentIsReal` are `EndedOK` with `LeafOK`, and `GroupsOK`, of a call with no step left; that `FdMarker` may be
reported rests on `MarkerIsFree`, since a marker on a slot of the caller's would be overwritten by its
`dup2`. `StdioIsFaithful` uses the first part through `DerivedRedirections`, for what a password adds to a wrapper's slots.
`PlanIsStable` is proved of any request at all (`VerdictIsStable`): the gates and the structural matrix do
not read the caller's privilege or terminal. A step touches one call and a creation reads the others', so
`StepApart` carries the invariant of the others over every step.

`Inv` is too much for the deployments alone to suggest, so it was put to TLC before it was proved: a
module that extends `MCSpawn` and `Spawn_proofs` checks `TypeOK`, `CallOK` of every call and `holds = {}`
on the 194126 states of `spawn`.

## What is only model-checked

- Liveness: `DropReturns`, `Bulkhead`, `DrainIsSeen`, `BoundedWaitEnds`, `DroppedTreeDies` and
  `CallReturns`, which are outside the proof system's reach.
- That the documentation's claims of the five runs that expect a violation are false: a counterexample is
  an instance, and TLC shows it.
- That the specifications have the behaviours they should have (no proof would miss an action that can
  never be taken): the runs fire every action, and every property has a mutant of the code that breaks it.

## What is not modelled, and why

- A `fork` of the host process without `exec` (the pool's documented limitation), `debug_assert`s, log
  lines, and the guard on `pgid <= 0`, which no attached child reaches.
- What a denied query means on each platform is reduced to *denied or not*, per pid.
- Of the marker's sweep: the re-check of a read end that was reissued, a root that had already gone at
  attach (`root` is then `None` without being a gap); the descriptors of one pid are read in one step.
- Of the drains: retries after `EINTR` on a kqueue, which change nothing; the tokio job wait's
  zero-timeout call, which is the synchronous one; a `CloseHandle` that fails and leaks; a second wait on
  the same handle. Until the root is reaped `Drop` keeps the handle; the model only orders the kill
  before the release.
- Of a shutdown: how long the grace is (it may elapse at any time), the drop of an asynchronous child
  (`ReaperPool` has it), and members that one call reaches and another process on their recycled pid: only
  the root's number is recycled there, the others' are `TreeWalk`'s and `GroupTeardown`'s subject.
- Of a spawn: the bytes of the CRT table, the duplication of handles, the conversion of a `Stdio` from a
  file, the quoting of a derived command line, and the password itself.
- `communicate` and its pumps. Each stream is copied on a thread or future of its own while the child is
  waited for, so that a full pipe cannot hold up the others. They share no state with the containment, and
  their few orders are driven against real children by the crate's `tests/spawn_io.rs` (line 266) and
  `tests/tokio_io.rs` (lines 72, 88, 108 and 498). What can hold `communicate` up is a descendant that
  keeps a write end open, as for any reader of a pipe.
- Persisted identities: a comparison of fields, each of which a unit test sets by itself. Quoting: sequential
  string processing, tested against the parsers it is for. The setters of the command builder.

## What is left to do

In the order of what it would add: an abstract specification of a spawn (a child that is there, contained and
wired, or nothing) and the refinement from the step programs, for which `Inv` has the facts; the pumps as an
abstract bounded channel; persisted identities against a reference definition.

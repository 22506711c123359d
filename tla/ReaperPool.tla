---------------------------- MODULE ReaperPool ----------------------------
(***************************************************************************)
(* The teardown of an asynchronous Child by Drop, and the pool of reaper   *)
(* threads it hands the wait to.                                           *)
(*                                                                         *)
(*   src/src/tokio/child.rs          Drop for Child, wait_and_reap         *)
(*   src/src/tokio/child/reaper.rs   LazyPool, Pool, work, run_teardown    *)
(*                                                                         *)
(* One dropping thread per child handle, so all drops may overlap. Every   *)
(* init attempt makes a channel and up to Bound workers of its own: both   *)
(* are named by the child whose drop runs the attempt (a drop calls        *)
(* LazyPool::get once). Only the published channel is ever sent on, so one *)
(* variable, queue, holds the jobs.                                        *)
(***************************************************************************)
EXTENDS Naturals, Sequences, FiniteSets

CONSTANTS Child,       (* the child handles that may be dropped            *)
          Bound,       (* LazyPool.bound, REAPER_POOL_THREADS              *)
          Wedged,      (* children a SIGKILL never ends (a dead device)    *)
          Refusing,    (* children whose start_kill may be refused         *)
          Panicky,     (* children whose wait region may panic             *)
          NoOne        (* neither a child nor a thread                     *)

ASSUME PoolAssumption == /\ Bound \in Nat \ {0}
                         /\ Wedged \subseteq Child
                         /\ Refusing \subseteq Child
                         /\ Panicky \subseteq Child
                         /\ NoOne \notin Child

Slot == 1 .. Bound
Worker == Child \X Slot

VARIABLES pc,      \* where the drop of each handle stands
          proc,    \* the root process of each handle, as the OS has it
          tree,    \* the handles whose tree was signalled
          os,      \* who holds each handle's OsResources
          cell,    \* LazyPool.cell: the attempt that published, or NoOne
          init,    \* LazyPool.init: the holder of the mutex, or NoOne
          tx,      \* the sender of each attempt's channel
          tried,   \* how many spawns each attempt has made
          worker,  \* the state of each attempt's worker threads
          job,     \* the job each worker has in hand, or NoOne
          queue    \* the jobs on the published channel

dropVars == <<pc, tree>>
poolVars == <<cell, init, tx, tried>>
workVars == <<worker, job>>
vars == <<pc, proc, tree, os, cell, init, tx, tried, worker, job, queue>>

DropState == {"owned", "tree", "submit", "lock", "recheck", "spawn", "join",
              "decide", "send", "release", "done"}
ProcState == {"running", "killed", "exited", "reaped"}
WorkerState == {"unborn", "failed", "recv", "wait", "free", "exited"}

TypeOK == /\ pc \in [Child -> DropState]
          /\ proc \in [Child -> ProcState]
          /\ tree \subseteq Child
          /\ os \in [Child -> {"handle", "queue", "worker", "released"}]
          /\ cell \in Child \cup {NoOne}
          /\ init \in Child \cup {NoOne}
          /\ tx \in [Child -> {"none", "open", "dropped"}]
          /\ tried \in [Child -> 0 .. Bound]
          /\ worker \in [Worker -> WorkerState]
          /\ job \in [Worker -> Child \cup {NoOne}]
          /\ queue \in Seq(Child)

Init == /\ pc = [c \in Child |-> "owned"]
        /\ proc = [c \in Child |-> "running"]
        /\ tree = {}
        /\ os = [c \in Child |-> "handle"]
        /\ cell = NoOne
        /\ init = NoOne
        /\ tx = [c \in Child |-> "none"]
        /\ tried = [c \in Child |-> 0]
        /\ worker = [w \in Worker |-> "unborn"]
        /\ job = [w \in Worker |-> NoOne]
        /\ queue = <<>>

-----------------------------------------------------------------------------
(* The process itself.                                                     *)

Exit(c) == /\ proc[c] \in {"running", "killed"}
           /\ c \notin Wedged
           /\ proc' = [proc EXCEPT ![c] = "exited"]
           /\ UNCHANGED <<dropVars, os, poolVars, workVars, queue>>

(* Child::wait observed the exit before the handle was dropped.            *)
UserWait(c) == /\ pc[c] = "owned"
               /\ proc[c] = "exited"
               /\ proc' = [proc EXCEPT ![c] = "reaped"]
               /\ UNCHANGED <<dropVars, os, poolVars, workVars, queue>>

(* tokio's orphan handling collects a child whose handle is gone.          *)
OrphanReap(c) == /\ os[c] = "released"
                 /\ proc[c] = "exited"
                 /\ proc' = [proc EXCEPT ![c] = "reaped"]
                 /\ UNCHANGED <<dropVars, os, poolVars, workVars, queue>>

-----------------------------------------------------------------------------
(* The dropping thread.                                                    *)

Goto(c, from, to) == /\ pc[c] = from
                     /\ pc' = [pc EXCEPT ![c] = to]

Signalled(p) == IF p = "running" THEN "killed" ELSE p

(* Dropping tokio's Child calls try_wait: an exited root is collected by   *)
(* the release itself, a live one is left to the orphan queue.             *)
Released(c) == /\ os' = [os EXCEPT ![c] = "released"]
               /\ proc' = [proc EXCEPT ![c] = IF @ = "exited" THEN "reaped" ELSE @]

(* kill_on_drop is off, or detach() turned it off: nothing is signalled.   *)
DropDetached(c) == /\ Goto(c, "owned", "done")
                   /\ Released(c)
                   /\ UNCHANGED <<tree, poolVars, workVars, queue>>

(* attached.hard_kill(), whose error is only logged. It reaches the root   *)
(* too, unless the child is uncontained or the signal is refused.          *)
DropSignalTree(c) ==
  /\ Goto(c, "owned", "tree")
  /\ tree' = tree \cup {c}
  /\ \/ UNCHANGED proc
     \/ proc' = [proc EXCEPT ![c] = Signalled(@)]
  /\ UNCHANGED <<os, poolVars, workVars, queue>>

(* is_reaped(): no signal to issue and no exit to wait for.                *)
DropAlreadyReaped(c) == /\ proc[c] = "reaped"
                        /\ Goto(c, "tree", "done")
                        /\ Released(c)
                        /\ UNCHANGED <<tree, poolVars, workVars, queue>>

DropKillRoot(c) == /\ proc[c] # "reaped"
                   /\ Goto(c, "tree", "submit")
                   /\ proc' = [proc EXCEPT ![c] = Signalled(@)]
                   /\ UNCHANGED <<tree, os, poolVars, workVars, queue>>

(* Mutant: a child whose kill was refused is submitted all the same.       *)
DropKillRefusedSubmits(c) == /\ proc[c] # "reaped"
                             /\ c \in Refusing
                             /\ Goto(c, "tree", "submit")
                             /\ UNCHANGED <<proc, tree, os, poolVars, workVars, queue>>

(* The kill was refused: the child is left running and never submitted.    *)
DropKillRefused(c) == /\ proc[c] # "reaped"
                      /\ c \in Refusing
                      /\ Goto(c, "tree", "done")
                      /\ Released(c)
                      /\ UNCHANGED <<tree, poolVars, workVars, queue>>

-----------------------------------------------------------------------------
(* LazyPool::get, on the dropping thread.                                  *)

CellHit(c) == /\ cell # NoOne
              /\ Goto(c, "submit", "send")
              /\ UNCHANGED <<proc, tree, os, poolVars, workVars, queue>>

CellMiss(c) == /\ cell = NoOne
               /\ Goto(c, "submit", "lock")
               /\ UNCHANGED <<proc, tree, os, poolVars, workVars, queue>>

LockInit(c) == /\ init = NoOne
               /\ Goto(c, "lock", "recheck")
               /\ init' = c
               /\ UNCHANGED <<proc, tree, os, cell, tx, tried, workVars, queue>>

(* Another drop published while this one waited for the lock.              *)
RecheckHit(c) == /\ cell # NoOne
                 /\ Goto(c, "recheck", "decide")
                 /\ init' = NoOne
                 /\ UNCHANGED <<proc, tree, os, cell, tx, tried, workVars, queue>>

(* Mutant: the cell is written before the workers are started.             *)
RecheckMissPublishes(c) ==
  /\ cell = NoOne
  /\ Goto(c, "recheck", "spawn")
  /\ tx' = [tx EXCEPT ![c] = "open"]
  /\ cell' = c
  /\ UNCHANGED <<proc, tree, os, init, tried, workVars, queue>>

RecheckMiss(c) == /\ cell = NoOne
                  /\ Goto(c, "recheck", "spawn")
                  /\ tx' = [tx EXCEPT ![c] = "open"]
                  /\ UNCHANGED <<proc, tree, os, cell, init, tried, workVars, queue>>

(* Mutant: the loop makes one turn too many.                               *)
MoreToStartOffByOne(c) == tried[c] <= Bound

(* for _ in 0..self.bound                                                  *)
MoreToStart(c) == tried[c] < Bound

(* One turn of the spawn loop: a failure is kept and the loop goes on.     *)
SpawnWorker(c) ==
  /\ pc[c] = "spawn"
  /\ MoreToStart(c)
  /\ tried' = [tried EXCEPT ![c] = @ + 1]
  /\ \E outcome \in {"recv", "failed"} :
        worker' = [worker EXCEPT ![<<c, tried[c] + 1>>] = outcome]
  /\ UNCHANGED <<pc, proc, tree, os, cell, init, tx, job, queue>>

(* Mutant: a pool with some worker is good enough.                         *)
SomeStarted(c) == \E i \in Slot : worker[<<c, i>>] # "failed"

(* started == bound, at the end of the loop.                               *)
AllStarted(c) == \A i \in Slot : worker[<<c, i>>] # "failed"

(* cell.set is the last step under the lock, and the guard drops with it.  *)
Publish(c) == /\ tried[c] = Bound
              /\ AllStarted(c)
              /\ Goto(c, "spawn", "decide")
              /\ cell' = c
              /\ init' = NoOne
              /\ UNCHANGED <<proc, tree, os, tx, tried, workVars, queue>>

(* Mutant: the sender of an abandoned attempt is kept.                     *)
AbandonKeepsSender(c) ==
  /\ tried[c] = Bound
  /\ ~ AllStarted(c)
  /\ Goto(c, "spawn", "join")
  /\ init' = NoOne
  /\ UNCHANGED <<proc, tree, os, cell, tx, tried, workVars, queue>>

(* Any spawn failed: tx and rx drop with the block, then the guard.        *)
Abandon(c) == /\ tried[c] = Bound
              /\ ~ AllStarted(c)
              /\ Goto(c, "spawn", "join")
              /\ tx' = [tx EXCEPT ![c] = "dropped"]
              /\ init' = NoOne
              /\ UNCHANGED <<proc, tree, os, cell, tried, workVars, queue>>

(* handle.join() on every worker the abandoned attempt had started.        *)
Joined(c) == /\ \A i \in Slot : worker[<<c, i>>] \in {"failed", "exited"}
             /\ Goto(c, "join", "decide")
             /\ UNCHANGED <<proc, tree, os, poolVars, workVars, queue>>

(* Mutant: only an attempt's own publication counts.                       *)
DecideByOwnAttempt(c) == /\ Goto(c, "decide", IF cell = c THEN "send" ELSE "release")
                         /\ UNCHANGED <<proc, tree, os, poolVars, workVars, queue>>

(* The final self.cell.get(), read outside the lock.                       *)
Decide(c) == /\ Goto(c, "decide", IF cell # NoOne THEN "send" ELSE "release")
             /\ UNCHANGED <<proc, tree, os, poolVars, workVars, queue>>

(* Mutant: the newest job is served first.                                 *)
DispatchFirst(c) == /\ Goto(c, "send", "done")
                    /\ queue' = <<c>> \o queue
                    /\ os' = [os EXCEPT ![c] = "queue"]
                    /\ UNCHANGED <<proc, tree, poolVars, workVars>>

(* Pool::dispatch. The channel is unbounded and its receivers are alive.   *)
Dispatch(c) == /\ Goto(c, "send", "done")
               /\ queue' = Append(queue, c)
               /\ os' = [os EXCEPT ![c] = "queue"]
               /\ UNCHANGED <<proc, tree, poolVars, workVars>>

(* release: the degraded mode.                                             *)
ReleaseJob(c) == /\ Goto(c, "release", "done")
                 /\ Released(c)
                 /\ UNCHANGED <<tree, poolVars, workVars, queue>>

-----------------------------------------------------------------------------
(* The reaper threads: work and run_teardown.                              *)

Receive(w) == /\ worker[w] = "recv"
              /\ w[1] = cell
              /\ queue # <<>>
              /\ worker' = [worker EXCEPT ![w] = "wait"]
              /\ job' = [job EXCEPT ![w] = Head(queue)]
              /\ os' = [os EXCEPT ![Head(queue)] = "worker"]
              /\ queue' = Tail(queue)
              /\ UNCHANGED <<dropVars, proc, poolVars>>

(* recv() fails once the last sender is gone: the worker's only exit.      *)
Disconnect(w) == /\ worker[w] = "recv"
                 /\ tx[w[1]] = "dropped"
                 /\ worker' = [worker EXCEPT ![w] = "exited"]
                 /\ UNCHANGED <<dropVars, proc, os, poolVars, job, queue>>

(* Mutant: the wait does not block (WNOHANG).                              *)
WaitReturnsEarly(w) == /\ worker[w] = "wait"
                       /\ worker' = [worker EXCEPT ![w] = "free"]
                       /\ UNCHANGED <<dropVars, proc, os, poolVars, job, queue>>

(* waitid(WEXITED | WNOWAIT) returned: the zombie still pins the pid.      *)
WaitReturns(w) == /\ worker[w] = "wait"
                  /\ proc[job[w]] = "exited"
                  /\ worker' = [worker EXCEPT ![w] = "free"]
                  /\ UNCHANGED <<dropVars, proc, os, poolVars, job, queue>>

(* Mutant: the wait region is not caught, and the thread unwinds.          *)
WaitPanicsUncaught(w) == /\ worker[w] = "wait"
                         /\ job[w] \in Panicky
                         /\ worker' = [worker EXCEPT ![w] = "exited"]
                         /\ job' = [job EXCEPT ![w] = NoOne]
                         /\ Released(job[w])
                         /\ UNCHANGED <<dropVars, poolVars, queue>>

(* The wait region unwound into its catch_unwind.                          *)
WaitPanics(w) == /\ worker[w] = "wait"
                 /\ job[w] \in Panicky
                 /\ worker' = [worker EXCEPT ![w] = "free"]
                 /\ UNCHANGED <<dropVars, proc, os, poolVars, job, queue>>

(* Mutant: the job stays with the worker after its release.                *)
FreeJobKeepsIt(w) == /\ worker[w] = "free"
                     /\ worker' = [worker EXCEPT ![w] = "recv"]
                     /\ Released(job[w])
                     /\ UNCHANGED <<dropVars, poolVars, job, queue>>

(* drop(os), then the loop of work.                                        *)
FreeJob(w) == /\ worker[w] = "free"
              /\ worker' = [worker EXCEPT ![w] = "recv"]
              /\ job' = [job EXCEPT ![w] = NoOne]
              /\ Released(job[w])
              /\ UNCHANGED <<dropVars, poolVars, queue>>

-----------------------------------------------------------------------------
DropStep(c) == \/ DropAlreadyReaped(c) \/ DropKillRoot(c) \/ DropKillRefused(c)
               \/ CellHit(c) \/ CellMiss(c) \/ LockInit(c)
               \/ RecheckHit(c) \/ RecheckMiss(c) \/ SpawnWorker(c)
               \/ Publish(c) \/ Abandon(c) \/ Joined(c) \/ Decide(c)
               \/ Dispatch(c) \/ ReleaseJob(c)

WorkStep(w) == \/ Receive(w) \/ Disconnect(w) \/ WaitReturns(w)
               \/ WaitPanics(w) \/ FreeJob(w)

ChildStep(c) == \/ Exit(c) \/ UserWait(c) \/ OrphanReap(c)
                \/ DropDetached(c) \/ DropSignalTree(c)

Next == \/ \E c \in Child : ChildStep(c) \/ DropStep(c)
        \/ \E w \in Worker : WorkStep(w)

Spec == Init /\ [][Next]_vars

(* A thread that can run does run. A killed child that is not wedged ends. *)
(* Nothing makes a user drop a handle or wait on it, and no run of tokio's *)
(* orphan handling is assumed.                                             *)
Fairness == /\ \A c \in Child : /\ WF_vars(DropStep(c))
                                /\ WF_vars(proc[c] = "killed" /\ Exit(c))
            /\ \A w \in Worker : WF_vars(WorkStep(w))

FairSpec == Spec /\ Fairness
-----------------------------------------------------------------------------
(* A published pool is at full width and stays there: every worker of the  *)
(* attempt in the cell started and none of them ever exits, its panicking  *)
(* jobs included (the reaper invariant, reaper.rs lines 9-13).             *)
PoolNeverShrinks ==
  cell # NoOne => /\ tx[cell] = "open"
                  /\ \A i \in Slot : worker[<<cell, i>>] \in {"recv", "wait", "free"}

(* The resources of a child are in exactly one place: on the queue once,   *)
(* in the hands of one worker, or with neither. Nothing is reaped twice    *)
(* and nothing that was sent is lost.                                      *)
JobsAccountedFor ==
  /\ \A i, j \in DOMAIN queue : queue[i] = queue[j] => i = j
  /\ \A c \in Child : (os[c] = "queue") <=> (\E i \in DOMAIN queue : queue[i] = c)
  /\ \A c \in Child : (os[c] = "worker") <=> (\E w \in Worker : job[w] = c)
  /\ \A v, w \in Worker : job[v] = job[w] /\ job[v] # NoOne => v = w

(* A job a reaper may wait on was signalled, so its wait is bounded by the *)
(* kill, and is not reaped, so the pid waited on cannot be a recycled one. *)
WaitIsBoundedAndPinned ==
  \A c \in Child : os[c] \in {"queue", "worker"} =>
                     /\ c \in tree
                     /\ proc[c] \in {"killed", "exited"}

(* A dropping thread never joins a worker that holds a job: the joins of   *)
(* an abandoned attempt are bounded by the queue's disconnect edge.        *)
JoinsNeverWaitOnAReap ==
  \A c \in Child : pc[c] = "join" =>
     \A i \in Slot : worker[<<c, i>>] \in {"failed", "recv", "exited"}

(* A signalled child is given up to tokio's orphan handling only when this *)
(* very drop failed to start a worker.                                     *)
ReleasedOnlyAfterOwnFailure ==
  \A c \in Child : pc[c] = "release" => \E i \in Slot : worker[<<c, i>>] = "failed"

(* The pool: published whole or not at all, joined without delay, given up *)
(* on for cause.                                                           *)
PoolIsSound == PoolNeverShrinks /\ JoinsNeverWaitOnAReap /\ ReleasedOnlyAfterOwnFailure

(* The jobs: none lost or doubled, each bounded by a kill and pinned.      *)
JobsAreSound == JobsAccountedFor /\ WaitIsBoundedAndPinned

(* A worker releases a job's resources only once the root's exit is        *)
(* collected, unless its wait panicked (OsResources' declaration order).   *)
ReapBeforeRelease ==
  [][\A c \in Child : os[c] = "worker" /\ os'[c] = "released"
        => proc'[c] = "reaped" \/ c \in Panicky]_vars

(* Drop returns, however many children are wedged: only the wait moves.    *)
DropReturns == \A c \in Child : (pc[c] = "tree") ~> (pc[c] = "done")

(* The bulkhead: with fewer wedged children than workers, everything else  *)
(* that was handed over is reaped and released.                            *)
Bulkhead ==
  Cardinality(Wedged) < Bound =>
    \A c \in Child \ Wedged : (os[c] = "queue") ~> (os[c] = "released")

-----------------------------------------------------------------------------
(* The pool implements the service of ReapService: what a worker holds is  *)
(* being served, and an open service is a written cell.                    *)
Service == INSTANCE ReapService WITH
             open    <- cell # NoOne,
             waiting <- queue,
             serving <- {c \in Child : os[c] = "worker"},
             settled <- {c \in Child : os[c] = "released"}

ImplementsService == Service!Spec
=============================================================================

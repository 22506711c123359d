----------------------------- MODULE TreeWalk -----------------------------
(***************************************************************************)
(* The hard kill of the TreeWalk mechanism: one (pid, ppid) snapshot of    *)
(* the host, a breadth-first walk down from the root that resolves and     *)
(* token-checks each candidate, then a kill by identity of the root and of *)
(* every process found, all while the host forks, exits and recycles pids. *)
(*                                                                         *)
(*   src/src/containment/treewalk.rs   descendants_with, kill_by_identity, *)
(*                                     hard_kill                           *)
(*                                                                         *)
(* A pid occurs once in a snapshot, so the walk's deduplication of edges   *)
(* and its memo of resolved pids need no state of their own.               *)
(***************************************************************************)
EXTENDS ProcessTable

ASSUME WalkAssumption ==
  \A s \in Settings :
     /\ s.denied \cup s.refusing \subseteq Pid
     /\ {s.allowEqual, s.rootReaped, s.midWalkReuse, s.handleKill} \subseteq BOOLEAN

VARIABLES pc,        \* where hard_kill stands
          snap,      \* the (pid, ppid) edges of the snapshot
          pending,   \* the edges not yet attached to the tree
          frontier,  \* accepted pids whose children are being visited
          next,      \* pids accepted for the next layer
          found,     \* the descendants accepted, as identities
          pruned,    \* history: pids dropped, unresolvable or impostors
          todo,      \* identities still to be killed
          aim,       \* the identity verified for the next kill, or NoAim
          signalled, \* history: the identities a SIGKILL was delivered to
          spared     \* history: the identities whose kill was NotAttempted

AllowEqual == setting.allowEqual      \* ALLOW_EQUAL_TOKEN
Denied == setting.denied              \* pids the OS may refuse to identify
Refusing == setting.refusing          \* pids whose kill the OS may refuse
RootReaped == setting.rootReaped      \* wait() may collect the root first
MidWalkReuse == setting.midWalkReuse  \* a pid may be recycled mid-walk
HandleKill == setting.handleKill      \* the verified handle pins the target

walkVars == <<snap, pending, frontier, next, found, pruned>>
killVars == <<todo, aim, signalled, spared>>
vars == <<tableVars, pc, walkVars, killVars>>

NoAim == <<InitPid, 0>>
Edge == Pid \X (Pid \cup {InitPid})

TypeOK == /\ TableTypeOK
          /\ pc \in {"idle", "walk", "root", "rest", "done"}
          /\ snap \subseteq Edge
          /\ pending \subseteq snap
          /\ frontier \cup next \cup pruned \subseteq Pid
          /\ found \cup todo \cup signalled \cup spared \subseteq ProcessId
          /\ aim \in ProcessId \cup {NoAim}

Init == /\ TableInit
        /\ pc = "idle"
        /\ snap = {} /\ pending = {}
        /\ frontier = {} /\ next = {} /\ found = {} /\ pruned = {}
        /\ todo = {} /\ aim = NoAim /\ signalled = {} /\ spared = {}

-----------------------------------------------------------------------------
(* Mutant: a chained ppid alone proves descent.                            *)
KeepsAnyToken(t, anchor) == TRUE

(* keeps_token                                                             *)
KeepsToken(t, anchor) == t > anchor \/ (AllowEqual /\ t = anchor)

(* Mutant: the pairs come out the other way round.                         *)
ProcessChildren == {<<ppid[p], p>> : p \in {q \in Pid : Listed(q)}}

(* process_parents: a pair for every listable process, zombies included.   *)
ProcessParents == {<<p, ppid[p]>> : p \in {q \in Pid : Listed(q)}}

(* hard_kill: process_parents, then the walk starts at the root's pid.     *)
Snapshot == /\ pc = "idle"
            /\ pc' = "walk"
            /\ snap' = ProcessParents
            /\ pending' = snap'
            /\ frontier' = {Root}
            /\ UNCHANGED <<tableVars, next, found, pruned, killVars>>

(* Mutant: an orphan handed to init counts as a child of the tree.         *)
CandidateOrOrphan(e) == e[2] \in frontier \cup {InitPid}

(* The edge hangs under the layer being visited.                           *)
Candidate(e) == e[2] \in frontier

(* One candidate of the current layer: resolved NOW, not at the snapshot.  *)
Visit(e) ==
  LET p == e[1] IN
  /\ pc = "walk"
  /\ e \in pending
  /\ Candidate(e)
  /\ pending' = pending \ {e}
  /\ \/ /\ p # e[2] /\ Listed(p)
        /\ KeepsToken(token[p], RootToken)
        /\ found' = found \cup {Current(p)}
        /\ next' = next \cup {p}
        /\ UNCHANGED pruned
     \/ /\ p = e[2] \/ ~ Listed(p) \/ p \in Denied \/ ~ KeepsToken(token[p], RootToken)
        /\ pruned' = pruned \cup {p}
        /\ UNCHANGED <<found, next>>
  /\ UNCHANGED <<tableVars, pc, snap, frontier, killVars>>

(* Mutant: the walk visits the root's own children only.                   *)
NextLayerIsLast == /\ pc = "walk"
                   /\ frontier # {}
                   /\ \A e \in pending : e[2] \notin frontier
                   /\ frontier' = {}
                   /\ next' = {}
                   /\ UNCHANGED <<tableVars, pc, snap, pending, found, pruned, killVars>>

(* Mutant: the accepted pids are copied to the frontier, not moved.        *)
NextLayerCopied == /\ pc = "walk"
                   /\ frontier # {}
                   /\ \A e \in pending : e[2] \notin frontier
                   /\ frontier' = next
                   /\ UNCHANGED <<tableVars, pc, snap, pending, next, found, pruned, killVars>>

(* The layer is drained: its accepted pids become the next frontier.       *)
NextLayer == /\ pc = "walk"
             /\ frontier # {}
             /\ \A e \in pending : e[2] \notin frontier
             /\ frontier' = next
             /\ next' = {}
             /\ UNCHANGED <<tableVars, pc, snap, pending, found, pruned, killVars>>

WalkEnds == /\ pc = "walk"
            /\ frontier = {}
            /\ pc' = "root"
            /\ UNCHANGED <<tableVars, walkVars, killVars>>

-----------------------------------------------------------------------------
(* Mutant: any occupant of the pid will do.                                *)
SameByPid(id) == Listed(id[1])

(* kill_by_identity re-verifies the identity: the pid still resolves to it.*)
Same(id) == Exists(id)

(* Mutant: a refused kill is taken for a process that is gone.             *)
RefusedIsGone(id) == /\ id[1] \in Refusing /\ Listed(id[1])
                     /\ UNCHANGED <<tableVars, signalled, spared>>

(* kill(2) answers EPERM, TerminateProcess an error: NotAttempted.         *)
Refused(id) == /\ id[1] \in Refusing /\ Listed(id[1])
               /\ spared' = spared \cup {id}
               /\ UNCHANGED <<tableVars, signalled>>

(* The signal goes to whatever holds the pid now; ESRCH is AlreadyGone.    *)
Delivered(id) == /\ signalled' = IF Listed(id[1]) THEN signalled \cup {Current(id[1])}
                                                  ELSE signalled
                 /\ state' = AfterKill(id[1])
                 /\ UNCHANGED <<setting, token, ppid, now, genuine, spared>>

Deliver(id) == Refused(id) \/ Delivered(id)

(* The identity changed or its pid is free: AlreadyGone. An OS that does   *)
(* not tell: NotAttempted. hard_kill ignores the one and the other.        *)
Skip(id) == /\ \/ ~ Same(id) /\ UNCHANGED spared
               \/ Listed(id[1]) /\ id[1] \in Denied /\ spared' = spared \cup {id}
            /\ UNCHANGED <<tableVars, signalled>>

(* Windows: the handle that verified the identity is the one terminated.   *)
KillAtOnce(id) == /\ HandleKill
                  /\ Skip(id) \/ (Same(id) /\ Deliver(id))
                  /\ UNCHANGED aim

(* Unix: the verification and kill(2) are two steps.                       *)
TakeAim(id) == /\ ~ HandleKill
               /\ \/ Skip(id) /\ UNCHANGED aim
                  \/ /\ Same(id)
                     /\ aim' = id
                     /\ UNCHANGED <<tableVars, signalled, spared>>

Shoot == /\ aim # NoAim
         /\ Deliver(aim)
         /\ aim' = NoAim
         /\ UNCHANGED <<pc, walkVars, todo>>

(* Mutant: a root that has exited has no tree left to kill.                *)
KillRootOrStop == /\ pc = "root"
                  /\ pc' = "rest"
                  /\ todo' = IF IsAlive(RootId) THEN found ELSE {}
                  /\ KillAtOnce(RootId) \/ TakeAim(RootId)
                  /\ UNCHANGED walkVars

(* The root first, then each descendant.                                   *)
KillRoot == /\ pc = "root"
            /\ pc' = "rest"
            /\ todo' = found
            /\ KillAtOnce(RootId) \/ TakeAim(RootId)
            /\ UNCHANGED walkVars

KillNext == /\ pc = "rest"
            /\ aim = NoAim
            /\ \E id \in todo : /\ todo' = todo \ {id}
                                /\ KillAtOnce(id) \/ TakeAim(id)
            /\ UNCHANGED <<pc, walkVars>>

Return == /\ pc = "rest"
          /\ todo = {}
          /\ aim = NoAim
          /\ pc' = "done"
          /\ UNCHANGED <<tableVars, walkVars, killVars>>

-----------------------------------------------------------------------------
Step == \/ Snapshot \/ (\E e \in pending : Visit(e)) \/ NextLayer \/ WalkEnds
        \/ KillRoot \/ KillNext \/ Shoot \/ Return

(* A pid the snapshot lists is recycled before the last kill only if       *)
(* MidWalkReuse says that the host recycles that fast.                     *)
HostFork(p, q) == /\ q \in {e[1] : e \in snap} => MidWalkReuse
                  /\ Fork(p, q)

(* The root's zombie is collected only by wait() on the child's handle.    *)
HostCollect(p) == /\ p = Root => RootReaped /\ pc = "idle"
                  /\ Collect(p)

Host == /\ pc # "done"
        /\ \E p \in Pid : (\E q \in Pid : HostFork(p, q)) \/ Exit(p) \/ HostCollect(p)
        /\ UNCHANGED <<pc, walkVars, killVars>>

Next == Step \/ Host

Spec == Init /\ [][Next]_vars

-----------------------------------------------------------------------------
(* Every process the walk is about to kill was forked at or below the root *)
(* (treewalk.rs line 8: it kills each genuine descendant by identity).     *)
TargetsAreGenuine == found \subseteq genuine

(* Where orphans are reparented and no listed pid is recycled, it holds:   *)
(* the parent links of the snapshot and the token order prove descent.     *)
WalkIsGenuine == Reparents /\ ~ MidWalkReuse /\ ~ RootReaped => TargetsAreGenuine

(* The case the token order defends: a process of before the root, whose   *)
(* stale ppid names the pid the root was given, is no child of the root    *)
(* (treewalk.rs lines 29-31). Only pids recycled mid-walk get around it.   *)
RootsChildrenAreGenuine ==
  ~ MidWalkReuse /\ ~ RootReaped =>
     \A id \in found : <<id[1], Root>> \in snap => id \in genuine

(* Neither rule of the walk lets a stranger in where it claims not to.     *)
StrangersAreKeptOut == WalkIsGenuine /\ RootsChildrenAreGenuine

(* The walk is complete: an edge under an accepted pid leads to an         *)
(* accepted pid, unless that pid was pruned with its subtree.              *)
WalkIsClosed ==
  pc \in {"root", "rest", "done"} =>
    \A e \in snap : e[2] \in {Root} \cup {id[1] : id \in found} =>
                      e[1] \in {id[1] : id \in found} \cup pruned

(* hard_kill returns with every identity it found, and the root, dead or   *)
(* signalled: only a kill that ended as NotAttempted, over an identity the *)
(* OS would not tell or a signal it refused, can leave a process running   *)
(* (KillOutcome's doc, treewalk.rs lines 55-57).                           *)
TargetsAreKilled ==
  pc = "done" => \A id \in found \cup {RootId} : Running(id) => id \in spared

(* With a handle that pins its target, a SIGKILL lands on the identity it  *)
(* was verified for and on nothing else, however fast pids are recycled.   *)
HandleHitsItsTarget == HandleKill => signalled \subseteq found \cup {RootId}

(* What is left of the call: the phases to come, and in this one the edges *)
(* to visit and layers to descend into, or the kills.                      *)
Phase == [done |-> 0, rest |-> 1, root |-> 2, walk |-> 3, idle |-> 4]
Left == <<Phase[pc],
          CASE pc = "walk" -> 3 * Cardinality(pending) + 2 * Cardinality(next)
                              + Cardinality({frontier} \ {{}})
            [] pc = "rest" -> 2 * Cardinality(todo) + Cardinality({aim} \ {NoAim})
            [] OTHER       -> 0>>

(* Every step of hard_kill leaves less to do, so it ends however fast the  *)
(* host forks and recycles and whatever cycles stale parent links form.    *)
CallMakesProgress ==
  [][Step => \/ Left'[1] < Left[1]
             \/ Left'[1] = Left[1] /\ Left'[2] < Left[2]]_vars
=============================================================================

--------------------------- MODULE ProcessTable ---------------------------
(***************************************************************************)
(* The host's process table as the containment code sees it: raw pids that *)
(* are recycled, start tokens that tell two occupants of a pid apart, and  *)
(* parent links that go stale or are rewritten when a parent exits.        *)
(*                                                                         *)
(*   src/src/identity.rs   ProcessId, of, exists, is_alive                 *)
(*                                                                         *)
(* The kernel itself is not this repository's code: its actions (Fork,     *)
(* Exit, Collect, Kill) are the environment that a teardown races with.    *)
(***************************************************************************)
EXTENDS Naturals, FiniteSets

CONSTANTS Pid,        (* the raw pids                                      *)
          Root,       (* the pid the contained child was given             *)
          Settings    (* the hosts and calls considered, see Setting       *)

InitPid == 0          \* init or launchd, never a member

(* What a setting says of the host:                                        *)
(*   others     pids of processes unrelated to the child                   *)
(*   maxToken   bound: the last start token handed out                     *)
(*   sameTick   TRUE if two spawns can get one token (coarse clock)        *)
(*   reparents  TRUE if an exit rewrites the children's ppid               *)
ASSUME TableAssumption ==
  /\ Pid \subseteq Nat \ {InitPid}
  /\ Root \in Pid
  /\ \A s \in Settings : /\ s.others \subseteq Pid \ {Root}
                         /\ s.maxToken \in Nat \ {0, 1}
                         /\ {s.sameTick, s.reparents} \subseteq BOOLEAN

VARIABLES setting,  \* the setting of this behaviour, fixed from the start
          state,    \* what holds each pid
          token,    \* the start token of the pid's last occupant
          ppid,     \* the parent pid the kernel reports
          now,      \* the last start token handed out
          genuine   \* history: every identity forked at or below the root

tableVars == <<setting, state, token, ppid, now, genuine>>

Others == setting.others
MaxToken == setting.maxToken
SameTick == setting.sameTick
Reparents == setting.reparents

(* A doomed process has SIGKILL pending: it runs no code of its own.       *)
State == {"free", "live", "doomed", "zombie"}
Token == 0 .. MaxToken
ProcessId == Pid \X Token

TableTypeOK == /\ setting \in Settings
               /\ state \in [Pid -> State]
               /\ token \in [Pid -> Token]
               /\ ppid \in [Pid -> Pid \cup {InitPid}]
               /\ now \in Token
               /\ genuine \subseteq ProcessId

OtherToken == 1
RootToken == 2
RootId == <<Root, RootToken>>

(* Where exits leave parent links stale, a process older than the root may *)
(* still name the root's pid as its parent's.                              *)
TableInit ==
  /\ setting \in Settings
  /\ state = [p \in Pid |-> IF p \in Others \cup {Root} THEN "live" ELSE "free"]
  /\ token = [p \in Pid |-> IF p = Root THEN RootToken
                            ELSE IF p \in Others THEN OtherToken ELSE 0]
  /\ ppid \in [Pid -> {InitPid, Root}]
  /\ \A p \in Pid : ppid[p] = Root => p \in Others /\ ~ Reparents
  /\ now = RootToken
  /\ genuine = {RootId}

-----------------------------------------------------------------------------
(* Queries.                                                                *)

Listed(p) == state[p] # "free"
Current(p) == <<p, token[p]>>

(* ProcessId::exists: the pid still names this very process, alive or not. *)
Exists(id) == Listed(id[1]) /\ Current(id[1]) = id

(* ProcessId::is_alive: a zombie is not running.                           *)
IsAlive(id) == Exists(id) /\ state[id[1]] # "zombie"

(* The process may still act: nothing has killed it.                       *)
Running(id) == Exists(id) /\ state[id[1]] = "live"

-----------------------------------------------------------------------------
(* The environment.                                                        *)

Fork(p, q) ==
  /\ state[p] = "live"
  /\ state[q] = "free"
  /\ \E t \in (IF SameTick THEN {now, now + 1} ELSE {now + 1}) \cap Token :
       /\ t > token[q]
       /\ now' = t
       /\ token' = [token EXCEPT ![q] = t]
       /\ genuine' = IF Current(p) \in genuine THEN genuine \cup {<<q, t>>}
                                               ELSE genuine
  /\ state' = [state EXCEPT ![q] = "live"]
  /\ ppid' = [ppid EXCEPT ![q] = p]
  /\ UNCHANGED setting

Exit(p) ==
  /\ state[p] \in {"live", "doomed"}
  /\ state' = [state EXCEPT ![p] = "zombie"]
  /\ ppid' = IF Reparents THEN [q \in Pid |-> IF ppid[q] = p THEN InitPid ELSE ppid[q]]
                          ELSE ppid
  /\ UNCHANGED <<setting, token, now, genuine>>

(* The parent waits for the zombie: the pid is free for another process.   *)
Collect(p) ==
  /\ state[p] = "zombie"
  /\ state' = [state EXCEPT ![p] = "free"]
  /\ UNCHANGED <<setting, token, ppid, now, genuine>>

(* A SIGKILL reaches whatever holds the pid now.                           *)
AfterKill(p) == [state EXCEPT ![p] = IF @ = "live" THEN "doomed" ELSE @]
=============================================================================

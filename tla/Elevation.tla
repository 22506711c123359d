----------------------------- MODULE Elevation -----------------------------
(***************************************************************************)
(* Elevation: which wrapper, if any, a command is rewritten into, what is  *)
(* refused, and what of the command crosses to the elevated program.       *)
(*                                                                         *)
(*   src/src/elevation/plan.rs, src/src/elevation/posix.rs                 *)
(*   src/src/elevation/macos.rs, src/src/elevation/windows.rs              *)
(*   src/src/elevation/sanitize.rs, src/src/elevation.rs                   *)
(*                                                                         *)
(* A command is a record. input is what names the program: an argv, an     *)
(* argv renamed apart from executable(), a line, or nothing. env is a set  *)
(* of variables by what tells them apart: plain, odd (a name no flag can   *)
(* carry), loader (the denylist's), unset (env_remove and env_clear).      *)
(* traits holds "dash" (the program begins with one), and what is relative *)
(* or too long: "program", "cwd", "long".                                  *)
(***************************************************************************)
EXTENDS StdioResolution, FiniteSets

Backend == {"auto", "sudo", "doas", "pkexec", "run0"}
Auth == {"interactive", "noninteractive", "askpass", "stdin", "gui"}

is_macos_gui_auto(os, backend, auth) ==
  os = "macos" /\ auth = "gui" /\ backend = "auto"

(* What Auto resolves to. Nothing on PATH is left to resolve_posix.        *)
Effective(backend, avail) ==
  IF backend # "auto" THEN backend
  ELSE IF "sudo" \in avail THEN "sudo"
  ELSE IF "doas" \in avail THEN "doas" ELSE "nothing"

(* structural_posix: refused under any privilege.                          *)
structural_posix(os, backend, auth, avail) ==
  \/ os = "macos" /\ backend \in {"pkexec", "run0"}
  \/ auth = "gui" /\ IF os = "macos" THEN ~ is_macos_gui_auto(os, backend, auth)
                                     ELSE backend # "pkexec"
  \/ backend = "pkexec" /\ auth # "gui"
  \/ auth \in {"askpass", "stdin"} /\ Effective(backend, avail) \notin {"sudo", "nothing"}

structural_windows(backend, auth) ==
  backend # "auto" \/ auth \in {"noninteractive", "askpass", "stdin"}

Structural(host, backend, auth) ==
  IF host.os = "windows" THEN structural_windows(backend, auth)
                         ELSE structural_posix(host.os, backend, auth, host.avail)

resolve_posix(host, backend, auth) ==
  IF Effective(backend, host.avail) \notin host.avail THEN "BackendUnavailable"
  ELSE IF auth = "interactive" /\ ~ host.tty THEN "NoTty" ELSE "wrap"

Resolve(host, backend, auth) ==
  CASE host.os = "windows" -> "uac"
    [] is_macos_gui_auto(host.os, backend, auth) ->
         IF "osascript" \in host.avail THEN "osascript" ELSE "BackendUnavailable"
    [] OTHER -> resolve_posix(host, backend, auth)

(* Mutant: an elevated caller is waved through before the matrix is read.  *)
plan_short_circuit(host, backend, auth) ==
  IF host.elevated THEN "run_as_is"
  ELSE IF Structural(host, backend, auth) THEN "Unsupported" ELSE Resolve(host, backend, auth)

plan(host, backend, auth) ==
  IF Structural(host, backend, auth) THEN "Unsupported"
  ELSE IF host.elevated THEN "run_as_is" ELSE Resolve(host, backend, auth)

-----------------------------------------------------------------------------
(* The gates on the request, ahead of the plan.                            *)

Variables(cmd) == cmd.env \ {"unset"}

(* program_and_args: no program, a raw line, or an argv[0] of its own.     *)
NoArgv(cmd) == cmd.input \in {"empty", "line"} \/ (cmd.input = "renamed" /\ cmd.exe)

(* Mutant: containment is asked of a unit that PID 1 parents.              *)
run0_contained(cmd) ==
  \/ NoArgv(cmd) \/ High(cmd.fds) # {} \/ "unset" \in cmd.env
  \/ Variables(cmd) # {} /\ cmd.backend \in {"doas", "pkexec"}
  \/ cmd.auth = "stdin" /\ 0 \in DOMAIN cmd.fds

reject_structural_posix_config(cmd) ==
  \/ NoArgv(cmd) \/ High(cmd.fds) # {} \/ "unset" \in cmd.env
  \/ Variables(cmd) # {} /\ cmd.backend \in {"doas", "pkexec"}
  \/ cmd.backend = "run0" /\ cmd.mode # "none"
  \/ cmd.auth = "stdin" /\ 0 \in DOMAIN cmd.fds

reject_structural_gui_config(cmd) ==
  \/ NoArgv(cmd) \/ High(cmd.fds) # {} \/ cmd.env # {} \/ cmd.mode # "none"
  \/ cmd.traits \cap {"program", "cwd"} # {}
  \/ 0 \in DOMAIN cmd.fds /\ cmd.fds[0].kind \notin {"inherit", "null"}

(* runas passes no handle, no environment and no creation flag but one.    *)
reject_unsupported_config(cmd) ==
  \/ \E s \in DOMAIN cmd.fds : s >= 3 \/ cmd.fds[s].kind # "inherit"
  \/ cmd.env # {} \/ cmd.mode # "none"
  \/ cmd.flags \cap {"detached", "breakaway", "raw", "reserved"} # {}

Gate(cmd, os) ==
  CASE os = "windows" -> reject_unsupported_config(cmd) \/ NoArgv(cmd)
    [] is_macos_gui_auto(os, cmd.backend, cmd.auth) -> reject_structural_gui_config(cmd)
    [] OTHER -> reject_structural_posix_config(cmd)

(* sanitize.rs. filter's predicate is the set of names it lets through.    *)
Keeps(policy, v) == CASE policy.kind = "none" -> TRUE
                      [] policy.kind = "denylist" -> v \in policy.names \/ v # "loader"
                      [] policy.kind \in {"allowlist", "filter"} -> v \in policy.names

keep(policy, keys) == [policy EXCEPT !.names = @ \cup keys]

Kept(cmd) == {v \in Variables(cmd) : Keeps(cmd.policy, v)}

(* build_argv, and the resolved backend's own limits.                      *)
WrapperRefuses(cmd, wrapper) ==
  \/ Kept(cmd) # {} /\ wrapper \in {"doas", "pkexec"}
  \/ "dash" \in cmd.traits /\ wrapper = "pkexec"
  \/ "odd" \in Kept(cmd) /\ wrapper \in {"sudo", "run0"}

(* rewrite_with_host and launch_runas_with_host, up to the spawn.          *)
Verdict(cmd, host) ==
  LET planned == plan(host, cmd.backend, cmd.auth)
      wrapper == Effective(cmd.backend, host.avail)
  IN IF Gate(cmd, host.os) \/ (planned = "wrap" /\ WrapperRefuses(cmd, wrapper))
     THEN "Unsupported"
     ELSE IF planned = "osascript" /\ "long" \in cmd.traits THEN "CommandTooLong" ELSE planned

Refusal == {"Unsupported", "BackendUnavailable", "NoTty", "CommandTooLong"}

-----------------------------------------------------------------------------
(* The derived command.                                                    *)

Wrapper(cmd, host) ==
  CASE Verdict(cmd, host) = "wrap" -> Effective(cmd.backend, host.avail)
    [] Verdict(cmd, host) = "osascript" -> "osascript"
    [] OTHER -> "none"

(* The caller's descriptors move, but for the password's fd 0.             *)
DerivedFds(cmd, wrapper) ==
  IF cmd.auth = "stdin" /\ wrapper = "sudo"
  THEN [s \in {0} \cup DOMAIN cmd.fds |->
          IF s = 0 THEN [kind |-> "file", to |-> 0] ELSE cmd.fds[s]]
  ELSE cmd.fds

(* Mutant: the marker is installed on a wrapper that closes descriptors.   *)
MarkedWrapper(cmd, host) ==
  LET wrapper == Wrapper(cmd, host)
  IN [cmd EXCEPT !.elevate = FALSE, !.exe = FALSE, !.input = "argv",
                 !.env = Kept(cmd), !.fds = DerivedFds(cmd, wrapper),
                 !.flags = {}, !.wrapper = wrapper]

(* transfer_process_attrs and build_rewrite: cwd, containment and          *)
(* kill_on_drop are carried, executable() is in argv[0], and the marker is *)
(* suppressed where a wrapper would close it.                              *)
Derived(cmd, host) ==
  LET wrapper == Wrapper(cmd, host)
  IN [cmd EXCEPT !.elevate = FALSE, !.exe = FALSE, !.input = "argv",
                 !.env = Kept(cmd), !.fds = DerivedFds(cmd, wrapper),
                 !.flags = {}, !.wrapper = wrapper,
                 !.suppressed = wrapper \notin {"none", "osascript"}]

-----------------------------------------------------------------------------
(* What a verdict may depend on.                                           *)

(* The same host for a caller of another privilege, at another terminal.   *)
Elsewhere(host) == {[host EXCEPT !.elevated = by[1], !.tty = by[2]] : by \in BOOLEAN \X BOOLEAN}

(* The limits of the backend that was resolved, which no elevated caller   *)
(* meets: they are found while the wrapper is built.                       *)
WrapperLimit(cmd, host) == WrapperRefuses(cmd, Effective(cmd.backend, host.avail))

Stable(cmd, host) ==
  \/ WrapperLimit(cmd, host)
  \/ \A h \in Elsewhere(host) :
       (Verdict(cmd, h) = "Unsupported") = (Verdict(cmd, host) = "Unsupported")
=============================================================================

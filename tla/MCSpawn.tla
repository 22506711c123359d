------------------------------ MODULE MCSpawn ------------------------------
(* Instances of Spawn: pairs of concurrent spawns, and single ones over    *)
(* the backends, the containments, the redirections and the elevations.    *)
EXTENDS Spawn, TLC

Host(os, elevated, tty, avail) ==
  [os |-> os, elevated |-> elevated, tty |-> tty, avail |-> avail]
Plain == [api |-> "sync", exe |-> FALSE, fds |-> <<>>, mode |-> "none", flags |-> {},
          input |-> "argv", elevate |-> FALSE, backend |-> "auto", auth |-> "interactive",
          env |-> {}, policy |-> [kind |-> "denylist", names |-> {}],
          traits |-> {}, wrapper |-> "none", suppressed |-> FALSE]
Deploy(h, nested, faults, cmds) == [host |-> h, nested |-> nested, faults |-> faults, cmd |-> cmds]
Desktop(os) == Host(os, FALSE, TRUE, {"sudo", "osascript"})
Alone(h, nested, faults, k) == Deploy(h, nested, faults, "a" :> k)
Pair(os, faults, k, l) == Deploy(Desktop(os), FALSE, faults, "a" :> k @@ "b" :> l)

Api(a, e) == [Plain EXCEPT !.api = a, !.exe = e]
Contained(k, m) == [k EXCEPT !.mode = m]
Modes == {"none", "strongest", "session", "walk"}
Apis == {"sync", "async"}
To(kind, s) == [kind |-> kind, to |-> s]

Threads ==
  {Pair("windows", {"mark", "exec", "denied"}, Contained(Api("sync", TRUE), m), Api(a, e))
     : m \in {"none", "strongest"}, a \in Apis, e \in BOOLEAN}
  \cup {Pair("macos", {"exec", "marker", "denied"}, Contained(Plain, "strongest"), Contained(Api(a, FALSE), m))
        : a \in Apis, m \in {"none", "walk", "strongest"}}
  \cup {Pair("linux", {"exec", "place"}, Contained(Plain, "strongest"), Contained(Api(a, FALSE), m))
        : a \in Apis, m \in {"none", "strongest"}}

Everything == {"exec", "mark", "forbidden", "leaf", "place", "unreadable", "marker", "assign",
               "resume", "denied", "adopt", "runtime"}

Mechanisms ==
  {Alone(Desktop(os), n, Everything \ f, [Contained(Api(a, e), m) EXCEPT !.fds = fds, !.input = i])
     : os \in {"linux", "macos", "windows"}, n \in BOOLEAN, f \in {{}, {"forbidden"}}, a \in Apis,
       e \in BOOLEAN, m \in Modes, i \in {"argv", "empty"},
       fds \in {<<>>, 64 :> To("pipe_out", 64), 3 :> To("inherit", 3),
               7280 :> To("null", 7280), 7281 :> To("null", 7281)}}

Flagged ==
  {Alone(Desktop("windows"), n, f, [Contained(Api(a, e), m) EXCEPT !.flags = g, !.input = i])
     : n \in BOOLEAN, f \in {{}, {"forbidden"}}, a \in Apis, e \in BOOLEAN, m \in Modes,
       g \in {{"reserved"}, {"raw", "no_window"}, {"breakaway"}}, i \in {"argv", "batch"}}

(* Redirections of the slots 0 to 3, the absent ones left out.             *)
Slot(s, kinds, targets) == {To(k, s) : k \in kinds} \cup {To("merge", t) : t \in targets}
Present(r) == Restrict(r, {s \in DOMAIN r : r[s].kind # "absent"})
SlotMaps ==
  {Present(0 :> p @@ 1 :> q @@ 2 :> r @@ 3 :> t)
     : p \in Slot(0, {"absent", "pipe_in"}, {}),
       q \in Slot(1, {"absent", "null", "pipe_out"}, {0, 2, 3}),
       r \in Slot(2, {"absent", "null", "pipe_out"}, {1, 2}),
       t \in Slot(3, {"absent", "file", "pipe_out", "inherit"}, {1})}

Redirected == {Alone(Desktop(os), FALSE, {}, [Api(a, FALSE) EXCEPT !.fds = fds])
                 : os \in {"linux", "windows"}, a \in Apis, fds \in SlotMaps}

Elevated(b, u) == [Plain EXCEPT !.elevate = TRUE, !.backend = b, !.auth = u]
Hosts(avails) == {Host(os, e, t, avail) : os \in {"linux", "macos", "windows"},
                                         e, t \in BOOLEAN, avail \in avails}
Installed == {"sudo", "doas", "pkexec", "run0", "osascript"}

Matrix == {Alone(h, FALSE, {}, Elevated(b, u))
             : h \in Hosts({{}, {"doas"}, {"sudo", "osascript"}}), b \in Backend, u \in Auth}

Policy(kind, names) == [kind |-> kind, names |-> names]
Shapes(k) ==
  {[k EXCEPT !.mode = m] : m \in Modes}
  \cup {[k EXCEPT !.input = i, !.exe = e] : i \in {"empty", "line", "renamed"}, e \in BOOLEAN}
  \cup {[k EXCEPT !.env = v, !.policy = p]
          : v \in {{"plain"}, {"loader"}, {"odd", "plain"}, {"unset"}},
            p \in {Policy("none", {}), k.policy, keep(k.policy, {"loader"}),
                   Policy("allowlist", {"plain"}), Policy("filter", {"odd"})}}
  \cup {[k EXCEPT !.fds = fds, !.api = a]
          : fds \in {0 :> To("null", 0), 1 :> To("pipe_out", 1), 3 :> To("null", 3)}, a \in Apis}
  \cup {[k EXCEPT !.traits = t] : t \in {{"dash"}, {"cwd"}, {"program"}, {"long"}}}
  \cup {[k EXCEPT !.flags = {f}] : f \in {"detached", "no_window", "breakaway"}}

Requests == {Elevated("auto", "noninteractive"), Elevated("sudo", "stdin"), Elevated("auto", "gui"),
             Elevated("pkexec", "gui"), Elevated("run0", "interactive"), Elevated("doas", "interactive")}

Crossing == {s \in {Alone(h, FALSE, {}, k)
                      : h \in {g \in Hosts({Installed}) : g.tty}, k \in UNION {Shapes(r) : r \in Requests}}
               : s.host.os = "windows" \/ s.cmd["a"].flags \subseteq {"no_window"}}

Wrapped == {Alone(Host(os, FALSE, TRUE, Installed), FALSE, f, [Contained(k, m) EXCEPT !.api = a])
              : os \in {"linux", "macos", "windows"}, a \in Apis, m \in Modes,
                k \in {Elevated("auto", "interactive"), Elevated("sudo", "stdin")},
                f \in {{"deaf", "denied", "partial", "adopt"}, {"exec", "partial", "runtime", "denied"}}}

EveryDeployment == Threads \cup Mechanisms \cup Flagged \cup Redirected
                     \cup Matrix \cup Crossing \cup Wrapped

FastExit == {Alone(Desktop("linux"), FALSE, {}, Contained(Plain, "strongest"))}
HighInherit == {Alone(Desktop("windows"), FALSE, {},
                      [Contained(Plain, "strongest") EXCEPT !.fds = 3 :> To("inherit", 3)])}
=============================================================================

------------------------ MODULE ProcessTable_proofs ------------------------
(***************************************************************************)
(* What forks, exits and collections do to a table of recycled pids, for   *)
(* any pids and any host: an identity that stopped running never runs      *)
(* again, and where exits rewrite the parent links a link is the truth.    *)
(***************************************************************************)
EXTENDS ProcessTable, TLAPS

(* The kernel's moves.                                                     *)
TableMove(p, q) == Fork(p, q) \/ Exit(p) \/ Collect(p)

LEMMA SettingFacts ==
  ASSUME setting \in Settings
  PROVE  /\ MaxToken \in Nat /\ RootToken \in Token /\ OtherToken \in Token /\ 0 \in Token
         /\ Others \subseteq Pid \ {Root} /\ Token \subseteq Nat
         /\ SameTick \in BOOLEAN /\ Reparents \in BOOLEAN
         /\ InitPid \notin Pid
BY TableAssumption DEF MaxToken, Token, RootToken, OtherToken, Others, SameTick, Reparents, InitPid

(* A fork hands out a token its pid never had.                             *)
LEMMA ForkEffect ==
  ASSUME TableTypeOK, NEW p \in Pid, NEW q \in Pid, Fork(p, q)
  PROVE  \E t \in Token :
           /\ t > token[q] /\ now' = t
           /\ state[p] = "live" /\ state[q] = "free" /\ p # q
           /\ token' = [token EXCEPT ![q] = t]
           /\ state' = [state EXCEPT ![q] = "live"]
           /\ ppid' = [ppid EXCEPT ![q] = p]
           /\ genuine' = IF Current(p) \in genuine THEN genuine \cup {<<q, t>>} ELSE genuine
           /\ setting' = setting
BY DEF Fork, TableTypeOK

LEMMA InitTypes == TableInit => TableTypeOK
<1> SUFFICES ASSUME TableInit
             PROVE  TableTypeOK
  OBVIOUS
<1>1. setting \in Settings /\ RootToken \in Token /\ OtherToken \in Token /\ 0 \in Token
  BY SettingFacts DEF TableInit
<1>2. RootId \in ProcessId
  BY <1>1, TableAssumption DEF RootId, ProcessId
<1> QED
  BY <1>1, <1>2, TableAssumption DEF TableInit, TableTypeOK, State

LEMMA MoveTypes ==
  ASSUME TableTypeOK, NEW p \in Pid, NEW q \in Pid, TableMove(p, q)
  PROVE  TableTypeOK' /\ setting' = setting
<1>1. CASE Fork(p, q)
  <2>1. PICK t \in Token :
          /\ now' = t /\ setting' = setting
          /\ token' = [token EXCEPT ![q] = t]
          /\ state' = [state EXCEPT ![q] = "live"]
          /\ ppid' = [ppid EXCEPT ![q] = p]
          /\ genuine' = IF Current(p) \in genuine THEN genuine \cup {<<q, t>>} ELSE genuine
    BY <1>1, ForkEffect
  <2>2. Token' = Token /\ ProcessId' = ProcessId
    BY <2>1 DEF Token, MaxToken, ProcessId
  <2>3. <<q, t>> \in ProcessId
    BY DEF ProcessId
  <2> QED
    BY <2>1, <2>2, <2>3 DEF TableTypeOK, State
<1>2. CASE Exit(p)
  <2>1. Token' = Token /\ ProcessId' = ProcessId
    BY <1>2 DEF Exit, Token, MaxToken, ProcessId
  <2>2. ppid' \in [Pid -> Pid \cup {InitPid}]
    BY <1>2 DEF Exit, TableTypeOK
  <2> QED
    BY <1>2, <2>1, <2>2 DEF Exit, TableTypeOK, State
<1>3. CASE Collect(p)
  <2>1. Token' = Token /\ ProcessId' = ProcessId
    BY <1>3 DEF Collect, Token, MaxToken, ProcessId
  <2> QED
    BY <1>3, <2>1 DEF Collect, TableTypeOK, State
<1> QED
  BY <1>1, <1>2, <1>3 DEF TableMove

(* A pid that is free, or was taken over, never names the old process      *)
(* again, and nothing but a fork makes a process run.                      *)
Past(id) == id[2] <= token[id[1]]

LEMMA IdentitiesDoNotReturn ==
  ASSUME TableTypeOK, NEW p \in Pid, NEW q \in Pid, TableMove(p, q),
         NEW id \in ProcessId, Past(id)
  PROVE  Past(id)' /\ (Running(id)' => Running(id))
<1>0. /\ id[1] \in Pid /\ id[2] \in Nat /\ token \in [Pid -> Nat]
      /\ id = <<id[1], id[2]>>
  BY SettingFacts DEF ProcessId, TableTypeOK
<1>1. CASE Fork(p, q)
  <2>1. PICK t \in Token : /\ t > token[q]
                           /\ token' = [token EXCEPT ![q] = t]
                           /\ state' = [state EXCEPT ![q] = "live"]
    BY <1>1, ForkEffect
  <2>2. t \in Nat
    BY SettingFacts DEF TableTypeOK
  <2>3. CASE id[1] = q
    <3>1. token'[id[1]] = t /\ id[2] < t
      BY <1>0, <2>1, <2>2, <2>3 DEF Past
    <3>2. Past(id)'
      BY <1>0, <2>2, <3>1 DEF Past
    <3>3. Current(id[1])' # id
      BY <1>0, <2>2, <3>1 DEF Current
    <3> QED
      BY <3>2, <3>3 DEF Running, Exists
  <2>4. CASE id[1] # q
    <3>1. token'[id[1]] = token[id[1]] /\ state'[id[1]] = state[id[1]]
      BY <1>0, <2>1, <2>4 DEF TableTypeOK
    <3> QED
      BY <3>1 DEF Past, Running, Exists, Current, Listed
  <2> QED
    BY <2>3, <2>4
<1>2. CASE Exit(p) \/ Collect(p)
  <2>1. token' = token /\ (state'[id[1]] = "live" => state[id[1]] = "live")
    BY <1>0, <1>2 DEF Exit, Collect, TableTypeOK
  <2> QED
    BY <2>1 DEF Past, Running, Exists, Current, Listed
<1> QED
  BY <1>1, <1>2 DEF TableMove

-----------------------------------------------------------------------------
(* Where exits rewrite the links, a link names a process that has not      *)
(* exited, and a child of the tree is in the tree.                         *)
LinksAreTrue ==
  Reparents => \A p \in Pid : ppid[p] # InitPid =>
    /\ ppid[p] \in Pid /\ state[ppid[p]] \in {"live", "doomed"}
    /\ Listed(p) /\ Current(ppid[p]) \in genuine => Current(p) \in genuine

LEMMA InitLinks == TableInit => LinksAreTrue
BY SettingFacts DEF TableInit, LinksAreTrue

LEMMA MoveLinks ==
  ASSUME TableTypeOK, LinksAreTrue, NEW p \in Pid, NEW q \in Pid, TableMove(p, q)
  PROVE  LinksAreTrue'
<1>0. setting' = setting /\ InitPid \notin Pid
  BY MoveTypes, SettingFacts DEF TableTypeOK
<1> SUFFICES ASSUME Reparents, NEW r \in Pid, ppid'[r] # InitPid
             PROVE  /\ ppid'[r] \in Pid /\ state'[ppid'[r]] \in {"live", "doomed"}
                    /\ Listed(r)' /\ Current(ppid[r])' \in genuine' => Current(r)' \in genuine'
  BY <1>0 DEF LinksAreTrue, Reparents
<1>1. CASE Fork(p, q)
  <2>1. PICK t \in Token :
          /\ state[p] = "live" /\ state[q] = "free" /\ p # q
          /\ token' = [token EXCEPT ![q] = t]
          /\ state' = [state EXCEPT ![q] = "live"]
          /\ ppid' = [ppid EXCEPT ![q] = p]
          /\ genuine' = IF Current(p) \in genuine THEN genuine \cup {<<q, t>>} ELSE genuine
    BY <1>1, ForkEffect
  <2>2. CASE r = q
    <3>1. /\ ppid'[r] = p /\ Current(p)' = Current(p) /\ Current(r)' = <<q, t>>
          /\ state'[p] = "live"
      BY <2>1, <2>2 DEF TableTypeOK, Current
    <3>2. Current(ppid[r])' = Current(p)
      BY <3>1 DEF Current
    <3>3. Current(p) # <<q, t>>
      BY <2>1 DEF Current
    <3> QED
      BY <2>1, <3>1, <3>2, <3>3
  <2>3. CASE r # q
    <3>1. /\ ppid'[r] = ppid[r] /\ ppid[r] \in Pid /\ state[ppid[r]] \in {"live", "doomed"}
          /\ Listed(r) /\ Current(ppid[r]) \in genuine => Current(r) \in genuine
      BY <2>1, <2>3 DEF LinksAreTrue, TableTypeOK
    <3>2. ppid[r] # q
      BY <2>1, <3>1
    <3>3. /\ token'[ppid[r]] = token[ppid[r]] /\ state'[ppid[r]] = state[ppid[r]]
          /\ token'[r] = token[r] /\ state'[r] = state[r]
      BY <2>1, <2>3, <3>1, <3>2 DEF TableTypeOK
    <3>4. Current(ppid[r])' = Current(ppid[r]) /\ Current(r)' = Current(r) /\ Listed(r)' = Listed(r)
      BY <3>1, <3>3 DEF Current, Listed
    <3>5. Current(ppid[r]) # <<q, t>> /\ genuine \subseteq genuine'
      BY <2>1, <3>2 DEF Current
    <3> QED
      BY <2>1, <3>1, <3>3, <3>4, <3>5
  <2> QED
    BY <2>2, <2>3
<1>2. CASE Exit(p)
  <2>1. /\ ppid' = [c \in Pid |-> IF ppid[c] = p THEN InitPid ELSE ppid[c]]
        /\ state' = [state EXCEPT ![p] = "zombie"] /\ state[p] # "free"
        /\ token' = token /\ genuine' = genuine
    BY <1>2 DEF Exit
  <2>2. ppid'[r] = ppid[r] /\ ppid[r] # p
    BY <2>1
  <2>3. /\ ppid[r] \in Pid /\ state[ppid[r]] \in {"live", "doomed"}
        /\ Listed(r) /\ Current(ppid[r]) \in genuine => Current(r) \in genuine
    BY <2>2 DEF LinksAreTrue
  <2>4. state'[ppid[r]] = state[ppid[r]] /\ (Listed(r)' => Listed(r))
    BY <2>1, <2>2, <2>3 DEF TableTypeOK, Listed
  <2> QED
    BY <2>1, <2>2, <2>3, <2>4 DEF Current
<1>3. CASE Collect(p)
  <2>1. /\ UNCHANGED <<ppid, token, genuine>> /\ state[p] = "zombie"
        /\ state' = [state EXCEPT ![p] = "free"]
    BY <1>3 DEF Collect
  <2>2. /\ ppid[r] \in Pid /\ state[ppid[r]] \in {"live", "doomed"}
        /\ Listed(r) /\ Current(ppid[r]) \in genuine => Current(r) \in genuine
    BY <2>1 DEF LinksAreTrue
  <2>3. state'[ppid[r]] = state[ppid[r]] /\ (Listed(r)' => Listed(r))
    BY <2>1, <2>2 DEF TableTypeOK, Listed
  <2> QED
    BY <2>1, <2>2, <2>3 DEF Current
<1> QED
  BY <1>1, <1>2, <1>3 DEF TableMove
=============================================================================
